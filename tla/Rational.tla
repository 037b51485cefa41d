------------------------------- MODULE Rational -------------------------------
(* Rational numbers (comp/rational.c, comp/rational.h): times, lengths and *)
(* the values of expressions.  A number is intg + num/den with all three   *)
(* in shorts; it need not be irreducible, and what does not fit is rounded *)
(* by way of a double.  The routines may store their result over an        *)
(* operand.  Doubles are taken to be exact here.                           *)
EXTENDS Integers, FiniteSetsExt

CONSTANTS
  DenLimit, \* denominators are less (32768)
  Wrap,     \* the values a short can have (65536)
  Whole,    \* ticks of a whole note (IRES * 4)
  LDEN,     \* the usual denominator
  Inputs    \* integers that programs contain

ASSUME RationalAssumption ==
  /\ DenLimit \in Nat \ {0, 1} /\ Wrap \in Nat \ {0} /\ Wrap % 2 = 0
  /\ Whole \in Nat \ {0} /\ LDEN \in 1..(DenLimit - 1) /\ LDEN % Whole = 0
  /\ Inputs \subseteq Int

VARIABLES
  reg,  \* two numbers
  last  \* the last operation and its operands: [op, a, b, n, over]

vars == <<reg, last>>

Reg == {1, 2}
short(n) == ((n + Wrap \div 2) % Wrap) - Wrap \div 2
intgs == -(Wrap \div 2)..(Wrap \div 2 - 1)
Rationals == [intg : intgs, num : 0..(DenLimit - 1), den : 1..(DenLimit - 1)]
R(intg, num, den) == [intg |-> short(intg), num |-> num, den |-> den]
Long(n) == [intg |-> n, num |-> 0, den |-> 1]   \* a long operand
r_max == R(Wrap \div 2 - 1, 0, 1)
r_min == R(-(Wrap \div 2), 0, 1)

gcd(u, v) == IF u = 0 THEN v ELSE IF v = 0 THEN u
             ELSE Max({d \in 1..u : u % d = 0 /\ v % d = 0})

(* The numerator of a number over its own denominator.                     *)
Top(a) == a.intg * a.den + a.num
Abs(n) == IF n < 0 THEN -n ELSE n

-----------------------------------------------------------------------------
(* float_to_rational: p/q, p < q, as a continued fraction that ends before *)
(* the denominator is too large.                                           *)
expand[p \in Nat, q \in Nat, num1 \in Nat, num2 \in Nat, den1 \in Nat, den2 \in Nat] ==
  IF p * DenLimit <= q THEN <<num1, den1>>
  ELSE LET a == q \div p
           den == a * den1 + den2
       IN IF den >= DenLimit THEN <<num1, den1>>
          ELSE expand[q % p, p, a * num1 + num2, num1, den, den1]

(* The value is n/d, d > 0.                                                *)
float_to_rational(n, d) ==
  LET f == expand[n % d, d, 0, 1, 1, 0]
  IN IF n >= r_max.intg * d THEN r_max
     ELSE IF n <= r_min.intg * d THEN r_min
     ELSE IF f[1] = f[2] THEN R(n \div d + 1, 0, f[2])
     ELSE R(n \div d, f[1], f[2])

-----------------------------------------------------------------------------
(* radd and rsub.  The integer part of the result is stored first, over    *)
(* that of the operands a and b whose flags oa and ob say that they are    *)
(* the result's.                                                           *)
Stored(a, over, intg) == IF over THEN [a EXCEPT !.intg = short(intg)] ELSE a
FloatSum(a, b, sign) ==
  float_to_rational(Top(a) * b.den + sign * Top(b) * a.den, a.den * b.den)

radd(a, b, oa, ob) ==
  LET w == gcd(a.den, b.den)
      same == a.den = b.den
      u == IF same THEN a.num + b.num ELSE (a.num * b.den + b.num * a.den) \div w
      v == IF same THEN a.den ELSE (a.den * b.den) \div w
      w2 == IF v >= DenLimit THEN gcd(u, v) ELSE 1
      intg == a.intg + b.intg
  IN IF v \div w2 >= DenLimit
     THEN FloatSum(Stored(a, oa, intg), Stored(b, ob, intg), 1)
     ELSE IF u >= v THEN R(intg + 1, (u - v) \div w2, v \div w2)
     ELSE R(intg, u \div w2, v \div w2)

rsub(a, b, oa, ob) ==
  LET w == gcd(a.den, b.den)
      same == a.den = b.den
      diff == IF same THEN a.num - b.num
              ELSE (a.num * b.den - b.num * a.den) \div w
      v == IF same THEN a.den ELSE (a.den * b.den) \div w
      u == IF diff < 0 THEN diff + v ELSE diff
      w2 == IF v >= DenLimit THEN gcd(u, v) ELSE 1
      intg == a.intg - b.intg - (IF diff < 0 THEN 1 ELSE 0)
  IN IF v \div w2 >= DenLimit
     THEN FloatSum(Stored(a, oa, intg), Stored(b, ob, intg), -1)
     ELSE R(intg, u \div w2, v \div w2)

-----------------------------------------------------------------------------
(* Products and quotients are made from magnitudes and a sign, cancelling  *)
(* no more than is needed.                                                 *)
Signed_chopped(neg, u, v) == R(IF neg THEN -(u \div v) ELSE u \div v, u % v, v)
Signed(neg, u, v) ==
  IF ~neg THEN R(u \div v, u % v, v)
  ELSE IF u % v = 0 THEN R(-(u \div v), 0, v)
  ELSE R(-(u \div v) - 1, v - (u % v), v)

Negative(a, b) == (a.intg < 0) # (b.intg < 0)

rmult(a, b) ==
  LET d1 == Abs(Top(a))  d2 == Abs(Top(b))
      w1 == gcd(d1, b.den)  v1 == a.den * (b.den \div w1)
      w2 == gcd(d2, a.den)  v2 == v1 \div w2
      w3 == gcd(d1 \div w1, v2)  v3 == v2 \div w3
      w4 == gcd(d2 \div w2, v3)  v4 == v3 \div w4
      neg == Negative(a, b)
  IN CASE v1 < DenLimit -> Signed(neg, (d1 \div w1) * d2, v1)
       [] v1 >= DenLimit /\ v2 < DenLimit -> Signed(neg, (d1 \div w1) * (d2 \div w2), v2)
       [] v2 >= DenLimit /\ v4 < DenLimit ->
            Signed(neg, (d1 \div (w1 * w3)) * (d2 \div (w2 * w4)), v4)
       [] OTHER -> float_to_rational(Top(a) * Top(b), a.den * b.den)

rimult(a, n) == Signed((a.intg < 0) # (n < 0), Abs(Top(a)) * Abs(n), a.den)

(* The divisor is not zero.                                                *)
Fits(d2, s1) == d2 < DenLimit /\ s1 * d2 < DenLimit
FloatQuotient(a, b) ==
  LET sign == IF Top(b) < 0 THEN -1 ELSE 1
  IN float_to_rational(Top(a) * b.den * sign, Abs(Top(b)) * a.den)

rdiv(a, b) ==
  LET w1 == gcd(Abs(Top(a)), Abs(Top(b)))
      d1 == Abs(Top(a)) \div w1  d2 == Abs(Top(b)) \div w1
      w2 == gcd(a.den, b.den)
      s1 == a.den \div w2  s2 == b.den \div w2
      w3 == gcd(d1, s1)  w4 == gcd(d2, s2)
      neg == Negative(a, b)
  IN CASE Fits(d2, a.den) -> Signed(neg, d1 * b.den, a.den * d2)
       [] ~Fits(d2, a.den) /\ Fits(d2, s1) -> Signed(neg, d1 * s2, s1 * d2)
       [] ~Fits(d2, s1) /\ Fits(d2 \div w4, s1 \div w3) ->
            Signed(neg, (d1 \div w3) * (s2 \div w4), (s1 \div w3) * (d2 \div w4))
       [] OTHER -> FloatQuotient(a, b)

ridiv(a, n) ==
  LET w1 == gcd(Abs(Top(a)), Abs(n))
      d1 == Abs(Top(a)) \div w1  b == Abs(n) \div w1
      w3 == gcd(d1, a.den)
      neg == (a.intg < 0) # (n < 0)
  IN CASE Fits(b, a.den) -> Signed(neg, d1, a.den * b)
       [] ~Fits(b, a.den) /\ Fits(b, a.den \div w3) ->
            Signed(neg, d1 \div w3, (a.den \div w3) * b)
       [] OTHER -> FloatQuotient(a, Long(n))

(* The quotient is rounded towards zero.                                   *)
rmod(a, b, oa) ==
  LET q == rdiv(a, b)
      n == R(IF q.intg < 0 /\ q.num # 0 THEN q.intg + 1 ELSE q.intg, 0, 1)
  IN rsub(a, rmult(n, b), oa, FALSE)

-----------------------------------------------------------------------------
rnorm(a) ==
  LET w == gcd(a.num % a.den, a.den)
  IN R(a.intg + a.num \div a.den, (a.num % a.den) \div w, a.den \div w)

rneg(a) == IF a.num = 0 THEN R(-a.intg, 0, a.den)
           ELSE R(-a.intg - 1, a.den - a.num, a.den)

(* C divides towards zero.                                                 *)
quot(n, d) == IF n < 0 THEN -((-n) \div d) ELSE n \div d
rset(n, d) ==
  LET num == Abs(n) % d
  IN IF n < 0 /\ num # 0 THEN R(quot(n, d) - 1, d - num, d) ELSE R(quot(n, d), num, d)

int_to_rational(n) ==
  IF n >= 0 THEN R(n \div Whole, (n % Whole) * (LDEN \div Whole), LDEN)
  ELSE R(-((-n - 1) \div Whole) - 1,
         (Whole - 1 - ((-n - 1) % Whole)) * (LDEN \div Whole), LDEN)

(* The nearest tick, halves upwards.                                       *)
rational_to_int(a) == (2 * Top(a) * Whole + a.den) \div (2 * a.den)

(* Comparisons: a number is negative, zero or positive as rcomp's result.  *)
rcomp(a, b) == IF a.intg = b.intg THEN a.num * b.den - b.num * a.den ELSE a.intg - b.intg
requal(a, b) == a.intg = b.intg /\ a.num * b.den = b.num * a.den
rless(a, b) == IF a.intg = b.intg THEN a.num * b.den < b.num * a.den ELSE a.intg < b.intg
rzerop(a) == a.intg = 0 /\ a.num = 0
rgtzero(a) == a.intg > 0 \/ (a.intg = 0 /\ a.num # 0)

-----------------------------------------------------------------------------
(* An operation stores its result in a register, an operand's or not.      *)
None == [op |-> "none"]
Store(op, a, b, k, y, over) ==
  /\ last = None
  /\ reg' = [reg EXCEPT ![k] = y]
  /\ last' = [op |-> op, a |-> a, b |-> b, y |-> y, over |-> over]
Binary(op, i, j, k, y) == Store(op, reg[i], reg[j], k, y, k \in {i, j})
Unary(op, i, n, k, y) == Store(op, reg[i], Long(n), k, y, k = i)

add == \E i, j, k \in Reg : Binary("add", i, j, k, radd(reg[i], reg[j], k = i, k = j))
sub == \E i, j, k \in Reg : Binary("sub", i, j, k, rsub(reg[i], reg[j], k = i, k = j))
mult == \E i, j, k \in Reg : Binary("mult", i, j, k, rmult(reg[i], reg[j]))
div == \E i, j, k \in Reg :
         ~rzerop(reg[j]) /\ Binary("div", i, j, k, rdiv(reg[i], reg[j]))
mod == \E i, j, k \in Reg :
         ~rzerop(reg[j]) /\ Binary("mod", i, j, k, rmod(reg[i], reg[j], k = i))
imult == \E i, k \in Reg, n \in Inputs : Unary("mult", i, n, k, rimult(reg[i], n))
idiv == \E i, k \in Reg, n \in Inputs \ {0} : Unary("div", i, n, k, ridiv(reg[i], n))
norm == \E i \in Reg : Unary("add", i, 0, i, rnorm(reg[i]))
neg == \E i \in Reg : Unary("mult", i, -1, i, rneg(reg[i]))
set == \E k \in Reg, n \in Inputs, d \in Inputs \cap 1..(DenLimit - 1) :
         Store("div", Long(n), Long(d), k, rset(n, d), FALSE)
int == \E k \in Reg, n \in Inputs :
         Store("div", Long(n), Long(Whole), k, int_to_rational(n), FALSE)
used == last # None /\ last' = None /\ UNCHANGED reg

Init == reg = [k \in Reg |-> R(0, 0, 1)] /\ last = None
Next == add \/ sub \/ mult \/ div \/ mod \/ imult \/ idiv \/ norm \/ neg \/ set \/ int \/ used
Spec == Init /\ [][Next]_vars
=============================================================================
