-------------------------- MODULE RationalProperties --------------------------
(* What the arithmetic must keep: form, value and order.                   *)
EXTENDS Rational

(* The exact result of the last operation, as a fraction <<n, d>>.         *)
Exact ==
  LET a == last.a  b == last.b
      na == Top(a) * b.den  nb == Top(b) * a.den  d == a.den * b.den
      sign == IF nb < 0 THEN -1 ELSE 1
  IN CASE last.op = "add" -> <<na + nb, d>>
       [] last.op = "sub" -> <<na - nb, d>>
       [] last.op = "mult" -> <<Top(a) * Top(b), d>>
       [] last.op = "div" -> <<na * sign, Abs(nb)>>
       [] last.op = "mod" -> <<na - nb * sign * quot(na, Abs(nb)), d>>
Irreducible(f) == f[2] \div gcd(Abs(f[1]), f[2])
InRange(f) == r_min.intg * f[2] < f[1] /\ f[1] < r_max.intg * f[2]
Quotient == <<Top(last.a) * last.b.den * (IF Top(last.b) < 0 THEN -1 ELSE 1),
              Abs(Top(last.b)) * last.a.den>>
\* The range of shorts; rmod goes wrong when its quotient is rounded to another integer.
Representable ==
  InRange(Exact) /\ (last.op = "mod" => InRange(Quotient) /\ Irreducible(Quotient) < DenLimit)
Stale == last.op \in {"add", "sub", "mod"} /\ last.over

-----------------------------------------------------------------------------
(* The registers hold numbers in the form that every routine relies on: a  *)
(* numerator less than the denominator, which is positive and a short.     *)
InForm == \A k \in Reg : reg[k] \in Rationals /\ reg[k].num < reg[k].den

(* Comparisons agree with the order of the values, though a number has     *)
(* many forms; a tick becomes a rational and the same tick again.          *)
Ordered ==
  /\ LET a == reg[1]  b == reg[2]  diff == Top(a) * b.den - Top(b) * a.den
     IN /\ rcomp(a, b) < 0 <=> diff < 0
        /\ rcomp(a, b) = 0 <=> diff = 0
        /\ rless(a, b) <=> diff < 0
        /\ requal(a, b) <=> diff = 0
        /\ rgtzero(a) <=> Top(a) > 0
  /\ \A n \in Inputs : InRange(<<n, Whole>>) => rational_to_int(int_to_rational(n)) = n

(* A result within the range of shorts is exact when its denominator can   *)
(* be represented, whichever way the routine cancelled, and else is the    *)
(* exact one to within 1/DenLimit.  Sums stored over an operand that are   *)
(* rounded are another matter.  Comparisons find the order of the values.  *)
Accurate ==
  /\ InForm /\ Ordered
  /\ (last # None /\ Representable) =>
    LET e == Exact  y == last.y  error == Abs(Top(y) * e[2] - e[1] * y.den)
    IN /\ Irreducible(e) < DenLimit => error = 0
       /\ ~Stale => error * DenLimit <= e[2] * y.den

(* The result may be stored over an operand ("possibly the same pointer as *)
(* a or b", rational.c:50), which is all that expressions do.              *)
AccurateInPlace ==
  (last # None /\ Representable) =>
    LET e == Exact  y == last.y
    IN Abs(Top(y) * e[2] - e[1] * y.den) * DenLimit <= e[2] * y.den
=============================================================================
