-------------------------------- MODULE Expr --------------------------------
(* The evaluator of expressions (comp/expr.c): _get_expression reads the   *)
(* tokens of an expression one by one and keeps operands and operators on  *)
(* two stacks; an array subscript calls it again on the same stacks.  A    *)
(* token is given when it is read.  The value of a number is a fraction,   *)
(* of ticks if it is an int or a float, of whole notes if it is rational.  *)
EXTENDS Integers, SequencesExt, FiniteSetsExt, Bitwise

CONSTANTS
  Programs, \* how expressions are written: at most len of tokens, for the compound
            \* assignment op to lopd, or none
  Object,   \* the object of each token that is an operand
  Array,    \* the elements of each array that is subscripted
  Width,    \* bits of an int
  Whole     \* ticks of a whole note

VARIABLES
  program,  \* how this expression is written
  input,    \* tokens read
  opd,      \* opd_stack above the first two barriers
  optr,     \* optr_stack: [op, skip_flag]
  prev,     \* what prev_type is: "bottom", "operator" or "operand"
  levels,   \* arrays whose subscript is read by a nested call
  open,     \* '{' whose tokens were pushed back
  skipping, \* '{' that scan_tklist is skipping
  skips,    \* places of '{' in input that were skipped
  status    \* "run", or the outcome "value", "none" or "error"

vars == <<program, input, opd, optr, prev, levels, open, skipping, skips, status>>

-----------------------------------------------------------------------------
(* Fractions.                                                              *)
Magnitude(n) == IF n < 0 THEN -n ELSE n
gcd(u, v) == CHOOSE d \in 1..(u + v) : /\ u % d = 0 /\ v % d = 0
                                       /\ \A e \in (d+1)..(u + v) : u % e # 0 \/ v % e # 0
Frac(n, d) ==
  IF n = 0 THEN <<0, 1>>
  ELSE LET g == gcd(Magnitude(n), Magnitude(d))  s == IF d < 0 THEN -1 ELSE 1
       IN <<s * (n \div g), s * (d \div g)>>
Times(x, y) == Frac(x[1] * y[1], x[2] * y[2])
Over(x, y) == Frac(x[1] * y[2], x[2] * y[1])
Plus(x, y) == Frac(x[1] * y[2] + y[1] * x[2], x[2] * y[2])
Minus(x, y) == Plus(x, <<-y[1], y[2]>>)
Less(x, y) == x[1] * y[2] < y[1] * x[2]
(* The integer that C truncates to.                                        *)
Chop(x) == IF x[1] < 0 THEN <<-((-x[1]) \div x[2]), 1>> ELSE <<x[1] \div x[2], 1>>
Remainder(x, y) == Minus(x, Times(y, Chop(Over(x, y))))

wrap(n) == ((n + 2^(Width - 1)) % 2^Width) - 2^(Width - 1)
Number(type, v) ==
  [type |-> type, val |-> IF type = "int" THEN <<wrap(v[1]), 1>> ELSE v]
Int_(n) == Number("int", <<n, 1>>)
Truth(b) == Int_(IF b THEN 1 ELSE 0)
Error == [type |-> "error", val |-> <<>>]
NIL == [type |-> "nil", val |-> <<>>]

-----------------------------------------------------------------------------
(* Operators on objects.                                                   *)
Rank == [int |-> 1, rational |-> 2, float |-> 3]
IsNumber(x) == x.type \in DOMAIN Rank
Higher(x, y) == IF Rank[x.type] >= Rank[y.type] THEN x.type ELSE y.type
istrue_object(x) == IF IsNumber(x) THEN x.val[1] # 0 ELSE x.val # <<>>

(* The value of a number in a higher type: an int among rationals counts   *)
(* ticks, unless it multiplies or divides.                                 *)
Converted(x, type, scales) ==
  CASE x.type = "rational" /\ type = "float" -> Times(x.val, <<Whole, 1>>)
    [] x.type = "int" /\ type = "rational" /\ ~scales -> Over(x.val, <<Whole, 1>>)
    [] OTHER -> x.val

Arithmetic(x, y, scales, F(_, _)) ==
  IF IsNumber(x) /\ IsNumber(y)
  THEN LET type == Higher(x, y)
       IN Number(type, F(Converted(x, type, scales), Converted(y, type, scales)))
  ELSE Error
IsZero(x) == IsNumber(x) /\ x.val[1] = 0

op_mult(x, y) == Arithmetic(x, y, TRUE, Times)
op_div(x, y) ==
  IF IsZero(y) THEN Error
  ELSE Arithmetic(x, y, TRUE, LAMBDA a, b : IF x.type = "int" /\ y.type = "int"
                                            THEN Chop(Over(a, b)) ELSE Over(a, b))
op_rem(x, y) == IF IsZero(y) THEN Error ELSE Arithmetic(x, y, TRUE, Remainder)
op_add(x, y) ==
  IF x.type = "string" /\ y.type = "string" THEN [x EXCEPT !.val = @ \o y.val]
  ELSE Arithmetic(x, y, FALSE, Plus)
op_sub(x, y) == Arithmetic(x, y, FALSE, Minus)

(* strcmp(x, y) < 0                                                        *)
Precedes(x, y) ==
  \E n \in 0..Len(x) : /\ n < Len(y) /\ SubSeq(x, 1, n) = SubSeq(y, 1, n)
                       /\ (n < Len(x) => x[n+1] < y[n+1])

op_lt(x, y) ==
  IF IsNumber(x) /\ IsNumber(y)
  THEN LET type == Higher(x, y)
       IN Truth(Less(Converted(x, type, FALSE), Converted(y, type, FALSE)))
  ELSE IF x.type = "string" /\ y.type = "string" THEN Truth(Precedes(x.val, y.val))
  ELSE Error
op_eq(x, y) ==
  IF IsNumber(x) /\ IsNumber(y)
  THEN LET type == Higher(x, y)
       IN Truth(Converted(x, type, FALSE) = Converted(y, type, FALSE))
  ELSE IF y.type = "float" THEN Error
  ELSE Truth(x = y)
op_lognot(x) == IF x = Error THEN Error ELSE Truth(~istrue_object(x))
op_lteq(x, y) == op_lognot(op_lt(y, x))
op_logand(x, y) == Truth(istrue_object(x) /\ istrue_object(y))
op_logor(x, y) == Truth(istrue_object(x) \/ istrue_object(y))

Bits(op, x, y) ==
  IF x.type # "int" \/ y.type # "int" THEN Error
  ELSE LET a == x.val[1] % 2^Width  b == y.val[1] % 2^Width
       IN Int_(CASE op = "&" -> a & b [] op = "|" -> a | b [] op = "xor" -> a ^^ b)

Unary(op, x) ==
  CASE op = "!" -> op_lognot(x)
    [] op = "neg" -> IF IsNumber(x) THEN Number(x.type, <<-x.val[1], x.val[2]>>) ELSE Error
    [] op = "~" -> IF x.type = "int" THEN Int_(-x.val[1] - 1) ELSE Error

Binary(op, x, y) ==
  CASE op = "*" -> op_mult(x, y)
    [] op = "/" -> op_div(x, y)
    [] op = "%" -> op_rem(x, y)
    [] op = "+" -> op_add(x, y)
    [] op = "-" -> op_sub(x, y)
    [] op = "<" -> op_lt(x, y)
    [] op = "<=" -> op_lteq(x, y)
    [] op = ">" -> op_lognot(op_lteq(x, y))
    [] op = ">=" -> op_lognot(op_lt(x, y))
    [] op = "==" -> op_eq(x, y)
    [] op = "!=" -> op_lognot(op_eq(x, y))
    [] op \in {"&", "|", "xor"} -> Bits(op, x, y)
    [] op = "&&" -> op_logand(x, y)
    [] op = "||" -> op_logor(x, y)

-----------------------------------------------------------------------------
(* The tables of tokens.                                                   *)
Unaries == {"!", "~", "neg"}
prec ==
  [o \in Unaries |-> 12] @@ [o \in {"*", "/", "%"} |-> 11] @@ [o \in {"+", "-"} |-> 10]
  @@ [o \in {"<", "<=", ">", ">="} |-> 8] @@ [o \in {"==", "!="} |-> 7]
  @@ ("&" :> 6) @@ ("xor" :> 5) @@ ("|" :> 4) @@ ("&&" :> 3) @@ ("||" :> 2)
  @@ ("?" :> 1) @@ (":" :> 1)
Operators == DOMAIN prec
Binaries == Operators \ (Unaries \cup {"?", ":"})
TakesBraces == {"&&", "||", "?", ":"}   \* F_L
CompoundOp == ("+=" :> "+") @@ ("-=" :> "-") @@ ("*=" :> "*") @@ ("&=" :> "&")

Operator(o) == [op |-> o, skip_flag |-> 0]

-----------------------------------------------------------------------------
(* Both stacks, while handlers work on them.                               *)
Stacks == [opd |-> opd, optr |-> optr, failed |-> FALSE]
Top(s) == Last(s.optr)
Opd(s, n) == s.opd[Len(s.opd) - n + 1]
Replaced(s, n, x) ==
  [s EXCEPT !.opd = Append(SubSeq(@, 1, Len(@) - n), x), !.failed = @ \/ x = Error]
PushOptr(s, o, skip) == [s EXCEPT !.optr = Append(@, [op |-> o, skip_flag |-> skip])]

op_cond(s) ==
  IF Top(s).op # "?" THEN [s EXCEPT !.failed = TRUE]
  ELSE Replaced([s EXCEPT !.optr = Front(@)], 3,
                IF istrue_object(Opd(s, 3)) THEN Opd(s, 2) ELSE Opd(s, 1))

(* The handler of the top operator is called once it is popped.            *)
Handled(s) ==
  LET o == Top(s).op  rest == [s EXCEPT !.optr = Front(@)]
  IN CASE o \in Unaries -> Replaced(rest, 1, Unary(o, Opd(s, 1)))
       [] o \in Binaries -> Replaced(rest, 2, Binary(o, Opd(s, 2), Opd(s, 1)))
       [] o \in DOMAIN CompoundOp ->
            Replaced(rest, 2, Binary(CompoundOp[o], Opd(s, 2), Opd(s, 1)))
       [] o = ":" -> op_cond(rest)
       [] o \in {"?", "("} -> [s EXCEPT !.failed = TRUE]

RECURSIVE Popped(_, _)
Popped(s, ops) ==
  IF s.failed \/ Top(s).op \notin ops THEN s ELSE Popped(Handled(s), ops)

Stronger(o) == {p \in Operators : prec[p] > prec[o]}
AsStrong(o) == {p \in Operators : prec[p] >= prec[o]}

(* What a binary or a ternary operator does before it is pushed, and which *)
(* '{' is skipped behind it: 2 marks the operators that are not evaluated. *)
Skips_once(s, o) ==
  CASE o = "&&" -> IF istrue_object(Opd(s, 1)) THEN 0 ELSE 1
    [] o = "||" -> IF istrue_object(Opd(s, 1)) THEN 1 ELSE 0
    [] o = "?" -> IF istrue_object(Opd(s, 1)) THEN 0 ELSE 1
    [] o = ":" -> 1 - Top(s).skip_flag
    [] OTHER -> 0
Skips(s, o) ==
  CASE o = "&&" -> IF istrue_object(Opd(s, 1)) THEN 0 ELSE 1
    [] o = "||" -> IF istrue_object(Opd(s, 1)) THEN 1 ELSE 0
    [] o = "?" -> IF Top(s).op \in {"?", ":"} /\ Top(s).skip_flag # 0 THEN 2
                  ELSE IF istrue_object(Opd(s, 1)) THEN 0 ELSE 1
    [] o = ":" -> 1 - Top(s).skip_flag
    [] OTHER -> 0
Closed_never(s) == s
Closed(s) == IF ~s.failed /\ Top(s).op = ":" THEN Handled(s) ELSE s
Prepared(s, o) ==
  CASE o \in Binaries -> Popped(s, AsStrong(o))
    [] o = "?" -> Popped(s, Stronger(o))
    [] o = ":" -> Closed(Popped(s, Stronger(o)))
Pushed(s, o) ==
  LET p == Prepared(s, o) IN IF p.failed THEN p ELSE PushOptr(p, o, Skips(p, o))

-----------------------------------------------------------------------------
Becomes(s) ==
  /\ opd' = s.opd /\ optr' = s.optr
  /\ status' = IF s.failed THEN "error" ELSE "run"
Read(t) == Len(input) < program.len /\ input' = Append(input, t)
Fails == status' = "error" /\ UNCHANGED <<opd, optr>>

Init ==
  /\ program \in Programs
  /\ input = <<>> /\ prev = "bottom" /\ levels = <<>>
  /\ opd = IF program.op = "none" THEN <<NIL>> ELSE <<NIL, program.lopd>>
  /\ optr = IF program.op = "none" THEN <<Operator("BOTTOM")>>
            ELSE <<Operator("BOTTOM"), Operator(program.op)>>
  /\ open = 0 /\ skipping = 0 /\ skips = {} /\ status = "run"

Reads == status = "run" /\ skipping = 0 /\ UNCHANGED program
Before == Reads /\ prev # "operand"   \* F_PU
After == Reads /\ prev = "operand"

-----------------------------------------------------------------------------
(* Where an operand is expected.                                           *)
operand(t) ==
  /\ Before /\ t \in DOMAIN Object /\ Read(t)
  /\ Becomes([Stacks EXCEPT !.opd = Append(@, Object[t])]) /\ prev' = "operand"
  /\ UNCHANGED <<levels, open, skipping, skips>>

parenthesis ==
  /\ Before /\ Read("(")
  /\ Becomes(PushOptr(Stacks, "(", 0)) /\ prev' = "operator"
  /\ UNCHANGED <<levels, open, skipping, skips>>

unary(t) ==
  LET o == IF t = "-" THEN "neg" ELSE t
      s == Popped(Stacks, Stronger(o))
  IN /\ Before /\ o \in Unaries /\ Read(t)
     /\ Becomes(IF s.failed THEN s ELSE PushOptr(s, o, 0)) /\ prev' = "operator"
     /\ UNCHANGED <<levels, open, skipping, skips>>

(* array_subscript: '[' follows the array, and calls _get_expression.      *)
array_subscript(t) ==
  /\ Before /\ t \in DOMAIN Array /\ Read(t)
  /\ levels' = Append(levels, t) /\ prev' = "bottom"
  /\ Becomes([PushOptr(Stacks, "BOTTOM", 0) EXCEPT !.opd = Append(@, NIL)])
  /\ UNCHANGED <<open, skipping, skips>>

(* The tokens of '{ }' are pushed back as they are, without the braces, or *)
(* skipped.                                                                *)
brace ==
  /\ Before /\ Read("{")
  /\ IF Top(Stacks).op \notin TakesBraces
     THEN Fails /\ UNCHANGED <<prev, open, skipping, skips>>
     ELSE IF Top(Stacks).skip_flag # 0
     THEN /\ skipping' = 1 /\ skips' = skips \cup {Len(input')}
          /\ UNCHANGED <<opd, optr, prev, open, status>>
     ELSE open' = open + 1 /\ UNCHANGED <<opd, optr, prev, skipping, skips, status>>
  /\ UNCHANGED levels
end_of_tokens ==
  /\ Reads /\ open > 0 /\ Read("}") /\ open' = open - 1
  /\ UNCHANGED <<opd, optr, prev, levels, skipping, skips, status>>

scan_tklist(t) ==
  /\ status = "run" /\ skipping > 0 /\ t \in program.tokens /\ Read(t)
  /\ skipping' = IF t = "{" THEN skipping + 1 ELSE IF t = "}" THEN skipping - 1 ELSE skipping
  /\ IF skipping' = 0 THEN opd' = Append(opd, Int_(0)) /\ prev' = "operand"
     ELSE UNCHANGED <<opd, prev>>
  /\ UNCHANGED <<program, optr, levels, open, skips, status>>

not_closed ==
  /\ status = "run" /\ skipping > 0 /\ status' = "error"
  /\ input' = Append(input, "eof")
  /\ UNCHANGED <<program, opd, optr, prev, levels, open, skipping, skips>>

(* Any other token: without a first operand, there is no expression.       *)
Starts == DOMAIN Object \cup DOMAIN Array \cup {"(", "{", "-"} \cup Unaries
no_operand(t) ==
  /\ Before /\ t \notin Starts /\ (t = "}" => open = 0)
  /\ status' = IF prev = "bottom" /\ levels = <<>> THEN "none" ELSE "error"
  /\ input' = Append(input, t)
  /\ UNCHANGED <<opd, optr, prev, levels, open, skipping, skips>>

-----------------------------------------------------------------------------
(* Behind an operand.                                                      *)
close ==
  LET s == Popped(Stacks, Operators \cup DOMAIN CompoundOp)
  IN /\ After /\ Read(")") /\ (s.failed \/ Top(s).op = "(")
     /\ Becomes(IF s.failed THEN s ELSE [s EXCEPT !.optr = Front(@)])
     /\ UNCHANGED <<prev, levels, open, skipping, skips>>

operator(t) ==
  /\ After /\ t \in Binaries \cup {"?", ":"} /\ Read(t)
  /\ Becomes(Pushed(Stacks, t)) /\ prev' = "operator"
  /\ UNCHANGED <<levels, open, skipping, skips>>

(* The end of the expression: its operand lies on the barrier.  It is the  *)
(* value, or the subscript of the outer expression.                        *)
Element(a, x) ==
  LET n == IF x.type = "rational" THEN Times(x.val, <<Whole, 1>>) ELSE x.val
      i == (2 * n[1] + n[2]) \div (2 * n[2])   \* conv_to_int
  IN IF IsNumber(x) /\ i \in DOMAIN Array[a] THEN Array[a][i] ELSE Error
end_of_expression(t) ==
  LET s == Popped(Stacks, Operators \cup DOMAIN CompoundOp \cup (IF t = ")" THEN {} ELSE {"("}))
      rest == [s EXCEPT !.optr = Front(@)]
  IN /\ After /\ t \notin Binaries \cup {"?", ":"} /\ (t = "}" => open = 0)
     /\ (t = ")" => ~s.failed /\ Top(s).op = "BOTTOM")
     /\ IF s.failed \/ (t = "eof" /\ open > 0) \/ (levels # <<>> /\ t # "]")
        THEN Fails /\ input' = Append(input, t) /\ UNCHANGED <<prev, levels>>
        ELSE IF levels = <<>>
        THEN /\ opd' = <<Last(s.opd)>> /\ optr' = rest.optr /\ status' = "value"
             /\ UNCHANGED <<input, prev, levels>>
        ELSE /\ Read(t) /\ prev' = "operand" /\ levels' = Front(levels)
             /\ Becomes(Replaced(rest, 2, Element(Last(levels), Last(s.opd))))
     /\ UNCHANGED <<open, skipping, skips>>

terminated == status # "run" /\ UNCHANGED vars

Next ==
  \/ \E t \in program.tokens : operand(t) \/ unary(t) \/ array_subscript(t) \/ scan_tklist(t)
                         \/ operator(t)
  \/ "(" \in program.tokens /\ parenthesis
  \/ ")" \in program.tokens /\ close
  \/ "{" \in program.tokens /\ brace
  \/ "}" \in program.tokens /\ end_of_tokens
  \/ not_closed
  \/ \E t \in program.tokens \cup {"eof"} : no_operand(t) \/ end_of_expression(t)
  \/ terminated

Spec == Init /\ [][Next]_vars
=============================================================================
