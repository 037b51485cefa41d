--------------------------- MODULE ExprProperties ---------------------------
(* What an expression means, by splitting it at its operators from the     *)
(* weakest to the strongest, and what the evaluator must do with it.       *)
EXTENDS Expr

Opening == {"(", "{"} \cup DOMAIN Array
Closing == {")", "}", "]"}
Closes(b) == CASE b = "(" -> ")" [] b = "{" -> "}" [] OTHER -> "]"

(* Places of s that are in no bracket of s[i..j].                          *)
Depth(s, i, k) ==
  Cardinality({m \in i..k : s[m] \in Opening}) - Cardinality({m \in i..(k-1) : s[m] \in Closing})
Outer(s, i, j) == {k \in i..j : Depth(s, i, k) = 0}
Infix(s, i, k) ==
  /\ s[k] \in Binaries
  /\ k > i /\ (s[k-1] \in DOMAIN Object \/ s[k-1] \in Closing)

(* [obj, skips]: the object and the skipped braces of an expression.       *)
Meaning(x, braces) == [obj |-> x, skips |-> braces]
Invalid == Meaning([type |-> "invalid", val |-> <<>>], {})
IsValid(m) == m.obj.type # "invalid"
Known(m) == m.obj.type \notin {"invalid", "error"}
Joined(ms, x) ==
  IF \E i \in DOMAIN ms : ~IsValid(ms[i]) THEN Invalid
  ELSE Meaning(IF \E i \in DOMAIN ms : ms[i].obj = Error THEN Error ELSE x,
               UNION {ms[i].skips : i \in DOMAIN ms})

(* s[i..j] behind the operator o; skip says that braces right behind o are *)
(* not evaluated.  An operator within the braces that is weaker than o     *)
(* would take what is before o, too: braces do not group.                  *)
RECURSIVE Means(_, _, _, _, _)
Means(s, i, j, o, skip) ==
  LET outer == Outer(s, i, j)
      conds == {k \in outer : s[k] = "?"}
      infix == {k \in outer : Infix(s, i, k)}
      bracket == i < j /\ s[i] \in Opening /\ s[j] = Closes(s[i]) /\ Depth(s, i, j) = 1
                 /\ \A k \in (i+1)..(j-1) : Depth(s, i, k) > 0
                                            /\ ~(s[k] \in Closing /\ Depth(s, i, k) = 1)
  IN
  IF conds # {} THEN
    LET k == Min(conds)
        colons == {m \in outer : m > k /\ s[m] = ":" /\
                     Cardinality({n \in outer : n \in k..m /\ s[n] = "?"})
                     = Cardinality({n \in outer : n \in k..m /\ s[n] = ":"})}
    IN IF colons = {} THEN Invalid
       ELSE LET m == Min(colons)
                c == Means(s, i, k - 1, "none", FALSE)
                true == Known(c) /\ istrue_object(c.obj)
                dead == skip /\ o \in {"?", ":"}
                x == Means(s, k + 1, m - 1, "?", dead \/ ~true)
                y == Means(s, m + 1, j, ":", dead \/ true)
            IN Joined(<<c, x, y>>, IF true THEN x.obj ELSE y.obj)
  ELSE IF infix # {} THEN
    LET k == CHOOSE m \in infix : \A n \in infix :
               prec[s[m]] < prec[s[n]] \/ (prec[s[m]] = prec[s[n]] /\ m >= n)
        x == Means(s, i, k - 1, "none", FALSE)
        true == Known(x) /\ istrue_object(x.obj)
        y == Means(s, k + 1, j, s[k], (IF s[k] = "&&" THEN ~true ELSE s[k] = "||" /\ true))
    IN Joined(<<x, y>>, IF Known(x) /\ Known(y) THEN Binary(s[k], x.obj, y.obj) ELSE Error)
  ELSE IF i < j /\ s[i] \in {"-", "!", "~"} THEN
    LET x == Means(s, i + 1, j, "none", FALSE)
    IN Joined(<<x>>, IF Known(x) THEN Unary(IF s[i] = "-" THEN "neg" ELSE s[i], x.obj)
                     ELSE Error)
  ELSE IF i = j /\ s[i] \in DOMAIN Object THEN Meaning(Object[s[i]], {})
  ELSE IF bracket /\ s[i] = "(" THEN Means(s, i + 1, j - 1, "none", FALSE)
  ELSE IF bracket /\ s[i] = "{" /\ o \in TakesBraces THEN
    LET inner == {k \in Outer(s, i + 1, j - 1) : Infix(s, i + 1, k)}
        x == Means(s, i + 1, j - 1, o, FALSE)
    IN IF skip THEN Meaning(Int_(0), {i})
       ELSE IF \A k \in inner : prec[s[k]] > prec[o] THEN x ELSE Invalid
  ELSE IF bracket /\ s[i] \in DOMAIN Array THEN
    LET x == Means(s, i + 1, j - 1, "none", FALSE)
    IN Joined(<<x>>, IF Known(x) THEN Element(s[i], x.obj) ELSE Error)
  ELSE Invalid

(* A conditional in the middle of another whose last operand is again a    *)
(* conditional, a ? b ? c : d ? e : f : g, is where the evaluator fails:   *)
(* the third ? stands behind the : of the second, before that of the first.*)
Chained(s) ==
  LET level(k) == Cardinality({m \in 1..k : s[m] \in Opening \ {"{"}})
                  - Cardinality({m \in 1..k : s[m] \in Closing \ {"}"}})
  IN \E k1, k2, k3 \in DOMAIN s : \E m1, m2 \in DOMAIN s :
       /\ k1 < k2 /\ k2 < m1 /\ m1 < k3 /\ k3 < m2
       /\ s[k1] = "?" /\ s[k2] = "?" /\ s[k3] = "?" /\ s[m1] = ":" /\ s[m2] = ":"
       /\ \A k \in {k2, k3, m1, m2} : level(k) = level(k1)
       /\ \A k \in k1..m2 : level(k) >= level(k1)
       /\ Cardinality({k \in k1..(k3 - 1) : s[k] = "?" /\ level(k) = level(k1)})
            > Cardinality({k \in k1..(k3 - 1) : s[k] = ":" /\ level(k) = level(k1)})

HasBraces(s) == \E i \in DOMAIN s : s[i] = "{"
Meant(s) ==
  LET m == Means(s, 1, Len(s), "none", FALSE)
  IN IF Known(m) /\ program.op # "none"
     THEN [m EXCEPT !.obj = Binary(CompoundOp[program.op], program.lopd, m.obj)]
     ELSE m

-----------------------------------------------------------------------------
(* The evaluator gives each expression its meaning: operators are applied  *)
(* by precedence, those of one precedence from the left, conditionals from *)
(* the right, and of the braces behind && || ? : those are skipped whose   *)
(* value is not asked for, also in a conditional that is itself not chosen. *)
(* Without braces nothing else is accepted.                                *)
Evaluates ==
  status = "value" =>
    LET m == Meant(input)
    IN /\ IsValid(m) \/ HasBraces(input)
       /\ IsValid(m) => opd = <<m.obj>> /\ skips = m.skips

(* An expression with a meaning is not refused, wherever in it the error   *)
(* is reported: no continuation of what was read has a meaning.            *)
Continued(s) ==
  IF s # <<>> /\ Last(s) = "eof" THEN {Front(s)}
  ELSE {s \o r : r \in UNION {[1..n -> program.tokens] :
                              n \in 0..(IF Len(s) + 2 <= program.len THEN 2 ELSE 0)}}
Accepts ==
  status \in {"error", "none"} =>
    \A s \in Continued(input) : Known(Meant(s)) => Chained(s)

-----------------------------------------------------------------------------
(* What the manual says and the code does not do: conditionals are         *)
(* evaluated from the right, however they are nested.                      *)
RightToLeft ==
  status \in {"error", "none"} => \A s \in Continued(input) : ~Known(Meant(s))
=============================================================================
