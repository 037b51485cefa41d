------------------------------- MODULE ExprMC -------------------------------
(* Instances of Expr for TLC.                                              *)
EXTENDS ExprProperties

int(n) == Int_(n)
Objects ==
  ("0" :> int(0)) @@ ("1" :> int(1)) @@ ("2" :> int(2)) @@ ("3" :> int(3))
  @@ ("q" :> Number("rational", <<1, 4>>)) @@ ("f" :> Number("float", <<3, 2>>))
  @@ ("a" :> [type |-> "string", val |-> <<1>>])
  @@ ("b" :> [type |-> "string", val |-> <<2, 1>>])
  @@ ("t" :> [type |-> "tokens", val |-> <<1>>])
Arrays == "v[" :> <<int(3), int(0)>>

Of(tokens, len) == [tokens |-> tokens, len |-> len, op |-> "none", lopd |-> NIL]
To(op, n, tokens, len) == [tokens |-> tokens, len |-> len, op |-> op, lopd |-> int(n)]
Written ==
  {Of({"0", "2", "&&", "||", "?", ":"}, 9), Of({"1", "?", ":"}, 13),
   Of({"0", "?", ":", "{", "}"}, 11), Of({"0", "1", "&&", "?", ":", "{", "}"}, 8),
   Of({"0", "2", "||", "<", "{", "}"}, 8),
   To("-=", 1, {"2", "3", "-", "*", "(", ")"}, 7), Of({"2", "-", "!", "v[", "]"}, 7),
   Of({"2", "f", "q", "*", "/", "%", "+", "=="}, 5), Of({"3", "2", "&", "|", "xor", "~"}, 5),
   Of({"a", "b", "t", "1", "f", "+", "<=", "==", "!="}, 5),
   To("*=", 2, {"0", "3", "||", "?", ":"}, 7)}
Conditionals == {Of({"1", "?", ":"}, 13)}
=============================================================================
