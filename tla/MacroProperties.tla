--------------------------- MODULE MacroProperties ---------------------------
(* What holds of macro calls, loops and push-back stacks (Macros).         *)
EXTENDS Macros

Positions(t) == {<<t, i>> : i \in DOMAIN thd[t].stack}
OfType(type) ==
  {p \in UNION {Positions(t) : t \in Thread} : Element(State, p).type = type}

(* Whoever must free a list, with the list: its name, the token of its     *)
(* loop, or the element of a stack that was marked.                        *)
Owners ==
  {<<k, dict[k].list>> : k \in {j \in DOMAIN dict : dict[j].kind \notin {"int", "undefined"}}}
  \cup UNION {{<<<<p, "body">>, Element(State, p).body>>, <<<<p, "cond">>, Element(State, p).cond>>} :
                p \in OfType("loop")}
  \cup {<<p, Element(State, p).list>> : p \in {q \in OfType("tokens") : Element(State, q).free}}
Used == {Element(State, p).list : p \in OfType("tokens") \cup OfType("strong")}

(* A token list is freed once and after its last use: while a stack refers *)
(* to it it is not free, memory that is not free has exactly one owner     *)
(* that will free it, and free memory none, however macros are redefined,  *)
(* undefined, called recursively and abandoned by break while they are     *)
(* being expanded (free_tklist, check_active_tklist, get_token).           *)
OneOwner ==
  LET owners == Owners
      used == Used
  IN /\ \A a \in List : Cardinality({o \in owners : o[2] = a}) = (IF heap[a] = 0 THEN 0 ELSE 1)
     /\ \A a \in List : heap[a] = 0 => a \notin used
     /\ \A o \in owners : o[2] # Wild

(* The end of a macro ends its own call: the calls whose lists are on the  *)
(* stack of a thread are the innermost of its calls, in this order, and a  *)
(* call lasts as long as a thread or a T_BOT has it.  It finds no macro of *)
(* its own in use: the variable of a loop is there as long as the loop is, *)
(* for other commands to leave it alone, and no longer (identifier,        *)
(* end_of_macro, lock_calls, end_for, end_foreach, delete_mc).             *)
Ending(t) ==
  LET ends == SelectSeq(thd[t].stack, LAMBDA e : e.type = "tokens" /\ e.call # NULL)
  IN Reverse([i \in DOMAIN ends |-> ends[i].call])
VariablesLast ==
  LET loops == OfType("loop")
      of(k) == {p \in loops : Element(State, p).var = k}
  IN \A k \in DOMAIN dict :
       dict[k].active = Cardinality(of(k)) /\ (of(k) # {} => Defined(State, k))
CallsMatch ==
  /\ \A t \in Thread : IsPrefix(Ending(t), thd[t].calls)
  /\ \A c \in Call :
       refs[c] = Cardinality({t \in Thread : c \in ToSet(thd[t].calls)})
                 + Cardinality({p \in OfType("bot") : c \in ToSet(Element(State, p).calls)})
  /\ VariablesLast /\ failed # "local"

(* break finds its loops: loop_count is the number of loops that a thread  *)
(* has yet to end, those of the thread that waits for it included, and the *)
(* loops that a break has yet to end are loops of the thread that reads,   *)
(* also when a block has ended on the way (do_break, do_lbrace, do_eof).   *)
LoopsOf(t) == {i \in DOMAIN thd[t].stack : thd[t].stack[i].type = "loop"}
LoopCount ==
  /\ \A t \in Thread :
       thd[t].loops = Cardinality(LoopsOf(t)) +
                      (IF thd[t].waited THEN thd[thd[t].parent].loops ELSE 0)
  /\ cur # NULL => breaking <= thd[cur].loops

(* An expansion reads the text that its name had when it began (Expansion):*)
(* redefining, undefining or freeing a macro that is being expanded, here  *)
(* or in another thread, does not change it.                               *)
None == -1
Garbage == -2
TextOf(a) == IF a = NULL THEN 0 ELSE IF a \in List /\ heap[a] > 0 THEN heap[a] ELSE Garbage
Shown(e) ==
  CASE e.type = "tokens" -> [type |-> "expansion", text |-> TextOf(e.list), rest |-> e.rest]
    [] e.type = "strong" -> [type |-> "expansion", text |-> TextOf(e.list),
                             rest |-> Size(State, e.list)]
    [] OTHER -> [type |-> "loop", text |-> TextOf(e.body)]
Expansions(t) ==
  LET es == SelectSeq(thd[t].stack, LAMBDA e : e.type \in {"tokens", "strong", "loop"})
  IN [i \in DOMAIN es |-> Shown(es[i])]
Abstract == INSTANCE Expansion WITH
  Name <- Scope \X Macro, Text <- 0..Length, NoText <- None, Size <- LAMBDA n : n,
  text <- [k \in DOMAIN dict |-> IF dict[k].kind \in {"int", "undefined"} THEN None
                                 ELSE TextOf(dict[k].list)],
  stack <- [t \in Thread |-> Expansions(t)]
ReadsItsText == Abstract!Spec
=============================================================================
