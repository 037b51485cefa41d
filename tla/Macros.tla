------------------------------- MODULE Macros -------------------------------
(***************************************************************************)
(* Macro calls, loops and push-back stacks (comp/macro.c, comp/input.c,    *)
(* comp/dict.c).                                                           *)
(*                                                                         *)
(* A thread reads its tokens from a stack of sources.  A macro call pushes *)
(* the token list of the macro itself, no copy of it; a loop pushes its    *)
(* body above a token that, when it is read, pushes the body again; if and *)
(* blocks push a list that is nobody else's.  A list that is freed while a *)
(* stack still refers to it is marked there and freed when it is popped.   *)
(*                                                                         *)
(* A token list is its length, a token of it any command; the commands     *)
(* decide what is called, collected and assigned.  Threads share the       *)
(* dictionary and the calls.  A thread gives the others their turn after   *)
(* any token; module Threads has the scheduling.                           *)
(***************************************************************************)
EXTENDS Integers, Sequences, FiniteSets, SequencesExt, FiniteSetsExt

CONSTANTS List,    \* memory for token lists
          NULL,    \* the empty list
          Root, Block, Named, \* the threads: the first, a block, a named one
          Call,    \* MacroCall structures
          Macro,   \* names
          Length,  \* bound: length of a token list
          Depth,   \* bound: elements of a stack
          Busy,    \* bound: threads that have tokens
          Loops,   \* the kinds of loops that programs have
          Retyped  \* may a program change the type of the variable of a for?

ASSUME BoundAssumption == Busy \in Nat /\ Length \in Nat \ {0} /\ Depth \in Nat \ {0} /\ Retyped \in BOOLEAN
ASSUME ThreadAssumption == Block \cap Named = {} /\ Root \notin Block \cup Named
ASSUME MacroAssumption == IsFiniteSet(Macro)

VARIABLES
  heap,     \* the lengths of the token lists, 0 for memory that is free
  dict,     \* the dictionary: [kind, list, active] by scope and name
  refs,     \* MacroCall.ref
  thd,      \* the threads: [state, stack, calls, loops, parent, waited]
  atl,      \* active_tklist: elements, as <<thread, height>>
  cur,      \* cur_thd
  breaking, \* the loops that the break being done has yet to end
  failed    \* the error that ended the program

vars == <<heap, dict, refs, thd, atl, cur, breaking, failed>>

Thread == {Root} \cup Block \cup Named
Scope == Thread \cup Call
Wild == "wild"        \* a pointer to a token list that an integer was added to
Undefined == [kind |-> "undefined", list |-> NULL, active |-> 0]
Integer == [kind |-> "int", list |-> NULL]
State == [heap |-> heap, dict |-> dict, refs |-> refs, thd |-> thd, atl |-> atl]
Becomes(s) ==
  heap' = s.heap /\ dict' = s.dict /\ refs' = s.refs /\ thd' = s.thd /\ atl' = s.atl

-----------------------------------------------------------------------------
(* Token lists.                                                            *)
Size(s, a) == IF a \in List THEN s.heap[a] ELSE 0

(* scan_tklist: the state and the list when tokens have been collected.    *)
scan_tklist(s) ==
  {[s |-> s, list |-> NULL]} \cup
  {[s |-> [s EXCEPT !.heap[a] = n], list |-> a] : a \in {b \in List : s.heap[b] = 0},
                                                  n \in 1..Length}

(* check_active_tklist: the first active element of the list, or nothing.  *)
Element(s, p) == s.thd[p[1]].stack[p[2]]
check_active_tklist_never(s, a) == {}
check_active_tklist(s, a) == {k \in DOMAIN s.atl : Element(s, s.atl[k]).list = a}

free_tklist(s, a) ==
  LET held == check_active_tklist(s, a)
  IN IF held # {} THEN LET p == s.atl[Min(held)]
                       IN [s EXCEPT !.thd[p[1]].stack[p[2]].free = TRUE]
     ELSE IF a \in List THEN [s EXCEPT !.heap[a] = 0] ELSE s

free_object(s, o) ==
  IF o.kind \in {"int", "undefined"} THEN s ELSE free_tklist(s, o.list)

-----------------------------------------------------------------------------
(* Stacks.                                                                 *)
Push(s, t, e) == [s EXCEPT !.thd[t].stack = Append(@, e)]
Pop(s, t) == [s EXCEPT !.thd[t].stack = Front(@)]
Room(s, t) == Len(s.thd[t].stack) < Depth

Tokens(s, a, call, free) ==
  [type |-> "tokens", list |-> a, rest |-> Size(s, a), call |-> call, free |-> free]

(* pushbk_tklist; call is the macro call that ends with the list.          *)
pushbk_tklist(s, t, a, call, free) ==
  LET e == Tokens(s, a, call, free)
  IN IF free THEN Push(s, t, e)
     ELSE [Push(s, t, e) EXCEPT !.atl = <<<<t, Len(s.thd[t].stack) + 1>>>> \o @]

(* pushbk_object.                                                          *)
pushbk_object(s, t, o) ==
  CASE o.kind = "weak" -> pushbk_tklist(s, t, o.list, NULL, FALSE)
    [] o.kind = "strong" -> Push(s, t, [type |-> "strong", list |-> o.list])
    [] OTHER -> s

(* push_tklist_at_bottom: the element of T_EOF becomes the one of T_BOT.   *)
push_tklist_at_bottom(s, t, a, calls) ==
  [s EXCEPT !.thd[t].stack = <<[type |-> "eof"], [type |-> "eot"], Tokens(s, a, NULL, TRUE),
                               [type |-> "bot", calls |-> calls]>> \o Tail(@),
            !.atl = [k \in DOMAIN @ |-> IF @[k][1] = t THEN <<t, @[k][2] + 3>> ELSE @[k]]]

-----------------------------------------------------------------------------
(* The dictionary.                                                         *)
Defined(s, k) == s.dict[k].kind # "undefined"
InCall(s, t) == s.thd[t].calls # <<>>
Within(s, t, m) ==
  IF InCall(s, t) THEN {k \in {<<Head(s.thd[t].calls), m>>} : Defined(s, k)} ELSE {}

(* search_dict: the local macro of the current call, then the macros of    *)
(* the thread and, with SD_ANY, of the threads above it.                   *)
Above(s, t) ==
  IF s.thd[t].parent \in {Root, NULL} THEN <<t, Root>> ELSE <<t, s.thd[t].parent, Root>>
search_dict(s, mode, t, m) ==
  LET up == Above(s, t)
      found == {j \in DOMAIN up : (mode = "any" \/ j = 1) /\ Defined(s, <<up[j], m>>)}
  IN IF Within(s, t, m) # {} \/ mode = "local" THEN Within(s, t, m)
     ELSE {<<up[j], m>> : j \in {i \in found : i = Min(found)}}

(* get_id: where the name is, or where it is defined now.                  *)
get_id(s, mode, t, m) ==
  LET m1 == IF mode = "local" /\ ~InCall(s, t) THEN "mine" ELSE mode
      found == search_dict(s, m1, t, m)
  IN IF found # {} THEN CHOOSE k \in found : TRUE
     ELSE IF m1 = "local" THEN <<Head(s.thd[t].calls), m>> ELSE <<t, m>>

Entry(o, active) == [kind |-> o.kind, list |-> o.list, active |-> active]
redefine_macro(s, k, o) ==
  [free_object(s, s.dict[k]) EXCEPT !.dict[k] = Entry(o, @.active)]
delete_dict(s, k) == [free_object(s, s.dict[k]) EXCEPT !.dict[k] = Undefined]

(* delete_mc.  A local macro that is active then is an error.              *)
Locals(s, c) == {k \in {c} \X Macro : Defined(s, k)}
delete_mc(s, c) ==
  IF s.refs[c] > 1 THEN [s EXCEPT !.refs[c] = @ - 1]
  ELSE LET freed == FoldSet(LAMBDA k, z : delete_dict(z, k), s, Locals(s, c))
       IN [freed EXCEPT !.refs[c] = 0]

end_of_macro(s, t) ==
  LET c == Head(s.thd[t].calls) IN delete_mc([s EXCEPT !.thd[t].calls = Tail(@)], c)

lock_calls_first(s, calls) ==
  [s EXCEPT !.refs = [c \in Call |-> IF calls # <<>> /\ c = Head(calls) THEN @[c] + 1 ELSE @[c]]]
lock_calls(s, calls) ==
  [s EXCEPT !.refs = [c \in Call |-> IF c \in ToSet(calls) THEN @[c] + 1 ELSE @[c]]]
unlock_calls(s, calls) == FoldLeft(delete_mc, s, calls)

-----------------------------------------------------------------------------
(* Reading.  A token is read from the program or from a token list; what   *)
(* a command then does begins with the state Read.                         *)
Top == Last(thd[cur].stack)
Running == failed = "no" /\ cur # NULL
Reads == Running /\ breaking = 0 /\ Top.type \in {"source", "tokens"}
         /\ (Top.type = "tokens" => Top.rest > 0)
Advanced == IF Top.type = "source" THEN State
            ELSE [State EXCEPT !.thd[cur].stack[Len(thd[cur].stack)].rest = @ - 1]
Ready(s) == {t \in Thread : s.thd[t].state = "ready"}
Turn(s) == IF Ready(s) = {} THEN {NULL} ELSE Ready(s)
Goes(s) == Becomes(s) /\ UNCHANGED <<cur, breaking, failed>>
Fails(error) == failed' = error /\ UNCHANGED <<heap, dict, refs, thd, atl, cur, breaking>>
Extra(calls) ==   \* delete_mc finds an active local macro
  \E c \in calls : refs[c] = 1 /\ \E k \in Locals(State, c) : dict[k].active > 0

(* A note or a rest: other threads may have their turn.                    *)
note ==
  /\ Reads
  /\ Becomes(Advanced) /\ cur' \in Turn(Advanced)
  /\ UNCHANGED <<breaking, failed>>

(* The list is at its end (get_token).                                     *)
Exhausted_freed(s, t) ==     \* before it leaves active_tklist
  LET e == Last(s.thd[t].stack)
      k == <<t, Len(s.thd[t].stack)>>
      ended == IF e.call # NULL THEN end_of_macro(s, t) ELSE s
      freed == IF e.free THEN free_tklist(ended, e.list) ELSE ended
  IN Pop([freed EXCEPT !.atl = SelectSeq(@, LAMBDA p : p # k)], t)
Exhausted(s, t) ==
  LET e == Last(s.thd[t].stack)
      k == <<t, Len(s.thd[t].stack)>>
      ended == IF e.call # NULL THEN end_of_macro(s, t) ELSE s
      left == [ended EXCEPT !.atl = SelectSeq(@, LAMBDA p : p # k)]
      now == Last(left.thd[t].stack)
  IN Pop(IF now.free THEN free_tklist(left, now.list) ELSE left, t)

get_token ==
  /\ Running /\ breaking = 0 /\ Top.type = "tokens" /\ Top.rest = 0
  /\ IF Top.call # NULL /\ Extra({Head(thd[cur].calls)}) THEN Fails("local")
     ELSE Goes(Exhausted(State, cur))

strong_token_list ==
  /\ Running /\ breaking = 0 /\ Top.type = "strong"
  /\ Goes(pushbk_tklist(Pop(State, cur), cur, Top.list, NULL, FALSE))

end_of_source == Running /\ breaking = 0 /\ Top.type = "source" /\ Goes(Pop(State, cur))

-----------------------------------------------------------------------------
(* Names.                                                                  *)
Elems(t) == ToSet(thd[t].stack)
CanSet(k) ==
  Retyped \/ \A t \in Thread : \A e \in Elems(t) :
               e.type = "loop" => ~(e.kind = "for" /\ e.var = k)

(* def: a function macro.                                                  *)
do_def ==
  /\ Reads
  /\ \E m \in Macro, c \in scan_tklist(Advanced) :
       LET k == get_id(State, "mine", cur, m)
       IN /\ CanSet(k)
          /\ Goes(redefine_macro(c.s, k, [kind |-> "function", list |-> c.list]))

(* identifier: a simple assignment, with local:: or without.  A macro of   *)
(* another thread is not changed: the thread gets one of its own.          *)
Objects(s) == {[s |-> s, o |-> Integer]} \cup
              {[s |-> c.s, o |-> [kind |-> "strong", list |-> c.list]] : c \in scan_tklist(s)}
Target(k, mode, m) == IF mode = "any" /\ k[1] \in Thread THEN <<cur, m>> ELSE k
assign ==
  /\ Reads
  /\ \E m \in Macro, mode \in {"any", "local"}, c \in Objects(Advanced) :
       LET k == Target(get_id(State, mode, cur, m), mode, m)
       IN /\ CanSet(k) \/ c.o = Integer
          /\ Goes(redefine_macro(c.s, k, c.o))

(* undef.  Without an entry there is nothing to do.                        *)
do_undef ==
  /\ Reads
  /\ \E m \in Macro : \E k \in search_dict(State, "any", cur, m) :
       IF dict[k].active > 0
       THEN Fails("active")
       ELSE Goes(delete_dict(Advanced, k))

(* identifier: a call.                                                     *)
Called(s, k, c) ==
  LET calls == <<c>> \o s.thd[cur].calls
  IN pushbk_tklist([s EXCEPT !.refs[c] = 1, !.thd[cur].calls = calls],
                   cur, s.dict[k].list, c, FALSE)
call ==
  /\ Reads /\ Room(State, cur)
  /\ \E m \in Macro : \E k \in search_dict(State, "any", cur, m) :
       IF dict[k].kind = "function"
       THEN \E c \in {d \in Call : refs[d] = 0} : Goes(Called(Advanced, k, c))
       ELSE Goes(pushbk_object(Advanced, cur, dict[k]))

(* if, switch, eval: a list that only the stack has.                       *)
do_if ==
  /\ Reads /\ Room(State, cur)
  /\ \E c \in scan_tklist(Advanced) : Goes(pushbk_tklist(c.s, cur, c.list, NULL, TRUE))

-----------------------------------------------------------------------------
(* Loops.  var is the variable of for and foreach, cond the list of while. *)
Loop(kind, body, cond, var) ==
  [type |-> "loop", kind |-> kind, body |-> body, cond |-> cond, var |-> var]
Begun(s, e) ==
  pushbk_tklist([Push(s, cur, e) EXCEPT !.thd[cur].loops = @ + 1], cur, e.body, NULL, FALSE)
Begins(kind) == Reads /\ kind \in Loops /\ Len(thd[cur].stack) + 1 < Depth

(* while; and repeat, which has no cond.                                   *)
do_while ==
  /\ Begins("while")
  /\ \E c \in scan_tklist(Advanced) : \E d \in scan_tklist(c.s) :
       Goes(Begun(d.s, Loop("while", d.list, c.list, NULL)))

(* The elements of the array of a foreach are integers or token lists.     *)
Elements(s, kind, k) ==
  {[s |-> s, o |-> Integer]} \cup
  {[s |-> c.s, o |-> [kind |-> "weak", list |-> c.list]] :
     c \in {d \in scan_tklist(s) : kind = "foreach" /\ CanSet(k)}}
for_or_foreach(kind) ==
  /\ Begins(kind)
  /\ \E m \in Macro :
       LET k == get_id(State, "local", cur, m)
       IN \E o \in Elements(Advanced, kind, k) :
            LET set == [redefine_macro(o.s, k, o.o) EXCEPT !.dict[k].active = @ + 1]
            IN \E c \in scan_tklist(set) : Goes(Begun(c.s, Loop(kind, c.list, NULL, k)))
do_for == for_or_foreach("for")
do_foreach == for_or_foreach("foreach")

(* The end of a loop; the token of the loop has been read.                 *)
Ended(s, e) ==
  LET cond == IF e.cond = NULL THEN s ELSE free_tklist(s, e.cond)
      freed == [free_tklist(cond, e.body) EXCEPT !.thd[cur].loops = @ - 1]
  IN IF e.var = NULL THEN freed ELSE [freed EXCEPT !.dict[e.var].active = @ - 1]

(* end_for adds the step to dic_obj.o_val, which shares its memory with    *)
(* the pointer to a token list.                                            *)
Stepped(s, k) == IF s.dict[k].kind = "int" THEN s ELSE [s EXCEPT !.dict[k].list = Wild]

EndOfLoop(s) ==
  \/ Goes(Ended(Pop(s, cur), Top))
  \/ Goes(pushbk_tklist(s, cur, Top.body, NULL, FALSE))
LoopToken(kinds) == Running /\ breaking = 0 /\ Top.type = "loop" /\ Top.kind \in kinds

end_while == LoopToken({"while"}) /\ EndOfLoop(State)
end_for == LoopToken({"for"}) /\ EndOfLoop(Stepped(State, Top.var))
end_foreach ==
  /\ LoopToken({"foreach"})
  /\ \/ Goes(Ended(Pop(State, cur), Top))
     \/ \E o \in Elements(free_object(State, dict[Top.var]), "foreach", Top.var) :
          Goes(pushbk_tklist([o.s EXCEPT !.dict[Top.var] = Entry(o.o, @.active)],
                             cur, Top.body, NULL, FALSE))

(* break: tokens are read until the loops it ends have been read.  A block *)
(* that its thread waits for ends on the way.                              *)
do_break ==
  /\ Reads
  /\ \E level \in 1..thd[cur].loops : breaking' = level
  /\ Becomes(Advanced) /\ UNCHANGED <<cur, failed>>

Skipped_uncounted ==   \* of loops that are left only the token goes
  IF Top.type = "tokens" THEN Exhausted(State, cur) ELSE Pop(State, cur)
Skipped ==
  CASE Top.type = "tokens" -> Exhausted(State, cur)
    [] Top.type = "loop" -> Ended(Pop(State, cur), Top)
    [] OTHER -> Pop(State, cur)
skip ==
  /\ Running /\ breaking > 0 /\ Top.type \notin {"eof", "eot"}
  /\ IF Top.type = "tokens" /\ Top.call # NULL /\ Extra({Head(thd[cur].calls)})
     THEN Fails("local")
     ELSE /\ Becomes(Skipped)
          /\ breaking' = IF Top.type = "loop" THEN breaking - 1 ELSE breaking
          /\ UNCHANGED <<cur, failed>>

-----------------------------------------------------------------------------
(* Threads.                                                                *)
NewThread(state, parent) ==
  [state |-> state, stack |-> <<[type |-> "eof"]>>, calls |-> <<>>, loops |-> 0,
   parent |-> parent, waited |-> FALSE]
NoThread == [NewThread("none", NULL) EXCEPT !.stack = <<>>]

(* do_lbrace, do_lbracket: a block, which the thread waits for unless      *)
(* there is a '&'.  Its calls are those of the thread; so are its loops if *)
(* the thread waits, for break to end them.                                *)
Others == Cardinality({t \in Thread : thd[t].state \in {"ready", "waits"}}) < Busy
do_lbrace ==
  /\ Reads /\ cur \notin Block /\ Others
  /\ \E t \in Block, wait \in BOOLEAN, c \in scan_tklist(Advanced) :
       LET s == lock_calls(c.s, thd[cur].calls)
           new == [NewThread("ready", cur) EXCEPT
                     !.calls = thd[cur].calls, !.waited = wait,
                     !.loops = IF wait THEN thd[cur].loops ELSE 0]
           made == [s EXCEPT !.thd[t] = new,
                             !.thd[cur].state = IF wait THEN "waits" ELSE "ready"]
       IN /\ thd[t].state = "none"
          /\ Becomes(pushbk_tklist(made, t, c.list, NULL, TRUE)) /\ cur' = t
  /\ UNCHANGED <<breaking, failed>>

(* do_thread: tokens for a named thread.                                   *)
do_thread ==
  /\ Reads
  /\ \E t \in Named, c \in scan_tklist(Advanced) :
       LET s == lock_calls(c.s, thd[cur].calls)
           idle == Last(thd[t].stack).type = "eof"
           awake == [s EXCEPT !.thd[t].state = IF idle THEN "ready" ELSE @]
       IN /\ Len(thd[t].stack) + 3 <= Depth /\ (idle => Others)
          /\ Becomes(push_tklist_at_bottom(awake, t, c.list, thd[cur].calls))
          /\ cur' = IF idle THEN t ELSE cur
  /\ UNCHANGED <<breaking, failed>>

begin_of_named_thread ==
  /\ Running /\ Top.type = "bot"
  /\ Goes([Pop(State, cur) EXCEPT !.thd[cur].calls = Top.calls])

Unlock(s, t) == [unlock_calls(s, s.thd[t].calls) EXCEPT !.thd[t].calls = <<>>]
end_of_named_thread ==
  /\ Running /\ Top.type = "eot"
  /\ IF Extra(ToSet(thd[cur].calls)) THEN Fails("local")
     ELSE Goes(Unlock(Pop(State, cur), cur))

(* do_eof: a block is deleted with its macros, and the thread that waits   *)
(* for it goes on; other threads sleep.                                    *)
Deleted(s, t) ==
  LET freed == FoldSet(LAMBDA k, z : delete_dict(z, k), s,
                       {k \in {t} \X Macro : Defined(s, k)})
      gone == [Unlock(freed, t) EXCEPT !.thd[t] = NoThread]
  IN IF s.thd[t].waited THEN [gone EXCEPT !.thd[s.thd[t].parent].state = "ready"] ELSE gone
do_eof ==
  /\ Running /\ Top.type = "eof"
  /\ IF cur \in Block /\ Extra(ToSet(thd[cur].calls)) THEN Fails("local")
     ELSE LET s == IF cur \in Block THEN Deleted(State, cur)
                   ELSE [State EXCEPT !.thd[cur].state = "sleeps"]
          IN /\ Becomes(s) /\ UNCHANGED <<breaking, failed>>
             /\ IF thd[cur].waited THEN cur' = thd[cur].parent ELSE cur' \in Turn(s)

-----------------------------------------------------------------------------
Init ==
  /\ heap = [a \in List |-> 0]
  /\ dict = [k \in Scope \X Macro |-> Undefined]
  /\ refs = [c \in Call |-> 0]
  /\ thd = [t \in Thread |->
       CASE t = Root -> [NewThread("ready", NULL) EXCEPT !.stack = @ \o <<[type |-> "source"]>>]
         [] t \in Named -> NewThread("sleeps", Root)
         [] OTHER -> NoThread]
  /\ atl = <<>> /\ cur = Root /\ breaking = 0 /\ failed = "no"

terminated == ~Running /\ UNCHANGED vars

Next ==
  \/ note \/ get_token \/ strong_token_list \/ end_of_source
  \/ do_def \/ assign \/ do_undef \/ call \/ do_if
  \/ do_while \/ do_for \/ do_foreach
  \/ end_while \/ end_for \/ end_foreach \/ do_break \/ skip
  \/ do_lbrace \/ do_thread \/ begin_of_named_thread \/ end_of_named_thread \/ do_eof
  \/ terminated

Spec == Init /\ [][Next]_vars
=============================================================================
