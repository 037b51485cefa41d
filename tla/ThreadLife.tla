----------------------------- MODULE ThreadLife -----------------------------
(***************************************************************************)
(* What the compiler promises about the life of a thread, whatever the     *)
(* ready list, the push-back stacks and the channels look like: which      *)
(* state a thread may go to from which, that a thread waiting for a group  *)
(* resumes exactly when that group ends, and that no thread is freed       *)
(* before its children.                                                    *)
(***************************************************************************)
CONSTANTS Thread, Root, NoThread

VARIABLES state,    \* see State
          parent,   \* the thread that created it
          awaits    \* the group a suspended thread waits for, or NoThread

lifeVars == <<state, parent, awaits>>

State == {"none", "ready", "blocked", "suspended", "idle", "exiting", "deleted"}

Children(h) == {k \in Thread : state[k] # "none" /\ parent[k] = h}

Init ==
  /\ state = [h \in Thread |-> IF h = Root THEN "ready" ELSE "none"]
  /\ parent = [h \in Thread |-> NoThread]
  /\ awaits = [h \in Thread |-> NoThread]

(* A named thread starts without tokens.                                   *)
Define(p, new) ==
  /\ state[p] # "none" /\ state[new] = "none"
  /\ state' = [state EXCEPT ![new] = "idle"]
  /\ parent' = [parent EXCEPT ![new] = p]
  /\ UNCHANGED awaits

(* A group that is executed beside its parent, and one the parent awaits.  *)
Spawn(h, new) ==
  /\ state[h] = "ready" /\ state[new] = "none"
  /\ state' = [state EXCEPT ![new] = "ready"]
  /\ parent' = [parent EXCEPT ![new] = h]
  /\ UNCHANGED awaits
Call(h, new) ==
  /\ state[h] = "ready" /\ state[new] = "none"
  /\ state' = [state EXCEPT ![new] = "ready", ![h] = "suspended"]
  /\ parent' = [parent EXCEPT ![new] = h]
  /\ awaits' = [awaits EXCEPT ![h] = new]

Start(x) ==
  /\ state[x] = "idle"
  /\ state' = [state EXCEPT ![x] = "ready"]
  /\ UNCHANGED <<parent, awaits>>

Sleep(h) ==
  /\ state[h] = "ready"
  /\ state' = [state EXCEPT ![h] = "blocked"]
  /\ UNCHANGED <<parent, awaits>>

(* One signal wakes any number of threads.                                 *)
Wake(hs) ==
  /\ \A h \in hs : state[h] = "blocked"
  /\ state' = [h \in Thread |-> IF h \in hs THEN "ready" ELSE state[h]]
  /\ UNCHANGED <<parent, awaits>>

(* A named thread becomes idle, others are deleted; the end of a group     *)
(* resumes the thread that waits for it, and nothing else does.            *)
Rest(h) ==
  /\ state[h] = "ready"
  /\ state' = [state EXCEPT ![h] = "idle"]
  /\ UNCHANGED <<parent, awaits>>
End(h) ==
  /\ state[h] = "ready"
  /\ state' = [k \in Thread |-> IF k = h THEN "deleted"
                                ELSE IF awaits[k] = h THEN "ready" ELSE state[k]]
  /\ awaits' = [k \in Thread |-> IF awaits[k] = h THEN NoThread ELSE awaits[k]]
  /\ UNCHANGED parent

(* An idle thread is deleted by undef, or when no thread is ready.         *)
Delete(h) ==
  /\ state[h] = "idle"
  /\ state' = [state EXCEPT ![h] = "deleted"]
  /\ UNCHANGED <<parent, awaits>>

Postpone(h) ==
  /\ state[h] = "deleted" /\ Children(h) # {}
  /\ state' = [state EXCEPT ![h] = "exiting"]
  /\ UNCHANGED <<parent, awaits>>

(* Freeing the last child of an exiting thread continues with that thread; *)
(* the effectors of h may wake the threads hs.                             *)
Free(h, hs) ==
  /\ state[h] = "deleted" /\ Children(h) = {}
  /\ \A k \in hs : state[k] = "blocked"
  /\ state' = [k \in Thread |->
                IF k = h THEN "none" ELSE IF k \in hs THEN "ready"
                ELSE IF state[k] = "exiting" /\ Children(k) = {h} THEN "deleted"
                ELSE state[k]]
  /\ parent' = [parent EXCEPT ![h] = NoThread]
  /\ UNCHANGED awaits

Next ==
  \/ \E h, new \in Thread : Define(h, new) \/ Spawn(h, new) \/ Call(h, new)
  \/ \E h \in Thread : Start(h) \/ Sleep(h) \/ Rest(h) \/ End(h) \/ Delete(h) \/ Postpone(h)
  \/ \E hs \in SUBSET Thread : Wake(hs) \/ \E h \in Thread : Free(h, hs)

Life == Init /\ [][Next]_lifeVars
=============================================================================
