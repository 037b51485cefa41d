--------------------------- MODULE ThreadLifeImpl ---------------------------
(* The threads of comp/parse.c implement ThreadLife.                       *)
EXTENDS ThreadProperties

state == [h \in Thread |-> IF h \in live /\ States(h) # {}
                           THEN CHOOSE s \in States(h) : TRUE ELSE "none"]
awaits == [h \in Thread |-> IF Suspended(h)
                            THEN CHOOSE k \in Thread : Suspending(k) /\ parent[k] = h
                           ELSE NoThread]

Abstract == INSTANCE ThreadLife WITH
              Thread <- Thread, Root <- Root, NoThread <- NoThread,
              state <- state, parent <- parent, awaits <- awaits

(* Every step of the compiler is a step of ThreadLife or changes none of   *)
(* the states: threads sleep, wake, end and are freed only as promised.    *)
LifeCycle == Abstract!Life
=============================================================================
