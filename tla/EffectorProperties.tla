------------------------- MODULE EffectorProperties -------------------------
(* What the attaching and detaching of effectors must keep.                *)
EXTENDS Effectors

(* The events in the buffer or the queue of an effector.                   *)
InBuffer(e) == UNION {UNION {ToSet(q) : q \in ToSet(eff[e].buf[k])} : k \in Track}
InQueue(e) == UNION {ToSet(calls[k].queue) : k \in {m \in DOMAIN calls :
                       calls[m].op = "detach" /\ calls[m].of = e}}
Held(e) == InBuffer(e) \cup InQueue(e)
Chain(e) == thd[eff[e].thd].effs
LiveEffs == {e \in DOMAIN eff : eff[e].live}

-----------------------------------------------------------------------------
(* The valid flags of an event go with it down the chain: in whatever      *)
(* order effectors are attached, enabled and detached by the threads that  *)
(* share them, the bit of each effector that is still to come is the flag  *)
(* that it had in the thread that output the event, and no event is in the *)
(* buffer of an effector that was disabled for it.                         *)
ValidFlags ==
  calls # Error => \A e \in LiveEffs : \A i \in Held(e) :
    /\ e \in ev[i].on
    /\ \A k \in DOMAIN Chain(e) : Bit(ev[i].eebv, k) <=> Chain(e)[k] \in ev[i].on

(* While $smfout is enabled and takes every event, none gets lost between  *)
(* the buffers, and none is in two of them: what a program outputs is      *)
(* written in the end unless an action rejects it.                         *)
NoneLost ==
  /\ \A i \in DOMAIN ev : ev[i].at # "lost"
  /\ \A d, e \in LiveEffs : d # e => Held(d) \cap Held(e) = {}
  /\ \A i \in DOMAIN ev : ev[i].at \in {"buffer", "queue"} <=> \E e \in LiveEffs : i \in Held(e)
  /\ (calls = <<>> /\ ~thd[1].live) => \A i \in DOMAIN ev : ev[i].at \in {"written", "freed"}

(* Nothing refers to what was freed: an effector is detached only after    *)
(* every thread that has it in its list, and an event that is freed is the *)
(* partner of none.                                                        *)
NoDangling ==
  /\ \A h \in DOMAIN thd : thd[h].live => \A e \in ToSet(thd[h].effs) : eff[e].live
  /\ \A i \in DOMAIN ev : ev[i].partner # 0 =>
       /\ ev[i].at \in {"buffer", "queue"} /\ ev[ev[i].partner].at \in {"buffer", "queue"}
       /\ ev[ev[i].partner].partner = i

(* The sequences of a buffer are in order when they are merged, though the *)
(* action of a note changes an event elsewhere, its note-off ("time-       *)
(* ordered sequence of events", pmml.h:716).                               *)
SequencesOrdered ==
  \A e \in LiveEffs : \A k \in Track : \A q \in ToSet(eff[e].buf[k]) :
    /\ \A j \in 2..Len(q) : ~EV_LESS(ev[q[j]], ev[q[j-1]])
    /\ \A j \in DOMAIN q : ev[q[j]].track = k
=============================================================================
