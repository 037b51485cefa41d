-------------------------- MODULE EventProperties --------------------------
(* What the event buffer of comp/output.c must do.                         *)
EXTENDS EventBuffer

-----------------------------------------------------------------------------
(* No event is lost or duplicated, however often the lists are relinked.   *)
Kept ==
  LET all == FoldLeft(\o, <<>>, eseq)
  IN Len(all) = Len(ev) /\ ToSet(all) = DOMAIN ev

(* The sort is stable: a sequence is in the order of time and priority,    *)
(* and events that are equal stay in the order the program output them, as *)
(* a program that outputs two controls at one time relies on; and it keeps *)
(* every event.                                                            *)
Precedes(e, f) == EV_LESS(ev[e], ev[f]) \/ (~EV_LESS(ev[f], ev[e]) /\ e < f)
SortedStably ==
  /\ Kept
  /\ stage \in {"collect", "sort"} =>
    /\ \A k \in DOMAIN eseq : \A i, j \in DOMAIN eseq[k] :
         i < j => Precedes(eseq[k][i], eseq[k][j])
    /\ \A k, l \in DOMAIN eseq : k < l =>
         \A i \in DOMAIN eseq[k], j \in DOMAIN eseq[l] : eseq[k][i] < eseq[l][j]

(* Pairing moves note-offs, but never to another time: the actions of an   *)
(* effector see time go forwards.                                          *)
TimeOrder ==
  stage \in {"pair", "done"} =>
    \A i, j \in DOMAIN list : i < j => ev[list[i]].time <= ev[list[j]].time

(* After pairing, partners refer to each other, sound the same note, and   *)
(* stand in this order; a note-off has the high priority exactly when its  *)
(* note began earlier.                                                     *)
Partners ==
  stage = "done" =>
    /\ \A e \in DOMAIN ev : ev[e].type # "ctrl" /\ ev[e].partner # NULL =>
         LET f == ev[e].partner
         IN ev[f].partner = e /\ ev[f].note = ev[e].note /\ ev[f].type # ev[e].type
    /\ \A i \in DOMAIN list : LET e == ev[list[i]] IN
         e.type = "off" /\ e.partner # NULL =>
           /\ \E j \in 1..(i-1) : list[j] = e.partner
           /\ e.irregular <=> e.time = ev[e.partner].time

(* A note-off ends the latest sounding note, as nested note_on and note_off*)
(* do: pairs of a note do not cross, unless the inner note has no length,  *)
(* no isolated event lies within a pair, and no isolated note-on is left   *)
(* before an isolated note-off.  (The two events of do_pitch are output    *)
(* together and do not take part.)                                         *)
Separate(e, n) ==
  /\ ev[e].type # "ctrl" /\ ev[e].note = n
  /\ ev[e].partner \notin {e - 1, e + 1} \ {NULL}
Span(i, j, n) ==
  /\ i < j /\ ev[list[i]].type = "on"
  /\ Separate(list[i], n) /\ ev[list[i]].partner = list[j]
Isolated(i, n) == Separate(list[i], n) /\ ev[list[i]].partner = NULL
NestedPairs ==
  stage = "done" => \A n \in Note :
    /\ \A i, j, k, l \in DOMAIN list :
         Span(i, j, n) /\ Span(k, l, n) /\ i < k =>
           l < j \/ j < k \/ ev[list[k]].time = ev[list[j]].time
    /\ \A i, j, k \in DOMAIN list :
         Span(i, j, n) /\ Isolated(k, n) => k < i \/ j < k
    /\ \A i, j \in DOMAIN list :
         Isolated(i, n) /\ Isolated(j, n) /\ i < j =>
           ~(ev[list[i]].type = "on" /\ ev[list[j]].type = "off")

-----------------------------------------------------------------------------
(* What comments say, and the code does not do.                            *)

(* "after calling this routine, events are guaranteed to be sorted"        *)
(* (pair_notes): in the order of time and priority.                        *)
SortedAfterPairing ==
  stage = "done" =>
    \A i, j \in DOMAIN list : i < j => ~EV_LESS(ev[list[j]], ev[list[i]])
=============================================================================
