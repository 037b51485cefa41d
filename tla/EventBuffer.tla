---------------------------- MODULE EventBuffer ----------------------------
(***************************************************************************)
(* The event buffer of an effector (comp/output.c): insert_evlist collects *)
(* events in time-ordered sequences, sort_event merges the sequences into  *)
(* one list, and pair_notes makes partners of the note-ons and note-offs   *)
(* that note_on and note_off output separately.                            *)
(*                                                                         *)
(* One track is modelled; tracks share nothing but npend.  Events are      *)
(* named by the order in which they are output.  A note stands for a pair  *)
(* of a note number and a MIDI channel, a time for a Rational, and "ctrl"  *)
(* for the events whose priority lies between note-off and note-on.        *)
(***************************************************************************)
EXTENDS Integers, Sequences, FiniteSets, SequencesExt

CONSTANTS Note,         \* the notes a program uses
          MaxTime,      \* bound: times are 0..MaxTime
          MaxEvents,    \* bound: number of events
          ByPriority,   \* values of sort_by_priority (FALSE with option -p)
          Uninitialized \* values npend may have when pair_notes begins

ASSUME BoundAssumption == MaxTime \in Nat /\ MaxEvents \in Nat
ASSUME OptionAssumption == ByPriority \subseteq BOOLEAN /\ Uninitialized \subseteq Int

VARIABLES
  ev,                \* the events; an event is an index, NULL is 0
  eseq,              \* Track.eseq: the event sequences
  last_ep,           \* Track.last_ep: the last inserted event
  sort_by_priority,
  stage,             \* "collect", "sort" and "pair" (pair_notes), "done"
  pos,               \* ep of pair_notes: a position in the only sequence
  ctop,              \* the position where note-offs are to be inserted
  note_tbl,          \* the latest pending note-on of a note, or NULL
  npend              \* number of pending notes

pairVars == <<pos, ctop, note_tbl, npend>>
vars == <<ev, eseq, last_ep, sort_by_priority, stage, pairVars>>

NULL == 0
Time == 0..MaxTime

(* ev_partner is the partner of a note-on or a note-off; of a pending      *)
(* note-on it is the next pending one.                                     *)
Event == [type : {"ctrl", "on", "off"}, time : Nat, note : Note \cup {NULL},
          irregular : BOOLEAN, partner : Nat]

ctrl(t) == [type |-> "ctrl", time |-> t, note |-> NULL, irregular |-> FALSE, partner |-> NULL]
note_on(t, n) == [type |-> "on", time |-> t, note |-> n, irregular |-> FALSE, partner |-> NULL]
note_off(t, n) == [type |-> "off", time |-> t, note |-> n, irregular |-> TRUE, partner |-> NULL]

(* The priority of an event; a note-off comes first unless its note-on is  *)
(* at the same time or unknown.                                            *)
EPRI(e) ==
  CASE e.type = "off" /\ ~e.irregular -> 1
    [] e.type = "ctrl" -> 3
    [] OTHER -> 5

EV_LESS(a, b) ==
  \/ a.time < b.time
  \/ sort_by_priority /\ a.time = b.time /\ EPRI(a) < EPRI(b)

-----------------------------------------------------------------------------
(* Collecting.  As in every module here, an operator whose name ends in an *)
(* underscore and a word is a faulty variant of the one after it.          *)

(* An event that does not continue the last sequence begins a new one.     *)
Insert(seqs, last, all, new) ==
  IF seqs = <<>> \/ EV_LESS(all[new], all[last])
  THEN Append(seqs, <<new>>)
  ELSE Front(seqs) \o <<Append(Last(seqs), new)>>

(* output_event never passes a list of several events.                     *)
insert_evlist(e) ==
  LET new == Len(ev) + 1
      all == Append(ev, e)
  IN /\ Len(ev) < MaxEvents
     /\ ev' = all
     /\ eseq' = Insert(eseq, last_ep, all, new)
     /\ last_ep' = new
     /\ UNCHANGED <<sort_by_priority, stage, pairVars>>

(* ctrl and its relatives, note_on and note_off output one event.          *)
do_ctrl == stage = "collect" /\ \E t \in Time : insert_evlist(ctrl(t))
do_note_on ==
  stage = "collect" /\ \E t \in Time, n \in Note : insert_evlist(note_on(t, n))
do_note_off ==
  stage = "collect" /\ \E t \in Time, n \in Note : insert_evlist(note_off(t, n))

(* A note: a note-on and a note-off that are partners.                     *)
do_pitch ==
  /\ stage = "collect"
  /\ Len(ev) + 2 <= MaxEvents
  /\ \E s, t \in Time, n \in Note :
       LET on == Len(ev) + 1
           off == Len(ev) + 2
           all == ev \o <<[note_on(s, n) EXCEPT !.partner = off],
                          [note_off(t, n) EXCEPT !.partner = on, !.irregular = s = t]>>
       IN /\ s <= t
          /\ ev' = all
          /\ eseq' = Insert(Insert(eseq, last_ep, all, on), on, all, off)
          /\ last_ep' = off
  /\ UNCHANGED <<sort_by_priority, stage, pairVars>>

-----------------------------------------------------------------------------
(* sort_event.                                                             *)

(* Merge two sequences; of equal events, those of the first come first.    *)
Merge_second(a, b) ==
  LET merged[p \in (1..(Len(a) + 1)) \X (1..(Len(b) + 1))] ==
        LET i == p[1]
            j == p[2]
        IN
        IF i > Len(a) THEN SubSeq(b, j, Len(b))
        ELSE IF j > Len(b) THEN SubSeq(a, i, Len(a))
        ELSE IF ~EV_LESS(ev[a[i]], ev[b[j]]) THEN <<b[j]>> \o merged[<<i, j + 1>>]
        ELSE <<a[i]>> \o merged[<<i + 1, j>>]
  IN merged[<<1, 1>>]
Merge(a, b) ==
  LET merged[p \in (1..(Len(a) + 1)) \X (1..(Len(b) + 1))] ==
        LET i == p[1]
            j == p[2]
        IN
        IF i > Len(a) THEN SubSeq(b, j, Len(b))
        ELSE IF j > Len(b) THEN SubSeq(a, i, Len(a))
        ELSE IF EV_LESS(ev[b[j]], ev[a[i]]) THEN <<b[j]>> \o merged[<<i, j + 1>>]
        ELSE <<a[i]>> \o merged[<<i + 1, j>>]
  IN merged[<<1, 1>>]

begin_sort ==
  /\ stage = "collect" /\ eseq # <<>>
  /\ stage' = "sort"
  /\ UNCHANGED <<ev, eseq, last_ep, sort_by_priority, pairVars>>

(* One pass merges the first sequence with the second, the third with the  *)
(* fourth, and so on.                                                      *)
sort_event ==
  /\ stage = "sort" /\ Len(eseq) > 1
  /\ eseq' = [k \in 1..((Len(eseq) + 1) \div 2) |->
               IF 2 * k <= Len(eseq) THEN Merge(eseq[2 * k - 1], eseq[2 * k])
               ELSE eseq[2 * k - 1]]
  /\ UNCHANGED <<ev, last_ep, sort_by_priority, stage, pairVars>>

-----------------------------------------------------------------------------
(* pair_notes.                                                             *)

begin_pair ==
  /\ stage = "sort" /\ Len(eseq) = 1
  /\ stage' = "pair"
  /\ pos' = 1 /\ ctop' = 1
  /\ note_tbl' = [n \in Note |-> NULL]
  /\ UNCHANGED <<ev, eseq, last_ep, sort_by_priority, npend>>

list == eseq[1]
ep == list[pos]

(* ctop moves on past a note-off, and to the first event of the next time; *)
(* all is the array of events, l the list, after the step's other changes. *)
NextTop_never(all, l, n) == ctop
NextTop(all, l, n) ==
  IF /\ n # 0
     /\ \/ all[l[ctop]].type = "off" /\ ~all[l[ctop]].irregular
        \/ pos < Len(l) /\ all[l[ctop]].time # all[l[pos + 1]].time
  THEN pos + 1 ELSE ctop

(* An isolated note-on goes to the top of the pending ones.                *)
pend_note ==
  /\ ev[ep].type = "on" /\ ev[ep].partner = NULL
  /\ ev' = [ev EXCEPT ![ep].partner = note_tbl[ev[ep].note]]
  /\ note_tbl' = [note_tbl EXCEPT ![ev[ep].note] = ep]
  /\ npend' = npend + 1
  /\ ctop' = NextTop(ev', list, npend')
  /\ UNCHANGED eseq

(* An isolated note-off becomes the partner of the latest pending note-on; *)
(* when that is earlier its priority rises, and it moves to ctop.          *)
Paired_stays(on, moves) ==
  [ev EXCEPT ![ep].partner = on, ![on].partner = ep]
Paired(on, moves) ==
  [ev EXCEPT ![ep].partner = on, ![ep].irregular = IF moves THEN FALSE ELSE @,
             ![on].partner = ep]
Unpended_all(on) == NULL
Unpended(on) == ev[on].partner
Moved(l) == SubSeq(l, 1, ctop - 1) \o <<ep>> \o SubSeq(l, ctop, pos - 1)
            \o SubSeq(l, pos + 1, Len(l))
pair_note ==
  /\ ev[ep].type = "off" /\ ev[ep].partner = NULL
  /\ LET on == note_tbl[ev[ep].note]
         later == ev[ep].time # ev[on].time
     IN /\ on # NULL
        /\ ev' = Paired(on, later)
        /\ note_tbl' = [note_tbl EXCEPT ![ev[ep].note] = Unpended(on)]
        /\ eseq' = IF later /\ sort_by_priority THEN <<Moved(list)>> ELSE eseq
  /\ npend' = npend - 1
  /\ ctop' = NextTop(ev', eseq'[1], npend')

skip_event ==
  /\ \/ ev[ep].type = "ctrl" \/ ev[ep].partner # NULL
     \/ ev[ep].type = "off" /\ note_tbl[ev[ep].note] = NULL
  /\ ctop' = NextTop(ev, list, npend)
  /\ UNCHANGED <<ev, eseq, note_tbl, npend>>

pair_notes ==
  /\ stage = "pair" /\ pos <= Len(list)
  /\ pend_note \/ pair_note \/ skip_event
  /\ pos' = pos + 1
  /\ UNCHANGED <<last_ep, sort_by_priority, stage>>

(* What is left in the note table is really isolated.                      *)
PendingNotes(n) ==
  LET chain[i \in 0..Len(ev)] ==
        IF i = 0 THEN note_tbl[n]
        ELSE IF chain[i-1] = NULL THEN NULL ELSE ev[chain[i-1]].partner
  IN {chain[i] : i \in 0..Len(ev)} \ {NULL}
end_pair ==
  /\ stage = "pair" /\ pos > Len(list)
  /\ ev' = [i \in DOMAIN ev |-> IF \E n \in Note : i \in PendingNotes(n)
                                THEN [ev[i] EXCEPT !.partner = NULL] ELSE ev[i]]
  /\ stage' = "done"
  /\ UNCHANGED <<eseq, last_ep, sort_by_priority, pairVars>>

terminated == stage = "done" /\ UNCHANGED vars

-----------------------------------------------------------------------------
Init ==
  /\ ev = <<>> /\ eseq = <<>> /\ last_ep = NULL
  /\ sort_by_priority \in ByPriority
  /\ stage = "collect"
  /\ pos = 1 /\ ctop = 1
  /\ note_tbl = [n \in Note |-> NULL]
  /\ npend \in Uninitialized

Next ==
  \/ do_ctrl \/ do_note_on \/ do_note_off \/ do_pitch
  \/ begin_sort \/ sort_event \/ begin_pair \/ pair_notes \/ end_pair
  \/ terminated

Spec == Init /\ [][Next]_vars
=============================================================================
