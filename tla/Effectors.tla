----------------------------- MODULE Effectors -----------------------------
(***************************************************************************)
(* Effectors (comp/parse.c, comp/output.c).                                *)
(*                                                                         *)
(* A thread attaches effectors to the head of its list, which its children *)
(* inherit; output_event puts an event into the buffer of the first one    *)
(* that is enabled and does not let it through.  When a thread is deleted  *)
(* its effectors are detached, newest first: the events collected are      *)
(* sorted and paired, the rules of the class are applied to each of them,  *)
(* and what is output goes on to the effectors behind.  The last one is    *)
(* $smfout.  Threads run in any order here; module Threads has their       *)
(* scheduling, EventBuffer the sorting, PostProcess the scan that the      *)
(* flags ExpandCtrl and Retrigger ask for, which no class here does.       *)
(*                                                                         *)
(* A program is what its threads may do, and an action of an effector one  *)
(* of the Acts of its rule.  Events are numbered as they are made; at is   *)
(* where an event is.  The fields named on are not in the code: the set of *)
(* effectors that were enabled when an event was output, or are enabled in *)
(* a thread, which the code has as bits by position.                       *)
(***************************************************************************)
EXTENDS Integers, Sequences, FiniteSets, SequencesExt, FiniteSetsExt

CONSTANTS Tracks, Chan,  \* the number of tracks, and the channels that programs use
          Times,         \* the times of their events
          Programs,      \* the effector classes of a program: [rules, flags]
          Threads,       \* bound: threads, effector threads included
          Effs,          \* bound: effectors, $smfout included
          Events,        \* bound: events
          Commands,      \* bound: commands of the program
          Limit          \* 31 (attach_effector)

Track == 1..Tracks
Type == {"on", "off", "ctrl", "timesig", "deleted"}

(* What a class may be: its rules, in order, with the actions each may do. *)
Act == [does : {"", "attach", "disable", "copy"}, dt : Int, tk : Track \cup {0}, reject : BOOLEAN]
Rule == [scope : SUBSET (Type \cup {"pair"}), acts : SUBSET Act]
Flag == {"MergeTracks", "MoveTimeEv", "CollectMarker", "BuiltIn"}
Class == [rules : Seq(Rule), flags : SUBSET Flag]

ASSUME BoundAssumption ==
  /\ Threads \in Nat /\ Effs \in Nat \ {0} /\ Events \in Nat /\ Commands \in Nat
  /\ Limit \in Nat \ {0} /\ Tracks \in Nat \ {0}
ASSUME ProgramAssumption ==
  /\ Times \subseteq Int
  /\ Programs \subseteq (SUBSET Class) \ {{}}

VARIABLES
  classes, \* the effector classes of the program
  ev,      \* events
  thd,     \* threads: [kind, live, exiting, parent, nchild, effs, eebv, on]
  eff,     \* effector instances: [class, live, thd, ethru, cthru, buf, marks]
  calls,   \* the calls that are active: [op, of, queue], the innermost first
  fuel     \* commands left

vars == <<classes, ev, thd, eff, calls, fuel>>

PerChannel == {"on", "off", "ctrl"}         \* per_ch_event
IsTime == {"timesig"}                       \* is_time_event, is_mark_event
Smfout == [rules |-> <<>>, flags |-> {"CollectMarker", "BuiltIn"}]
State == [ev |-> ev, thd |-> thd, eff |-> eff]

Error == <<[op |-> "error", of |-> 0, queue |-> <<>>]>>
Running == calls = <<>> /\ thd[1].live
Runs(h) == Running /\ thd[h].live /\ thd[h].kind = "thread" /\ ~thd[h].exiting
Command(h) == Runs(h) /\ fuel > 0 /\ fuel' = fuel - 1

-----------------------------------------------------------------------------
(* Event buffers.                                                          *)
EPRI(e) == CASE e.type = "off" /\ ~e.irregular -> 1
             [] e.type = "timesig" -> 2 [] e.type = "ctrl" -> 3 [] OTHER -> 5
EV_LESS(a, b) == a.time < b.time \/ (a.time = b.time /\ EPRI(a) < EPRI(b))

(* insert_event.                                                           *)
insert_event_always(evs, seqs, i) ==
  IF seqs = <<>> THEN <<<<i>>>> ELSE Front(seqs) \o <<Append(Last(seqs), i)>>
insert_event(evs, seqs, i) ==
  IF seqs = <<>> \/ EV_LESS(evs[i], evs[Last(Last(seqs))]) THEN Append(seqs, <<i>>)
  ELSE Front(seqs) \o <<Append(Last(seqs), i)>>

(* event_free: the partner is isolated then.                               *)
event_free(evs, i, where) ==
  [evs EXCEPT ![i].at = where, ![i].partner = 0,
              ![IF evs[i].partner = 0 THEN i ELSE evs[i].partner].partner = 0]

(* output_event of thread h.                                               *)
Bit(eebv, k) == k <= Len(eebv) /\ eebv[k]
Below_none(eebv, k) == eebv
Below(eebv, k) == SubSeq(eebv, k + 1, Len(eebv))
Takes(f, e) == e.type \notin f.ethru /\ ~(e.type \in PerChannel /\ e.ch \in f.cthru)

Takers(s, h, i) ==
  LET t == s.thd[h] IN {k \in DOMAIN t.effs : Bit(t.eebv, k) /\ Takes(s.eff[t.effs[k]], s.ev[i])}

(* The k-th effector of the list takes the event.                          *)
Taken(s, h, i, k) ==
  LET t == s.thd[h]
      e == t.effs[k]
      moves == "MoveTimeEv" \in s.eff[e].class.flags /\ s.ev[i].type \in IsTime
      tk == IF moves THEN 1 ELSE s.ev[i].track
      evs == [s.ev EXCEPT ![i].at = "buffer", ![i].track = tk,
                          ![i].eebv = Below(t.eebv, k),
                          ![i].on = IF s.ev[i].at = "new" THEN t.on ELSE @]
      marks == "CollectMarker" \in s.eff[e].class.flags /\ s.ev[i].type \in IsTime
      f == [s.eff[e] EXCEPT !.buf[tk] = insert_event(evs, @, i),
                            !.marks = IF marks THEN Append(@, s.ev[i].time) ELSE @]
  IN [s EXCEPT !.ev = evs, !.eff[e] = f]

output_event(s, h, i) ==
  IF Takers(s, h, i) = {} THEN [s EXCEPT !.ev = event_free(@, i, "lost")]
  ELSE Taken(s, h, i, Min(Takers(s, h, i)))

Event(type, time, track, ch) ==
  [type |-> type, time |-> time, track |-> track, ch |-> ch, irregular |-> FALSE,
   partner |-> 0, eebv |-> <<>>, on |-> {}, at |-> "new"]

(* One event more; or a note: a note-on and a note-off that are partners.  *)
PutEvent(s, h, e) ==
  output_event([s EXCEPT !.ev = Append(@, e)], h, Len(s.ev) + 1)
PutNote(s, h, time, length, track, ch) ==
  LET i == Len(s.ev) + 1
      on == [Event("on", time, track, ch) EXCEPT !.partner = i + 1]
      off == [Event("off", time + length, track, ch) EXCEPT !.partner = i,
                                                            !.irregular = length = 0]
  IN output_event(output_event([s EXCEPT !.ev = @ \o <<on, off>>], h, i), h, i + 1)

-----------------------------------------------------------------------------
(* Attaching.  The effector thread has the effectors that the thread had.  *)
RuleTypes(c) == UNION {c.rules[r].scope : r \in DOMAIN c.rules}
Thread(kind, parent, effs, eebv, on) ==
  [kind |-> kind, live |-> TRUE, exiting |-> FALSE, parent |-> parent, nchild |-> 0,
   effs |-> effs, eebv |-> eebv, on |-> on]
Instance(class, h) ==
  [class |-> class, live |-> TRUE, thd |-> h, cthru |-> {},
   ethru |-> IF class = Smfout THEN {} ELSE Type \ RuleTypes(class),
   buf |-> [k \in Track |-> <<>>], marks |-> <<>>]

CanAttach(s) == Len(s.eff) < Effs /\ Len(s.thd) < Threads
TooMany(s, h) == Bit(s.thd[h].eebv, Limit + 1)
attach_effector_last(s, h, class, enable) ==
  LET t == s.thd[h]  e == Len(s.eff) + 1
      thds == [s.thd EXCEPT ![h].effs = Append(@, e),
                            ![h].eebv = <<enable>> \o @,
                            ![h].on = IF enable THEN @ \cup {e} ELSE @]
  IN [s EXCEPT !.thd = Append(thds, Thread("effector", h, t.effs, t.eebv, t.on)),
               !.eff = Append(@, Instance(class, Len(s.thd) + 1))]
attach_effector(s, h, class, enable) ==
  LET t == s.thd[h]  e == Len(s.eff) + 1
      thds == [s.thd EXCEPT ![h].effs = <<e>> \o @,
                            ![h].eebv = <<enable>> \o @,
                            ![h].on = IF enable THEN @ \cup {e} ELSE @]
  IN [s EXCEPT !.thd = Append(thds, Thread("effector", h, t.effs, t.eebv, t.on)),
               !.eff = Append(@, Instance(class, Len(s.thd) + 1))]

(* enable_effector, if the effector is in the list of the thread.          *)
WithFlags(s, h, eebv, on) == [s EXCEPT !.thd[h] = [@ EXCEPT !.eebv = eebv, !.on = on]]
enable_effector(s, h, e, enable) ==
  LET t == s.thd[h]
  IN WithFlags(s, h, [k \in DOMAIN t.effs |-> IF t.effs[k] = e THEN enable ELSE Bit(t.eebv, k)],
                     IF e \notin ToSet(t.effs) THEN t.on
                     ELSE IF enable THEN t.on \cup {e} ELSE t.on \ {e})

-----------------------------------------------------------------------------
(* What threads do.                                                        *)
Becomes(s) == ev' = s.ev /\ thd' = s.thd /\ eff' = s.eff

do_attach(h) ==
  /\ Command(h) /\ CanAttach(State)
  /\ \E c \in classes, enable \in BOOLEAN :
       /\ Becomes(attach_effector(State, h, c, enable))
       /\ calls' = IF TooMany(State, h) THEN Error ELSE calls
  /\ UNCHANGED classes

do_enable(h) ==
  /\ Command(h)
  /\ \E e \in DOMAIN eff \ {1}, enable \in BOOLEAN :
       eff[e].live /\ Becomes(enable_effector(State, h, e, enable))
  /\ UNCHANGED <<classes, calls>>

(* The commands that change through bits.                                  *)
do_eff_etypes(h) ==
  /\ Command(h)
  /\ \E e \in ToSet(thd[h].effs) \ {1}, es \in {{"ctrl"}, {"on", "off"}} :
       eff' = [eff EXCEPT ![e].ethru = IF es \subseteq @ THEN @ \ es ELSE @ \cup es]
  /\ UNCHANGED <<classes, ev, thd, calls>>
do_eff_chs(h) ==
  /\ Command(h)
  /\ \E e \in ToSet(thd[h].effs) \ {1}, ch \in Chan :
       eff' = [eff EXCEPT ![e].cthru = IF ch \in @ THEN @ \ {ch} ELSE @ \cup {ch}]
  /\ UNCHANGED <<classes, ev, thd, calls>>

do_note(h) ==
  /\ Command(h) /\ Len(ev) + 2 <= Events
  /\ \E time \in Times, length \in {0, 1}, k \in Track, ch \in Chan :
       Becomes(PutNote(State, h, time, length, k, ch))
  /\ UNCHANGED <<classes, calls>>
Puts(h, type) ==
  /\ Command(h) /\ Len(ev) < Events
  /\ \E time \in Times, k \in Track, ch \in Chan :
       Becomes(PutEvent(State, h, Event(type, time, k, ch)))
  /\ UNCHANGED <<classes, calls>>
do_ctrl(h) == Puts(h, "ctrl")
do_timesig(h) == Puts(h, "timesig")

(* A new thread has the effectors of its parent and their valid flags.     *)
create_thread(p) ==
  /\ Command(p) /\ Len(thd) < Threads
  /\ thd' = Append([thd EXCEPT ![p].nchild = @ + 1],
                   Thread("thread", p, thd[p].effs, thd[p].eebv, thd[p].on))
  /\ UNCHANGED <<classes, ev, eff, calls>>

end_thread(h) ==
  /\ Runs(h)
  /\ calls' = <<[op |-> "delete", of |-> h, queue |-> <<>>]>>
  /\ UNCHANGED <<classes, ev, thd, eff, fuel>>

-----------------------------------------------------------------------------
(* delete_thread.                                                          *)
Call == calls[1]
Within(op) == calls # <<>> /\ Call.op = op
Called == Call.of

HasChildren_ignored(h) == FALSE
HasChildren(h) == thd[h].nchild > 0

postpone ==
  /\ Within("delete") /\ HasChildren(Called)
  /\ thd' = [thd EXCEPT ![Called].exiting = TRUE]
  /\ calls' = Tail(calls)
  /\ UNCHANGED <<classes, ev, eff, fuel>>

(* detach_all_effectors: those that the thread itself attached.            *)
HasOwn(h) == thd[h].effs # <<>> /\ thd[eff[thd[h].effs[1]].thd].parent = h
detach_all_effectors ==
  /\ Within("delete") /\ ~HasChildren(Called) /\ HasOwn(Called)
  /\ LET e == thd[Called].effs[1]
     IN /\ thd' = [thd EXCEPT ![Called].effs = Tail(@), ![Called].eebv = Below(@, 1),
                              ![Called].on = @ \ {e}]
        /\ calls' = <<[op |-> "detach", of |-> e, queue |-> <<>>]>> \o calls
  /\ UNCHANGED <<classes, ev, eff, fuel>>

(* The parent has a child less, effector threads included.                 *)
delete_thread ==
  /\ Within("delete") /\ ~HasChildren(Called) /\ ~HasOwn(Called)
  /\ LET p == thd[Called].parent
     IN IF p = 0
        THEN thd' = [thd EXCEPT ![Called].live = FALSE] /\ calls' = Tail(calls)
        ELSE /\ thd' = [thd EXCEPT ![Called].live = FALSE, ![p].nchild = @ - 1]
             /\ calls' = IF thd[p].nchild = 1 /\ thd[p].exiting
                         THEN <<[op |-> "delete", of |-> p, queue |-> <<>>]>> \o Tail(calls)
                         ELSE Tail(calls)
  /\ UNCHANGED <<classes, ev, eff, fuel>>

-----------------------------------------------------------------------------
(* detach_effector.  The events of a track, or of all with MergeTracks, in *)
(* order; an isolated note-off ends the latest isolated note-on before it. *)
Ordered(evs, s) ==
  LET before(i, j) == EV_LESS(evs[s[i]], evs[s[j]])
                      \/ (~EV_LESS(evs[s[j]], evs[s[i]]) /\ i < j)
      rank(j) == Cardinality({i \in DOMAIN s : before(i, j)}) + 1
  IN [k \in DOMAIN s |-> s[CHOOSE j \in DOMAIN s : rank(j) = k]]

Isolated(evs, i, type, ch) == evs[i].type = type /\ evs[i].partner = 0 /\ evs[i].ch = ch
Paired(evs, on, off) ==
  [evs EXCEPT ![off].partner = on, ![on].partner = off,
              ![off].irregular = evs[off].time = evs[on].time]
pair_notes(evs, s) ==
  LET after[n \in 0..Len(s)] ==
        IF n = 0 THEN evs
        ELSE LET was == after[n - 1]
                 ch == evs[s[n]].ch
                 pending == {j \in 1..(n - 1) : Isolated(was, s[j], "on", ch)}
             IN IF Isolated(was, s[n], "off", ch) /\ pending # {}
                THEN Paired(was, s[Max(pending)], s[n]) ELSE was
  IN after[Len(s)]

Sequences(e) == [k \in Track |-> Ordered(ev, FlattenSeq(eff[e].buf[k]))]
AllPaired(seqs) ==
  LET after[k \in 0..Tracks] == IF k = 0 THEN ev ELSE pair_notes(after[k - 1], seqs[k])
  IN after[Tracks]
Collected(e) ==
  LET paired == AllPaired(Sequences(e))
      sorted == [k \in Track |-> Ordered(paired, Sequences(e)[k])]
      merges == "MergeTracks" \in eff[e].class.flags
  IN [ev |-> paired,
      queue |-> IF merges THEN Ordered(paired, FlattenSeq(sorted)) ELSE FlattenSeq(sorted)]

detach_effector ==
  /\ Within("detach") /\ eff[Call.of].buf # [k \in Track |-> <<>>]
  /\ LET c == Collected(Call.of)
     IN /\ ev' = [i \in DOMAIN ev |-> IF i \in ToSet(c.queue)
                                      THEN [c.ev[i] EXCEPT !.at = "queue"] ELSE c.ev[i]]
        /\ calls' = [calls EXCEPT ![1].queue = c.queue]
  /\ eff' = [eff EXCEPT ![Call.of].buf = [k \in Track |-> <<>>]]
  /\ UNCHANGED <<classes, thd, fuel>>

(* per_event_action.  The rule of an event is the first one for its type;  *)
(* a rule for pairs of notes does not apply to isolated notes, which pass  *)
(* if there is no other.                                                   *)
Rules(c, e) ==
  {r \in DOMAIN c.rules :
     /\ e.type \in c.rules[r].scope
     /\ "pair" \in c.rules[r].scope /\ e.type \in {"on", "off"} => e.partner # 0}
Passes(c, e) ==
  IF Rules(c, e) = {} THEN e.type \in RuleTypes(c)
  ELSE c.rules[Min(Rules(c, e))].acts = {}

(* Before an action the flags are those the event was output with.         *)
FlagsOf(s, h, i) == WithFlags(s, h, s.ev[i].eebv, s.ev[i].on)

(* The commands of an action: an effector is attached, the next effector   *)
(* is disabled, or the event is output once more.                          *)
Commanded(s, h, i, act) ==
  LET e == s.ev[i]
  IN CASE act.does = "attach" /\ CanAttach(s) ->
            attach_effector(s, h, CHOOSE c \in classes : TRUE, TRUE)
       [] act.does = "disable" /\ s.thd[h].effs # <<1>> ->
            enable_effector(s, h, s.thd[h].effs[1], FALSE)
       [] act.does = "copy" /\ e.type = "ctrl" /\ Len(s.ev) < Events ->
            PutEvent(s, h, Event("ctrl", e.time + act.dt, e.track, e.ch))
       [] act.does = "copy" /\ e.type = "on" /\ Len(s.ev) + 2 <= Events ->
            PutNote(s, h, e.time + act.dt, 0, e.track, e.ch)
       [] OTHER -> s

check_time(t) == IF t < 0 THEN 0 ELSE t
NewTrack(e, act) == IF act.tk = 0 THEN e.track ELSE act.tk

(* A control or meta event, and a single note-on: its time and track.      *)
Single(evs, i, act) ==
  [evs EXCEPT ![i].time = check_time(@ + act.dt), ![i].track = NewTrack(evs[i], act)]

(* case(note): the note-off goes with its note-on, and is marked deleted   *)
(* if that is rejected.                                                    *)
PairMoved(evs, i, act) ==
  LET off == evs[i].partner
      dofs == evs[off].time - evs[i].time
      moved == Single(evs, i, act)
  IN [moved EXCEPT ![off].time = check_time(moved[i].time + Max({dofs, 0})),
                   ![off].irregular = dofs <= 0,
                   ![off].track = moved[i].track]

(* case(note_off): earlier than its note-on, it is no partner any more.    *)
OffMoved(evs, i, act) ==
  LET on == evs[i].partner
      time == evs[i].time + act.dt
      moved == Single(evs, i, act)
  IN IF on = 0 THEN moved
     ELSE IF time < evs[on].time
     THEN [moved EXCEPT ![i].partner = 0, ![i].irregular = TRUE, ![on].partner = 0]
     ELSE [moved EXCEPT ![i].irregular = time = evs[on].time]

Rejected(evs, i, pair) ==
  event_free(IF pair THEN [evs EXCEPT ![evs[i].partner].type = "deleted"] ELSE evs, i, "freed")

Acted(s, h, i, rule, act) ==
  LET pair == "pair" \in rule.scope
      e == s.ev[i]
      did == Commanded(FlagsOf(s, h, i), h, i, act)
      t == [did EXCEPT !.ev[i].on = did.thd[h].on]
  IN CASE pair /\ e.type = "off" -> output_event(FlagsOf(s, h, i), h, i)
       [] ~(pair /\ e.type = "off") /\ act.reject ->
            [t EXCEPT !.ev = Rejected(@, i, pair)]
       [] pair /\ e.type = "on" /\ ~act.reject ->
            output_event([t EXCEPT !.ev = PairMoved(@, i, act)], h, i)
       [] ~pair /\ e.type = "off" /\ ~act.reject ->
            output_event([t EXCEPT !.ev = OffMoved(@, i, act)], h, i)
       [] OTHER -> output_event([t EXCEPT !.ev = Single(@, i, act)], h, i)

(* $smfout writes it.  For an event that passes the flags are not set.      *)
per_event_action ==
  /\ Within("detach") /\ Call.queue # <<>>
  /\ LET i == Head(Call.queue)
         c == eff[Call.of].class
         h == eff[Call.of].thd
         e == ev[i]
     IN CASE e.type = "deleted" -> Becomes([State EXCEPT !.ev = event_free(@, i, "freed")])
          [] e.type # "deleted" /\ "BuiltIn" \in c.flags ->
               Becomes([State EXCEPT !.ev = event_free(@, i, "written")])
          [] e.type # "deleted" /\ "BuiltIn" \notin c.flags /\ Passes(c, e) ->
               Becomes(output_event(State, h, i))
          [] e.type # "deleted" /\ "BuiltIn" \notin c.flags /\ ~Passes(c, e)
               /\ Rules(c, e) = {} -> Becomes([State EXCEPT !.ev = event_free(@, i, "freed")])
          [] OTHER ->
               LET rule == c.rules[Min(Rules(c, e))]
               IN \E act \in rule.acts : Becomes(Acted(State, h, i, rule, act))
  /\ calls' = [calls EXCEPT ![1].queue = Tail(@)]
  /\ UNCHANGED <<classes, fuel>>

(* The effector thread is deleted, with what its actions attached, and the *)
(* instance is freed.                                                      *)
detach_end ==
  /\ Within("detach") /\ Call.queue = <<>> /\ eff[Call.of].buf = [k \in Track |-> <<>>]
  /\ eff' = [eff EXCEPT ![Call.of].live = FALSE]
  /\ calls' = <<[op |-> "delete", of |-> eff[Call.of].thd, queue |-> <<>>]>> \o Tail(calls)
  /\ UNCHANGED <<classes, ev, thd, fuel>>

terminated == calls \in {<<>>, Error} /\ ~Running /\ UNCHANGED vars

Init ==
  /\ classes \in Programs
  /\ ev = <<>>
  /\ thd = <<Thread("thread", 0, <<1>>, <<TRUE>>, {1}), Thread("effector", 1, <<>>, <<>>, {})>>
  /\ eff = <<Instance(Smfout, 2)>>
  /\ calls = <<>> /\ fuel = Commands

Next ==
  \/ \E h \in DOMAIN thd :
       \/ do_attach(h) \/ do_enable(h) \/ do_eff_etypes(h) \/ do_eff_chs(h)
       \/ do_note(h) \/ do_ctrl(h) \/ do_timesig(h)
       \/ create_thread(h) \/ end_thread(h)
  \/ postpone \/ detach_all_effectors \/ delete_thread
  \/ detach_effector \/ per_event_action \/ detach_end
  \/ terminated

Spec == Init /\ [][Next]_vars
=============================================================================
