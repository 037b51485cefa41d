---------------------------- MODULE PostProcess ----------------------------
(***************************************************************************)
(* post_process of comp/output.c: one scan over the sorted and paired      *)
(* events of a track that cuts out a time range, retriggers overlapping    *)
(* notes, expands continuous controls and stops at the end of the track.   *)
(*                                                                         *)
(* The scan takes two steps per event: the test of the playing range, and  *)
(* the case for the type of the event.  EventBuffer shows that a sorted    *)
(* buffer is stably sorted, so that the buffer tmp is a list in the order  *)
(* of insertion here.  A key is a note or a controller of one MIDI         *)
(* channel; the four tables for the kinds of controllers are one.  Times   *)
(* and values (Rational, float) are integers.                              *)
(***************************************************************************)
EXTENDS Integers, Sequences, FiniteSets, SequencesExt, FiniteSetsExt

CONSTANTS Note,      \* notes
          Ctrl,      \* controllers
          Change,    \* those of them that are control changes below the mode messages
          DataEntry, \* those of these that are data entry controllers
          Tempo,     \* those of them that set the tempo
          NoKey,     \* the key of an event that has none
          Parts,     \* bound: the kinds of events of a track, and their number
          Requests,  \* the requests: operations and range
          MaxTime,   \* bound: times are 0..MaxTime
          MaxCount,  \* 255: nnotes counts no further
          Step,      \* tmstep of the continuous controls
          Thres      \* thres of the continuous controls

Opr == {"TimeRange", "Retrigger", "ExpandCtrl", "CutAfterEnd"}
LASTVAL == -1
NOVELOC == -1   \* a note-off without a velocity
r_max == MaxTime + 1

ASSUME BoundAssumption ==
  /\ \A p \in Parts : p.len \in Nat
  /\ MaxTime \in Nat /\ MaxCount \in Nat \ {0}
  /\ Step \in Nat \ {0} /\ Thres \in Nat
ASSUME KeyAssumption ==
  /\ IsFiniteSet(Note) /\ IsFiniteSet(Ctrl)
  /\ DataEntry \subseteq Change /\ Change \subseteq Ctrl \ Tempo
  /\ Tempo \subseteq Ctrl /\ NoKey \notin Note \cup Ctrl
ASSUME KindAssumption ==
  \A p \in Parts : \A e \in p.kinds :
    /\ e.type \in {"on", "off"} => e.key \in Note
    /\ e.type = "ctrl" => e.key \in Ctrl
ASSUME RequestAssumption ==
  \A r \in Requests :
    r.oprs \subseteq Opr /\ r.begin \in Int /\ r.end \in Int /\ r.begin < r.end

VARIABLES
  stage,      \* "collect", "check" and "event" (the scan), "done", "error"
  input,      \* the events of the track; an event is named by its place here
  req,        \* the request
  pos,        \* ep: the event the scan is at
  output,     \* 0: before begin_time, 1: at, 2: after begin_time, 3: ended
  cur_time, term_time,
  nnotes,     \* number of playing notes of a key
  note_tbl,   \* the latest note-on of a key (0 is NULL)
  ctrl_tbl,   \* the previous control-points and control of a key, latest first
  timesig,    \* the latest time signature, or 0 (keysig is treated alike)
  partner,    \* ev_partner
  tmp,        \* the resulting buffer
  max_time    \* the latest end of a track

scanVars == <<pos, output, cur_time, term_time, nnotes, note_tbl, ctrl_tbl, timesig,
              partner, tmp>>
vars == <<stage, input, req, scanVars, max_time>>

Event(id, type, time, key, ctype, val, irregular) ==
  [id |-> id, type |-> type, time |-> time, key |-> key, ctype |-> ctype,
   val |-> val, irregular |-> irregular]

Kind(e) == [type |-> e.type, key |-> e.key, ctype |-> e.ctype, val |-> e.val]

(* Numbers of the events that the scan makes.                              *)
Made(i) == Len(input) + Len(tmp) + i

Does(op) == op \in req.oprs
begin_time == IF Does("TimeRange") THEN req.begin ELSE 0
end_time == IF Does("TimeRange") THEN req.end ELSE r_max

EPRI(e) ==
  CASE e.type = "off" /\ ~e.irregular -> 1
    [] e.type \in {"meta", "text", "lyric", "timesig"} -> 2
    [] e.type \in {"ctrl", "reset", "rpn", "alloff"} -> 3
    [] e.type = "end" -> 4
    [] OTHER -> 5
EV_LESS(a, b) == a.time < b.time \/ (a.time = b.time /\ EPRI(a) < EPRI(b))

sort_event(s) ==
  LET before(i, j) == EV_LESS(s[i], s[j]) \/ (~EV_LESS(s[j], s[i]) /\ i < j)
      rank(j) == Cardinality({i \in DOMAIN s : before(i, j)}) + 1
  IN [k \in DOMAIN s |-> s[CHOOSE j \in DOMAIN s : rank(j) = k]]

-----------------------------------------------------------------------------
(* A sorted track whose notes pair_notes has paired: a note-off ends the   *)
(* latest note-on that is not ended yet.                                   *)
Count(s, i, j, type, k) ==
  Cardinality({m \in i..j : s[m].type = type /\ s[m].key = k})
Ends(s, i, j) ==
  /\ s[i].type = "on" /\ s[j].type = "off" /\ s[i].key = s[j].key
  /\ \A m \in i..(j-1) : LET k == s[i].key IN
       Count(s, i+1, m, "off", k) <= Count(s, i+1, m, "on", k)
  /\ Count(s, i+1, j-1, "off", s[i].key) = Count(s, i+1, j-1, "on", s[i].key)
PartnerOf(s, i) ==
  LET ps == {j \in DOMAIN s : IF j < i THEN Ends(s, j, i) ELSE i < j /\ Ends(s, i, j)}
  IN IF ps = {} THEN 0 ELSE Min(ps)

collect ==
  /\ stage = "collect"
  /\ \E part \in Parts, t \in 0..MaxTime : \E k \in part.kinds :
       LET i == Len(input) + 1
           new == Event(i, k.type, t, k.key, k.ctype, k.val, FALSE)
           p == PartnerOf(Append(input, new), i)
           e == [new EXCEPT !.irregular = k.type = "off" /\ (p = 0 \/ input[p].time = t)]
       IN /\ i <= part.len /\ \A j \in DOMAIN input : Kind(input[j]) \in part.kinds
          /\ input # <<>> => ~EV_LESS(e, Last(input))
          /\ input' = Append(input, e)
  /\ UNCHANGED <<stage, req, scanVars, max_time>>

(* The tables of a track are cleared and the scan begins.                  *)
Begin(track, partners, r) ==
  /\ input' = track /\ req' = r
  /\ stage' = "check"
  /\ pos' = 1
  /\ output' = IF "TimeRange" \in r.oprs THEN 0 ELSE 2
  /\ cur_time' = track[1].time
  /\ term_time' = IF "TimeRange" \in r.oprs THEN r.end ELSE r_max
  /\ nnotes' = [k \in Note |-> 0] /\ note_tbl' = [k \in Note |-> 0]
  /\ ctrl_tbl' = [k \in Ctrl |-> <<>>]
  /\ timesig' = 0 /\ tmp' = <<>>
  /\ partner' = partners

Paired(track) == [i \in DOMAIN track |-> PartnerOf(track, i)]

begin_scan ==
  /\ stage = "collect" /\ input # <<>>
  /\ \E r \in Requests : Begin(input, Paired(input), r)
  /\ UNCHANGED max_time

-----------------------------------------------------------------------------
(* The range.                                                              *)
ep == input[pos]

note_off(i, time, k) ==
  Event(Made(i), "off", time, k, "", NOVELOC, time = input[note_tbl[k]].time)

(* sim_all_notes_off: a note-off for every key that is playing.            *)
sim_all_notes_off(time) ==
  LET ks == SetToSeq({k \in Note : nnotes[k] > 0})
  IN [i \in DOMAIN ks |-> note_off(i, time, ks[i])]

(* The partners after inserting new note-offs of the keys.                 *)
Partnered(p, offs) ==
  [i \in DOMAIN p \cup {o.id : o \in ToSet(offs)} |->
    IF \E o \in ToSet(offs) : i = o.id
    THEN note_tbl[(CHOOSE o \in ToSet(offs) : i = o.id).key]
    ELSE IF \E o \in ToSet(offs) : i = note_tbl[o.key]
    THEN (CHOOSE o \in ToSet(offs) : i = note_tbl[o.key]).id
    ELSE p[i]]

(* event_free: the partner of a freed note has no partner any more, even   *)
(* if another event has become its partner meanwhile.                      *)
FreedAll(p, ids) == [i \in DOMAIN p |-> IF i \in {p[j] : j \in ids} THEN 0 ELSE p[i]]
Freed(p, i) == FreedAll(p, {i})

Signature_none == <<>>
Signature == IF timesig = 0 THEN <<>> ELSE <<input[timesig]>>

PlayingNotes ==
  LET ks == SetToSeq({k \in Note : nnotes[k] > 0})
  IN [i \in DOMAIN ks |-> input[note_tbl[ks[i]]]]

EndedNotes == {note_tbl[k] : k \in {n \in Note : nnotes[n] = 0 /\ note_tbl[n] # 0}}

Cut == ep.type = "end" /\ Does("CutAfterEnd")

(* Past begin_time the notes and signatures in force are output; at        *)
(* end_time, and at the end of the track, the notes are ended.             *)
check_range ==
  /\ stage = "check" /\ pos <= Len(input)
  /\ cur_time' = ep.time
  /\ LET reached == IF output = 0 /\ ep.time = begin_time THEN 1 ELSE output
         starts == reached < 2 /\ ep.time > begin_time
         began == IF starts THEN 2 ELSE reached
         stops == began = 2 /\ ep.time >= end_time
         cut == Cut /\ began <= 2 /\ ~stops
         offs == IF stops THEN sim_all_notes_off(term_time)
                 ELSE IF cut /\ began = 2 THEN sim_all_notes_off(ep.time) ELSE <<>>
         start == IF starts THEN PlayingNotes \o Signature ELSE <<>>
         ended == IF starts THEN FreedAll(partner, EndedNotes) ELSE partner
         named == [i \in DOMAIN offs |->
                    [offs[i] EXCEPT !.id = Made(Len(start) + i)]]
     IN /\ tmp' = tmp \o start \o named \o (IF cut THEN <<ep>> ELSE <<>>)
        /\ partner' = Partnered(ended, named)
        /\ output' = IF stops \/ cut THEN 3 ELSE began
        /\ term_time' = IF cut THEN ep.time ELSE term_time
        /\ stage' = IF cut THEN "check" ELSE "event"
        /\ pos' = IF cut THEN pos + 1 ELSE pos
  /\ UNCHANGED <<input, req, nnotes, note_tbl, ctrl_tbl, timesig, max_time>>

-----------------------------------------------------------------------------
(* The cases.                                                              *)
Case(types) ==
  /\ stage = "event" /\ ep.type \in types
  /\ stage' = "check" /\ pos' = pos + 1
  /\ UNCHANGED <<input, req, output, cur_time, term_time, max_time>>

Retriggers_overlap(k) == Does("Retrigger") /\ nnotes[k] > 1
Retriggers(k) == Does("Retrigger") /\ nnotes[k] > 0

(* With Retrigger, a note that sounds already is ended first.              *)
E_NoteOn ==
  /\ Case({"on"})
  /\ LET k == ep.key
         off == IF Retriggers(k) THEN <<note_off(1, cur_time, k)>> ELSE <<>>
     IN IF output = 3
        THEN partner' = Freed(partner, pos) /\ UNCHANGED <<nnotes, note_tbl, tmp>>
        ELSE /\ IF output = 2
                THEN tmp' = tmp \o off \o <<ep>> /\ partner' = Partnered(partner, off)
                ELSE /\ partner' = IF note_tbl[k] = 0 THEN partner
                                   ELSE Freed(partner, note_tbl[k])
                     /\ UNCHANGED tmp
             /\ nnotes' = [nnotes EXCEPT ![k] = IF @ < MaxCount THEN @ + 1 ELSE @]
             /\ note_tbl' = [note_tbl EXCEPT ![k] = pos]
  /\ UNCHANGED <<ctrl_tbl, timesig>>

(* With Retrigger, only the last of overlapping note-offs ends the note.   *)
Fewer(n) == IF n > 0 THEN n - 1 ELSE n
LastOff(k) == nnotes[k] = 1
E_NoteOff ==
  /\ Case({"off"})
  /\ LET k == ep.key
         off == <<[ep EXCEPT !.irregular = cur_time = input[note_tbl[k]].time]>>
     IN /\ IF output # 2 THEN partner' = Freed(partner, pos) /\ UNCHANGED tmp
           ELSE IF ~Does("Retrigger") THEN tmp' = Append(tmp, ep) /\ UNCHANGED partner
           ELSE IF LastOff(k) THEN tmp' = tmp \o off /\ partner' = Partnered(partner, off)
           ELSE partner' = [partner EXCEPT ![ep.id] = 0] /\ UNCHANGED tmp
        /\ nnotes' = [nnotes EXCEPT ![k] = Fewer(@)]
  /\ UNCHANGED <<note_tbl, ctrl_tbl, timesig>>

E_AllNotesOff ==
  /\ Case({"alloff"})
  /\ LET offs == sim_all_notes_off(cur_time)
     IN IF output # 2 THEN UNCHANGED <<tmp, partner>>
        ELSE IF Does("Retrigger") THEN tmp' = tmp \o offs /\ partner' = Partnered(partner, offs)
        ELSE tmp' = Append(tmp, ep) /\ UNCHANGED partner
  /\ nnotes' = [k \in Note |-> 0]
  /\ UNCHANGED <<note_tbl, ctrl_tbl, timesig>>

(* flush_event: control-points without an end are dropped; a control that  *)
(* lies before begin_time was not output yet.                              *)
Flushed_none(k) == <<>>
Flushed(k) ==
  LET l == ctrl_tbl[k]
  IN IF l # <<>> /\ Last(l).ctype # "Pt" /\ Last(l).time < begin_time THEN <<Last(l)>> ELSE <<>>
FlushAll(keys) == FlattenSeq([i \in 1..Cardinality(keys) |-> Flushed(SetToSeq(keys)[i])])
Emptied(keys) == [k \in Ctrl |-> IF k \in keys THEN <<>> ELSE ctrl_tbl[k]]

(* A reset is for the control changes of its channel: the tempo, pitch     *)
(* bend and other controllers that are not such messages stay as they are. *)
Barrier(keys) ==
  /\ tmp' = tmp \o FlushAll(keys) \o (IF output # 3 THEN <<ep>> ELSE <<>>)
  /\ ctrl_tbl' = Emptied(keys)
  /\ UNCHANGED <<nnotes, note_tbl, timesig, partner>>
E_ResetAllCtrl == Case({"reset"}) /\ Barrier(Change)
E_RPN == Case({"rpn"}) /\ Barrier(DataEntry)

(* Texts; a title at time 0 is always output.                              *)
E_Text ==
  /\ Case({"text", "lyric"})
  /\ tmp' = IF output \in {1, 2} \/ (ep.type = "text" /\ cur_time = 0)
            THEN Append(tmp, ep) ELSE tmp
  /\ UNCHANGED <<nnotes, note_tbl, ctrl_tbl, timesig, partner>>

E_TimeSig ==
  /\ Case({"timesig"})
  /\ tmp' = IF output = 2 THEN Append(tmp, ep) ELSE tmp
  /\ timesig' = IF output = 3 THEN timesig ELSE pos
  /\ UNCHANGED <<nnotes, note_tbl, ctrl_tbl, partner>>

Other ==
  /\ \/ Case({"meta", "end"})
     \/ Case({"ctrl"}) /\ ~Does("ExpandCtrl")
  /\ tmp' = IF output # 3 THEN Append(tmp, ep) ELSE tmp
  /\ UNCHANGED <<nnotes, note_tbl, ctrl_tbl, timesig, partner>>

-----------------------------------------------------------------------------
(* Controls.                                                               *)
Normal(e) == [e EXCEPT !.ctype = ""]
Distance(a, b) == IF a > b THEN a - b ELSE b - a

(* The control a continuous one begins at is the first of these.           *)
Bases(l) == {i \in DOMAIN l : l[i].ctype # "Pt"}

(* The value of the line from (a.time, a.val) to (b.time, b.val) at t; the *)
(* values are chosen such that it is whole.                                *)
OnLine(a, b, t) == a.val + ((t - a.time) * (b.val - a.val)) \div (b.time - a.time)

Point(ref, t, v) == Event(0, ref.type, t, ref.key, "", v, FALSE)

(* generate_line_ctrl between the points a and b, backwards, in front of   *)
(* the points after b.                                                     *)
FarEnough(v, evlist) == Distance(Head(evlist).val, v) >= Thres
Segment(a, b, after) ==
  LET ends == b.time >= begin_time /\ b.time < term_time
      evlist == IF ends THEN <<Normal(b)>> \o after ELSE after
      t1 == IF a.time < begin_time THEN begin_time ELSE a.time
      t2 == IF b.time > term_time THEN term_time ELSE b.time
      line[i \in 0..MaxTime] ==
        LET t == t2 - i * Step IN
        IF i = 0 THEN evlist
        ELSE IF t > t1 /\ (line[i-1] = <<>> \/ FarEnough(OnLine(a, b, t), line[i-1]))
        THEN <<Point(b, t, OnLine(a, b, t))>> \o line[i-1]
        ELSE line[i-1]
  IN IF t2 < t1 THEN evlist
     ELSE IF t1 # a.time THEN <<Point(b, a.time, OnLine(a, b, t1))>> \o line[MaxTime]
     ELSE line[MaxTime]

generate_line_ctrl(points) ==
  LET tail[i \in 1..Len(points)] ==
        IF i = 1 THEN <<>> ELSE Segment(points[i], points[i-1], tail[i-1])
  IN tail[Len(points)]

(* generate_curve_ctrl: of the cubic between two points only its end points *)
(* matter here, and the chord stands for it; a point of the curve that is  *)
(* on the grid is always output.                                           *)
generate_curve_ctrl(points) ==
  LET last == Len(points)
      t1 == IF points[last].time < begin_time THEN begin_time ELSE points[last].time
      t2 == IF points[1].time > term_time THEN term_time ELSE points[1].time
      seg(t) == Min({j \in 2..last : points[j].time <= t})
      value(t) == OnLine(points[seg(t)], points[seg(t)-1], t)
      evlist == IF points[1].time < term_time THEN <<Normal(points[1])>> ELSE <<>>
      curve[i \in 0..MaxTime] ==
        LET t == t2 - i * Step IN
        IF i = 0 THEN evlist
        ELSE IF t > t1 /\ (\/ curve[i-1] = <<>> \/ t = points[seg(t)].time
                          \/ FarEnough(value(t), curve[i-1]))
        THEN <<Point(points[1], t, value(t))>> \o curve[i-1]
        ELSE curve[i-1]
  IN IF t2 < t1 THEN evlist
     ELSE IF t1 # points[last].time
     THEN <<Point(points[1], points[last].time, value(t1))>> \o curve[MaxTime]
     ELSE curve[MaxTime]

(* The points of a continuous control, latest first, and whether there is  *)
(* a first one; a curve must not have two at one time.                     *)
Points(e, l) ==
  <<e>> \o SubSeq(l, 1, Min(Bases(l)))
Drawable(e, l) ==
  /\ Bases(l) # {}
  /\ e.ctype = "CTo" => \A i \in 2..Len(Points(e, l)) :
                           Points(e, l)[i].time # Points(e, l)[i-1].time
Drawn(e, l) ==
  IF e.ctype = "To" THEN generate_line_ctrl(Points(e, l))
  ELSE generate_curve_ctrl(Points(e, l))

(* LASTVAL stands for the value of the control before.                     *)
Valued(e) ==
  IF e.ctype = "" /\ e.val = LASTVAL
  THEN LET b == Bases(ctrl_tbl[e.key])
       IN [e EXCEPT !.val = IF b = {} THEN 0 ELSE ctrl_tbl[e.key][Min(b)].val]
  ELSE e

(* Before begin_time a control is kept, and is output once no continuous   *)
(* one can follow it; points wait for the end of their line.               *)
E_Ctrl ==
  /\ stage = "event" /\ ep.type = "ctrl" /\ Does("ExpandCtrl")
  /\ LET l == ctrl_tbl[ep.key]
         e == Valued(ep)
         set(new) == ctrl_tbl' = [ctrl_tbl EXCEPT ![ep.key] = new]
     IN \/ /\ output = 0
           /\ set(IF e.ctype = "Pt" THEN <<e>> \o l ELSE <<Normal(e)>>)
           /\ stage' = "check" /\ UNCHANGED tmp
        \/ /\ output > 0 /\ e.ctype = ""
           /\ tmp' = tmp \o (IF output = 1 THEN <<>> ELSE Flushed(ep.key))
                         \o (IF output < 3 THEN <<e>> ELSE <<>>)
           /\ set(IF output < 3 THEN <<e>> ELSE <<>>)
           /\ stage' = "check"
        \/ /\ output > 0 /\ e.ctype = "Pt"
           /\ set(IF output < 3 \/ l # <<>> THEN <<e>> \o l ELSE l)
           /\ stage' = "check" /\ UNCHANGED tmp
        \/ /\ output > 0 /\ e.ctype \in {"To", "CTo"} /\ (output < 3 \/ l # <<>>)
           /\ IF Drawable(e, l)
              THEN /\ tmp' = tmp \o Drawn(e, l)
                   /\ set(IF output < 3 THEN <<Normal(e)>> ELSE <<>>)
                   /\ stage' = "check"
              ELSE stage' = "error" /\ UNCHANGED <<tmp, ctrl_tbl>>
        \/ /\ output = 3 /\ e.ctype \in {"To", "CTo"} /\ l = <<>>
           /\ stage' = "check" /\ UNCHANGED <<tmp, ctrl_tbl>>
  /\ pos' = pos + 1
  /\ UNCHANGED <<input, req, output, cur_time, term_time, nnotes, note_tbl, timesig,
                 partner, max_time>>

-----------------------------------------------------------------------------
(* The end of the track.                                                   *)

(* adjust_time shifts the events; a negative begin_time inserts blank bars *)
(* behind the tempo and the signatures at time 0.                          *)
Shifted_below(e) == [e EXCEPT !.time = @ - begin_time]
Shifted(e) ==
  IF begin_time < 0 /\ e.time = 0 /\ (e.type \in {"meta", "timesig"} \/ e.key \in Tempo)
  THEN e
  ELSE [e EXCEPT !.time = IF @ < begin_time THEN 0 ELSE @ - begin_time]

finish ==
  /\ stage = "check" /\ pos > Len(input)
  /\ stage' = "done"
  /\ LET offs == IF Does("Retrigger") /\ output = 2
                 THEN sim_all_notes_off(cur_time) ELSE <<>>
         all == tmp \o offs \o FlushAll(Ctrl) \o (IF output < 2 THEN Signature ELSE <<>>)
         term == IF output < 3 THEN cur_time ELSE term_time
     IN /\ tmp' = IF Does("TimeRange") THEN [i \in DOMAIN all |-> Shifted(all[i])] ELSE all
        /\ partner' = Partnered(partner, offs)
        /\ term_time' = term
        /\ max_time' = Max({max_time, term})
  /\ ctrl_tbl' = Emptied(Ctrl)
  /\ UNCHANGED <<input, req, pos, output, cur_time, nnotes, note_tbl, timesig>>

(* The length of the song is negative if it ends before begin_time.        *)
length == max_time - begin_time

terminated == stage \in {"done", "error"} /\ UNCHANGED vars

Init ==
  /\ stage = "collect" /\ input = <<>>
  /\ req = [oprs |-> {}, begin |-> 0, end |-> 1]
  /\ pos = 1 /\ output = 0 /\ cur_time = 0 /\ term_time = 0
  /\ nnotes = [k \in Note |-> 0] /\ note_tbl = [k \in Note |-> 0]
  /\ ctrl_tbl = [k \in Ctrl |-> <<>>]
  /\ timesig = 0 /\ partner = <<>> /\ tmp = <<>> /\ max_time = 0

(* The scan.                                                               *)
Scan ==
  \/ check_range
  \/ E_NoteOn
  \/ E_NoteOff
  \/ E_AllNotesOff
  \/ E_ResetAllCtrl
  \/ E_RPN
  \/ E_Text
  \/ E_TimeSig
  \/ Other
  \/ E_Ctrl
  \/ finish

Next == collect \/ begin_scan \/ Scan \/ terminated

Spec == Init /\ [][Next]_vars
=============================================================================
