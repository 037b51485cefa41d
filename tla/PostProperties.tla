--------------------------- MODULE PostProperties ---------------------------
(* What post_process must leave of a track.                                *)
EXTENDS PostProcess

(* The track as its effector or the SMF file will see it.                  *)
result == sort_event(tmp)

(* The last event up to a time, of those that satisfy a test.              *)
Upto(s, t, Test(_)) == {i \in DOMAIN s : s[i].time <= t /\ Test(s[i])}

-----------------------------------------------------------------------------
(* After Retrigger a note sounds once at a time: in the order of the sorted *)
(* track its note-ons and note-offs alternate from a note-on to a note-off  *)
(* that has it as its partner.  Overlapping notes, notes held at the limits *)
(* of the range, isolated note-offs and all_notes_off must not break it.    *)
Alternating ==
  stage = "done" /\ Does("Retrigger") => \A k \in Note :
    LET s == SelectSeq(result, LAMBDA e : e.type \in {"on", "off"} /\ e.key = k)
    IN /\ Len(s) % 2 = 0
       /\ \A i \in DOMAIN s :
            IF i % 2 = 1 THEN s[i].type = "on"
            ELSE s[i].type = "off" /\ partner[s[i].id] = s[i-1].id

(* A key sounds in the result exactly while some note of it sounds in the  *)
(* track, for the part that is played, and its events alternate: note-offs *)
(* that find no note, and all_notes_off, count as they do there.           *)
Sounding(k, t) ==
  LET s == SelectSeq(input, LAMBDA e : e.type \in {"alloff"} \/ e.key = k)
      n[i \in 0..Len(s)] ==
        IF i = 0 THEN 0
        ELSE CASE s[i].time > t \/ s[i].type \notin {"on", "off", "alloff"} -> n[i-1]
               [] s[i].type = "on" -> n[i-1] + 1
               [] s[i].type = "off" -> IF n[i-1] > 0 THEN n[i-1] - 1 ELSE 0
               [] OTHER -> 0
  IN n[Len(s)] > 0
\* The times that the requested range covers.
Played(t) == t >= 0 /\ t >= begin_time /\ t < term_time
NotesHeld ==
  /\ Alternating
  /\ stage = "done" /\ Does("Retrigger") =>
    \A k \in Note, t \in 0..MaxTime : Played(t) =>
      LET is(e) == e.type \in {"on", "off"} /\ e.key = k
          before == Upto(result, t - begin_time, is)
      IN Sounding(k, t) <=> before # {} /\ result[Max(before)].type = "on"

-----------------------------------------------------------------------------
(* A controller has, at every time that is played, the value the track     *)
(* gives it: that of its latest control, or that of the line it lies on,   *)
(* up to thres and the change of one step.  A line may begin before the    *)
(* range and end behind it; points that no ctrl_to follows do not count.   *)
(* (Where a reset or an RPN for it came before, nothing is known.)         *)
Barriers(k) ==
  (IF k \in Change THEN {"reset"} ELSE {}) \cup (IF k \in DataEntry THEN {"rpn"} ELSE {})
Line(k) ==
  SelectSeq(input, LAMBDA e : e.key = k \/ e.type \in Barriers(k))
IsBase(e) == e.type = "ctrl" /\ e.ctype # "Pt"
Resolved(s, i) ==
  IF s[i].val # LASTVAL THEN s[i].val
  ELSE LET b == {j \in 1..(i-1) : IsBase(s[j]) /\ s[j].val # LASTVAL}
       IN IF b = {} THEN 0 ELSE s[Max(b)].val
Drawing(s, i) ==
  /\ s[i].type = "ctrl"
  /\ \E j \in (i+1)..Len(s) :
       /\ s[j].ctype \in {"To", "CTo"}
       /\ \A m \in (i+1)..(j-1) : s[m].ctype = "Pt"
ControlsFollow ==
  stage = "done" /\ Does("ExpandCtrl") =>
    \A k \in Ctrl, t \in 0..MaxTime :
      LET s == Line(k)
          at == Upto(s, t, LAMBDA e : TRUE)
          bases == Upto(s, t, IsBase)
          is(e) == e.type = "ctrl" /\ e.key = k
          force == Upto(result, t - begin_time, is)
          value == result[Max(force)].val
          p(i) == [s[i] EXCEPT !.val = Resolved(s, i)]
          clear == \A i \in at : s[i].type = "ctrl"
      IN Played(t) /\ bases # {} /\ clear =>
           /\ force # {}
           /\ IF Drawing(s, Max(at))
              THEN LET i == Max(at)
                       change == Distance(OnLine(p(i), s[i+1], t), OnLine(p(i), s[i+1], t - Step))
                   IN Distance(value, OnLine(p(i), s[i+1], t)) < Thres + change + 1
              ELSE value = Resolved(s, Max(bases))

-----------------------------------------------------------------------------
(* The length of the song covers every event: smfout ends a track by the   *)
(* difference, of which a negative one would lose all but its low 7 bits.  *)
LengthCovers ==
  stage = "done" => \A i \in DOMAIN tmp : tmp[i].time \in 0..Max({0, length})

(* The signature in force is kept however the range is cut out.            *)
SignatureKept ==
  stage = "done" => \A t \in 0..MaxTime : Played(t) =>
    LET is(e) == e.type = "timesig"
        was == Upto(input, t, is)
        now == Upto(result, t - begin_time, is)
    IN was # {} => now # {} /\ result[Max(now)].id = Max(was)
=============================================================================
