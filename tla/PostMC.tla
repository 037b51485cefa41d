------------------------------- MODULE PostMC -------------------------------
(* Instances of PostProcess for TLC.                                       *)
EXTENDS PostProperties

CONSTANTS a, c, d, none

plain(type) == [type |-> type, key |-> none, ctype |-> "", val |-> 0]
note(type) == [type |-> type, key |-> a, ctype |-> "", val |-> 0]
control(k, ctype, val) == [type |-> "ctrl", key |-> k, ctype |-> ctype, val |-> val]

(* Tracks of notes, of controls and of signatures.  The differences of the *)
(* values are multiples of all differences of times.                       *)
Notes == {note("on"), note("off"), plain("alloff"), plain("end")}
Controls ==
  {control(c, "", 0), control(c, "", LASTVAL), control(c, "Pt", 36),
   control(c, "To", 6), control(c, "CTo", 12), plain("end")}
Entries ==
  {control(d, "", 0), control(d, "To", 6), control(c, "", 6), plain("rpn"), plain("reset")}
Metas == {plain("meta"), plain("text"), plain("lyric"), plain("timesig"), plain("end")}
Small == {[kinds |-> Notes, len |-> 4], [kinds |-> Controls, len |-> 4],
          [kinds |-> Entries, len |-> 3], [kinds |-> Metas, len |-> 3]}

Whole == {"ExpandCtrl", "CutAfterEnd", "Retrigger"}
AllRequests ==
  {[oprs |-> {"TimeRange"} \cup Whole, begin |-> r[1], end |-> r[2]] :
     r \in {<<-1, 2>>, <<0, 2>>, <<1, 3>>, <<2, 4>>}}
  \cup {[oprs |-> o, begin |-> 0, end |-> 4] :
          o \in {Whole, {"Retrigger"}, {"ExpandCtrl", "CutAfterEnd"}}}
=============================================================================
