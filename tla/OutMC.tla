------------------------------- MODULE OutMC -------------------------------
(* Instances of SmfOut for TLC.                                            *)
EXTENDS OutProperties

CONSTANTS a, tempo, v, none

plain(type) == [type |-> type, key |-> none, ctype |-> "", val |-> 0]
on_event == [type |-> "on", key |-> a, ctype |-> "", val |-> 64]
off_event == [type |-> "off", key |-> a, ctype |-> "", val |-> NOVELOC]
control(k, val) == [type |-> "ctrl", key |-> k, ctype |-> "", val |-> val]
line(k, val) == [type |-> "ctrl", key |-> k, ctype |-> "To", val |-> val]

Some == {[kinds |-> {on_event, off_event}, len |-> 4],
         [kinds |-> {on_event, off_event, control(v, 0), plain("end")}, len |-> 3],
         [kinds |-> {control(tempo, 1), plain("timesig"), plain("lyric")}, len |-> 2],
         [kinds |-> {control(tempo, 2), line(tempo, 4)}, len |-> 2]}

option(format, pack, no_retrigger, all, range, detached) ==
  [format |-> format, pack_tracks |-> pack, no_retrigger |-> no_retrigger, all |-> all,
   range |-> range # <<>>, begin |-> IF range = <<>> THEN 0 ELSE range[1],
   end |-> IF range = <<>> THEN 0 ELSE range[2], detached |-> detached]
Several ==
  {option(0, FALSE, FALSE, TRUE, <<>>, 0), option(0, FALSE, FALSE, TRUE, <<1, 3>>, 2),
   option(1, FALSE, FALSE, FALSE, <<>>, 3), option(1, TRUE, FALSE, FALSE, <<-1, 2>>, 1),
   option(-1, FALSE, TRUE, FALSE, <<1, 2>>, 0),
   option(2, TRUE, FALSE, FALSE, <<>>, 3), option(2, FALSE, TRUE, TRUE, <<>>, 0)}
Faded == {[kinds |-> {on_event, off_event, control(v, 0), plain("end")}, len |-> 4]}
Plainly == {option(0, FALSE, FALSE, TRUE, <<>>, 0)}
NoRequests == {}
=============================================================================
