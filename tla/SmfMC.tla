------------------------------- MODULE SmfMC -------------------------------
(* Instances of Smf for TLC.                                               *)
EXTENDS SmfProperties, TLC

CONSTANTS name1, name2

event(dtime, type, data) == [dtime |-> dtime, type |-> type, data |-> data]
SomeEvents ==
  {event(0, MF_MIDI, <<144, 60, 64>>), event(200, MF_MIDI, <<144, 60, 0>>),
   event(0, MF_MIDI, <<192, 5>>), event(16384, MF_SYSEX, <<65, 247>>), event(1, 1, MTrk)}
Names == Permutations(Name)
=============================================================================
