(* Writing two tracks, and loading them in any order. *)
CONSTANTS
  name1 = name1  name2 = name2
  Events <- SomeEvents
  MaxTracks = 2
  MaxEvents = 3
  MaxCuts = 1
  SMF_BLKSIZE = 4
  Memory = {2, 20}
  Rests = {3}
  MAX_LOAD = 1
  Name = {name1, name2}
SPECIFICATION Spec
INVARIANTS SameEitherWay ReadBack NoFalseEnd
SYMMETRY Names
