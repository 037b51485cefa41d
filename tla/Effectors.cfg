(* Two effectors on top of $smfout, shared by threads. *)
CONSTANTS
  Tracks = 2
  Chan = {1}
  Times = {0, 1}
  Programs <- Several
  Threads = 5
  Effs = 3
  Events = 3
  Commands = 4
  Limit = 31
SPECIFICATION Spec
INVARIANTS ValidFlags NoneLost NoDangling SequencesOrdered
