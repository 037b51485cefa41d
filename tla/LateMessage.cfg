(* A message sent after a later one was received. *)
CONSTANTS
  thd1 = thd1  thd2 = thd2  thd3 = thd3  ch1 = ch1  ch2 = ch2
  Thread = {thd1, thd2, thd3}
  Root = thd1
  NoThread = NoThread
  Channel = {ch1}
  NoChannel = NoChannel
  Freed = Freed
  MaxTime = 1
  Fuel = 7
  Commands <- Waiting
  AltGuards <- NoGuards
  Default <- No
  Bind <- No
  Loaded <- No
SPECIFICATION Spec
SYMMETRY Interchangeable
INVARIANTS NoMessageSkipped
