(* === and a thread that was switched to with +. *)
CONSTANTS
  thd1 = thd1  thd2 = thd2  thd3 = thd3  ch1 = ch1  ch2 = ch2
  Thread = {thd1, thd2, thd3}
  Root = thd1
  NoThread = NoThread
  Channel = {ch1}
  NoChannel = NoChannel
  Freed = Freed
  MaxTime = 2
  Fuel = 4
  Commands <- Avoiding
  AltGuards <- OneGuard
  Default <- YesNo
  Bind <- No
  Loaded <- No
SPECIFICATION Spec
SYMMETRY Interchangeable
PROPERTIES SyncIgnoresPlus
