(* Progress: ===, groups and alts that loop. *)
CONSTANTS
  thd1 = thd1  thd2 = thd2  thd3 = thd3  ch1 = ch1  ch2 = ch2
  Thread = {thd1, thd2, thd3}
  Root = thd1
  NoThread = NoThread
  Channel = {ch1}
  NoChannel = NoChannel
  Freed = Freed
  MaxTime = 2
  Fuel = 5
  Commands <- Loops_
  AltGuards <- OneGuard
  Default <- YesNo
  Bind <- No
  Loaded <- No
SPECIFICATION FairSpec
PROPERTIES Termination NoStarvation SyncWaits LifeCycle
