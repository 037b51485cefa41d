(* Every command, on short programs. *)
CONSTANTS
  thd1 = thd1  thd2 = thd2  thd3 = thd3  ch1 = ch1  ch2 = ch2
  Thread = {thd1, thd2, thd3}
  Root = thd1
  NoThread = NoThread
  Channel = {ch1, ch2}
  NoChannel = NoChannel
  Freed = Freed
  MaxTime = 2
  Fuel = 5
  Commands <- Everything
  AltGuards <- AltOfTwo
  Default <- YesNo
  Bind <- YesNo
  Loaded <- YesNo
SPECIFICATION Spec
SYMMETRY Interchangeable
INVARIANTS TypeOK OneState ChildCount CompleteAtEnd BreakHasTarget NoLostWakeup SleeperMatches MessageOrder ReceivedOnce
