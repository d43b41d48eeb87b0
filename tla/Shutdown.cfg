CONSTANTS
  m1 = m1
  m2 = m2
  NoMsg = NoMsg
  Messages = {m1, m2}
  Settings <- SomeSettings
  MaxInt = 3
  DefaultCount = 2
  Attempts = 2
SPECIFICATION FairSpec
INVARIANTS
  ProcessTypeOK
  EveryCountAsTold
  GracefulCutsNothing
  OnlyFinishedWorkIsAcked
  OneHolder
  AcceptedIsStaffed
PROPERTY SignalEnds
