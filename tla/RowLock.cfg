CONSTANTS
  a1 = a1
  unknown = unknown
  NoCaller = NoCaller
  Accounts = {a1}
  Callers = {c1, c2, c3}
  Calls <- MCCalls
  MaxBalance = 3
  MaxAmount = 30
SPECIFICATION FairSpec
INVARIANT LockInvariant
PROPERTIES
  AtomicUpdates
  WholeCents
  CallsReturn
