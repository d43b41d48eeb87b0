CONSTANTS
  a1 = a1
  r1 = r1
  r2 = r2
  i1 = i1
  i2 = i2
  w1 = w1
  w2 = w2
  NoMsg = NoMsg
  Accounts = {a1}
  Requests = {r1, r2}
  Instances = {i1}
  Workers = {w1, w2}
  Host <- OneHost
  Bodies <- MixedBodies
  OpeningBalances = {2}
  MaxBalance = 4
  Faults = {"crash"}
  MaxFaults = 1
SPECIFICATION Spec
INVARIANT AtMostOneEffect
