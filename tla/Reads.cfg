CONSTANTS
  Absent = Absent
  Bad = Bad
  MaxChanges = 1
  MaxInt = 7
  Times = {1, 2, 3}
  MaxDocs = 4
  PageParams <- SomePages
  LimitParams <- SomeLimits
  DefaultLimit = 1
  MaxLimit = 3
  Habits = {"short page", "total"}
SPECIFICATION Spec
INVARIANTS
  ReadsTypeOK
  ReadyIsFounded
  WalkIsComplete
  RepeatsAreArrivals
  PageFitsTotal
PROPERTY ReadyCheckEnds
