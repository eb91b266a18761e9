SPECIFICATION FairSpec
CONSTANTS
  c1 = c1
  c2 = c2
  w = w
  Callers <- MCCallers
  Owner <- c1
  Worker <- w
  Types <- MCTypes
  MaxPosts = 2
  Horizon = 1
INVARIANTS
  TypeOK
  FirstInFirstOut
  SleepCovered
  DrainedAtExit
PROPERTIES
  DestructorReturns
  ImplementsSchedule
