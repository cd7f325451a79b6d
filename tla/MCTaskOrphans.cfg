SPECIFICATION Spec
CONSTANTS
  MaxPid = 3
  TimeSlice = 0
  Code = {0}
  WaitArg <- AnyOrOne
  Leader = {2}
  Sleeper = {1, 2}
  Detachable = {2, 3}
  NULL = NULL
  Head = Head
PROPERTIES
  DeathCleansUpZombies
