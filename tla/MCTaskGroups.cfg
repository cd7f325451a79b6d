SPECIFICATION Spec
CONSTANTS
  MaxPid = 3
  TimeSlice = 0
  Code = {0}
  WaitArg <- AnyOrGroup
  Leader = {1, 2}
  Sleeper = {1, 2}
  Detachable = {2, 3}
  NULL = NULL
  Head = Head
INVARIANTS
  NoMissedGroupExit
