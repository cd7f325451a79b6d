SPECIFICATION FairSpec
CONSTANTS
  MaxPid = 3
  TimeSlice = 1
  Code = {0}
  WaitArg <- Any
  Leader = {}
  Sleeper = {1, 2}
  Detachable = {2, 3}
  NULL = NULL
  Head = Head
PROPERTIES
  
  ExitsAreBuried
  WaitersReturn
