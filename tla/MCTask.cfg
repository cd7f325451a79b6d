SPECIFICATION Spec
CONSTANTS
  MaxPid = 3
  TimeSlice = 1
  Code = {0, 1}
  WaitArg <- AnyOrOne
  Leader = {2}
  Sleeper = {1, 2}
  Detachable = {2, 3}
  NULL = NULL
  Head = Head
INVARIANTS
  TypeOK
  
  
  FamilyConsistent
  NoMissedExit
  WokenByZombie
  RunsOnLiveMemory
PROPERTIES
  FreesOnlyZombies
  ImplementsLifecycle
