SPECIFICATION MessageSpec
CONSTANTS
  Tasks = {t1, t2}
  Id = {i1}
  MESG_ANY = any
  MaxMesg = 3
  Mortal = {t1}
INVARIANT ContainersReachable
CHECK_DEADLOCK FALSE
