SPECIFICATION MessageSpec
CONSTANTS
  Tasks = {t1, t2}
  Id = {i1, i2}
  MESG_ANY = any
  MaxMesg = 4
  Mortal = {t1}
INVARIANTS MessageTypeOK WokenHasMessage NoSleepOverMessages
PROPERTIES PopsInOrder NothingSkipped
CHECK_DEADLOCK FALSE
