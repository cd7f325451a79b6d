SPECIFICATION Spec
CONSTANTS
  Tasks = {t1, t2}
  Id = {i1}
  MESG_ANY = any
  MaxMesg = 1
  Mortal = {}
  Readers = {t1}
  Writers = {t2}
  Workers = {}
  Length = 2
  MaxBytes = 1
  Counts = {1}
  NULL = NULL
INVARIANT WokenHasMessage
CHECK_DEADLOCK FALSE
