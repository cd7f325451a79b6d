SPECIFICATION PipeFairSpec
CONSTANTS
  Tasks = {r1, w1}
  Readers = {r1}
  Writers = {w1}
  Workers = {}
  Length = 3
  MaxBytes = 2
  Counts = {1, 2}
  NULL = NULL
PROPERTY ReadEndsWithWriters
CHECK_DEADLOCK FALSE
