SPECIFICATION PipeFairSpec
CONSTANTS
  Tasks = {r1, r2, w1, k1}
  Readers = {r1, r2}
  Writers = {r2, w1, k1}
  Workers = {k1}
  Length = 3
  MaxBytes = 5
  Counts = {1, 2}
  NULL = NULL
INVARIANTS PipeTypeOK RingHoldsUnread NoSleepOverData SleeperIsReader
PROPERTY DataWakes
CHECK_DEADLOCK FALSE
