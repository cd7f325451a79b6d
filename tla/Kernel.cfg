\* Semaphores: a mutex, ticks of three bits; two workers and a system call.
\* Signals: SIGKILL, SIGSEGV, SIGSTOP, SIGCHLD and SIGUSR1, one for each default.
\* The heap: pages of eight units, of which the header takes two and the
\* footer one.
SPECIFICATION Spec
CONSTANTS
  NULL = NULL
  SemTasks = {t1, t2, t3}
  Workers = {t2, t3}
  MaxUnits = 1
  Ticks = 8
  SemTicks = 2
  Timeouts = {0, 2}
  QueueTimeouts = {2, 7}
  Callers = {c1}
  MaxSlots = 3
  MaxTick = 4
  Tasks = {monitor, a1, a2}
  Monitor = monitor
  Nested = TRUE
  MaxEvents = 4
  Timed = TRUE
  Sigs = {9, 11, 17, 20, 30}
  MaxRaises = 3
  MaxSteps = 2
  PAGE_SIZE = 8
  Header = 2
  Footer = 1
  memmax = 32
  Lengths = {0, 1, 6, 30}
  MaxGiven = 3
  Processes = {init, a, b}
  init = init
  NumFrames = 9
  MaxSignals = 1
  MaxBorn = 2
INVARIANTS
  UnitsConserved
  FramesAccounted
  
PROPERTIES
  
  StepsRight
  WaitsEnd
CHECK_DEADLOCK FALSE
