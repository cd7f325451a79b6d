--------------------------------- MODULE Kernel ---------------------------------
(***************************************************************************)
(* What the kernel gives its tasks besides running them: semaphores (Sem), *)
(* timer callbacks (Timer), events (Event), signals (Signal), memory of    *)
(* its own (Kheap) and address spaces (Paging).                            *)
(*                                                                         *)
(* The components share no variable: Sem and Event have what they need of  *)
(* the clock, and Event the semaphores' outcome, in their own state.  A    *)
(* behaviour moves one of them, chosen at the start.  Semaphores are       *)
(* looked at twice: with workers, which can be interrupted ("sem"), and    *)
(* with system calls only ("queue"), where waiting ends.                   *)
(***************************************************************************)
EXTENDS Timer, Event, Signal, Kheap, Paging

CONSTANTS
  SemTasks, Workers, MaxUnits, Ticks, SemTicks, Timeouts,
  QueueTimeouts    \* of the tasks that wait by system calls

VARIABLES
  part,    \* the component that moves
  semwait, sempc, exists, semunits, lock, tasks, earliest_timeout, t_timeout, now,
  semarmed, semarg, result, held, semcpu

semVars == <<semwait, sempc, exists, semunits, lock, tasks, earliest_timeout, t_timeout,
             now, semarmed, semarg, result, held, semcpu>>
vars == <<part, semVars, timerVars, eventVars, signalVars, heapVars, pagingVars>>

-----------------------------------------------------------------------------
(* Semaphores with workers and system calls. *)
S == INSTANCE SemProofs WITH
  Tasks <- SemTasks, MaxTick <- SemTicks, t_wait <- semwait, pc <- sempc,
  units <- semunits, armed <- semarmed, arg <- semarg, cpu <- semcpu

(* Tasks that wait by system calls, with a timeout. *)
Q == INSTANCE SemProofs WITH
  Tasks <- SemTasks, MaxTick <- SemTicks, Workers <- {}, Timeouts <- QueueTimeouts,
  t_wait <- semwait, pc <- sempc, units <- semunits, armed <- semarmed, arg <- semarg,
  cpu <- semcpu

(* One task registers callbacks; timer_callback is not safe for two. *)
ASSUME KernelAssumption ==
  /\ S!SemAssumption /\ Q!SemAssumption /\ EventAssumption /\ SignalAssumption
  /\ TimerAssumption /\ \E c \in Callers : Callers = {c}
  /\ KheapAssumption /\ PagingAssumption

Init ==
  /\ part \in {"sem", "queue", "timer", "event", "signal", "heap", "paging"}
  /\ S!Init /\ TimerInit /\ EventInit /\ SignalInit /\ HeapInit /\ PagingInit

SemMoves ==
  /\ \/ part = "sem" /\ S!Next
     \/ part = "queue" /\ Q!Next
  /\ UNCHANGED <<part, timerVars, eventVars, signalVars, heapVars, pagingVars>>

Next ==
  \/ SemMoves
  \/ /\ part = "timer" /\ TimerNext
     /\ UNCHANGED <<part, semVars, eventVars, signalVars, heapVars, pagingVars>>
  \/ /\ part = "event" /\ EventNext
     /\ UNCHANGED <<part, semVars, timerVars, signalVars, heapVars, pagingVars>>
  \/ /\ part = "signal" /\ SignalNext
     /\ UNCHANGED <<part, semVars, timerVars, eventVars, heapVars, pagingVars>>
  \/ /\ part = "heap" /\ HeapNext
     /\ UNCHANGED <<part, semVars, timerVars, eventVars, signalVars, pagingVars>>
  \/ /\ part = "paging" /\ PagingNext
     /\ UNCHANGED <<part, semVars, timerVars, eventVars, signalVars, heapVars>>

(* Tasks that hold a unit signal, and tasks that are awake run on.  The      *)
(* timer preempts, the scheduler chooses every task that is ready, and       *)
(* signal handlers end.                                                      *)
Fairness ==
  /\ \A t \in SemTasks : /\ WF_semVars(part = "queue" /\ Q!sem_signal(t))
                         /\ WF_semVars(part = "queue" /\ Q!WaitReturns(t))
  /\ WF_signalVars(part = "signal" /\ Leaves("ready"))
  /\ WF_signalVars(part = "signal" /\ signal_preempt)
  /\ SF_signalVars(part = "signal" /\ signal_return)

Spec == Init /\ [][Next]_vars /\ Fairness

-----------------------------------------------------------------------------
(* The properties. Each conjunct is explained where its component states it. *)

(* The units of a semaphore are conserved through every race of signals,     *)
(* timeouts and returns: those left, held and on their way to a waiter are   *)
(* the ones sem_alloc was given; there are units only when nobody waits; the *)
(* queue holds each waiter once, and only tasks inside sem_wait.             *)
UnitsConserved ==
  /\ part = "sem" => S!UnitsConserved
  /\ part = "queue" => Q!UnitsConserved

(* Every frame is accounted for: a mapped frame is reserved and mapped once, *)
(* every reserved frame belongs to a directory and goes with it, and a       *)
(* present page has its table (copy_page_dir, strip_page_dir, alloc_page,    *)
(* free_page_dir).                                                           *)
FramesAccounted == part = "paging" => FramesOwned

(* What the kernel has on record is what is there, nothing lost and nothing  *)
(* invented.  The timer list holds every registered callback, once, in the   *)
(* order of time (timer_callback, timer_interrupt), until a callback is put  *)
(* before two later ones.  event_monitor takes an event only when there is   *)
(* one, in the order they were raised.  signal_check, which looks at the     *)
(* bitmap only when nraised is not 0, overlooks none, and however handlers   *)
(* nest the main program goes on where it was.  The blocks fill the heap,    *)
(* each is a hole or a caller's and never both or neither, the holes are in  *)
(* order of size and none lie side by side (heap_alloc, heap_free).          *)
RecordsRight ==
  /\ part = "timer" => TimerTypeOK /\ ListIsRight
  /\ part = "event" => EventTypeOK /\ TakesAnEvent /\ OldestFirst
  /\ part = "signal" => SignalTypeOK /\ NoSignalOverlooked /\ ResumesMain
  /\ part = "heap" => HeapTypeOK /\ Tiles /\ HolesAreTheRest /\ BestFirst /\ Merged

(* No step forgets what it owes: when a tick is over no callback that was    *)
(* due at it is left (timer_interrupt); a SIGKILL that is lowered has ended  *)
(* the task, unless it executed another program (signal_check); what a task  *)
(* writes after copy_page_dir no other task sees.                            *)
StepsRight == EveryDueFires /\ KillIsTaken /\ Private

(* With every holder signalling in time each call of sem_wait returns, and a *)
(* SIGKILL that is raised ends the task, unless it sleeps, is stopped or     *)
(* executes another program.                                                 *)
WaitsEnd ==
  /\ part = "queue" => Q!NoStarvation
  /\ part = "signal" => KillKills
=============================================================================
