----------------------------- MODULE KernelProofs -----------------------------
(***************************************************************************)
(* What the components' proofs say of the kernel: all its safety           *)
(* properties, for every number of tasks, units, slots, events, signals,   *)
(* frames and every size of the heap.  A step of the kernel is a step of   *)
(* each component or leaves it alone, so that what is proved of a          *)
(* component's own behaviours holds of the kernel's.                       *)
(***************************************************************************)
EXTENDS Kernel, MemoryProofs, ServiceProofs

LEMMA PartsMove ==
  [Next]_vars => /\ [TimerNext]_timerVars /\ [EventNext]_eventVars
                 /\ [SignalNext]_signalVars
                 /\ [HeapNext]_heapVars /\ [PagingNext]_pagingVars
BY DEF Next, SemMoves, vars

LEMMA PartsStart ==
  Init => TimerInit /\ EventInit /\ SignalInit /\ HeapInit /\ PagingInit
BY DEF Init

LEMMA PartsBehave ==
  Spec => TimerSpec /\ EventSpec /\ SignalSpec /\ HeapSpec /\ PagingSpec
BY PartsMove, PartsStart, PTL DEF Spec, TimerSpec, EventSpec, SignalSpec, HeapSpec, PagingSpec

-----------------------------------------------------------------------------
(* Semaphores: the inductive invariant of Sem, of the instance that moves. *)
SemInv == /\ part = "sem" => S!IInv
          /\ part = "queue" => Q!IInv

(* sem_wait, sem_signal and sem_timeout neither make nor lose a unit,       *)
(* whatever the tasks, the timeouts and the width of tick_t.                *)
THEOREM UnitsConservedAlways == Spec => []UnitsConserved
<1>1. Init => SemInv
  <2>1. S!Init => Q!Init
    BY DEF S!Init, Q!Init
  <2> QED BY <2>1, S!Invariance, Q!Invariance, KernelAssumption DEF Init, SemInv
<1>2. SemInv /\ [Next]_vars => SemInv'
  <2>1. /\ S!IInv /\ [S!Next]_(S!vars) => S!IInv'
        /\ Q!IInv /\ [Q!Next]_(Q!vars) => Q!IInv'
    BY S!Invariance, Q!Invariance, KernelAssumption
  <2>2. [Next]_vars => /\ part' = part
                       /\ part = "sem" => [S!Next]_(S!vars)
                       /\ part = "queue" => [Q!Next]_(Q!vars)
    BY DEF Next, SemMoves, vars, semVars, S!vars, S!semVars, Q!vars, Q!semVars
  <2> QED BY <2>1, <2>2 DEF SemInv
<1>3. SemInv => UnitsConserved
  BY S!Invariance, Q!Invariance, KernelAssumption DEF SemInv, UnitsConserved
<1> QED BY <1>1, <1>2, <1>3, PTL DEF Spec

-----------------------------------------------------------------------------
(* Every frame has its one owner and every owner its frames, for any number *)
(* of tasks and frames.                                                     *)
THEOREM FramesAccountedAlways == Spec => []FramesAccounted
<1>1. PagingSpec => []FramesOwned
  BY FramesOwnedAlways, KernelAssumption
<1>2. FramesOwned => FramesAccounted
  BY DEF FramesAccounted
<1> QED BY <1>1, <1>2, PartsBehave, PTL

(* What the kernel has on record is what is there: the timer list, the      *)
(* events, the signals and the heap, for any number and any size of them.   *)
THEOREM RecordsRightAlways == Spec => []RecordsRight
<1>1. TimerSpec => [](TimerTypeOK /\ ListIsRight)
  <2>1. PICK c \in Callers : Callers = {c}
    BY KernelAssumption
  <2> QED BY <2>1, TimerRight, KernelAssumption
<1>2. EventSpec => [](EventTypeOK /\ TakesAnEvent /\ OldestFirst)
  BY EventsRight, KernelAssumption
<1>3. /\ SignalSpec => []SignalTypeOK
      /\ SignalSpec => []NoSignalOverlooked
      /\ SignalSpec => []ResumesMain
  BY SignalTypeCorrect, NoSignalOverlookedAlways, ResumesMainAlways, KernelAssumption
<1>4. HeapSpec => [](Tiles /\ HolesAreTheRest /\ BestFirst /\ Merged /\ HeapTypeOK)
  BY HeapRight, KernelAssumption
<1>5. /\ TimerTypeOK /\ ListIsRight
      /\ EventTypeOK /\ TakesAnEvent /\ OldestFirst
      /\ SignalTypeOK /\ NoSignalOverlooked /\ ResumesMain
      /\ Tiles /\ HolesAreTheRest /\ BestFirst /\ Merged /\ HeapTypeOK
      => RecordsRight
  BY DEF RecordsRight
<1> QED BY <1>1, <1>2, <1>3, <1>4, <1>5, PartsBehave, PTL

(* What heap_alloc gives to a caller nobody else has, and it is as long as  *)
(* was asked for: the heap implements Allocator.                            *)
THEOREM AllocatorImplemented == Spec => ImplementsAllocator
<1>1. HeapSpec => ImplementsAllocator
  BY HeapAllocates, KernelAssumption
<1> QED BY <1>1, PartsBehave, PTL

(* No step forgets what it owes: callbacks that are due fire, a SIGKILL     *)
(* that is taken ends the task, and no task sees what another writes.       *)
THEOREM StepsRightAlways == Spec => StepsRight
<1>1. TimerSpec => EveryDueFires
  <2>1. PICK c \in Callers : Callers = {c}
    BY KernelAssumption
  <2> QED BY <2>1, TimerRight, KernelAssumption
<1>2. SignalSpec => KillIsTaken
  BY KillIsTakenAlways, KernelAssumption
<1>3. PagingSpec => Private
  BY PrivateAlways, KernelAssumption
<1> QED BY <1>1, <1>2, <1>3, PartsBehave, PTL DEF StepsRight
=============================================================================
