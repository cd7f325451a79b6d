------------------------------ MODULE SemProofs ------------------------------
(***************************************************************************)
(* Proofs about module Sem, for any number of tasks, workers and units and *)
(* any clock: the units of a semaphore are conserved, none is left idle,   *)
(* and the queue holds each waiter once.                                   *)
(***************************************************************************)
EXTENDS Sem, OrderProofs

-----------------------------------------------------------------------------
(* Who waits has no unit, who signals has one, and who sleeps in the queue  *)
(* is not awake: only Grant and sem_timeout wake it, and both take it out.  *)
Places ==
  \A t \in Tasks :
    /\ pc[t] \in {"wait", "enqueued", "sleep"} => t \notin held
    /\ pc[t] = "signal" => t \in held
    /\ pc[t] = "sleep" /\ t \in Range(tasks) => t_wait[t] # "none"

(* The waiters whose unit is on its way to them. *)
Given == {t \in Tasks : Granted(t)}

(* The inductive invariant. *)
Sound == Places /\ QueueOfWaiters /\ NoIdleUnits /\ Conserved
IInv == TypeOK /\ Sound

-----------------------------------------------------------------------------
(* The deadline sem_wait computes is a tick, whatever the sum is. *)
LEMMA DeadlineIsTick ==
  ASSUME SemAssumption, NEW a \in Tick, NEW b \in Tick
  PROVE  (a + b) % Ticks \in Tick
BY DEF SemAssumption, Tick

LEMMA InitIsSound ==
  ASSUME SemAssumption
  PROVE  Init => IInv
<1> SUFFICES ASSUME Init PROVE IInv
  BY Zenon
<1>1. TypeOK
  BY SemAssumption DEF SemAssumption, Init, TypeOK, Flags, Tick
<1>2. Range(tasks) = {} /\ IsInjective(tasks)
  BY DEF Init, Range, IsInjective
<1>3. Places /\ QueueOfWaiters /\ NoIdleUnits
  BY <1>2, Zenon DEF Init, Places, QueueOfWaiters, NoIdleUnits
<1>4. Given = {} /\ held = {} /\ units = MaxUnits
  BY Zenon DEF Init, Granted, Given
<1>5. Conserved
  BY <1>4, FS_EmptySet DEF SemAssumption, Conserved, Given
<1> QED BY <1>1, <1>3, <1>5, Zenon DEF IInv, Sound

(* Joining the queue keeps the types. *)
LEMMA EnqueueTypes ==
  ASSUME SemAssumption, TypeOK, NEW t \in Tasks, NEW timeout \in Tick,
         Enqueue(t, timeout)
  PROVE  /\ tasks' \in Seq(Tasks) /\ t_timeout' \in [Tasks -> Tick]
         /\ earliest_timeout' \in Tick /\ armed' \subseteq Tick
<1> DEFINE deadline == (now + timeout) % Ticks
<1>1. deadline \in Tick
  BY DeadlineIsTick, Zenon DEF TypeOK
<1>2. /\ tasks' = Append(tasks, t)
      /\ t_timeout' = [t_timeout EXCEPT ![t] = deadline]
      /\ \/ earliest_timeout' = deadline /\ armed' = armed \cup {deadline}
         \/ earliest_timeout' = earliest_timeout /\ armed' = armed
  BY Zenon DEF Enqueue
<1> HIDE DEF deadline
<1> QED BY <1>1, <1>2 DEF TypeOK

(* So does giving a unit back, when there is room for it. *)
LEMMA GrantTypes ==
  ASSUME SemAssumption, TypeOK, Grant, units < MaxUnits
  PROVE  /\ tasks' \in Seq(Tasks) /\ t_timeout' \in [Tasks -> Tick]
         /\ t_wait' \in [Tasks -> Flags] /\ units' \in 0 .. MaxUnits
<1>1. CASE tasks = <<>>
  BY <1>1 DEF Grant, TypeOK, SemAssumption
<1>2. CASE tasks # <<>>
  <2>1. Head(tasks) \in Tasks /\ Tail(tasks) \in Seq(Tasks)
    BY <1>2 DEF TypeOK
  <2>2. 1 \in Tick
    BY DEF SemAssumption, Tick
  <2> QED BY <1>2, <2>1, <2>2, SMTT(30), ZenonT(30) DEF Grant, TypeOK, task_wakeup, Flags
<1> QED BY <1>1, <1>2, Zenon

-----------------------------------------------------------------------------
LEMMA Counts ==
  ASSUME SemAssumption, IInv
  PROVE  /\ IsFiniteSet(held) /\ Cardinality(held) \in Nat
         /\ IsFiniteSet(Given) /\ Cardinality(Given) \in Nat
         /\ units + Cardinality(held) + Cardinality(Given) = MaxUnits
<1>1. held \subseteq Tasks /\ Given \subseteq Tasks /\ IsFiniteSet(Tasks)
  BY Zenon DEF SemAssumption, IInv, TypeOK, Given
<1>2. IsFiniteSet(held) /\ IsFiniteSet(Given)
  BY <1>1, FS_Subset, Zenon
<1> QED BY <1>2, FS_CardinalityType, Zenon DEF IInv, Sound, Conserved, Given

(* While somebody holds a unit there is room for it. *)
LEMMA RoomForHeld ==
  ASSUME SemAssumption, IInv, NEW t \in held
  PROVE  units < MaxUnits
<1>1. Cardinality(held) # 0
  BY Counts, FS_EmptySet, Zenon
<1> QED BY <1>1, Counts DEF IInv, TypeOK

LEMMA TimerTypes ==
  ASSUME SemAssumption, TypeOK, timer_interrupt
  PROVE  TypeOK'
<1> USE DEF TypeOK
<1>1. /\ pc' = pc /\ units' = units /\ lock' = lock /\ arg' = arg
      /\ earliest_timeout' = earliest_timeout /\ result' = result /\ held' = held
  BY Zenon DEF timer_interrupt
<1>2. now + 1 \in Tick
  BY DEF timer_interrupt, SemAssumption, Tick
<1>3. cpu' \in {"ok", "spins", "wild"} /\ now' \in Tick
  BY <1>2, Zenon DEF timer_interrupt
<1>4. CASE UNCHANGED <<t_wait, tasks, t_timeout, armed>>
  BY <1>1, <1>3, <1>4, Zenon
<1>5. CASE sem_timeout(now + 1)
  <2> DEFINE over == TimedOut(now + 1)
             rest == {t_timeout[t] : t \in Range(tasks) \ over} \ {Ticks - 1}
  <2>1. Range(tasks) \subseteq Tasks
    BY DEF Range
  <2>2. rest \subseteq Tick /\ Tick \subseteq Nat
    BY <2>1 DEF Tick, SemAssumption
  <2>3. /\ t_timeout' = [t \in Tasks |-> IF t \in over THEN 0 ELSE t_timeout[t]]
        /\ t_wait' = [t \in Tasks |-> IF t \in over THEN "none" ELSE t_wait[t]]
        /\ tasks' = Without(tasks, over)
        /\ armed' = (armed \ Due(now + 1))
                      \cup (IF rest = {} THEN {} ELSE {Min(rest)})
    BY <1>5, Zenon DEF sem_timeout
  <2> HIDE DEF over, rest
  <2>4. rest # {} => Min(rest) \in Tick
    BY <2>2, MinProperty, Zenon
  <2>5. armed' \subseteq Tick
    BY <2>3, <2>4, Zenon
  <2>6. tasks' \in Seq(Tasks)
    BY <2>3, WithoutProperty, Zenon
  <2>7. t_timeout' \in [Tasks -> Tick]
    BY <2>3 DEF Tick, SemAssumption
  <2>8. t_wait' \in [Tasks -> Flags]
    BY <2>3, Zenon DEF Flags
  <2> QED BY <1>1, <1>3, <2>5, <2>6, <2>7, <2>8, Zenon
<1> QED BY <1>4, <1>5, Zenon DEF timer_interrupt

LEMMA TypesKept ==
  ASSUME SemAssumption, IInv, Next
  PROVE  TypeOK'
<1> USE DEF TypeOK, Flags
<1>1. TypeOK
  BY Zenon DEF IInv
<1>2. CASE timer_interrupt
  BY <1>1, <1>2, TimerTypes, SMTT(30), ZenonT(30)
<1>3. ASSUME NEW t \in Tasks, NEW timeout \in Timeouts,
             sem_wait(t, timeout) \/ WaitLocks(t, timeout)
      PROVE  TypeOK'
  <2>1. timeout \in Tick
    BY Zenon DEF SemAssumption
  <2>2. CASE WaitLocks(t, timeout)
    BY <1>1, <2>1, <2>2, Zenon DEF WaitLocks, Goto
  <2>3. CASE sem_wait(t, timeout) /\ Spin
    BY <1>1, <2>3, Zenon DEF Spin
  <2>4. CASE sem_wait(t, timeout) /\ lock = NULL
    <3>1. arg' \in [Tasks -> Tick] /\ now' = now /\ cpu' = cpu
      BY <1>1, <2>1, <2>4 DEF sem_wait
    <3>2. CASE units > 0
      <4>1. units - 1 \in 0 .. MaxUnits
        BY <1>1, <3>2 DEF SemAssumption
      <4> QED BY <1>1, <2>4, <3>1, <3>2, <4>1 DEF sem_wait, Returns
    <3>3. CASE units = 0 /\ timeout = SEM_NOWAIT
      BY <1>1, <2>4, <3>1, <3>3 DEF sem_wait, Returns
    <3>4. CASE units = 0 /\ timeout # SEM_NOWAIT
      <4>1. Enqueue(t, timeout) /\ task_wait(t, "TF_WAITIO", "sleep")
        BY <2>4, <3>4 DEF sem_wait
      <4>2. /\ result' = [result EXCEPT ![t] = "none"]
            /\ UNCHANGED <<units, lock, held>>
        BY <2>4, <3>4 DEF sem_wait
      <4> QED BY <1>1, <2>1, <3>1, <4>1, <4>2, EnqueueTypes, Zenon DEF task_wait
    <3> QED BY <1>1, <3>2, <3>3, <3>4
  <2> QED BY <1>3, <2>2, <2>3, <2>4, Zenon DEF sem_wait
<1>4. ASSUME NEW t \in Tasks, sem_signal(t) \/ SignalGrants(t)
      PROVE  TypeOK'
  <2>1. CASE sem_signal(t) /\ Spin
    BY <1>1, <2>1, Zenon DEF Spin
  <2>2. CASE SignalGrants(t) \/ (sem_signal(t) /\ lock = NULL)
    <3>1. t \in held
      BY <1>4, Zenon DEF IInv, Sound, Places, sem_signal, SignalGrants, Ready, At
    <3>2. Grant /\ lock' = NULL /\ held' = held \ {t}
      BY <2>2, Zenon DEF sem_signal, SignalGrants
    <3>3. units < MaxUnits
      BY <3>1, RoomForHeld, Zenon
    <3>4. /\ pc' \in [Tasks -> {"user", "wait", "enqueued", "sleep", "signal"}]
          /\ UNCHANGED <<earliest_timeout, now, armed, arg, result, cpu>>
      BY <1>1, <2>2, Zenon DEF sem_signal, SignalGrants, Goto
    <3> QED BY <1>1, <3>2, <3>3, <3>4, GrantTypes, Zenon
  <2> QED BY <1>4, <2>1, <2>2, Zenon DEF sem_signal
<1>5. ASSUME NEW t \in Tasks,
             SignalLocks(t) \/ WaitUnlocks(t) \/ WaitSleeps(t) \/ WaitReturns(t)
      PROVE  TypeOK'
  <2>1. CASE SignalLocks(t)
    BY <1>1, <2>1, Zenon DEF SignalLocks, Goto
  <2>2. CASE WaitUnlocks(t)
    BY <1>1, <2>2, Zenon DEF WaitUnlocks
  <2>3. CASE WaitSleeps(t)
    BY <1>1, <2>3, Zenon DEF WaitSleeps, task_wait, semVars
  <2>4. CASE WaitReturns(t)
    BY <1>1, <2>4, Zenon DEF WaitReturns, Returns, Goto
  <2> QED BY <1>5, <2>1, <2>2, <2>3, <2>4, Zenon
<1>6. ASSUME NEW t \in Tasks, WaitDecides(t)
      PROVE  TypeOK'
  <2>1. UNCHANGED <<t_wait, now, arg, cpu>>
    BY <1>6, Zenon DEF WaitDecides
  <2>2. CASE units > 0
    <3>1. units - 1 \in 0 .. MaxUnits
      BY <1>1, <2>2 DEF SemAssumption
    <3> QED BY <1>1, <1>6, <2>1, <2>2, <3>1 DEF WaitDecides, Returns, Goto
  <2>3. CASE units = 0 /\ arg[t] = SEM_NOWAIT
    BY <1>1, <1>6, <2>1, <2>3 DEF WaitDecides, Returns, Goto
  <2>4. CASE units = 0 /\ arg[t] # SEM_NOWAIT
    <3>1. Enqueue(t, arg[t]) /\ Goto(t, "enqueued") /\ arg[t] \in Tick
      BY <1>1, <1>6, <2>4 DEF WaitDecides
    <3>2. UNCHANGED <<units, lock, result, held>>
      BY <1>6, <2>4 DEF WaitDecides
    <3> QED BY <1>1, <2>1, <3>1, <3>2, EnqueueTypes, Zenon DEF Goto
  <2> QED BY <1>1, <2>2, <2>3, <2>4
<1>7. ASSUME NEW t \in Tasks, sem_free(t)
      PROVE  TypeOK'
  <2>1. UNCHANGED <<t_wait, pc, units, lock, tasks, earliest_timeout, t_timeout,
                    now, armed, arg, result, held>>
    BY <1>7, Zenon DEF sem_free, Spin
  <2>2. cpu' \in {"ok", "spins"}
    BY <1>7, Zenon DEF sem_free, Spin, Ready
  <2> QED BY <1>1, <2>1, <2>2, Zenon
<1> QED BY <1>2, <1>3, <1>4, <1>5, <1>6, <1>7, Zenon DEF Next, WorkerStep

-----------------------------------------------------------------------------
(* The steps by what they do to the units and the queue.                    *)

(* Nothing. *)
LEMMA QuietIsSound ==
  ASSUME IInv, UNCHANGED <<t_wait, pc, units, tasks, t_timeout, held>>
  PROVE  Sound'
BY Zenon DEF IInv, Sound, Places, QueueOfWaiters, NoIdleUnits, Conserved, Granted

(* A task goes on in the code, and into sem_wait only from sem_wait. *)
LEMMA MoveIsSound ==
  ASSUME SemAssumption, IInv, NEW t \in Tasks, NEW where,
         pc' = [pc EXCEPT ![t] = where],
         UNCHANGED <<units, tasks, t_timeout, held>>,
         \/ where = "user" /\ pc[t] = "wait" /\ t_wait' = t_wait
         \/ where = "wait" /\ pc[t] = "user" /\ t \notin held /\ t_wait' = t_wait
         \/ where = "signal" /\ pc[t] = "user" /\ t \in held /\ t_wait' = t_wait
         \/ /\ where = "sleep" /\ pc[t] = "enqueued"
            /\ t_wait' = [t_wait EXCEPT ![t] = "TF_WAITIO"]
  PROVE  Sound'
<1> USE DEF IInv, Sound
<1>1. \A u \in Tasks : pc'[u] = IF u = t THEN where ELSE pc[u]
  BY Zenon DEF TypeOK
<1>2. \A u \in Tasks : t_wait'[u] # t_wait[u] => u = t /\ t_wait'[u] = "TF_WAITIO"
  BY Zenon DEF TypeOK
<1>3. Range(tasks') = Range(tasks) /\ Range(tasks) \subseteq Tasks
  BY DEF TypeOK, Range
<1>4. \A u \in Tasks : pc'[u] \in {"enqueued", "sleep"} <=> pc[u] \in {"enqueued", "sleep"}
  BY <1>1, Zenon
<1>5. Places'
  BY <1>1, <1>2, <1>3 DEF Places, TypeOK
<1>6. QueueOfWaiters' /\ NoIdleUnits'
  BY <1>3, <1>4, Zenon DEF QueueOfWaiters, NoIdleUnits
<1>7. Given' = Given
  BY <1>3, <1>4, Zenon DEF Given, Granted
<1> QED BY <1>5, <1>6, <1>7, Zenon DEF Conserved, Given

(* A unit is taken: it goes from those left to those held. *)
LEMMA TakeIsSound ==
  ASSUME SemAssumption, IInv, NEW t \in Tasks, pc[t] \in {"user", "wait"},
         t \notin held, units > 0, units' = units - 1, held' = held \cup {t},
         \/ pc' = [pc EXCEPT ![t] = "user"]
         \/ pc' = pc /\ pc[t] = "user",
         UNCHANGED <<t_wait, tasks, t_timeout>>
  PROVE  Sound'
<1> USE DEF IInv, Sound
<1>1. \A u \in Tasks : pc'[u] = IF u = t THEN "user" ELSE pc[u]
  BY Zenon DEF TypeOK
<1>2. tasks' = <<>> /\ tasks = <<>>
  BY Zenon DEF NoIdleUnits
<1>3. Range(tasks) = {} /\ Range(tasks') = {}
  BY <1>2 DEF Range
<1>4. Places'
  BY <1>1, <1>3, Zenon DEF Places
<1>5. QueueOfWaiters' /\ NoIdleUnits'
  BY <1>2, <1>3, Zenon DEF QueueOfWaiters, NoIdleUnits, IsInjective
<1>6. Given' = Given
  BY <1>1, <1>3, Zenon DEF Given, Granted
<1>7. Cardinality(held') = Cardinality(held) + 1
  BY Counts, FS_AddElement, Zenon
<1>8. units' + Cardinality(held') + Cardinality(Given') = MaxUnits
  BY <1>6, <1>7, Counts DEF TypeOK
<1> QED BY <1>4, <1>5, <1>8, Zenon DEF Conserved, Given

(* A task joins the queue. *)
LEMMA JoinIsSound ==
  ASSUME SemAssumption, IInv, NEW t \in Tasks, pc[t] \in {"user", "wait"},
         t \notin held, units = 0, NEW timeout, Enqueue(t, timeout),
         \/ /\ pc' = [pc EXCEPT ![t] = "sleep"]
            /\ t_wait' = [t_wait EXCEPT ![t] = "TF_WAITIO"]
         \/ pc' = [pc EXCEPT ![t] = "enqueued"] /\ t_wait' = t_wait,
         UNCHANGED <<units, held>>
  PROVE  Sound'
<1> USE DEF IInv, Sound
<1>1. /\ \A u \in Tasks \ {t} : pc'[u] = pc[u] /\ t_wait'[u] = t_wait[u]
      /\ pc'[t] \in {"enqueued", "sleep"}
      /\ pc'[t] = "sleep" => t_wait'[t] # "none"
  BY Zenon DEF TypeOK
<1>2. /\ tasks' = Append(tasks, t) /\ tasks \in Seq(Tasks)
      /\ \A u \in Tasks \ {t} : t_timeout'[u] = t_timeout[u]
  BY Zenon DEF TypeOK, Enqueue
<1>3. /\ Len(tasks') = Len(tasks) + 1 /\ Len(tasks) \in Nat
      /\ DOMAIN tasks' = 1 .. Len(tasks) + 1 /\ DOMAIN tasks = 1 .. Len(tasks)
      /\ \A i \in 1 .. Len(tasks) : tasks'[i] = tasks[i]
      /\ tasks'[Len(tasks) + 1] = t
  BY <1>2
<1>4. Range(tasks') = Range(tasks) \cup {t}
  <2>1. \A e \in Range(tasks') : e \in Range(tasks) \cup {t}
    BY <1>3 DEF Range
  <2>2. \A e \in Range(tasks) \cup {t} : e \in Range(tasks')
    BY <1>3 DEF Range
  <2> QED BY <2>1, <2>2, Zenon
<1>5. t \notin Range(tasks) /\ Range(tasks) \subseteq Tasks
  BY <1>2 DEF QueueOfWaiters, Range
<1>6. IsInjective(tasks')
  BY <1>3, <1>5 DEF QueueOfWaiters, IsInjective, Range
<1>7. QueueOfWaiters' /\ NoIdleUnits'
  BY <1>1, <1>4, <1>5, <1>6 DEF QueueOfWaiters, NoIdleUnits
<1>8. Places'
  BY <1>1, <1>4, Zenon DEF Places
<1>9. Given' = Given
  BY <1>1, <1>2, <1>4, Zenon DEF Given, Granted
<1> QED BY <1>7, <1>8, <1>9, Zenon DEF Conserved, Given

(* A waiter that is awake returns: with its unit if it was given one. *)
LEMMA ReturnIsSound ==
  ASSUME SemAssumption, IInv, NEW t \in Tasks, WaitReturns(t)
  PROVE  Sound'
<1> USE DEF IInv, Sound
<1>1. /\ pc[t] = "sleep" /\ t_wait[t] = "none"
      /\ UNCHANGED <<t_wait, tasks, t_timeout, units>>
      /\ held' = IF t_timeout[t] = 1 THEN held \cup {t} ELSE held
  BY Zenon DEF WaitReturns, At, Returns
<1>2. \A u \in Tasks : pc'[u] = IF u = t THEN "user" ELSE pc[u]
  BY Zenon DEF WaitReturns, Goto, TypeOK
<1>3. t \notin Range(tasks) /\ t \notin held /\ Range(tasks') = Range(tasks)
  BY <1>1, Zenon DEF Places
<1>4. Range(tasks) \subseteq Tasks
  BY DEF TypeOK, Range
<1>5. QueueOfWaiters' /\ NoIdleUnits'
  BY <1>1, <1>2, <1>3, <1>4, Zenon DEF QueueOfWaiters, NoIdleUnits
<1>6. Places'
  BY <1>1, <1>2, <1>3, Zenon DEF Places
<1>7. \A u \in Tasks : u \in Given' <=> u \in Given /\ u # t
  BY <1>1, <1>2, <1>3, Zenon DEF Given, Granted
<1>8. Given' \subseteq Tasks /\ Given \subseteq Tasks
  BY Zenon DEF Given
<1>9. t \in Given <=> t_timeout[t] = 1
  BY <1>1, <1>3, Zenon DEF Given, Granted
<1>10. Given' = Given \ {t}
  BY <1>7, <1>8, Zenon
<1>11. Cardinality(Given') = IF t \in Given THEN Cardinality(Given) - 1
                                            ELSE Cardinality(Given)
  BY <1>10, Counts, FS_RemoveElement, Zenon
<1>12. Cardinality(held') = IF t \in Given THEN Cardinality(held) + 1
                                           ELSE Cardinality(held)
  BY <1>1, <1>3, <1>9, Counts, FS_AddElement, Zenon
<1>13. units' + Cardinality(held') + Cardinality(Given') = MaxUnits
  BY <1>1, <1>11, <1>12, Counts DEF TypeOK
<1> QED BY <1>5, <1>6, <1>13, Zenon DEF Conserved, Given

(* A holder signals: its unit goes to the first waiter, or to those left. *)
LEMMA GrantIsSound ==
  ASSUME SemAssumption, IInv, NEW t \in held, pc[t] \in {"user", "signal"},
         Grant, held' = held \ {t},
         \/ pc' = [pc EXCEPT ![t] = "user"]
         \/ pc' = pc /\ pc[t] = "user"
  PROVE  Sound'
<1> USE DEF IInv, Sound
<1>1. t \in Tasks /\ \A u \in Tasks : pc'[u] = IF u = t THEN "user" ELSE pc[u]
  BY Zenon DEF TypeOK
<1>2. Cardinality(held') = Cardinality(held) - 1
  BY Counts, FS_RemoveElement, Zenon
<1>3. CASE tasks = <<>>
  <2>1. units' = units + 1 /\ UNCHANGED <<t_wait, tasks, t_timeout>>
    BY <1>3, Zenon DEF Grant
  <2>2. Range(tasks) = {} /\ Range(tasks') = {}
    BY <1>3, <2>1 DEF Range
  <2>3. Places' /\ QueueOfWaiters' /\ NoIdleUnits'
    BY <1>1, <1>3, <2>1, <2>2, Zenon
       DEF Places, QueueOfWaiters, NoIdleUnits, IsInjective
  <2>4. Given' = Given
    BY <1>1, <2>1, <2>2, Zenon DEF Given, Granted
  <2>5. units' + Cardinality(held') + Cardinality(Given') = MaxUnits
    BY <1>2, <2>1, <2>4, Counts DEF TypeOK
  <2> QED BY <2>3, <2>5, Zenon DEF Conserved, Given
<1>4. CASE tasks # <<>>
  <2> DEFINE h == Head(tasks)
  <2>1. /\ tasks' = Tail(tasks) /\ units' = units
        /\ t_timeout' = [t_timeout EXCEPT ![h] = 1]
        /\ t_wait' = [t_wait EXCEPT ![h] = "none"]
    BY <1>4, Zenon DEF Grant, task_wakeup
  <2>2. /\ Len(tasks) \in Nat \ {0} /\ DOMAIN tasks = 1 .. Len(tasks)
        /\ h = tasks[1] /\ h \in Tasks /\ 1 \in 1 .. Len(tasks)
        /\ DOMAIN tasks' = 1 .. Len(tasks) - 1
        /\ \A i \in 1 .. Len(tasks) - 1 : i + 1 \in 1 .. Len(tasks)
                                          /\ tasks'[i] = tasks[i + 1]
    BY <1>4, <2>1 DEF TypeOK
  <2> HIDE DEF h
  <2>3. h \in Range(tasks) /\ Range(tasks) \subseteq Tasks
    <3>1. \A i \in 1 .. Len(tasks) : tasks[i] \in Tasks
      BY DEF TypeOK
    <3> QED BY <2>2, <3>1, Zenon DEF Range
  <2>4. /\ \A u \in Tasks : t_timeout'[u] = IF u = h THEN 1 ELSE t_timeout[u]
        /\ \A u \in Tasks : t_wait'[u] = IF u = h THEN "none" ELSE t_wait[u]
    BY <2>1, <2>2, Zenon DEF TypeOK
  <2>5. pc[h] \in {"enqueued", "sleep"} /\ h # t
    BY <2>3, Zenon DEF QueueOfWaiters
  <2>6. Range(tasks') = Range(tasks) \ {h}
    <3>1. ASSUME NEW i \in 1 .. Len(tasks) - 1
          PROVE  tasks'[i] \in Range(tasks) \ {h}
      <4>1. i + 1 \in 1 .. Len(tasks) /\ i + 1 # 1 /\ tasks'[i] = tasks[i + 1]
        BY <2>2
      <4>2. tasks[i + 1] # tasks[1]
        BY <2>2, <4>1, Zenon DEF QueueOfWaiters, IsInjective
      <4> QED BY <2>2, <4>1, <4>2, Zenon DEF Range
    <3>2. ASSUME NEW j \in 1 .. Len(tasks), tasks[j] # h
          PROVE  \E i \in 1 .. Len(tasks) - 1 : tasks'[i] = tasks[j]
      <4>1. j # 1
        BY <2>2, <3>2, Zenon
      <4>2. j - 1 \in 1 .. Len(tasks) - 1 /\ (j - 1) + 1 = j
        BY <2>2, <4>1
      <4>3. tasks'[j - 1] = tasks[j]
        BY <2>2, <4>2
      <4> QED BY <4>2, <4>3, Zenon
    <3>3. /\ \A i \in DOMAIN tasks' : tasks'[i] \in Range(tasks) \ {h}
          /\ \A j \in DOMAIN tasks :
               tasks[j] # h => \E i \in DOMAIN tasks' : tasks'[i] = tasks[j]
      BY <2>2, <3>1, <3>2, Zenon
    <3>4. \A e \in Range(tasks') : e \in Range(tasks) \ {h}
      BY <3>3, Zenon DEF Range
    <3>5. \A e \in Range(tasks) \ {h} : e \in Range(tasks')
      BY <3>3 DEF Range
    <3> QED BY <3>4, <3>5, Zenon
  <2>7. IsInjective(tasks')
    <3> SUFFICES ASSUME NEW a \in 1 .. Len(tasks) - 1, NEW b \in 1 .. Len(tasks) - 1,
                        tasks'[a] = tasks'[b]
                 PROVE  a = b
      BY <2>2, Zenon DEF IsInjective
    <3>1. a + 1 = b + 1
      BY <2>2, SMTT(30), ZenonT(30) DEF QueueOfWaiters, IsInjective
    <3> QED BY <3>1, <2>2
  <2>8. QueueOfWaiters'
    BY <1>1, <2>3, <2>6, <2>7, Zenon DEF QueueOfWaiters
  <2>9. NoIdleUnits'
    BY <1>4, <2>1, Zenon DEF NoIdleUnits
  <2>10. Places'
    BY <1>1, <2>4, <2>6, Zenon DEF Places
  <2>11. \A u \in Tasks : u \in Given' <=> u \in Given \/ u = h
    BY <1>1, <2>3, <2>4, <2>5, <2>6, Zenon DEF Given, Granted
  <2>12. h \notin Given /\ Given \subseteq Tasks /\ Given' \subseteq Tasks
    BY <2>3, Zenon DEF Given, Granted
  <2>13. Given' = Given \cup {h}
    BY <2>2, <2>11, <2>12, Zenon
  <2>14. Cardinality(Given') = Cardinality(Given) + 1
    BY <2>12, <2>13, Counts, FS_AddElement, Zenon
  <2>15. units' + Cardinality(held') + Cardinality(Given') = MaxUnits
    BY <1>2, <2>1, <2>14, Counts DEF TypeOK
  <2> QED BY <2>8, <2>9, <2>10, <2>15, Zenon DEF Conserved, Given
<1> QED BY <1>3, <1>4, Zenon

(* The timer callback takes waiters out and gives them nothing. *)
LEMMA TimeoutIsSound ==
  ASSUME SemAssumption, IInv, NEW tick, sem_timeout(tick),
         UNCHANGED <<pc, units, held>>
  PROVE  Sound'
<1> USE DEF IInv, Sound
<1> DEFINE over == TimedOut(tick)
<1>1. /\ tasks' = Without(tasks, over)
      /\ \A u \in Tasks : t_timeout'[u] = IF u \in over THEN 0 ELSE t_timeout[u]
      /\ \A u \in Tasks : t_wait'[u] = IF u \in over THEN "none" ELSE t_wait[u]
  BY Zenon DEF sem_timeout
<1>2. over \subseteq Range(tasks)
  BY Zenon DEF TimedOut
<1> HIDE DEF over
<1>3. /\ Range(tasks') = Range(tasks) \ over
      /\ IsInjective(tasks) => IsInjective(tasks')
  BY <1>1, WithoutProperty DEF TypeOK
<1>4. QueueOfWaiters'
  BY <1>3, Zenon DEF QueueOfWaiters
<1>5. Places'
  BY <1>1, <1>3, Zenon DEF Places
<1>6. NoIdleUnits'
  <2> SUFFICES ASSUME units > 0 PROVE tasks' = <<>>
    BY Zenon DEF NoIdleUnits
  <2>1. Range(tasks) = {}
    BY DEF NoIdleUnits, Range
  <2>2. Range(tasks') = {} /\ tasks' \in Seq(Tasks)
    BY <1>1, <1>3, <2>1, WithoutProperty, Zenon DEF TypeOK
  <2>3. Len(tasks') = 0
    BY <2>2 DEF Range
  <2> QED BY <2>2, <2>3
<1>7. Given' = Given
  BY <1>1, <1>2, <1>3 DEF Given, Granted
<1> QED BY <1>4, <1>5, <1>6, <1>7, SMTT(30), ZenonT(30) DEF Conserved, Given

-----------------------------------------------------------------------------
LEMMA StepIsSound ==
  ASSUME SemAssumption, IInv, Next
  PROVE  Sound'
<1>1. CASE timer_interrupt
  <2>1. UNCHANGED <<pc, units, held>>
    BY <1>1, Zenon DEF timer_interrupt
  <2>2. UNCHANGED <<t_wait, tasks, t_timeout>> \/ sem_timeout(now + 1)
    BY <1>1, Zenon DEF timer_interrupt
  <2> QED BY <2>1, <2>2, QuietIsSound, TimeoutIsSound, Zenon
<1>2. ASSUME NEW t \in Tasks, NEW timeout \in Timeouts, sem_wait(t, timeout)
      PROVE  Sound'
  <2>1. pc[t] = "user" /\ t \notin held
    BY <1>2, Zenon DEF sem_wait, Ready, At
  <2>2. CASE Spin
    BY <2>2, QuietIsSound, Zenon DEF Spin
  <2>3. CASE lock = NULL /\ units > 0 /\ units' = units - 1
    <3>1. UNCHANGED <<t_wait, pc, tasks, t_timeout>> /\ held' = held \cup {t}
      BY <1>2, <2>3 DEF sem_wait, Returns, IInv, TypeOK
    <3> QED BY <2>1, <2>3, <3>1, TakeIsSound, SMTT(30), ZenonT(30)
  <2>4. CASE lock = NULL /\ units = 0 /\ timeout = SEM_NOWAIT
    BY <1>2, <2>4, QuietIsSound DEF sem_wait, Returns
  <2>5. CASE lock = NULL /\ units = 0 /\ timeout # SEM_NOWAIT
    <3>1. /\ Enqueue(t, timeout) /\ UNCHANGED <<units, held>>
          /\ pc' = [pc EXCEPT ![t] = "sleep"]
          /\ t_wait' = [t_wait EXCEPT ![t] = "TF_WAITIO"]
      BY <1>2, <2>5 DEF sem_wait, task_wait
    <3> QED BY <2>1, <2>5, <3>1, JoinIsSound, Zenon
  <2> QED BY <1>2, <2>2, <2>3, <2>4, <2>5, SMTT(30), ZenonT(30) DEF sem_wait
<1>3. ASSUME NEW t \in Tasks, NEW timeout \in Timeouts, WaitLocks(t, timeout)
      PROVE  Sound'
  <2>1. /\ pc' = [pc EXCEPT ![t] = "wait"] /\ pc[t] = "user" /\ t \notin held
        /\ UNCHANGED <<t_wait, units, tasks, t_timeout, held>>
    BY <1>3, Zenon DEF WaitLocks, Ready, At, Goto
  <2> QED BY <2>1, MoveIsSound, Zenon
<1>4. ASSUME NEW t \in Tasks, sem_signal(t) \/ SignalGrants(t)
      PROVE  Sound'
  <2>1. CASE sem_signal(t) /\ Spin
    BY <2>1, QuietIsSound, Zenon DEF Spin
  <2>2. CASE SignalGrants(t) \/ (sem_signal(t) /\ lock = NULL)
    <3>1. t \in held /\ pc[t] \in {"user", "signal"}
      BY <1>4, Zenon DEF IInv, Sound, Places, sem_signal, SignalGrants, Ready, At
    <3>2. /\ Grant /\ held' = held \ {t}
          /\ \/ pc' = [pc EXCEPT ![t] = "user"]
             \/ pc' = pc /\ pc[t] = "user"
      BY <2>2, Zenon DEF sem_signal, SignalGrants, Goto, Ready, At
    <3> QED BY <3>1, <3>2, GrantIsSound, SMTT(30), ZenonT(30)
  <2> QED BY <1>4, <2>1, <2>2, Zenon DEF sem_signal
<1>5. ASSUME NEW t \in Tasks, SignalLocks(t)
      PROVE  Sound'
  <2>1. /\ pc' = [pc EXCEPT ![t] = "signal"] /\ pc[t] = "user" /\ t \in held
        /\ UNCHANGED <<t_wait, units, tasks, t_timeout, held>>
    BY <1>5, Zenon DEF SignalLocks, Ready, At, Goto
  <2> QED BY <2>1, MoveIsSound, Zenon
<1>6. ASSUME NEW t \in Tasks, WaitDecides(t)
      PROVE  Sound'
  <2>1. pc[t] = "wait" /\ t \notin held /\ t_wait' = t_wait
    BY <1>6, Zenon DEF WaitDecides, Ready, At, IInv, Sound, Places
  <2>2. CASE units > 0 /\ units' = units - 1
    <3>1. /\ UNCHANGED <<tasks, t_timeout>> /\ held' = held \cup {t}
          /\ pc' = [pc EXCEPT ![t] = "user"]
      BY <1>6, <2>2 DEF WaitDecides, Returns, Goto, IInv, TypeOK
    <3> QED BY <2>1, <2>2, <3>1, TakeIsSound, Zenon
  <2>3. CASE units = 0 /\ arg[t] = SEM_NOWAIT
    <3>1. /\ UNCHANGED <<units, tasks, t_timeout, held>>
          /\ pc' = [pc EXCEPT ![t] = "user"]
      BY <1>6, <2>3 DEF WaitDecides, Returns, Goto
    <3> QED BY <2>1, <3>1, MoveIsSound, Zenon
  <2>4. CASE units = 0 /\ arg[t] # SEM_NOWAIT
    <3>1. /\ Enqueue(t, arg[t]) /\ UNCHANGED <<units, held>>
          /\ pc' = [pc EXCEPT ![t] = "enqueued"]
      BY <1>6, <2>4 DEF WaitDecides, Goto
    <3> QED BY <2>1, <2>4, <3>1, JoinIsSound, Zenon
  <2> QED BY <1>6, <2>2, <2>3, <2>4, SMTT(30), ZenonT(30) DEF WaitDecides
<1>7. ASSUME NEW t \in Tasks, WaitUnlocks(t) \/ sem_free(t)
      PROVE  Sound'
  <2>1. UNCHANGED <<t_wait, pc, units, tasks, t_timeout, held>>
    BY <1>7, Zenon DEF WaitUnlocks, sem_free, Spin
  <2> QED BY <2>1, QuietIsSound, Zenon
<1>8. ASSUME NEW t \in Tasks, WaitSleeps(t)
      PROVE  Sound'
  <2>1. /\ pc' = [pc EXCEPT ![t] = "sleep"] /\ pc[t] = "enqueued"
        /\ t_wait' = [t_wait EXCEPT ![t] = "TF_WAITIO"]
        /\ UNCHANGED <<units, tasks, t_timeout, held>>
    BY <1>8, Zenon DEF WaitSleeps, At, task_wait, semVars
  <2> QED BY <2>1, MoveIsSound, Zenon
<1>9. ASSUME NEW t \in Tasks, WaitReturns(t)
      PROVE  Sound'
  BY <1>9, ReturnIsSound, Zenon
<1> QED BY <1>1, <1>2, <1>3, <1>4, <1>5, <1>6, <1>7, <1>8, <1>9, SMTT(30), ZenonT(30)
        DEF Next, WorkerStep

(* What the theorem below stands on, for an initial state and for a step. *)
LEMMA Invariance ==
  ASSUME SemAssumption
  PROVE  /\ Init => IInv
         /\ IInv /\ [Next]_vars => IInv'
         /\ IInv => UnitsConserved
<1>1. Init => IInv
  BY InitIsSound, Zenon
<1>2. IInv /\ [Next]_vars => IInv'
  <2>1. CASE IInv /\ Next
    BY <2>1, TypesKept, StepIsSound, Zenon DEF IInv
  <2>2. CASE IInv /\ UNCHANGED vars
    <3>1. TypeOK'
      BY <2>2, Zenon DEF vars, semVars, IInv, TypeOK
    <3>2. Sound'
      BY <2>2, QuietIsSound, Zenon DEF vars, semVars
    <3> QED BY <3>1, <3>2, Zenon DEF IInv
  <2> QED BY <2>1, <2>2, Zenon
<1>3. IInv => UnitsConserved
  BY Zenon DEF IInv, Sound, UnitsConserved
<1> QED BY <1>1, <1>2, <1>3, Zenon

(* Through every race of signals, timeouts and returns the units of a       *)
(* semaphore are conserved (sem_wait, sem_signal, sem_timeout): those left, *)
(* those held and those on their way to a waiter are together what          *)
(* sem_alloc was given; there are units only when nobody waits; the queue   *)
(* holds each waiter once, and only tasks inside sem_wait.                  *)
THEOREM UnitsConservedAlways ==
  ASSUME SemAssumption
  PROVE  Spec => []UnitsConserved
BY Invariance, PTL DEF Spec
=============================================================================
