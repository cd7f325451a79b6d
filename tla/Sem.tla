--------------------------------- MODULE Sem ---------------------------------
(***************************************************************************)
(* Semaphores, kernel/src/sem.c, with the timer interrupt that times out   *)
(* their waiters.  One semaphore, used as a mutex is: who signals holds a  *)
(* unit and who waits holds none.  System calls run with interrupts off;   *)
(* Workers are kernel tasks, which a tick or another task can interrupt    *)
(* between two statements.                                                 *)
(*                                                                         *)
(* Ticks are unsigned: tick_t has Ticks values, and its last one is at the *)
(* same time SEM_FOREVER, TIMER_CANCEL and the initial earliest_timeout.   *)
(***************************************************************************)
EXTENDS Sleep, Lists, FiniteSetsExt

CONSTANTS
  Workers,   \* the tasks that run with interrupts on
  MaxUnits,  \* the argument of sem_alloc
  Ticks,     \* the number of values of tick_t, 2^32 in the code
  MaxTick,   \* bound: ticks that pass
  Timeouts,  \* the timeouts tasks pass to sem_wait
  NULL

Tick == 0 .. Ticks - 1
SEM_NOWAIT  == 0
SEM_FOREVER == Ticks - 1

SemAssumption ==
  /\ MaxUnits \in Nat \ {0} /\ MaxTick \in Nat /\ Ticks \in Nat
  /\ MaxTick < Ticks - 1 /\ Timeouts \subseteq Tick
  /\ IsFiniteSet(Tasks) /\ Workers \subseteq Tasks /\ NULL \notin Tasks

VARIABLES
  exists,             \* has sem_free not freed it yet?
  units, lock, tasks, earliest_timeout,   \* the fields of sem_t
  t_timeout,          \* the field of each task
  now,                \* current_tick
  armed,              \* when the timer callbacks registered for it fire
  arg,                \* the timeout of each task's last call of sem_wait
  result,             \* and what it returned: "none" until it does
  held,               \* history: the tasks that have a unit
  cpu                 \* "ok", "spins" with interrupts off, or "wild" after a
                      \* use of the freed semaphore

semVars == <<exists, units, lock, tasks, earliest_timeout, t_timeout, now,
             armed, arg, result, held, cpu>>
vars == <<t_wait, pc, semVars>>

Init ==
  /\ t_wait = [t \in Tasks |-> "none"]
  /\ pc = [t \in Tasks |-> "user"]
  /\ exists = TRUE /\ units = MaxUnits /\ lock = NULL /\ tasks = <<>>
  /\ earliest_timeout = Ticks - 1
  /\ t_timeout = [t \in Tasks |-> 0]
  /\ now = 0 /\ armed = {}
  /\ arg = [t \in Tasks |-> 0] /\ result = [t \in Tasks |-> "none"]
  /\ held = {} /\ cpu = "ok"

-----------------------------------------------------------------------------
Ready(t, where) == cpu = "ok" /\ exists /\ At(t, where)

Goto(t, where) == pc' = [pc EXCEPT ![t] = where]

(* A lock that is held is never released to one who spins for it with       *)
(* interrupts off.                                                          *)
Spin ==
  /\ cpu' = "spins"
  /\ UNCHANGED <<t_wait, pc, exists, units, lock, tasks, earliest_timeout,
                 t_timeout, now, armed, arg, result, held>>

Returns(t, r) ==
  /\ result' = [result EXCEPT ![t] = r]
  /\ held' = IF r = "ok" THEN held \cup {t} ELSE held

(* sem_wait when there are no units: the task joins the queue and, if its   *)
(* deadline is the earliest so far, registers a timer callback.             *)
Enqueue(t, timeout) ==
  LET deadline == (now + timeout) % Ticks IN
  /\ tasks' = Append(tasks, t)
  /\ t_timeout' = [t_timeout EXCEPT ![t] = deadline]
  /\ IF earliest_timeout > deadline
     THEN earliest_timeout' = deadline /\ armed' = armed \cup {deadline}
     ELSE UNCHANGED <<earliest_timeout, armed>>

(* sem_wait in a system call, up to its sleep or its return.  The return    *)
(* for SEM_NOWAIT leaves the lock held.                                     *)
sem_wait(t, timeout) ==
  /\ Ready(t, "user") /\ t \notin Workers /\ t \notin held
  /\ IF lock # NULL THEN Spin
     ELSE
     /\ arg' = [arg EXCEPT ![t] = timeout]
     /\ \/ /\ units > 0
           /\ units' = units - 1
           /\ Returns(t, "ok")
           /\ UNCHANGED <<t_wait, pc, lock, tasks, earliest_timeout, t_timeout,
                          armed>>
        \/ /\ units = 0 /\ timeout = SEM_NOWAIT
           /\ lock' = t
           /\ Returns(t, "timedout")
           /\ UNCHANGED <<t_wait, pc, units, tasks, earliest_timeout,
                          t_timeout, armed>>
        \/ /\ units = 0 /\ timeout # SEM_NOWAIT
           /\ Enqueue(t, timeout)
           /\ task_wait(t, "TF_WAITIO", "sleep")
           /\ result' = [result EXCEPT ![t] = "none"]
           /\ UNCHANGED <<units, lock, held>>
     /\ UNCHANGED <<exists, now, cpu>>

(* The same in a worker, which can be interrupted holding the lock and      *)
(* between spin_unlock and task_waitio.                                     *)
WaitLocks(t, timeout) ==
  /\ Ready(t, "user") /\ t \in Workers /\ t \notin held
  /\ lock = NULL
  /\ lock' = t
  /\ arg' = [arg EXCEPT ![t] = timeout]
  /\ result' = [result EXCEPT ![t] = "none"]
  /\ Goto(t, "wait")
  /\ UNCHANGED <<t_wait, exists, units, tasks, earliest_timeout, t_timeout,
                 now, armed, held, cpu>>

WaitDecides(t) ==
  /\ Ready(t, "wait")
  /\ \/ /\ units > 0
        /\ units' = units - 1
        /\ lock' = NULL
        /\ Returns(t, "ok")
        /\ Goto(t, "user")
        /\ UNCHANGED <<tasks, earliest_timeout, t_timeout, armed>>
     \/ /\ units = 0 /\ arg[t] = SEM_NOWAIT
        /\ Returns(t, "timedout")
        /\ Goto(t, "user")
        /\ UNCHANGED <<units, lock, tasks, earliest_timeout, t_timeout, armed>>
     \/ /\ units = 0 /\ arg[t] # SEM_NOWAIT
        /\ Enqueue(t, arg[t])
        /\ Goto(t, "enqueued")
        /\ UNCHANGED <<units, lock, result, held>>
  /\ UNCHANGED <<t_wait, exists, now, arg, cpu>>

WaitUnlocks(t) ==
  /\ Ready(t, "enqueued") /\ lock = t
  /\ lock' = NULL
  /\ UNCHANGED <<t_wait, pc, exists, units, tasks, earliest_timeout, t_timeout,
                 now, armed, arg, result, held, cpu>>

WaitSleeps(t) ==
  /\ cpu = "ok" /\ At(t, "enqueued") /\ lock # t
  /\ task_wait(t, "TF_WAITIO", "sleep")
  /\ UNCHANGED semVars

(* Awake again: t_timeout says whether a unit was given. *)
WaitReturns(t) ==
  /\ cpu = "ok" /\ At(t, "sleep")
  /\ Returns(t, IF t_timeout[t] = 1 THEN "ok" ELSE "timedout")
  /\ Goto(t, "user")
  /\ UNCHANGED <<t_wait, exists, units, lock, tasks, earliest_timeout,
                 t_timeout, now, armed, arg, cpu>>

-----------------------------------------------------------------------------
(* Variants: the unit is added although it is given to a waiter; the last   *)
(* waiter comes first.                                                      *)
GrantTwice ==
  IF tasks = <<>>
  THEN units' = units + 1 /\ UNCHANGED <<t_wait, tasks, t_timeout>>
  ELSE /\ units' = units + 1
       /\ t_timeout' = [t_timeout EXCEPT ![Head(tasks)] = 1]
       /\ tasks' = Tail(tasks)
       /\ task_wakeup(Head(tasks))

GrantLast ==
  IF tasks = <<>>
  THEN units' = units + 1 /\ UNCHANGED <<t_wait, tasks, t_timeout>>
  ELSE /\ t_timeout' = [t_timeout EXCEPT ![tasks[Len(tasks)]] = 1]
       /\ tasks' = SubSeq(tasks, 1, Len(tasks) - 1)
       /\ task_wakeup(tasks[Len(tasks)])
       /\ UNCHANGED units

(* sem_signal between lock and unlock: the unit goes to the first waiter.   *)
Grant ==
  IF tasks = <<>>
  THEN units' = units + 1 /\ UNCHANGED <<t_wait, tasks, t_timeout>>
  ELSE /\ t_timeout' = [t_timeout EXCEPT ![Head(tasks)] = 1]
       /\ tasks' = Tail(tasks)
       /\ task_wakeup(Head(tasks))
       /\ UNCHANGED units

sem_signal(t) ==
  /\ Ready(t, "user") /\ t \notin Workers /\ t \in held
  /\ IF lock # NULL THEN Spin
     ELSE /\ Grant
          /\ held' = held \ {t}
          /\ UNCHANGED <<pc, exists, lock, earliest_timeout, now, armed, arg,
                         result, cpu>>

SignalLocks(t) ==
  /\ Ready(t, "user") /\ t \in Workers /\ t \in held
  /\ lock = NULL
  /\ lock' = t
  /\ Goto(t, "signal")
  /\ UNCHANGED <<t_wait, exists, units, tasks, earliest_timeout, t_timeout, now,
                 armed, arg, result, held, cpu>>

SignalGrants(t) ==
  /\ Ready(t, "signal")
  /\ Grant
  /\ lock' = NULL
  /\ held' = held \ {t}
  /\ Goto(t, "user")
  /\ UNCHANGED <<exists, earliest_timeout, now, armed, arg, result, cpu>>

(* sem_free in a system call.  The queue is all it looks at; its own lock   *)
(* goes with the structure.                                                 *)
sem_free(t) ==
  /\ Ready(t, "user") /\ t \notin Workers
  /\ IF lock # NULL THEN Spin
     ELSE /\ exists' = (tasks # <<>>)
          /\ UNCHANGED <<t_wait, pc, units, lock, tasks, earliest_timeout,
                         t_timeout, now, armed, arg, result, held, cpu>>

-----------------------------------------------------------------------------
Due(tick) == {d \in armed : d <= tick}

TimedOut(tick) == {t \in Range(tasks) : t_timeout[t] <= tick}

(* sem_timeout, the timer callback: wakes who is overdue and asks to be     *)
(* called again at the earliest deadline that is left.                      *)
sem_timeout(tick) ==
  LET over == TimedOut(tick)
      rest == {t_timeout[t] : t \in Range(tasks) \ over} \ {Ticks - 1}
  IN /\ t_timeout' = [t \in Tasks |-> IF t \in over THEN 0 ELSE t_timeout[t]]
     /\ t_wait' = [t \in Tasks |-> IF t \in over THEN "none" ELSE t_wait[t]]
     /\ tasks' = Without(tasks, over)
     /\ armed' = (armed \ Due(tick)) \cup (IF rest = {} THEN {} ELSE {Min(rest)})

(* A tick runs the callbacks that are due; a further one for the same tick  *)
(* finds nothing left to do.  It is taken when interrupts are on.           *)
timer_interrupt ==
  /\ cpu = "ok" /\ now < MaxTick
  /\ IF Due(now + 1) = {}
     THEN now' = now + 1 /\ UNCHANGED <<t_wait, tasks, t_timeout, armed, cpu>>
     ELSE IF ~ exists \/ lock # NULL
     THEN /\ cpu' = IF exists THEN "spins" ELSE "wild"
          /\ UNCHANGED <<t_wait, tasks, t_timeout, armed, now>>
     ELSE now' = now + 1 /\ sem_timeout(now + 1) /\ UNCHANGED cpu
  /\ UNCHANGED <<pc, exists, units, lock, earliest_timeout, arg, result, held>>

WorkerStep(t) ==
  \/ WaitDecides(t) \/ WaitUnlocks(t) \/ WaitSleeps(t) \/ SignalGrants(t)

Next ==
  \/ timer_interrupt
  \/ \E t \in Tasks :
       \/ \E timeout \in Timeouts : sem_wait(t, timeout) \/ WaitLocks(t, timeout)
       \/ sem_signal(t) \/ SignalLocks(t)
       \/ WorkerStep(t)
       \/ WaitReturns(t)
       \/ sem_free(t)

Spec == Init /\ [][Next]_vars

(* Tasks that hold a unit signal, and tasks that are awake run on. *)
LiveSpec ==
  Spec /\ \A t \in Tasks : WF_vars(sem_signal(t)) /\ WF_vars(WaitReturns(t))

-----------------------------------------------------------------------------
TypeOK ==
  /\ t_wait \in [Tasks -> Flags]
  /\ pc \in [Tasks -> {"user", "wait", "enqueued", "sleep", "signal"}]
  /\ units \in 0 .. MaxUnits
  /\ lock \in Tasks \cup {NULL}
  /\ tasks \in Seq(Tasks)
  /\ earliest_timeout \in Tick /\ now \in Tick /\ armed \subseteq Tick
  /\ t_timeout \in [Tasks -> Tick]
  /\ arg \in [Tasks -> Tick]
  /\ result \in [Tasks -> {"none", "ok", "timedout"}]
  /\ held \subseteq Tasks
  /\ cpu \in {"ok", "spins", "wild"}

(* A waiter that has been given its unit and has not returned yet. *)
Granted(t) ==
  pc[t] \in {"enqueued", "sleep"} /\ t \notin Range(tasks) /\ t_timeout[t] = 1

(* Units are conserved: those left, those held and those on their way to a  *)
(* waiter are together what sem_alloc was given, through every race of      *)
(* signals, timeouts and returns.                                           *)
Conserved ==
  units + Cardinality(held) + Cardinality({t \in Tasks : Granted(t)}) = MaxUnits

(* No unit is left idle: the semaphore has units only when nobody waits.    *)
NoIdleUnits == units > 0 => tasks = <<>>

(* The queue holds each waiter once, and only tasks that are inside         *)
(* sem_wait, so that sem_signal wakes no task that has left.                *)
QueueOfWaiters ==
  /\ IsInjective(tasks)
  /\ \A t \in Range(tasks) : pc[t] \in {"enqueued", "sleep"}

(* The units of a semaphore, all of it: conserved, none idle, and each      *)
(* waiter once in the queue (sem_wait, sem_signal, sem_timeout).            *)
UnitsConserved == TypeOK /\ Conserved /\ NoIdleUnits /\ QueueOfWaiters

(* No waiter starves: with every holder signalling in time, and the tick    *)
(* standing still if it will, each call of sem_wait returns, first come     *)
(* first served.                                                            *)
NoStarvation ==
  \A t \in Tasks : t \in Range(tasks) ~> result[t] # "none" \/ cpu # "ok"

-----------------------------------------------------------------------------
(* What the source says of itself and the code does not do.                  *)

(* sem.h, "The task will sleep until a unit is available": nobody stays     *)
(* asleep who has been given one.                                           *)
SleepsUntilGranted ==
  \A t \in Tasks : t_wait[t] # "none" => ~ Granted(t)

(* sem.h, "SEM_FOREVER to wait forever". *)
ForeverIsForever ==
  \A t \in Tasks : arg[t] = SEM_FOREVER => result[t] # "timedout"

(* sem.h, "SEM_NOWAIT to return immediately if there are no units": no call *)
(* is left spinning for the lock.                                           *)
NowaitReturns == cpu # "spins"

(* sem.c:69, "Wait for an open unit on the semaphore for up to 'timeout'    *)
(* ticks": nobody sleeps past the deadline.                                 *)
NobodyOverdue ==
  \A t \in Range(tasks) : t_wait[t] # "none" => t_timeout[t] >= now
=============================================================================
