-------------------------------- MODULE Event --------------------------------
(***************************************************************************)
(* Events, kernel/src/event.c: the queue that event_raise fills, mostly    *)
(* from the keyboard interrupt, and the monitor, a kernel worker, that     *)
(* takes events from it and calls the handlers.  One mutex guards the      *)
(* queue and one the list of handlers; both are semaphores of sem.c taken  *)
(* with SEM_FOREVER, whose result nobody looks at.                         *)
(*                                                                         *)
(* The keyboard interrupt runs on top of the task it interrupts, and is    *)
(* that task when it sleeps.  System calls run with interrupts off.        *)
(***************************************************************************)
EXTENDS Sleep, Lists, Functions

CONSTANTS
  Monitor,     \* the task of event_monitor
  Nested,      \* does a handler raise events itself, as kbd_listen does?
  MaxEvents,   \* bound: events raised
  Timed        \* does the clock tick?

Apps == Tasks \ {Monitor}
Mutexes == {"event_mutex", "event_handler_mutex"}

EventAssumption ==
  Monitor \in Tasks /\ Nested \in BOOLEAN /\ Timed \in BOOLEAN /\ MaxEvents \in Nat

VARIABLES
  event_list,      \* the events, newest first
  event_handlers,  \* the tasks that listen, newest first
  units, waiters,  \* of each mutex
  armed,           \* its timer callback: "unset", "armed" or "spent"
  frame,           \* is an interrupted event_raise on top of the task?
  item,            \* the handler the monitor is at
  raised,          \* history: events raised
  eventcpu              \* "ok", or "wild" when a list was corrupted

queueVars == <<event_list, event_handlers, units, waiters, armed, frame, item,
               raised, eventcpu>>
eventVars == <<t_wait, pc, queueVars>>

EventInit ==
  /\ t_wait = [t \in Tasks |-> "none"]
  /\ pc = [t \in Tasks |-> IF t = Monitor THEN "check" ELSE "user"]
  /\ event_list = <<>> /\ event_handlers = <<>>
  /\ units = [m \in Mutexes |-> 1] /\ waiters = [m \in Mutexes |-> <<>>]
  /\ armed = [m \in Mutexes |-> "unset"]
  /\ frame = [t \in Tasks |-> FALSE]
  /\ item = Monitor /\ raised = 0 /\ eventcpu = "ok"

-----------------------------------------------------------------------------
Runs(t, where) == eventcpu = "ok" /\ At(t, where) /\ ~ frame[t]

Goto(t, where) == pc' = [pc EXCEPT ![t] = where]

Wild ==
  /\ eventcpu' = "wild"
  /\ UNCHANGED <<t_wait, pc, event_list, event_handlers, units, waiters, armed,
                 frame, item, raised>>

(* mutex_lock that finds the mutex taken, up to its sleep.  The first wait  *)
(* on a mutex arms its timer callback, as the deadline of SEM_FOREVER is    *)
(* the tick before; no later one does.                                      *)
Queue(t, m) ==
  /\ waiters' = [waiters EXCEPT ![m] = Append(@, t)]
  /\ armed' = [armed EXCEPT ![m] = IF @ = "unset" THEN "armed" ELSE @]

InQueue(t) == \E m \in Mutexes : t \in Range(waiters[m])

(* mutex_unlock(m), and wakeups of the tasks in more. *)
mutex_unlock(m, more) ==
  IF waiters[m] = <<>>
  THEN /\ units' = [units EXCEPT ![m] = @ + 1]
       /\ t_wait' = [t \in Tasks |-> IF t \in more THEN "none" ELSE t_wait[t]]
       /\ UNCHANGED waiters
  ELSE /\ waiters' = [waiters EXCEPT ![m] = Tail(@)]
       /\ t_wait' = [t \in Tasks |-> IF t \in more \cup {Head(waiters[m])}
                                     THEN "none" ELSE t_wait[t]]
       /\ UNCHANGED units

(* The timer interrupt: the deadline of every waiter has passed. *)
sem_timeout(m) ==
  /\ eventcpu = "ok" /\ Timed /\ armed[m] = "armed"
  /\ armed' = [armed EXCEPT ![m] = "spent"]
  /\ t_wait' = [t \in Tasks |-> IF t \in Range(waiters[m]) THEN "none" ELSE t_wait[t]]
  /\ waiters' = [waiters EXCEPT ![m] = <<>>]
  /\ UNCHANGED <<pc, event_list, event_handlers, units, frame, item, raised, eventcpu>>

-----------------------------------------------------------------------------
(* event_raise between lock and unlock: list_add, at the head. *)
Add ==
  /\ event_list' = <<raised + 1>> \o event_list
  /\ raised' = raised + 1

(* Who is woken when the event is the only one in the list. *)
WokenByFirst == IF event_list = <<>> THEN {Monitor} ELSE {}

(* Bound: events raised, and calls of event_raise that wait for the mutex. *)
Room ==
  raised + Cardinality({t \in Tasks : frame[t]})
         + (IF pc[Monitor] \in {"rlock", "rlockq", "radd"} THEN 1 ELSE 0) < MaxEvents

(* The keyboard interrupt, on top of a task that runs with interrupts on.   *)
(* A task that is in the middle of another wait has its only t_semlink in   *)
(* use: adding it again corrupts both lists.                                *)
kbd_interrupt(t) ==
  /\ eventcpu = "ok" /\ t_wait[t] = "none" /\ ~ frame[t] /\ Room
  /\ t = Monitor \/ pc[t] = "user"
  /\ IF units["event_mutex"] > 0
     THEN /\ Add
          /\ t_wait' = [u \in Tasks |-> IF u \in WokenByFirst THEN "none" ELSE t_wait[u]]
          /\ UNCHANGED <<pc, event_handlers, units, waiters, armed, frame, item, eventcpu>>
     ELSE IF InQueue(t) THEN Wild
     ELSE /\ Queue(t, "event_mutex")
          /\ t_wait' = [t_wait EXCEPT ![t] = "TF_WAITIO"]
          /\ frame' = [frame EXCEPT ![t] = TRUE]
          /\ UNCHANGED <<pc, event_list, event_handlers, units, item, raised, eventcpu>>

(* It wakes, with the mutex or without. *)
RaiseResumes(t) ==
  /\ eventcpu = "ok" /\ t_wait[t] = "none" /\ frame[t]
  /\ Add
  /\ mutex_unlock("event_mutex", WokenByFirst)
  /\ frame' = [frame EXCEPT ![t] = FALSE]
  /\ UNCHANGED <<pc, event_handlers, armed, item, eventcpu>>

-----------------------------------------------------------------------------
(* event_monitor: is there an event?  If not, sleep. *)
MonitorChecks ==
  /\ Runs(Monitor, "check")
  /\ Goto(Monitor, IF event_list = <<>> THEN "idle" ELSE "lock")
  /\ UNCHANGED <<t_wait, queueVars>>

MonitorIdles ==
  /\ Runs(Monitor, "idle")
  /\ task_wait(Monitor, "TF_WAITIO", "lock")
  /\ UNCHANGED queueVars

(* mutex_lock in the monitor: from where the monitor stands, through the    *)
(* queue of the mutex if it is taken, to where it goes on.                  *)
MonitorLocks(where, m, queued, next) ==
  /\ Runs(Monitor, where)
  /\ IF units[m] > 0
     THEN units' = [units EXCEPT ![m] = @ - 1] /\ Goto(Monitor, next)
          /\ UNCHANGED <<waiters, armed, eventcpu>>
     ELSE IF InQueue(Monitor)
     THEN eventcpu' = "wild" /\ UNCHANGED <<pc, units, waiters, armed>>
     ELSE Queue(Monitor, m) /\ Goto(Monitor, queued) /\ UNCHANGED <<units, eventcpu>>
  /\ UNCHANGED <<t_wait, event_list, event_handlers, frame, item, raised>>

MonitorSleeps(queued, next) ==
  /\ Runs(Monitor, queued)
  /\ task_wait(Monitor, "TF_WAITIO", next)
  /\ UNCHANGED queueVars

MonitorTakes ==
  /\ Runs(Monitor, "take")
  /\ IF event_list = <<>> THEN Wild
     ELSE /\ event_list' = SubSeq(event_list, 1, Len(event_list) - 1)
          /\ Goto(Monitor, "unlock")
          /\ UNCHANGED <<t_wait, event_handlers, units, waiters, armed, frame,
                         item, raised, eventcpu>>

MonitorUnlocks ==
  /\ Runs(Monitor, "unlock")
  /\ mutex_unlock("event_mutex", {})
  /\ Goto(Monitor, "hlock")
  /\ UNCHANGED <<event_list, event_handlers, armed, frame, item, raised, eventcpu>>

(* list_for_each_entry over the handlers: Monitor stands for the list head. *)
Following(h) ==
  IF h = Monitor THEN (IF event_handlers = <<>> THEN Monitor ELSE event_handlers[1])
  ELSE LET i == CHOOSE j \in DOMAIN event_handlers : event_handlers[j] = h
       IN IF i = Len(event_handlers) THEN Monitor ELSE event_handlers[i + 1]

(* On to the next handler, which is called; it may raise an event.  The     *)
(* link is read from the structure of the one before.                       *)
MonitorDispatches ==
  /\ Runs(Monitor, "dispatch")
  /\ IF item # Monitor /\ item \notin Range(event_handlers) THEN Wild
     ELSE /\ item' = Following(item)
          /\ \/ Goto(Monitor, IF Following(item) = Monitor THEN "hunlock" ELSE "dispatch")
             \/ Nested /\ Room /\ Following(item) # Monitor /\ Goto(Monitor, "rlock")
          /\ UNCHANGED <<t_wait, event_list, event_handlers, units, waiters,
                         armed, frame, raised, eventcpu>>

(* event_raise by a handler. *)
HandlerRaises ==
  /\ Runs(Monitor, "radd")
  /\ Add
  /\ mutex_unlock("event_mutex", WokenByFirst)
  /\ Goto(Monitor, "dispatch")
  /\ UNCHANGED <<event_handlers, armed, frame, item, eventcpu>>

MonitorReleases ==
  /\ Runs(Monitor, "hunlock")
  /\ mutex_unlock("event_handler_mutex", {})
  /\ Goto(Monitor, "check")
  /\ UNCHANGED <<event_list, event_handlers, armed, frame, item, raised, eventcpu>>

-----------------------------------------------------------------------------
(* event_listen and event_unlisten, in system calls: what they do with the  *)
(* mutex held, and all of it.                                               *)
ListenEffect(t) ==
  event_handlers' = IF t \in Range(event_handlers)
                    THEN Without(event_handlers, {t})
                    ELSE <<t>> \o event_handlers

event_listen(t) ==
  /\ Runs(t, "user") /\ t \in Apps
  /\ IF units["event_handler_mutex"] > 0
     THEN ListenEffect(t) /\ UNCHANGED <<t_wait, pc, waiters, armed, eventcpu>>
     ELSE IF InQueue(t)
     THEN eventcpu' = "wild" /\ UNCHANGED <<t_wait, pc, event_handlers, waiters, armed>>
     ELSE /\ Queue(t, "event_handler_mutex")
          /\ task_wait(t, "TF_WAITIO", "listen")
          /\ UNCHANGED <<event_handlers, eventcpu>>
  /\ UNCHANGED <<event_list, units, frame, item, raised>>

ListenResumes(t) ==
  /\ Runs(t, "listen")
  /\ ListenEffect(t)
  /\ mutex_unlock("event_handler_mutex", {})
  /\ Goto(t, "user")
  /\ UNCHANGED <<event_list, armed, frame, item, raised, eventcpu>>

-----------------------------------------------------------------------------
MonitorStep ==
  \/ MonitorChecks \/ MonitorIdles \/ MonitorTakes \/ MonitorUnlocks
  \/ MonitorDispatches \/ HandlerRaises \/ MonitorReleases
  \/ MonitorLocks("lock", "event_mutex", "lockq", "take")
  \/ MonitorSleeps("lockq", "take")
  \/ MonitorLocks("hlock", "event_handler_mutex", "hlockq", "dispatch")
  \/ MonitorSleeps("hlockq", "dispatch")
  \/ MonitorLocks("rlock", "event_mutex", "rlockq", "radd")
  \/ MonitorSleeps("rlockq", "radd")

EventNext ==
  \/ MonitorStep
  \/ \E m \in Mutexes : sem_timeout(m)
  \/ \E t \in Tasks : kbd_interrupt(t) \/ RaiseResumes(t)
  \/ \E t \in Apps : event_listen(t) \/ ListenResumes(t)

EventSpec == EventInit /\ [][EventNext]_eventVars

(* Tasks that are awake run on, and the clock ticks. *)
EventLiveSpec ==
  /\ EventSpec /\ WF_eventVars(MonitorStep)
  /\ \A m \in Mutexes : WF_eventVars(sem_timeout(m))
  /\ \A t \in Tasks : WF_eventVars(RaiseResumes(t)) /\ WF_eventVars(ListenResumes(t))

-----------------------------------------------------------------------------
EventTypeOK ==
  /\ t_wait \in [Tasks -> Flags]
  /\ event_list \in Seq(1 .. MaxEvents)
  /\ event_handlers \in Seq(Apps)
  /\ units \in [Mutexes -> Nat]
  /\ waiters \in [Mutexes -> Seq(Tasks)]
  /\ armed \in [Mutexes -> {"unset", "armed", "spent"}]
  /\ frame \in [Tasks -> BOOLEAN]
  /\ item \in Tasks /\ raised \in 0 .. MaxEvents /\ eventcpu \in {"ok", "wild"}

(* The monitor takes an event only when there is one: it re-checks nothing  *)
(* after its sleep or after the wait for the mutex, and list_last of an     *)
(* empty list is the list head.                                             *)
TakesAnEvent == eventcpu = "ok" /\ pc[Monitor] = "take" /\ t_wait[Monitor] = "none"
                  => event_list # <<>>

(* Events are taken in the order in which they were raised. *)
OldestFirst ==
  \A i, j \in DOMAIN event_list : i < j => event_list[i] > event_list[j]

-----------------------------------------------------------------------------
(* What the source says of itself and the code does not do.                  *)

(* event.c:42, "sleep while there are no events": and only then. *)
SleepsWithoutEvents ==
  pc[Monitor] = "lock" /\ t_wait[Monitor] # "none" /\ ~ frame[Monitor]
    => event_list = <<>>

(* event.c:47, "Quickly lock, grab the next event and unlock": the monitor  *)
(* does not stay where it holds the mutex.                                  *)
QuicklyUnlocks ==
  pc[Monitor] = "unlock" ~> pc[Monitor] # "unlock" \/ eventcpu = "wild"

(* event.c:53, "make sure we don't add or remove handlers while we traverse *)
(* the list": no step of another task changes the list in between.          *)
HandlersStable ==
  [][pc[Monitor] = "dispatch" /\ item # Monitor /\ t_wait[Monitor] = "none"
       => event_handlers' = event_handlers]_eventVars
=============================================================================
