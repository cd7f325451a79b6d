-------------------------------- MODULE Task --------------------------------
(***************************************************************************)
(* The task subsystem, kernel/src/task.c: the scheduler, and the life of a *)
(* task from fork to the waitpid that frees its structure.                 *)
(*                                                                         *)
(* One CPU runs everything.  A system call enters through an interrupt     *)
(* gate and runs with interrupts off until it returns or calls schedule(), *)
(* so it is one step here.  task_preempt also runs with interrupts off;    *)
(* its loop over the ready queue is modelled one iteration per step, with  *)
(* mode saying where the CPU is.  No other action is enabled meanwhile.    *)
(* Kernel workers run with interrupts on and can be preempted anywhere.    *)
(***************************************************************************)
EXTENDS Integers, LinkedList

CONSTANTS
  MaxPid,     \* bound: the last process id handed out
  TimeSlice,  \* ticks a task is given when it is switched to (15 in the code)
  Code,       \* the exit codes tasks use
  WaitArg,    \* the pid arguments tasks pass to waitpid
  Leader,     \* the processes that start a session with setsid
  Sleeper,    \* the tasks that wait for devices
  Detachable, \* the pids passed to detach
  NULL,       \* the null pointer
  Head        \* the list head ready_tasks

Pid  == 0 .. MaxPid
Node == Pid \cup {Head}

ASSUME BoundAssumption == MaxPid \in Nat \ {0} /\ TimeSlice \in Nat
ASSUME CodeAssumption  == 0 \in Code
ASSUME UseAssumption ==
  /\ WaitArg \subseteq Int
  /\ Leader \subseteq Pid /\ Sleeper \subseteq Pid /\ Detachable \subseteq Pid
ASSUME NodeAssumption  == NULL \notin Node /\ Head \notin Pid

TF_WAITMASK == {"TF_WAITIO", "TF_WAITTASK"}
TF == {"TF_RUNNING", "TF_RESCHED", "TF_EXIT", "TF_ZOMBIE"} \cup TF_WAITMASK

VARIABLES
  mode,         \* "run", "preempt" (entering task_preempt) or "sched" (its loop)
  current,      \* the global current; inside the loop, the candidate
  curdir,       \* the task whose page directory is loaded
  ready_tasks,  \* the ready queue
  globlist,     \* task_globlist: the tasks whose structures are allocated
  next_pid,
  ticks_left,   \* t_ticks_left of the running task
  t_flags,
  t_parent,
  t_children,   \* newest first in the code: descending pids, so a set
  t_gid,
  t_waitfor,
  t_status,
  pc            \* where each task is, or will resume

vars == <<mode, current, curdir, ready_tasks, globlist, next_pid, ticks_left,
          t_flags, t_parent, t_children, t_gid, t_waitfor, t_status, pc>>

(* user, kernel: running code of its own.  waitpid, io: asleep inside a     *)
(* system call.  ksched: a worker that task_wait has dequeued and that is   *)
(* about to call schedule().  kwait: a worker inside that schedule().       *)
Place == {"user", "kernel", "waitpid", "io", "ksched", "kwait"}

T_WAITING(p)  == \E f \in TF_WAITMASK : f \in t_flags[p]
T_ISZOMBIE(p) == "TF_ZOMBIE" \in t_flags[p]

(* Can an interrupt be taken?  Inside a system call it cannot. *)
InterruptsOn == mode = "run" /\ pc[current] \in {"user", "kernel", "ksched"}

Executing(where) == mode = "run" /\ pc[current] = where

-----------------------------------------------------------------------------
(* task_init: pid 0 is kmain itself, its own parent, alone in both lists.   *)
Init ==
  /\ mode = "run"
  /\ current = 0
  /\ curdir = 0
  /\ ready_tasks = list_add(INIT_LIST(Node), 0, Head)
  /\ globlist = {0}
  /\ next_pid = 1
  /\ ticks_left = 0
  /\ t_flags = [p \in Pid |-> IF p = 0 THEN {"TF_RUNNING"} ELSE {}]
  /\ t_parent = [p \in Pid |-> IF p = 0 THEN 0 ELSE NULL]
  /\ t_children = [p \in Pid |-> {}]
  /\ t_gid = [p \in Pid |-> 0]
  /\ t_waitfor = [p \in Pid |-> 0]
  /\ t_status = [p \in Pid |-> 0]
  /\ pc = [p \in Pid |-> IF p = 0 THEN "kernel" ELSE "user"]

-----------------------------------------------------------------------------
(* task_wait, up to its call of schedule(). *)
task_wait(p, f) ==
  /\ ready_tasks' = list_rem(ready_tasks, p)
  /\ t_flags' = [t_flags EXCEPT ![p] = @ \cup {f, "TF_RESCHED"}]

(* task_wakeup puts a waiting task at the front of the queue.  Its two      *)
(* effects on p, given the queue q it finds.                                *)
WokenQueue(q, p) ==
  list_add(IF list_inserted(q, p) THEN list_rem(q, p) ELSE q, p, Head)

WokenFlags(flags) ==
  (flags \ (TF_WAITMASK \cup {"TF_RESCHED"})) \cup {"TF_RUNNING"}

-----------------------------------------------------------------------------
(* What the task that runs may do. *)

(* sys_fork.  The child starts at the front of the queue with the flags of  *)
(* its parent, and both return to user code (pid 0 forks the first process).*)
sys_fork ==
  LET c == next_pid IN
  /\ Executing("user") \/ (Executing("kernel") /\ current = 0)
  /\ c \in Pid
  /\ next_pid' = c + 1
  /\ t_flags' = [t_flags EXCEPT ![c] = t_flags[current]]
  /\ t_parent' = [t_parent EXCEPT ![c] = current]
  /\ t_children' = [t_children EXCEPT ![current] = @ \cup {c}]
  /\ ready_tasks' = list_add(ready_tasks, c, Head)
  /\ globlist' = globlist \cup {c}
  /\ mode' = "preempt"
  /\ UNCHANGED <<current, curdir, ticks_left, t_gid, t_waitfor, t_status, pc>>

(* sys_fork when copy_page_dir fails: the structure is freed, the pid lost. *)
ForkFails ==
  /\ Executing("user") \/ (Executing("kernel") /\ current = 0)
  /\ next_pid \in Pid
  /\ next_pid' = next_pid + 1
  /\ UNCHANGED <<mode, current, curdir, ready_tasks, globlist, ticks_left,
                 t_flags, t_parent, t_children, t_gid, t_waitfor, t_status, pc>>

(* worker_spawn, hence task_spawn(1): a kernel task that names its spawner  *)
(* as its parent but is not linked among the spawner's children.            *)
worker_spawn ==
  LET c == next_pid IN
  /\ Executing("kernel") /\ current = 0
  /\ c \in Pid
  /\ next_pid' = c + 1
  /\ t_flags' = [t_flags EXCEPT ![c] = {"TF_RUNNING"}]
  /\ t_parent' = [t_parent EXCEPT ![c] = current]
  /\ ready_tasks' = list_add(ready_tasks, c, Head)
  /\ globlist' = globlist \cup {c}
  /\ pc' = [pc EXCEPT ![c] = "kernel"]
  /\ mode' = "preempt"
  /\ UNCHANGED <<current, curdir, ticks_left, t_children, t_gid, t_waitfor,
                 t_status>>

(* sys_exit, which is task_kill on the caller and never gets further. *)
sys_exit(code) ==
  /\ Executing("user") \/ Executing("kernel")
  /\ current # 0
  /\ t_status' = [t_status EXCEPT ![current] = code]
  /\ t_flags' = [t_flags EXCEPT ![current] = {"TF_EXIT"}]
  /\ ticks_left' = 0
  /\ mode' = "preempt"
  /\ UNCHANGED <<current, curdir, ready_tasks, globlist, next_pid, t_parent,
                 t_children, t_gid, t_waitfor, pc>>

task_setsid ==
  /\ Executing("user")
  /\ current \in Leader
  /\ t_gid[current] # current
  /\ t_gid' = [t_gid EXCEPT ![current] = current]
  /\ UNCHANGED <<mode, current, curdir, ready_tasks, globlist, next_pid,
                 ticks_left, t_flags, t_parent, t_children, t_waitfor,
                 t_status, pc>>

(* task_detach on any pid the caller names. *)
task_detach(p) ==
  /\ Executing("user")
  /\ p \in globlist
  /\ t_children' = [q \in Pid |-> t_children[q] \ {p}]
  /\ t_parent' = [t_parent EXCEPT ![p] = NULL]
  /\ UNCHANGED <<mode, current, curdir, ready_tasks, globlist, next_pid,
                 ticks_left, t_flags, t_gid, t_waitfor, t_status, pc>>

-----------------------------------------------------------------------------
(* sys_waitpid.  The calls that return at once and change nothing (EINVAL,  *)
(* ECHILD, WNOHANG with no dead child) are stuttering steps.                *)

(* A variant that does not ask whether the named child is dead. *)
AnswersAlive(w) ==
  {c \in globlist : c = w /\ t_parent[c] = current}

(* The dead children that answer waitpid(w) at once. *)
Answers(w) ==
  IF w > 0
  THEN {c \in globlist : c = w /\ t_parent[c] = current /\ T_ISZOMBIE(c)}
  ELSE {c \in t_children[current] :
          /\ T_ISZOMBIE(c)
          /\ \/ w = -1
             \/ w = 0 /\ t_gid[c] = t_gid[current]
             \/ w < -1 /\ c = -w}

(* The tail of sys_waitpid: unlink task c and free its structure.  The      *)
(* fields of a freed structure go back to their initial values.             *)
Reap(c) ==
  /\ t_children' = IF t_parent[c] # NULL
                   THEN [t_children EXCEPT ![t_parent[c]] = @ \ {c}]
                   ELSE t_children
  /\ globlist' = globlist \ {c}
  /\ t_flags' = [t_flags EXCEPT ![c] = {}]
  /\ t_parent' = [t_parent EXCEPT ![c] = NULL]
  /\ t_gid' = [t_gid EXCEPT ![c] = 0]
  /\ t_status' = [t_status EXCEPT ![c] = 0]
  /\ t_waitfor' = [t_waitfor EXCEPT ![c] = 0]

(* A dead child is there already.  The list is searched newest first. *)
WaitpidAtOnce(w) ==
  /\ Executing("user")
  /\ \E c \in Answers(w) :
       /\ \A d \in Answers(w) : d <= c
       /\ Reap(c)
  /\ UNCHANGED <<mode, current, curdir, ready_tasks, next_pid, ticks_left, pc>>

(* There is none, so the caller sleeps until task_free wakes it. *)
WaitpidSleep(w) ==
  /\ Executing("user")
  /\ Answers(w) = {}
  /\ w > 0 => w \in globlist /\ t_parent[w] = current
  /\ t_waitfor' = [t_waitfor EXCEPT ![current] = w]
  /\ task_wait(current, "TF_WAITTASK")
  /\ pc' = [pc EXCEPT ![current] = "waitpid"]
  /\ mode' = "preempt"
  /\ UNCHANGED <<current, curdir, globlist, next_pid, ticks_left, t_parent,
                 t_children, t_gid, t_status>>

(* The sleeper runs again and frees the task that t_waitfor names. *)
WaitpidWakes ==
  /\ Executing("waitpid")
  /\ IF t_waitfor[current] \in globlist
     THEN Reap(t_waitfor[current])
     ELSE UNCHANGED <<t_children, globlist, t_flags, t_parent, t_gid,
                      t_status, t_waitfor>>
  /\ pc' = [pc EXCEPT ![current] = "user"]
  /\ UNCHANGED <<mode, current, curdir, ready_tasks, next_pid, ticks_left>>

-----------------------------------------------------------------------------
(* Sleeping for a device (task_waitio and task_wait with TF_WAITIO), as the *)
(* drivers and the event worker use it.                                     *)

(* In a system call interrupts stay off from task_wait into schedule(). *)
task_waitio ==
  /\ Executing("user") /\ current \in Sleeper
  /\ task_wait(current, "TF_WAITIO")
  /\ pc' = [pc EXCEPT ![current] = "io"]
  /\ mode' = "preempt"
  /\ UNCHANGED <<current, curdir, globlist, next_pid, ticks_left, t_parent,
                 t_children, t_gid, t_waitfor, t_status>>

(* A worker has them on again between restore() and schedule(). *)
WorkerWaits ==
  /\ Executing("kernel") /\ current \in Sleeper \ {0}
  /\ task_wait(current, "TF_WAITIO")
  /\ pc' = [pc EXCEPT ![current] = "ksched"]
  /\ UNCHANGED <<mode, current, curdir, globlist, next_pid, ticks_left,
                 t_parent, t_children, t_gid, t_waitfor, t_status>>

WorkerSchedules ==
  /\ Executing("ksched")
  /\ pc' = [pc EXCEPT ![current] = "kwait"]
  /\ mode' = "preempt"
  /\ UNCHANGED <<current, curdir, ready_tasks, globlist, next_pid, ticks_left,
                 t_flags, t_parent, t_children, t_gid, t_waitfor, t_status>>

(* Back from the wait. *)
WaitioReturns ==
  /\ \/ Executing("io") /\ pc' = [pc EXCEPT ![current] = "user"]
     \/ Executing("kwait") /\ pc' = [pc EXCEPT ![current] = "kernel"]
  /\ UNCHANGED <<mode, current, curdir, ready_tasks, globlist, next_pid,
                 ticks_left, t_flags, t_parent, t_children, t_gid, t_waitfor,
                 t_status>>

(* A variant in which the caller wakes a task whatever it waits for. *)
WaitsForAnything(p) == T_WAITING(p)

(* The drivers keep a pointer to the task they have put to sleep, and wake  *)
(* it once.                                                                 *)
WaitsForDevice(p) == "TF_WAITIO" \in t_flags[p]

(* task_wakeup of a task that waits for a device, called by an interrupt    *)
(* handler or by another task.                                              *)
task_wakeup(p) ==
  /\ InterruptsOn
  /\ WaitsForDevice(p)
  /\ ready_tasks' = WokenQueue(ready_tasks, p)
  /\ t_flags' = [t_flags EXCEPT ![p] = WokenFlags(@)]
  /\ UNCHANGED <<mode, current, curdir, globlist, next_pid, ticks_left,
                 t_parent, t_children, t_gid, t_waitfor, t_status, pc>>

-----------------------------------------------------------------------------
(* The scheduler. *)

(* The timer interrupt ends in task_preempt. *)
timer_interrupt ==
  /\ InterruptsOn
  /\ mode' = "preempt"
  /\ UNCHANGED <<current, curdir, ready_tasks, globlist, next_pid, ticks_left,
                 t_flags, t_parent, t_children, t_gid, t_waitfor, t_status, pc>>

(* A variant that does not look at the ticks that are left. *)
KeepsAlways ==
  "TF_RUNNING" \in t_flags[current] /\ "TF_RESCHED" \notin t_flags[current]

(* Time is left, and the task has no wish to be rescheduled. *)
KeepsRunning ==
  /\ ticks_left # 0
  /\ "TF_RUNNING" \in t_flags[current]
  /\ "TF_RESCHED" \notin t_flags[current]

(* task_preempt up to its loop: alone in the queue, go on; time left, spend *)
(* a tick; else look for another task.                                      *)
task_preempt ==
  LET lonely == list_is_lonely(ready_tasks, current, Head) IN
  /\ mode = "preempt"
  /\ \/ /\ lonely
        /\ mode' = "run"
        /\ UNCHANGED <<current, ticks_left, t_flags>>
     \/ /\ ~ lonely /\ KeepsRunning
        /\ mode' = "run"
        /\ ticks_left' = ticks_left - 1
        /\ UNCHANGED <<current, t_flags>>
     \/ /\ ~ lonely /\ ~ KeepsRunning
        /\ mode' = "sched"
        /\ t_flags' = [t_flags EXCEPT ![current] = @ \ {"TF_RESCHED"}]
        /\ current' = IF "TF_RUNNING" \in t_flags[current]
                      THEN list_next(ready_tasks, current, Head, NULL)
                      ELSE ready_tasks.next[Head]
        /\ UNCHANGED ticks_left
  /\ UNCHANGED <<curdir, ready_tasks, globlist, next_pid, t_parent,
                 t_children, t_gid, t_waitfor, t_status, pc>>

(* A variant that goes on from a candidate that waits. *)
LoopFollows ==
  /\ mode = "sched"
  /\ current # NULL => T_WAITING(current)
  /\ current' = list_next(ready_tasks, IF current = NULL THEN Head ELSE current,
                          Head, NULL)
  /\ UNCHANGED <<mode, curdir, ready_tasks, globlist, next_pid, ticks_left,
                 t_flags, t_parent, t_children, t_gid, t_waitfor, t_status, pc>>

(* End of the queue, or a waiting candidate: start again from the front. *)
LoopRestarts ==
  /\ mode = "sched"
  /\ current # NULL => T_WAITING(current)
  /\ current' = list_next(ready_tasks, Head, Head, NULL)
  /\ UNCHANGED <<mode, curdir, ready_tasks, globlist, next_pid, ticks_left,
                 t_flags, t_parent, t_children, t_gid, t_waitfor, t_status, pc>>

LoopMeets(exiting) ==
  /\ mode = "sched"
  /\ current # NULL
  /\ ~ T_WAITING(current)
  /\ exiting <=> "TF_EXIT" \in t_flags[current]

(* A variant that forgets the parent that waits for any child. *)
ListensByPid(par, dead) ==
  "TF_WAITTASK" \in t_flags[par] /\ t_waitfor[par] = dead

(* A variant that tells every parent, whatever it is doing. *)
ListensAlways(par, dead) == TRUE

(* task_free's test of whether the parent par of dead waits for it. *)
ParentListens(par, dead) ==
  /\ "TF_WAITTASK" \in t_flags[par]
  /\ LET w == t_waitfor[par] IN
       \/ w = -1
       \/ w = 0 /\ t_gid[dead] = par
       \/ w < -1 /\ t_gid[dead] = -w
       \/ w > 0 /\ w = dead

(* A variant that leaves the children with a pointer to the dead task. *)
OrphansNobody(dead) == t_parent

(* The parents, once the children of dead are orphans. *)
Orphaned(dead) ==
  [p \in Pid |-> IF p \in t_children[dead] THEN NULL ELSE t_parent[p]]

(* task_free: leave the queue, become a zombie, orphan the children, and    *)
(* hand pid and status to a parent that listens.  Its two early returns     *)
(* (dead is current, dead is pid 0) cannot happen here: the loop has moved  *)
(* current on, and kmain, which is pid 0, never exits.                      *)
task_free(dead) ==
  LET par == t_parent[dead]
      q   == list_rem(ready_tasks, dead)
      fl  == [t_flags EXCEPT ![dead] = {"TF_ZOMBIE"}]
  IN
  /\ t_parent' = Orphaned(dead)
  /\ t_children' = [t_children EXCEPT ![dead] = {}]
  /\ IF par # NULL /\ ParentListens(par, dead)
     THEN /\ t_waitfor' = [t_waitfor EXCEPT ![par] = dead]
          /\ t_status' = [t_status EXCEPT ![par] = t_status[dead]]
          /\ ready_tasks' = WokenQueue(q, par)
          /\ t_flags' = [fl EXCEPT ![par] = WokenFlags(@)]
     ELSE /\ ready_tasks' = q
          /\ t_flags' = fl
          /\ UNCHANGED <<t_waitfor, t_status>>

(* Variants: one does not ask whose page directory is loaded, the other     *)
(* passes over every task that has exited.                                  *)
LoopFreesAny ==
  /\ LoopMeets(TRUE)
  /\ task_free(current)
  /\ current' = list_next(ready_tasks, current, Head, NULL)
  /\ UNCHANGED <<mode, curdir, globlist, next_pid, ticks_left, t_gid, pc>>

LoopFreesNone ==
  /\ LoopMeets(TRUE)
  /\ current # curdir
  /\ current' = list_next(ready_tasks, current, Head, NULL)
  /\ UNCHANGED <<mode, curdir, ready_tasks, globlist, next_pid, ticks_left,
                 t_flags, t_parent, t_children, t_gid, t_waitfor, t_status, pc>>

(* The candidate has exited and its page directory is not the loaded one. *)
LoopFrees ==
  /\ LoopMeets(TRUE)
  /\ current # curdir
  /\ task_free(current)
  /\ current' = list_next(ready_tasks, current, Head, NULL)
  /\ UNCHANGED <<mode, curdir, globlist, next_pid, ticks_left, t_gid, pc>>

(* It has exited but this code still runs on its page directory. *)
LoopSkips ==
  /\ LoopMeets(TRUE)
  /\ current = curdir
  /\ current' = list_next(ready_tasks, current, Head, NULL)
  /\ UNCHANGED <<mode, curdir, ready_tasks, globlist, next_pid, ticks_left,
                 t_flags, t_parent, t_children, t_gid, t_waitfor, t_status, pc>>

(* task_switch: load the page directory and give the task its time slice. *)
task_switch ==
  /\ LoopMeets(FALSE)
  /\ curdir' = current
  /\ ticks_left' = TimeSlice
  /\ mode' = "run"
  /\ UNCHANGED <<current, ready_tasks, globlist, next_pid, t_flags, t_parent,
                 t_children, t_gid, t_waitfor, t_status, pc>>

-----------------------------------------------------------------------------
Scheduler == \/ task_preempt
             \/ LoopRestarts
             \/ LoopFrees
             \/ LoopSkips
             \/ task_switch

Resumes == WaitpidWakes \/ WaitioReturns \/ WorkerSchedules

Syscall ==
  \/ sys_fork
  \/ ForkFails
  \/ worker_spawn
  \/ \E code \in Code : sys_exit(code)
  \/ task_setsid
  \/ \E p \in Detachable : task_detach(p)
  \/ \E w \in WaitArg : WaitpidAtOnce(w)
  \/ \E w \in WaitArg : WaitpidSleep(w)
  \/ task_waitio
  \/ WorkerWaits

Next == \/ Syscall
        \/ Resumes
        \/ timer_interrupt
        \/ \E p \in Pid : task_wakeup(p)
        \/ Scheduler

Spec == Init /\ [][Next]_vars

-----------------------------------------------------------------------------
(* Safety. *)

(* The values the variables range over. *)
TypeOK ==
  /\ mode \in {"run", "preempt", "sched"}
  /\ current \in Pid \cup {NULL}
  /\ curdir \in Pid
  /\ ready_tasks \in ListOver(Node)
  /\ globlist \subseteq Pid
  /\ next_pid \in 1 .. MaxPid + 1
  /\ ticks_left \in Nat
  /\ t_flags \in [Pid -> SUBSET TF]
  /\ t_parent \in [Pid -> Pid \cup {NULL}]
  /\ t_children \in [Pid -> SUBSET Pid]
  /\ t_gid \in [Pid -> Pid]
  /\ t_waitfor \in [Pid -> Int]
  /\ t_status \in [Pid -> Code]
  /\ pc \in [Pid -> Place]

(* The ready queue and the flags agree: a task is linked in the queue       *)
(* exactly when it is allocated, waits for nothing and is no zombie, and    *)
(* the links of the queue stay mutually inverse.  So nobody sleeps in the   *)
(* queue, and no runnable task is lost from it.                             *)
QueueConsistent ==
  /\ Linked(ready_tasks, Node)
  /\ \A p \in Pid :
       list_inserted(ready_tasks, p)
         <=> p \in globlist /\ ~ T_WAITING(p) /\ ~ T_ISZOMBIE(p)

(* The idle task is always the last of the ready queue: every insertion is  *)
(* at the front and pid 0 never leaves.  The queue is thus never empty and  *)
(* the search for a task to run always ends.                                *)
IdleIsLast == ready_tasks.prev[Head] = 0 /\ t_flags[0] = {"TF_RUNNING"}

(* The pointers between tasks are never dangling: a parent is an allocated  *)
(* task that is not yet a zombie, and a child list holds only allocated     *)
(* tasks that name its owner as their parent.  task_free dereferences       *)
(* t_parent, and waitpid the child list, on the strength of this.           *)
FamilyConsistent ==
  \A p, c \in Pid :
    /\ t_parent[c] = p =>
         c \in globlist /\ p \in globlist /\ ~ T_ISZOMBIE(p)
    /\ c \in t_children[p] => t_parent[c] = p

(* No exit goes unnoticed: nobody sleeps in waitpid(-1) with a dead child,  *)
(* or in waitpid(c) after its child c is dead.                              *)
NoMissedExit ==
  \A p, c \in Pid :
    /\ "TF_WAITTASK" \in t_flags[p]
    /\ c \in t_children[p]
    /\ t_waitfor[p] \in {-1, c}
    => ~ T_ISZOMBIE(c)

(* A task that comes back from sleeping in waitpid finds in t_waitfor a     *)
(* zombie that is still allocated, its own child or an orphan, with the     *)
(* status it is about to return, and no other task is about to free it.     *)
WokenByZombie ==
  \A p \in Pid :
    p \in globlist /\ pc[p] = "waitpid" /\ ~ T_WAITING(p) =>
      LET c == t_waitfor[p] IN
      /\ c \in globlist
      /\ t_flags[c] = {"TF_ZOMBIE"}
      /\ t_parent[c] \in {p, NULL}
      /\ t_status[p] = t_status[c]
      /\ \A q \in globlist \ {p} :
           pc[q] = "waitpid" /\ ~ T_WAITING(q) => t_waitfor[q] # c

(* The page directory in use belongs to a task that is not yet freed, in    *)
(* the middle of the scheduler too, and the task that runs is neither       *)
(* exiting nor, save a worker on its way to schedule(), asleep.             *)
RunsOnLiveMemory ==
  /\ curdir \in globlist /\ ~ T_ISZOMBIE(curdir)
  /\ mode = "run" => /\ current = curdir
                     /\ "TF_EXIT" \notin t_flags[current]
                     /\ T_WAITING(current) => pc[current] = "ksched"

(* Only zombies are freed, and a task stays a zombie until then: no step    *)
(* frees a structure that the queue or the CPU still uses, or revives one.  *)
FreesOnlyZombies ==
  [][\A p \in globlist :
       /\ p \notin globlist' => T_ISZOMBIE(p)
       /\ T_ISZOMBIE(p) /\ p \in globlist' => t_flags'[p] = t_flags[p]]_vars

-----------------------------------------------------------------------------
(* Liveness.  The CPU goes on inside the kernel, and a timer interrupt that *)
(* is held back while interrupts are off is delivered once they are on.     *)
(* Nothing is assumed of what tasks choose to do.                           *)
Fairness == WF_vars(Scheduler) /\ WF_vars(Resumes) /\ SF_vars(timer_interrupt)

FairSpec == Spec /\ Fairness

(* The search of task_preempt always ends with a task that can run. *)
ScheduleReturns == mode # "run" ~> mode = "run"

(* A task woken from the front of the queue runs before the tasks behind    *)
(* it, so two tasks that keep waking can hold up the rest for ever.  Only   *)
(* when the idle task gets its turn again and again is everybody served.    *)
IdleServed == []<>(mode = "run" /\ current = 0)

(* If the idle task keeps being served, every exiting task is freed.  The   *)
(* scheduler passes over it at first, while it still runs on its memory.    *)
ExitsAreBuried ==
  IdleServed =>
    \A p \in 1 .. MaxPid : "TF_EXIT" \in t_flags[p] ~> "TF_ZOMBIE" \in t_flags[p]

(* If the idle task keeps being served, a task that sleeps in waitpid for a *)
(* child that exits comes back from waitpid.  (A child has the larger pid.) *)
WaitersReturn ==
  IdleServed =>
    \A p \in 1 .. MaxPid : \A c \in p + 1 .. MaxPid :
      (/\ "TF_WAITTASK" \in t_flags[p] /\ "TF_EXIT" \in t_flags[c]
       /\ c \in t_children[p] /\ t_waitfor[p] \in {-1, c})
        ~> (pc[p] = "user" \/ c \notin t_children[p])

-----------------------------------------------------------------------------
(* What comments of task.c say, and the code does not do. *)

(* task_free: "if the parent isn't listening, the child will be cleaned up  *)
(* upon the parents death".  When a parent becomes a zombie, the children   *)
(* that are zombies already are freed.                                      *)
DeathCleansUpZombies ==
  [][\A p, c \in Pid :
       ~ T_ISZOMBIE(p) /\ T_ISZOMBIE(p)' /\ c \in t_children[p] /\ T_ISZOMBIE(c)
         => c \notin globlist']_vars

(* sys_waitpid, of a caller that slept: "the task_free function for the     *)
(* other task will store its' pid and status information in our task        *)
(* structure".  Nobody sleeps on in waitpid for a group when a child is     *)
(* dead that the same call, made now, would find and free.                  *)
NoMissedGroupExit ==
  \A p, c \in Pid :
    "TF_WAITTASK" \in t_flags[p] /\ c \in t_children[p] /\ T_ISZOMBIE(c) =>
      /\ ~ (t_waitfor[p] = 0 /\ t_gid[c] = t_gid[p])
      /\ ~ (t_waitfor[p] < -1 /\ c = -t_waitfor[p])

=============================================================================
