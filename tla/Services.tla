------------------------------ MODULE Services ------------------------------
(* The service daemon (userland/serviced): services_start at boot, then
   service_start and service_stop, against the processes it forks and the pid
   files they write.  The daemon and its children are user processes and may
   be switched between any two system calls; the pid files are on disk and
   outlive a crash of the machine.  fork, waitpid with WNOHANG and kill are the
   kernel's (task.c, signal.c). *)
EXTENDS Naturals, Sequences, FiniteSets

CONSTANTS
  Order,        \* the directories under /etc/services, as readdir gives them
  Good,         \* those with a manifest that names a binary
  Runs,         \* those whose binary can be executed
  MaxPid,       \* pids of one boot
  MaxOps,       \* calls of service_start and service_stop after the boot
  MaxBoots

ServicesAssumption == MaxPid \in Nat /\ MaxOps \in Nat /\ MaxBoots \in Nat \ {0}

VARIABLES
  pidfile,      \* service -> [pid, boot, ino]: pid 0 without a file, Empty when created
  proc,         \* pid -> [svc, st, ino]: the daemon's children, the file they opened
  next_pid,
  todo,         \* directories services_start has still to visit
  pc,           \* where the daemon is, "idle" between calls
  svc,          \* the service in hand
  pid,          \* the pid it read
  started,      \* services a process of this boot has been executing
  aimed,        \* [svc, hit, boot, killed]: what the last kill was for, whom it
                \* killed, the boot of the file it went by, and all who were killed
  ops, boots

vars == <<pidfile, proc, next_pid, todo, pc, svc, pid, started, aimed, ops, boots>>

Services == {Order[k] : k \in 1..Len(Order)}
Pids == 1..MaxPid
Empty == MaxPid + 1
NoIno == <<0, 0>>
NoFile == [pid |-> 0, boot |-> 0, ino |-> NoIno]
None == [svc |-> "", st |-> "none", ino |-> NoIno]
NotAimed == [svc |-> "", hit |-> "", boot |-> 0, killed |-> {}]
Alive(p) == proc[p].st \in {"forked", "opened", "wrote", "runs"}

Init ==
  /\ pidfile = [s \in Services |-> NoFile] /\ proc = [p \in Pids |-> None] /\ next_pid = 1
  /\ todo = Order /\ pc = "idle" /\ svc = "" /\ pid = 0
  /\ started = {} /\ aimed = NotAimed /\ ops = 0 /\ boots = 1

(* services_start takes the next directory. *)
NextService ==
  /\ pc = "idle" /\ todo # <<>>
  /\ svc' = Head(todo) /\ todo' = Tail(todo) /\ pc' = "running"
  /\ UNCHANGED <<pidfile, proc, next_pid, pid, started, aimed, ops, boots>>

(* After that the daemon may be asked to start or to stop a service. *)
Request ==
  /\ pc = "idle" /\ todo = <<>> /\ ops < MaxOps /\ ops' = ops + 1
  /\ svc' \in Services /\ pc' \in {"running", "stop"}
  /\ UNCHANGED <<pidfile, proc, next_pid, todo, pid, started, aimed, boots>>

(* fscanf: a file that is empty leaves the variable as it was on the stack. *)
ReadPid(f) == IF f.pid = Empty THEN Pids ELSE {f.pid}

-----------------------------------------------------------------------------
(* service_running: without a file the service is not running. *)
ReadForRunning ==
  /\ pc = "running"
  /\ \/ pidfile[svc].pid = 0 /\ pc' = "start" /\ UNCHANGED pid
     \/ pidfile[svc].pid # 0 /\ pid' \in ReadPid(pidfile[svc]) /\ pc' = "wait"
  /\ UNCHANGED <<pidfile, proc, next_pid, todo, svc, started, aimed, ops, boots>>

(* Variant: any pid file stands for a running service. *)
AnswerFile(p) == IF proc[p].st = "none" THEN "idle" ELSE "start"

(* waitpid fails with ECHILD for a pid that is no child, which removes the
   file; it gives 0 for one that lives and the pid for one it reaps, and both
   are taken for a service that is not running. *)
Answer(p) == IF proc[p].st = "none" THEN "unlink" ELSE "start"

Waitpid ==
  /\ pc = "wait"
  /\ pc' = Answer(pid)
  /\ proc' = IF proc[pid].st = "zombie" THEN [proc EXCEPT ![pid] = None] ELSE proc
  /\ UNCHANGED <<pidfile, next_pid, todo, svc, pid, started, aimed, ops, boots>>

Unlink ==
  /\ pc = "unlink"
  /\ pidfile' = [pidfile EXCEPT ![svc] = NoFile]
  /\ pc' = "start"
  /\ UNCHANGED <<proc, next_pid, todo, svc, pid, started, aimed, ops, boots>>

service_open(s) == s \in Good

(* A service without a good manifest is left out; the others are forked. *)
service_start ==
  /\ pc = "start"
  /\ pc' = "idle"
  /\ IF service_open(svc) /\ next_pid <= MaxPid
     THEN /\ proc' = [proc EXCEPT ![next_pid] = [svc |-> svc, st |-> "forked", ino |-> NoIno]]
          /\ next_pid' = next_pid + 1
     ELSE UNCHANGED <<proc, next_pid>>
  /\ UNCHANGED <<pidfile, todo, svc, pid, started, aimed, ops, boots>>

-----------------------------------------------------------------------------
(* The child: fopen creates the file or empties the one that is there. *)
OpenFile(p) ==
  /\ proc[p].st = "forked"
  /\ LET s == proc[p].svc
         ino == IF pidfile[s].pid = 0 THEN <<boots, p>> ELSE pidfile[s].ino
     IN /\ proc' = [proc EXCEPT ![p].st = "opened", ![p].ino = ino]
        /\ pidfile' = [pidfile EXCEPT ![s] = [pid |-> Empty, boot |-> boots, ino |-> ino]]
  /\ UNCHANGED <<next_pid, todo, pc, svc, pid, started, aimed, ops, boots>>

(* getpid. *)
Written(p) == p

(* fclose writes the file; one that was removed meanwhile has no name. *)
WriteFile(p) ==
  /\ proc[p].st = "opened"
  /\ proc' = [proc EXCEPT ![p].st = "wrote"]
  /\ LET s == proc[p].svc IN
     pidfile' = IF pidfile[s].pid # 0 /\ pidfile[s].ino = proc[p].ino
                THEN [pidfile EXCEPT ![s].pid = Written(p), ![s].boot = boots] ELSE pidfile
  /\ UNCHANGED <<next_pid, todo, pc, svc, pid, started, aimed, ops, boots>>

(* "We failed. Remove the PID file, and exit." *)
FailedFile(s) == [pidfile EXCEPT ![s] = NoFile]

Execute(p) ==
  /\ proc[p].st = "wrote"
  /\ LET s == proc[p].svc IN
     \/ /\ s \in Runs /\ proc' = [proc EXCEPT ![p].st = "runs"]
        /\ started' = started \cup {s} /\ UNCHANGED pidfile
     \/ /\ s \notin Runs /\ proc' = [proc EXCEPT ![p].st = "zombie"]
        /\ pidfile' = FailedFile(s) /\ UNCHANGED started
  /\ UNCHANGED <<next_pid, todo, pc, svc, pid, aimed, ops, boots>>

(* A service ends by itself. *)
Ends(p) ==
  /\ proc[p].st = "runs"
  /\ proc' = [proc EXCEPT ![p].st = "zombie"]
  /\ UNCHANGED <<pidfile, next_pid, todo, pc, svc, pid, started, aimed, ops, boots>>

-----------------------------------------------------------------------------
(* service_stop: the file is read, removed, and the process killed. *)
service_stop ==
  /\ pc = "stop"
  /\ \/ pidfile[svc].pid = 0 /\ pc' = "idle" /\ UNCHANGED pid
     \/ pidfile[svc].pid # 0 /\ pid' \in ReadPid(pidfile[svc]) /\ pc' = "remove"
  /\ aimed' = [aimed EXCEPT !.svc = svc, !.hit = "", !.boot = pidfile[svc].boot]
  /\ UNCHANGED <<pidfile, proc, next_pid, todo, svc, started, ops, boots>>

RemoveFile ==
  /\ pc = "remove" /\ pc' = "kill"
  /\ pidfile' = [pidfile EXCEPT ![svc] = NoFile]
  /\ UNCHANGED <<proc, next_pid, todo, svc, pid, started, aimed, ops, boots>>

Kill ==
  /\ pc = "kill" /\ pc' = "idle"
  /\ IF Alive(pid)
     THEN /\ proc' = [proc EXCEPT ![pid].st = "zombie"]
          /\ aimed' = [aimed EXCEPT !.hit = proc[pid].svc, !.killed = @ \cup {proc[pid].svc}]
     ELSE UNCHANGED <<proc, aimed>>
  /\ UNCHANGED <<pidfile, next_pid, todo, svc, pid, started, ops, boots>>

(* The machine is switched off or crashes; the disk stays. *)
Reboot ==
  /\ boots < MaxBoots /\ boots' = boots + 1
  /\ proc' = [p \in Pids |-> None] /\ next_pid' = 1
  /\ todo' = Order /\ pc' = "idle" /\ svc' = "" /\ pid' = 0
  /\ started' = {} /\ aimed' = NotAimed /\ ops' = 0
  /\ UNCHANGED pidfile

Daemon == NextService \/ ReadForRunning \/ Waitpid \/ Unlink \/ service_start
            \/ service_stop \/ RemoveFile \/ Kill
Child(p) == OpenFile(p) \/ WriteFile(p) \/ Execute(p)

(* The daemon then loops for ever. *)
Idle == pc = "idle" /\ todo = <<>> /\ UNCHANGED vars

Next == Daemon \/ Request \/ (\E p \in Pids : Child(p) \/ Ends(p)) \/ Reboot \/ Idle

(* The scheduler gives every ready process its turn (Task, EveryoneRuns). *)
Spec == Init /\ [][Next]_vars /\ WF_vars(Daemon) /\ \A p \in Pids : WF_vars(Child(p))

-----------------------------------------------------------------------------
TypeOK ==
  /\ pidfile \in [Services -> [pid : 0..Empty, boot : 0..MaxBoots, ino : (0..MaxBoots) \X (0..MaxPid)]]
  /\ \A p \in Pids : proc[p].svc \in Services \cup {""}
       /\ proc[p].st \in {"none", "forked", "opened", "wrote", "runs", "zombie"}
  /\ next_pid \in 1..(MaxPid + 1) /\ pid \in 0..MaxPid
  /\ pc \in {"idle", "running", "wait", "unlink", "start", "stop", "remove", "kill"}

(* A pid file written since the boot names a process that was forked for that
   service, whatever other services and other processes of this one fail, end
   or are stopped meanwhile: service_stop goes by it. *)
FileIsService ==
  \A s \in Services :
    (pidfile[s].pid \in Pids /\ pidfile[s].boot = boots) =>
      proc[pidfile[s].pid].svc \in {s, ""} /\ pidfile[s].pid < next_pid

(* A service whose binary cannot be executed leaves no file of this boot
   behind once its processes have ended, in whatever order two of them made,
   wrote and removed the file, unless one of them was killed before that. *)
FailedLeavesNone ==
  \A s \in Services \ Runs :
    ((\A p \in Pids : proc[p].svc = s => ~Alive(p)) /\ s \notin aimed.killed)
      => (pidfile[s].pid = 0 \/ pidfile[s].boot # boots)

(* Every boot starts every service that has a manifest and a binary, whatever
   pid files an earlier boot left, as long as the daemon is asked nothing else. *)
AllStarted ==
  \A s \in Good \cap Runs : []<>(s \in started \/ ops > 0)

-----------------------------------------------------------------------------
(* What the source says of itself and the code does not do.                  *)

(* "The service is already running" (svc.c:70), in which case service_start
   does nothing: no service is started a second time beside the first. *)
StartedOnce ==
  \A p, q \in Pids : (p # q /\ proc[p].st = "runs" /\ proc[q].st = "runs")
    => proc[p].svc # proc[q].svc

(* "Stop the service" (svc.h:14): what service_stop kills is a process of that
   service. *)
StopsThat == aimed.hit \in {"", aimed.svc}

(* The same of a file that an earlier boot left. *)
StaleStopsNone == aimed.boot < boots => aimed.hit \in {"", aimed.svc}

(* "Service wasn't running!" (svc.c:143): when service_stop returns without
   having killed anything, no process of the service is about to run. *)
WasNotRunning ==
  [][(pc = "stop" /\ pc' = "idle") => ~\E p \in Pids : Alive(p) /\ proc[p].svc = svc]_vars
=============================================================================
