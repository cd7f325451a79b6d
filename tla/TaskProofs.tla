----------------------------- MODULE TaskProofs -----------------------------
(***************************************************************************)
(* The safety properties of Task, proved for any number of processes, any  *)
(* time slice, and whatever tasks pass to exit, waitpid and detach.        *)
(*                                                                         *)
(* The inductive invariant IInv says, in parts: the ready queue is one     *)
(* ring through its head that holds just the runnable tasks (QueueInv);    *)
(* what flags go together (FlagInv); which flags go with which place in    *)
(* the code (PlaceInv); what the CPU may be doing (CpuInv); the family     *)
(* pointers (FamilyInv); and the two properties about waitpid.             *)
(*                                                                         *)
(* From it follows that task.c implements Lifecycle: every step is         *)
(* classified by what it does to the stages, which it leaves alone or in   *)
(* which it moves one process one stage on.                                *)
(***************************************************************************)
EXTENDS TaskLife, TLAPS

-----------------------------------------------------------------------------
(* What list_add and list_rem do to the nodes of a list with head h, for     *)
(* every set of nodes.                                                       *)

(* Following next from any linked node reaches the head: a rank grows on    *)
(* the way.  Without this two nodes could point at each other, off the      *)
(* list, and removing one would silently unlink the other.                  *)
Ranked(q, N, h) ==
  \E rank \in [N -> Int] :
    \A n \in N \ {h} :
      q.next[n] # n /\ q.next[n] # h => rank[n] < rank[q.next[n]]

(* A well-formed list. *)
WellFormed(q, N, h) ==
  q \in ListOver(N) /\ Linked(q, N) /\ Ranked(q, N, h)

(* list_add of an unlinked node keeps the list well formed, links that node *)
(* and nothing else, and leaves the end of a list that is not empty alone.  *)
LEMMA ListAdd ==
  ASSUME NEW N, NEW h \in N, NEW q, WellFormed(q, N, h),
         NEW x \in N \ {h}, ~ list_inserted(q, x)
  PROVE  LET r == list_add(q, x, h) IN
         /\ WellFormed(r, N, h)
         /\ \A n \in N \ {h} : list_inserted(r, n) <=> n = x \/ list_inserted(q, n)
         /\ q.prev[h] # h => r.prev[h] = q.prev[h]
         /\ r.next[h] = x
PROOF
<1> DEFINE r == list_add(q, x, h)
           f == q.next[h]
<1>1. /\ q.next \in [N -> N] /\ q.prev \in [N -> N] /\ f \in N
      /\ \A n \in N : q.prev[q.next[n]] = n /\ q.next[q.prev[n]] = n
      /\ q.next[x] = x /\ q.prev[x] = x
  BY DEF WellFormed, ListOver, Linked, list_inserted
<1>2. f # x
  BY <1>1
<1>3. /\ r.next = [q.next EXCEPT ![h] = x, ![x] = f]
      /\ r.prev = [q.prev EXCEPT ![f] = x, ![x] = h]
  BY DEF list_add, list_splice
<1>4. r \in ListOver(N)
  BY <1>1, <1>3 DEF ListOver, list_add, list_splice
<1>5. /\ \A n \in N : r.next[n] = IF n = x THEN f ELSE IF n = h THEN x ELSE q.next[n]
      /\ \A n \in N : r.prev[n] = IF n = x THEN h ELSE IF n = f THEN x ELSE q.prev[n]
  BY <1>1, <1>2, <1>3
<1>6. Linked(r, N)
  BY <1>1, <1>2, <1>5 DEF Linked
<1>7. Ranked(r, N, h)
  <2>1. PICK rank \in [N -> Int] :
          \A n \in N \ {h} :
            q.next[n] # n /\ q.next[n] # h => rank[n] < rank[q.next[n]]
    BY DEF WellFormed, Ranked
  <2> DEFINE rr == [rank EXCEPT ![x] = rank[f] - 1]
  <2>2. rr \in [N -> Int]
    BY <1>1, <2>1
  <2>3. ASSUME NEW n \in N \ {h}, r.next[n] # n, r.next[n] # h
        PROVE  rr[n] < rr[r.next[n]]
    <3>1. CASE n = x
      BY <1>1, <1>2, <1>5, <2>1, <3>1
    <3>2. CASE n # x
      <4>1. r.next[n] = q.next[n] /\ q.next[n] # x
        BY <1>1, <1>5, <3>2
      <4> QED BY <1>1, <2>1, <2>3, <3>2, <4>1
    <3> QED BY <3>1, <3>2
  <2> QED BY <2>2, <2>3, Zenon DEF Ranked
<1>8. \A n \in N \ {h} : list_inserted(r, n) <=> n = x \/ list_inserted(q, n)
  BY <1>1, <1>2, <1>5 DEF list_inserted
<1>9. q.prev[h] # h => r.prev[h] = q.prev[h]
  BY <1>1, <1>2, <1>5
<1> QED BY <1>4, <1>5, <1>6, <1>7, <1>8, <1>9 DEF WellFormed

(* list_rem keeps the list well formed, unlinks its node and nothing else,  *)
(* and leaves the end of the list alone unless the node is the end.         *)
LEMMA ListRem ==
  ASSUME NEW N, NEW h \in N, NEW q, WellFormed(q, N, h), NEW x \in N \ {h}
  PROVE  LET r == list_rem(q, x) IN
         /\ WellFormed(r, N, h)
         /\ \A n \in N \ {h} : list_inserted(r, n) <=> n # x /\ list_inserted(q, n)
         /\ q.prev[h] # x => r.prev[h] = q.prev[h]
PROOF
<1> DEFINE r == list_rem(q, x)
           a == q.next[x]
           b == q.prev[x]
<1>1. /\ q.next \in [N -> N] /\ q.prev \in [N -> N] /\ a \in N /\ b \in N
      /\ \A n \in N : q.prev[q.next[n]] = n /\ q.next[q.prev[n]] = n
  BY DEF WellFormed, ListOver, Linked
<1>2. /\ r.next = [q.next EXCEPT ![b] = a, ![x] = x]
      /\ r.prev = [q.prev EXCEPT ![a] = b, ![x] = x]
  BY DEF list_rem
<1>3. r \in ListOver(N)
  BY <1>1, <1>2 DEF ListOver, list_rem
<1>4. /\ \A n \in N : r.next[n] = IF n = x THEN x ELSE IF n = b THEN a ELSE q.next[n]
      /\ \A n \in N : r.prev[n] = IF n = x THEN x ELSE IF n = a THEN b ELSE q.prev[n]
  BY <1>1, <1>2
<1>5. Linked(r, N)
  BY <1>1, <1>4 DEF Linked
<1>6. PICK rank \in [N -> Int] :
        \A n \in N \ {h} :
          q.next[n] # n /\ q.next[n] # h => rank[n] < rank[q.next[n]]
  BY DEF WellFormed, Ranked
<1>7. ASSUME NEW n \in N \ {h}, r.next[n] # n, r.next[n] # h
      PROVE  rank[n] < rank[r.next[n]]
  <2>1. n # x
    BY <1>4, <1>7
  <2>2. CASE n = b
    <3>1. q.next[n] = x /\ r.next[n] = a /\ a # x /\ a # h
      BY <1>1, <1>4, <1>7, <2>1, <2>2
    <3>2. rank[n] < rank[x] /\ rank[x] < rank[a]
      BY <1>1, <1>6, <2>1, <3>1
    <3> QED BY <1>1, <1>6, <3>1, <3>2
  <2>3. CASE n # b
    BY <1>1, <1>4, <1>6, <1>7, <2>1, <2>3
  <2> QED BY <2>2, <2>3
<1>8. Ranked(r, N, h)
  BY <1>6, <1>7 DEF Ranked
<1>9. ASSUME NEW n \in N \ {h}
      PROVE  list_inserted(r, n) <=> n # x /\ list_inserted(q, n)
  <2>1. CASE n = x
    BY <1>4, <2>1 DEF list_inserted
  <2>2. CASE n # x /\ n # b
    BY <1>1, <1>4, <2>2 DEF list_inserted
  <2>3. CASE n # x /\ n = b
    <3>1. q.next[n] = x /\ r.next[n] = a
      BY <1>1, <1>4, <2>3
    <3>2. a # n
      <4>1. rank[n] < rank[x]
        BY <1>6, <2>3, <3>1
      <4>2. SUFFICES ASSUME a = n PROVE FALSE
        OBVIOUS
      <4>3. rank[x] < rank[n]
        BY <1>6, <2>3, <4>2
      <4> QED BY <1>6, <4>1, <4>3
    <3> QED BY <2>3, <3>1, <3>2 DEF list_inserted
  <2> QED BY <2>1, <2>2, <2>3
<1>10. q.prev[h] # x => r.prev[h] = q.prev[h]
  BY <1>1, <1>4
<1> QED BY <1>3, <1>5, <1>8, <1>9, <1>10 DEF WellFormed

-----------------------------------------------------------------------------
QueueInv ==
  /\ WellFormed(ready_tasks, Node, Head)
  /\ \A p \in Pid :
       list_inserted(ready_tasks, p)
         <=> p \in globlist /\ ~ T_WAITING(p) /\ ~ T_ISZOMBIE(p)
  /\ IdleIsLast

FlagInv ==
  /\ 0 \in globlist
  /\ \A p \in globlist :
       /\ p < next_pid
       /\ \/ t_flags[p] = {"TF_EXIT"}
          \/ t_flags[p] = {"TF_ZOMBIE"}
          \/ /\ "TF_RUNNING" \in t_flags[p]
             /\ "TF_EXIT" \notin t_flags[p] /\ "TF_ZOMBIE" \notin t_flags[p]
  /\ \A p \in Pid \ globlist : t_flags[p] = {}

PlaceInv ==
  /\ pc[0] = "kernel"
  /\ \A p \in Pid :
       /\ "TF_WAITTASK" \in t_flags[p] => pc[p] = "waitpid"
       /\ "TF_WAITIO" \in t_flags[p] => pc[p] \in {"io", "ksched", "kwait"}
       /\ "TF_RUNNING" \notin t_flags[p] => pc[p] \in {"user", "kernel"}

CpuInv ==
  /\ curdir \in globlist /\ ~ T_ISZOMBIE(curdir)
  /\ mode # "sched" =>
       /\ current = curdir
       /\ T_WAITING(current) => "TF_RESCHED" \in t_flags[current]
  /\ mode = "run" =>
       /\ "TF_RUNNING" \in t_flags[current]
       /\ T_WAITING(current) => pc[current] = "ksched"
  /\ mode = "sched" /\ current # NULL =>
       current \in globlist /\ ~ T_ISZOMBIE(current)

FamilyInv ==
  /\ FamilyConsistent
  /\ \A p, c \in Pid : t_parent[c] = p => c \in t_children[p] \/ p = 0

IInv == /\ TypeOK
        /\ QueueInv
        /\ FlagInv
        /\ PlaceInv
        /\ CpuInv
        /\ FamilyInv
        /\ NoMissedExit
        /\ WokenByZombie

-----------------------------------------------------------------------------
(* The pids and the nodes of the queue. *)
LEMMA Nodes ==
  /\ Pid \subseteq Int /\ 0 \in Pid /\ Head \in Node /\ Node \ {Head} = Pid
  /\ NULL \notin Pid /\ Head \notin Pid /\ NULL # Head
BY BoundAssumption, NodeAssumption DEF Pid, Node

(* What the queue is after task_wakeup of a task that waits. *)
LEMMA Woken ==
  ASSUME NEW q, WellFormed(q, Node, Head), q.prev[Head] = 0,
         NEW p \in Pid, ~ list_inserted(q, p)
  PROVE  LET r == WokenQueue(q, p) IN
         /\ WellFormed(r, Node, Head)
         /\ \A n \in Pid : list_inserted(r, n) <=> n = p \/ list_inserted(q, n)
         /\ r.prev[Head] = 0
PROOF
<1>1. WokenQueue(q, p) = list_add(q, p, Head)
  BY DEF WokenQueue
<1> QED BY <1>1, Nodes, ListAdd

(* What the queue is after list_rem of a task other than the idle one. *)
LEMMA Unqueued ==
  ASSUME NEW q, WellFormed(q, Node, Head), q.prev[Head] = 0,
         NEW p \in Pid, p # 0
  PROVE  LET r == list_rem(q, p) IN
         /\ WellFormed(r, Node, Head)
         /\ \A n \in Pid : list_inserted(r, n) <=> n # p /\ list_inserted(q, n)
         /\ r.prev[Head] = 0
PROOF
<1>1. Head \in Node /\ p \in Node \ {Head} /\ q.prev[Head] # p
  BY Nodes
<1> QED BY <1>1, Nodes, ListRem

(* Each part of the invariant holds on while the variables it is about do   *)
(* not change.                                                              *)
LEMMA Frame ==
  ASSUME IInv
  PROVE  /\ UNCHANGED <<ready_tasks, globlist, t_flags>> => QueueInv'
         /\ UNCHANGED <<globlist, next_pid, t_flags>> => FlagInv'
         /\ UNCHANGED <<t_flags, pc>> => PlaceInv'
         /\ UNCHANGED <<mode, current, curdir, globlist, t_flags, pc>> => CpuInv'
         /\ UNCHANGED <<globlist, t_flags, t_parent, t_children>> => FamilyInv'
         /\ UNCHANGED <<t_flags, t_children, t_waitfor>> => NoMissedExit'
         /\ UNCHANGED <<globlist, t_flags, t_parent, t_waitfor, t_status, pc>>
              => WokenByZombie'
PROOF
<1>1. t_flags' = t_flags => \A p : (T_WAITING(p)' <=> T_WAITING(p))
                                 /\ (T_ISZOMBIE(p)' <=> T_ISZOMBIE(p))
  BY DEF T_WAITING, T_ISZOMBIE
<1>2. UNCHANGED <<ready_tasks, globlist, t_flags>> => QueueInv'
  BY <1>1 DEF IInv, QueueInv, IdleIsLast
<1>3. UNCHANGED <<globlist, next_pid, t_flags>> => FlagInv'
  BY DEF IInv, FlagInv
<1>4. UNCHANGED <<t_flags, pc>> => PlaceInv'
  BY DEF IInv, PlaceInv
<1>5. UNCHANGED <<mode, current, curdir, globlist, t_flags, pc>> => CpuInv'
  BY DEF IInv, CpuInv, T_WAITING, T_ISZOMBIE
<1>6. UNCHANGED <<globlist, t_flags, t_parent, t_children>> => FamilyInv'
  BY <1>1 DEF IInv, FamilyInv, FamilyConsistent
<1>7. UNCHANGED <<t_flags, t_children, t_waitfor>> => NoMissedExit'
  BY <1>1 DEF IInv, NoMissedExit
<1>8. UNCHANGED <<globlist, t_flags, t_parent, t_waitfor, t_status, pc>>
        => WokenByZombie'
  BY <1>1 DEF IInv, WokenByZombie
<1> QED BY <1>2, <1>3, <1>4, <1>5, <1>6, <1>7, <1>8

(* A step that changes nothing but the CPU and the pid counter. *)
LEMMA CpuStep ==
  ASSUME IInv, TypeOK', FlagInv', CpuInv',
         UNCHANGED <<ready_tasks, globlist, t_flags, t_parent, t_children,
                     t_waitfor, t_status, pc>>
  PROVE  IInv'
BY Frame DEF IInv

(* The initial state. *)
LEMMA InitIInv == Init => IInv
PROOF
<1> SUFFICES ASSUME Init PROVE IInv
  OBVIOUS
<1> USE Nodes
<1> DEFINE e == INIT_LIST(Node)
<1>1. /\ e.next = [n \in Node |-> n] /\ e.prev = [n \in Node |-> n]
      /\ e \in ListOver(Node)
  BY DEF INIT_LIST, ListOver
<1>2. WellFormed(e, Node, Head)
  <2>1. Linked(e, Node)
    BY <1>1 DEF Linked
  <2>2. Ranked(e, Node, Head)
    <3>1. [n \in Node |-> 0] \in [Node -> Int]
      OBVIOUS
    <3> QED BY <1>1, <3>1, Zenon DEF Ranked
  <2> QED BY <1>1, <2>1, <2>2 DEF WellFormed
<1>3. \A n \in Node : ~ list_inserted(e, n)
  BY <1>1 DEF list_inserted
<1>4. /\ WellFormed(ready_tasks, Node, Head)
      /\ \A n \in Pid : list_inserted(ready_tasks, n) <=> n = 0
      /\ ready_tasks.next[Head] = 0
  BY <1>2, <1>3, ListAdd DEF Init
<1>5. ready_tasks \in ListOver(Node) /\ ready_tasks.prev[Head] = 0
  BY <1>1, <1>4 DEF Init, WellFormed, list_add, list_splice
<1>6. TypeOK
  BY <1>5, BoundAssumption, CodeAssumption DEF Init, TypeOK, TF, Place, Pid
<1>7. QueueInv
  BY <1>4, <1>5 DEF Init, QueueInv, IdleIsLast, T_WAITING, T_ISZOMBIE, TF_WAITMASK
<1>8. FlagInv /\ PlaceInv
  BY DEF Init, FlagInv, PlaceInv
<1>9. CpuInv
  BY DEF Init, CpuInv, T_WAITING, T_ISZOMBIE, TF_WAITMASK
<1>10. FamilyInv
  BY DEF Init, FamilyInv, FamilyConsistent, T_ISZOMBIE
<1>11. NoMissedExit /\ WokenByZombie
  BY DEF Init, NoMissedExit, WokenByZombie
<1> QED BY <1>6, <1>7, <1>8, <1>9, <1>10, <1>11 DEF IInv

-----------------------------------------------------------------------------
(* One lemma for each action: it preserves IInv. *)

LEMMA ForkIInv == IInv /\ sys_fork => IInv'
PROOF
<1> SUFFICES ASSUME IInv, sys_fork PROVE IInv'
  OBVIOUS
<1> USE Nodes
<1> DEFINE c == next_pid
<1>1. /\ TypeOK /\ QueueInv /\ FlagInv /\ PlaceInv /\ CpuInv /\ FamilyInv
      /\ NoMissedExit /\ WokenByZombie
  BY DEF IInv
<1>2. /\ mode = "run" /\ pc[current] \in {"user", "kernel"}
      /\ current \in globlist /\ current \in Pid /\ ~ T_ISZOMBIE(current)
      /\ "TF_RUNNING" \in t_flags[current] /\ ~ T_WAITING(current)
  BY <1>1 DEF sys_fork, Executing, TypeOK, CpuInv
<1>3. c \in Pid /\ c \notin globlist /\ c # current /\ c # 0
  BY <1>1, <1>2 DEF sys_fork, FlagInv, TypeOK
<1>4. /\ t_flags' = [t_flags EXCEPT ![c] = t_flags[current]]
      /\ t_parent' = [t_parent EXCEPT ![c] = current]
      /\ t_children' = [t_children EXCEPT ![current] = @ \cup {c}]
      /\ ready_tasks' = list_add(ready_tasks, c, Head)
      /\ globlist' = globlist \cup {c}
      /\ next_pid' = c + 1 /\ mode' = "preempt"
      /\ UNCHANGED <<current, curdir, ticks_left, t_gid, t_waitfor, t_status, pc>>
  BY DEF sys_fork
<1>5. /\ WellFormed(ready_tasks, Node, Head) /\ ready_tasks.prev[Head] = 0
      /\ ~ list_inserted(ready_tasks, c)
  BY <1>1, <1>3 DEF QueueInv, IdleIsLast
<1>6. /\ WellFormed(ready_tasks', Node, Head) /\ ready_tasks'.prev[Head] = 0
      /\ \A n \in Pid : list_inserted(ready_tasks', n)
                          <=> n = c \/ list_inserted(ready_tasks, n)
  BY <1>3, <1>4, <1>5, ListAdd
<1>7. TypeOK'
  <2>1. next_pid' \in 1 .. MaxPid + 1
    BY <1>1, <1>3, <1>4, BoundAssumption DEF TypeOK, Pid
  <2> QED BY <1>1, <1>2, <1>3, <1>4, <1>6, <2>1, Zenon DEF TypeOK, WellFormed
<1>8. QueueInv'
  BY <1>1, <1>2, <1>3, <1>4, <1>6
  DEF QueueInv, IdleIsLast, T_WAITING, T_ISZOMBIE, TypeOK
<1>9. FlagInv'
  BY <1>1, <1>2, <1>3, <1>4 DEF FlagInv, T_WAITING, T_ISZOMBIE, TypeOK, CpuInv
<1>10. PlaceInv'
  BY <1>1, <1>2, <1>3, <1>4 DEF FlagInv, PlaceInv, T_WAITING, TF_WAITMASK, TypeOK
<1>11. CpuInv'
  BY <1>1, <1>2, <1>3, <1>4 DEF CpuInv, T_WAITING, T_ISZOMBIE, TypeOK
<1>12. FamilyInv'
  BY <1>1, <1>2, <1>3, <1>4 DEF FamilyInv, FamilyConsistent, T_ISZOMBIE, TypeOK
<1>13. NoMissedExit'
  BY <1>1, <1>2, <1>3, <1>4
  DEF NoMissedExit, T_ISZOMBIE, T_WAITING, TF_WAITMASK, TypeOK
<1>14. WokenByZombie'
  BY <1>1, <1>2, <1>3, <1>4
  DEF WokenByZombie, PlaceInv, FlagInv, T_WAITING, TF_WAITMASK, TypeOK
<1> QED BY <1>7, <1>8, <1>9, <1>10, <1>11, <1>12, <1>13, <1>14 DEF IInv

LEMMA SpawnIInv == IInv /\ worker_spawn => IInv'
PROOF
<1> SUFFICES ASSUME IInv, worker_spawn PROVE IInv'
  OBVIOUS
<1> USE Nodes
<1> DEFINE c == next_pid
<1>1. /\ TypeOK /\ QueueInv /\ FlagInv /\ PlaceInv /\ CpuInv /\ FamilyInv
      /\ NoMissedExit /\ WokenByZombie
  BY DEF IInv
<1>2. mode = "run" /\ current = 0 /\ pc[0] = "kernel" /\ 0 \in globlist
  BY <1>1 DEF worker_spawn, Executing, FlagInv
<1>3. c \in Pid /\ c \notin globlist /\ c # 0
  BY <1>1, <1>2 DEF worker_spawn, FlagInv, TypeOK
<1>4. /\ t_flags' = [t_flags EXCEPT ![c] = {"TF_RUNNING"}]
      /\ t_parent' = [t_parent EXCEPT ![c] = 0]
      /\ ready_tasks' = list_add(ready_tasks, c, Head)
      /\ globlist' = globlist \cup {c}
      /\ pc' = [pc EXCEPT ![c] = "kernel"]
      /\ next_pid' = c + 1 /\ mode' = "preempt"
      /\ UNCHANGED <<current, curdir, ticks_left, t_children, t_gid, t_waitfor, t_status>>
  BY <1>2 DEF worker_spawn
<1>5. /\ WellFormed(ready_tasks, Node, Head) /\ ready_tasks.prev[Head] = 0
      /\ ~ list_inserted(ready_tasks, c)
  BY <1>1, <1>3 DEF QueueInv, IdleIsLast
<1>6. /\ WellFormed(ready_tasks', Node, Head) /\ ready_tasks'.prev[Head] = 0
      /\ \A n \in Pid : list_inserted(ready_tasks', n)
                          <=> n = c \/ list_inserted(ready_tasks, n)
  BY <1>3, <1>4, <1>5, ListAdd
<1>7. TypeOK'
  <2>1. next_pid' \in 1 .. MaxPid + 1
    BY <1>1, <1>3, <1>4, BoundAssumption DEF TypeOK, Pid
  <2> QED BY <1>1, <1>2, <1>3, <1>4, <1>6, <2>1 DEF TypeOK, WellFormed, TF, Place
<1>8. QueueInv'
  <2>1. \A p \in Pid : t_flags'[p] = IF p = c THEN {"TF_RUNNING"} ELSE t_flags[p]
    BY <1>1, <1>3, <1>4 DEF TypeOK
  <2>2. ASSUME NEW p \in Pid
        PROVE  list_inserted(ready_tasks', p)
                 <=> p \in globlist' /\ ~ T_WAITING(p)' /\ ~ T_ISZOMBIE(p)'
    <3>1. CASE p = c
      BY <1>3, <1>4, <1>6, <2>1, <3>1 DEF T_WAITING, T_ISZOMBIE, TF_WAITMASK
    <3>2. CASE p # c
      <4>1. (T_WAITING(p)' <=> T_WAITING(p)) /\ (T_ISZOMBIE(p)' <=> T_ISZOMBIE(p))
        BY <2>1, <3>2 DEF T_WAITING, T_ISZOMBIE
      <4> QED BY <1>1, <1>3, <1>4, <1>6, <3>2, <4>1 DEF QueueInv
    <3> QED BY <3>1, <3>2
  <2>3. t_flags'[0] = {"TF_RUNNING"}
    BY <1>1, <1>3, <2>1 DEF QueueInv, IdleIsLast
  <2> QED BY <1>6, <2>2, <2>3, Zenon DEF QueueInv, IdleIsLast
<1>9. FlagInv'
  BY <1>1, <1>2, <1>3, <1>4 DEF FlagInv, TypeOK
<1>10. PlaceInv'
  BY <1>1, <1>2, <1>3, <1>4 DEF FlagInv, PlaceInv, TypeOK
<1>11. CpuInv'
  BY <1>1, <1>2, <1>3, <1>4 DEF CpuInv, T_WAITING, T_ISZOMBIE, TypeOK
<1>12. FamilyInv'
  BY <1>1, <1>2, <1>3, <1>4
  DEF FamilyInv, FamilyConsistent, T_ISZOMBIE, TypeOK, QueueInv, IdleIsLast
<1>13. NoMissedExit'
  BY <1>1, <1>2, <1>3, <1>4 DEF NoMissedExit, T_ISZOMBIE, TypeOK
<1>14. WokenByZombie'
  BY <1>1, <1>2, <1>3, <1>4
  DEF WokenByZombie, PlaceInv, FlagInv, T_WAITING, TF_WAITMASK, TypeOK
<1> QED BY <1>7, <1>8, <1>9, <1>10, <1>11, <1>12, <1>13, <1>14 DEF IInv

LEMMA ForkFailsIInv == IInv /\ ForkFails => IInv'
PROOF
<1> SUFFICES ASSUME IInv, ForkFails PROVE IInv'
  OBVIOUS
<1>1. next_pid' \in 1 .. MaxPid + 1 /\ next_pid' = next_pid + 1 /\ next_pid \in Int
  BY BoundAssumption DEF IInv, TypeOK, ForkFails, Pid
<1>2. TypeOK'
  BY <1>1 DEF IInv, TypeOK, ForkFails
<1>3. FlagInv'
  BY <1>1, Nodes DEF IInv, TypeOK, FlagInv, ForkFails
<1>4. CpuInv'
  BY Frame DEF ForkFails
<1> QED BY <1>2, <1>3, <1>4, CpuStep DEF ForkFails

LEMMA ExitIInv == ASSUME NEW code \in Code, IInv, sys_exit(code) PROVE IInv'
PROOF
<1> USE Nodes
<1>1. /\ TypeOK /\ QueueInv /\ FlagInv /\ PlaceInv /\ CpuInv /\ FamilyInv
      /\ NoMissedExit /\ WokenByZombie
  BY DEF IInv
<1>2. /\ mode = "run" /\ pc[current] \in {"user", "kernel"} /\ current # 0
      /\ current \in globlist /\ current \in Pid /\ ~ T_ISZOMBIE(current)
      /\ "TF_RUNNING" \in t_flags[current] /\ ~ T_WAITING(current)
  BY <1>1 DEF sys_exit, Executing, TypeOK, CpuInv
<1>3. /\ t_flags' = [t_flags EXCEPT ![current] = {"TF_EXIT"}]
      /\ t_status' = [t_status EXCEPT ![current] = code]
      /\ mode' = "preempt" /\ ticks_left' = 0
      /\ UNCHANGED <<current, curdir, ready_tasks, globlist, next_pid, t_parent,
                     t_children, t_gid, t_waitfor, pc>>
  BY DEF sys_exit
<1>4. TypeOK'
  BY <1>1, <1>2, <1>3 DEF TypeOK, TF
<1>5. QueueInv'
  BY <1>1, <1>2, <1>3
  DEF QueueInv, IdleIsLast, T_WAITING, T_ISZOMBIE, TypeOK, TF_WAITMASK
<1>6. FlagInv' /\ PlaceInv'
  BY <1>1, <1>2, <1>3 DEF FlagInv, PlaceInv, TypeOK
<1>7. CpuInv'
  BY <1>1, <1>2, <1>3 DEF CpuInv, T_WAITING, T_ISZOMBIE, TypeOK, TF_WAITMASK
<1>8. FamilyInv'
  BY <1>1, <1>2, <1>3 DEF FamilyInv, FamilyConsistent, T_ISZOMBIE, TypeOK
<1>9. NoMissedExit'
  BY <1>1, <1>2, <1>3 DEF NoMissedExit, T_ISZOMBIE, TypeOK
<1>10. WokenByZombie'
  BY <1>1, <1>2, <1>3
  DEF WokenByZombie, T_WAITING, T_ISZOMBIE, TF_WAITMASK, TypeOK
<1> QED BY <1>4, <1>5, <1>6, <1>7, <1>8, <1>9, <1>10 DEF IInv

LEMMA SetsidIInv == IInv /\ task_setsid => IInv'
PROOF
<1> SUFFICES ASSUME IInv, task_setsid PROVE IInv'
  OBVIOUS
<1>1. TypeOK'
  BY DEF IInv, TypeOK, CpuInv, task_setsid, Executing
<1>2. FlagInv' /\ CpuInv'
  BY Frame DEF task_setsid
<1> QED BY <1>1, <1>2, CpuStep DEF task_setsid

LEMMA DetachIInv == ASSUME NEW p \in Pid, IInv, task_detach(p) PROVE IInv'
PROOF
<1> USE Nodes
<1>1. /\ TypeOK /\ QueueInv /\ FlagInv /\ PlaceInv /\ CpuInv /\ FamilyInv
      /\ NoMissedExit /\ WokenByZombie
  BY DEF IInv
<1>2. /\ t_children' = [q \in Pid |-> t_children[q] \ {p}]
      /\ t_parent' = [t_parent EXCEPT ![p] = NULL]
      /\ UNCHANGED <<mode, current, curdir, ready_tasks, globlist, next_pid,
                     ticks_left, t_flags, t_gid, t_waitfor, t_status, pc>>
  BY DEF task_detach
<1>3. TypeOK'
  BY <1>1, <1>2 DEF TypeOK
<1>4. QueueInv' /\ FlagInv' /\ PlaceInv' /\ CpuInv'
  BY <1>1, <1>2
  DEF QueueInv, IdleIsLast, FlagInv, PlaceInv, CpuInv, T_WAITING, T_ISZOMBIE
<1>5. FamilyInv'
  BY <1>1, <1>2 DEF FamilyInv, FamilyConsistent, T_ISZOMBIE, TypeOK
<1>6. NoMissedExit'
  BY <1>1, <1>2 DEF NoMissedExit, T_ISZOMBIE, TypeOK
<1>7. WokenByZombie'
  BY <1>1, <1>2 DEF WokenByZombie, T_WAITING, TypeOK
<1> QED BY <1>3, <1>4, <1>5, <1>6, <1>7 DEF IInv

(* Freeing a zombie c that no sleeper is about to free, from a system call  *)
(* that then returns to user code.                                          *)
LEMMA ReapIInv ==
  ASSUME IInv, mode = "run", pc[current] \in {"user", "waitpid"},
         NEW c \in globlist, t_flags[c] = {"TF_ZOMBIE"}, Reap(c),
         pc' = [pc EXCEPT ![current] = "user"],
         UNCHANGED <<mode, current, curdir, ready_tasks, next_pid, ticks_left>>,
         \A q \in globlist \ {current} :
           pc[q] = "waitpid" /\ ~ T_WAITING(q) => t_waitfor[q] # c
  PROVE  IInv'
PROOF
<1> USE Nodes
<1>1. /\ TypeOK /\ QueueInv /\ FlagInv /\ PlaceInv /\ CpuInv /\ FamilyInv
      /\ NoMissedExit /\ WokenByZombie
  BY DEF IInv
<1>2. /\ current \in globlist /\ current \in Pid /\ c \in Pid
      /\ "TF_RUNNING" \in t_flags[current] /\ ~ T_WAITING(current)
      /\ c # current /\ c # 0 /\ c # curdir
  BY <1>1 DEF CpuInv, TypeOK, QueueInv, IdleIsLast
<1>3. /\ t_children' \in [Pid -> SUBSET Pid]
      /\ \A p, d \in Pid : d \in t_children'[p] <=> d \in t_children[p] /\ d # c
  <2>1. CASE t_parent[c] = NULL
    BY <1>1, <1>2, <2>1 DEF Reap, TypeOK, FamilyInv, FamilyConsistent
  <2>2. CASE t_parent[c] # NULL
    <3>1. t_parent[c] \in Pid
          /\ t_children' = [t_children EXCEPT ![t_parent[c]] = @ \ {c}]
      BY <1>1, <1>2, <2>2 DEF Reap, TypeOK
    <3> QED BY <1>1, <1>2, <3>1, ZenonT(40) DEF TypeOK, FamilyInv, FamilyConsistent
  <2> QED BY <2>1, <2>2
<1>4. /\ globlist' = globlist \ {c}
      /\ t_flags' = [t_flags EXCEPT ![c] = {}]
      /\ t_parent' = [t_parent EXCEPT ![c] = NULL]
      /\ t_gid' = [t_gid EXCEPT ![c] = 0]
      /\ t_status' = [t_status EXCEPT ![c] = 0]
      /\ t_waitfor' = [t_waitfor EXCEPT ![c] = 0]
  BY DEF Reap
<1>5. TypeOK'
  BY <1>1, <1>2, <1>3, <1>4, CodeAssumption DEF TypeOK, Place
<1>6. QueueInv'
  BY <1>1, <1>2, <1>4
  DEF QueueInv, IdleIsLast, T_WAITING, T_ISZOMBIE, TypeOK, TF_WAITMASK
<1>7. FlagInv'
  BY <1>1, <1>2, <1>4 DEF FlagInv, TypeOK
<1>8. PlaceInv'
  BY <1>1, <1>2, <1>4 DEF PlaceInv, T_WAITING, TF_WAITMASK, TypeOK
<1>9. CpuInv'
  BY <1>1, <1>2, <1>4 DEF CpuInv, T_WAITING, T_ISZOMBIE, TypeOK
<1>10. FamilyInv'
  <2>1. \A d \in Pid : t_parent[d] # c
    BY <1>1, <1>2 DEF FamilyInv, FamilyConsistent, T_ISZOMBIE
  <2> QED
    BY <1>1, <1>2, <1>3, <1>4, <2>1 DEF FamilyInv, FamilyConsistent, T_ISZOMBIE, TypeOK
<1>11. NoMissedExit'
  BY <1>1, <1>2, <1>3, <1>4 DEF NoMissedExit, T_ISZOMBIE, TypeOK
<1>12. WokenByZombie'
  <2> SUFFICES ASSUME NEW p \in Pid, p \in globlist', pc'[p] = "waitpid",
                      ~ T_WAITING(p)'
               PROVE  LET d == t_waitfor'[p] IN
                      /\ d \in globlist'
                      /\ t_flags'[d] = {"TF_ZOMBIE"}
                      /\ t_parent'[d] \in {p, NULL}
                      /\ t_status'[p] = t_status'[d]
                      /\ \A q \in globlist' \ {p} :
                           pc'[q] = "waitpid" /\ ~ T_WAITING(q)' => t_waitfor'[q] # d
    BY DEF WokenByZombie
  <2>1. p \in globlist /\ p # c /\ p # current /\ pc[p] = "waitpid" /\ ~ T_WAITING(p)
    BY <1>1, <1>2, <1>4 DEF T_WAITING, TypeOK
  <2>2. t_waitfor'[p] = t_waitfor[p] /\ t_waitfor[p] # c
    BY <1>1, <1>4, <2>1 DEF TypeOK
  <2>3. ASSUME NEW q \in globlist' \ {p}, pc'[q] = "waitpid", ~ T_WAITING(q)'
        PROVE  t_waitfor'[q] # t_waitfor[p]
    <3>1. q \in globlist \ {p} /\ q # c /\ pc[q] = "waitpid" /\ ~ T_WAITING(q)
      BY <1>1, <1>2, <1>4, <2>3 DEF T_WAITING, TypeOK
    <3> QED BY <1>1, <1>4, <2>1, <3>1 DEF WokenByZombie, TypeOK
  <2> QED BY <1>1, <1>4, <2>1, <2>2, <2>3 DEF WokenByZombie, TypeOK
<1> QED BY <1>5, <1>6, <1>7, <1>8, <1>9, <1>10, <1>11, <1>12 DEF IInv

LEMMA AtOnceIInv == ASSUME NEW w \in WaitArg, IInv, WaitpidAtOnce(w) PROVE IInv'
PROOF
<1> USE Nodes
<1>1. PICK c \in Answers(w) : Reap(c)
  BY DEF WaitpidAtOnce
<1>2. /\ mode = "run" /\ pc[current] = "user" /\ current \in Pid
      /\ UNCHANGED <<mode, current, curdir, ready_tasks, next_pid, ticks_left, pc>>
  BY DEF WaitpidAtOnce, Executing, IInv, CpuInv, TypeOK
<1>3. pc' = [pc EXCEPT ![current] = "user"]
  BY <1>2 DEF IInv, TypeOK
<1>4. c \in globlist /\ t_parent[c] = current /\ T_ISZOMBIE(c)
  BY <1>2 DEF Answers, IInv, FamilyInv, FamilyConsistent, TypeOK
<1>5. t_flags[c] = {"TF_ZOMBIE"}
  BY <1>4 DEF IInv, FlagInv, T_ISZOMBIE
<1>6. ASSUME NEW q \in globlist \ {current}, pc[q] = "waitpid", ~ T_WAITING(q)
      PROVE  t_waitfor[q] # c
  BY <1>2, <1>4, <1>6 DEF IInv, WokenByZombie, TypeOK
<1> QED BY <1>1, <1>2, <1>3, <1>4, <1>5, <1>6, ReapIInv, Zenon

LEMMA WakesIInv == IInv /\ WaitpidWakes => IInv'
PROOF
<1> SUFFICES ASSUME IInv, WaitpidWakes PROVE IInv'
  OBVIOUS
<1> USE Nodes
<1>1. /\ mode = "run" /\ pc[current] = "waitpid" /\ current \in Pid
      /\ current \in globlist /\ ~ T_WAITING(current)
      /\ pc' = [pc EXCEPT ![current] = "user"]
      /\ UNCHANGED <<mode, current, curdir, ready_tasks, next_pid, ticks_left>>
  BY DEF WaitpidWakes, Executing, IInv, CpuInv, TypeOK
<1>2. /\ t_waitfor[current] \in globlist
      /\ t_flags[t_waitfor[current]] = {"TF_ZOMBIE"}
      /\ \A q \in globlist \ {current} :
           pc[q] = "waitpid" /\ ~ T_WAITING(q) => t_waitfor[q] # t_waitfor[current]
  BY <1>1 DEF IInv, WokenByZombie
<1>3. Reap(t_waitfor[current])
  BY <1>2 DEF WaitpidWakes
<1> QED BY <1>1, <1>2, <1>3, ReapIInv

(* Going to sleep with flag f, at a place of the code that goes with it. *)
LEMMA SleepIInv ==
  ASSUME IInv, mode = "run", current # 0, ~ T_WAITING(current),
         NEW f \in TF_WAITMASK, NEW place \in Place, NEW w \in Int,
         f = "TF_WAITTASK" => place = "waitpid",
         f = "TF_WAITIO" => place \in {"io", "ksched"},
         mode' = "preempt" \/ (mode' = "run" /\ place = "ksched"),
         task_wait(current, f),
         pc' = [pc EXCEPT ![current] = place],
         t_waitfor' = [t_waitfor EXCEPT ![current] = w],
         f = "TF_WAITTASK" =>
           \A c \in t_children[current] : w \in {-1, c} => ~ T_ISZOMBIE(c),
         UNCHANGED <<current, curdir, globlist, next_pid, ticks_left, t_parent,
                     t_children, t_gid, t_status>>
  PROVE  IInv'
PROOF
<1> USE Nodes
<1>1. /\ TypeOK /\ QueueInv /\ FlagInv /\ PlaceInv /\ CpuInv /\ FamilyInv
      /\ NoMissedExit /\ WokenByZombie
  BY DEF IInv
<1>2. /\ current \in globlist /\ current \in Pid /\ ~ T_ISZOMBIE(current)
      /\ "TF_RUNNING" \in t_flags[current] /\ "TF_EXIT" \notin t_flags[current]
      /\ f \in {"TF_WAITIO", "TF_WAITTASK"}
  BY <1>1, SMTT(30), ZenonT(30) DEF CpuInv, FlagInv, TypeOK, TF_WAITMASK
<1>3. /\ ready_tasks' = list_rem(ready_tasks, current)
      /\ t_flags' = [t_flags EXCEPT ![current] = @ \cup {f, "TF_RESCHED"}]
  BY SMTT(30), ZenonT(30) DEF task_wait
<1>4. /\ WellFormed(ready_tasks, Node, Head) /\ ready_tasks.prev[Head] = 0
      /\ current \in Pid /\ current # 0
  BY <1>1, <1>2, SMTT(30), ZenonT(30) DEF QueueInv, IdleIsLast
<1>5. /\ WellFormed(ready_tasks', Node, Head) /\ ready_tasks'.prev[Head] = 0
      /\ \A n \in Pid : list_inserted(ready_tasks', n)
                          <=> n # current /\ list_inserted(ready_tasks, n)
  BY <1>3, <1>4, Unqueued
<1>6. TypeOK'
  BY <1>1, <1>2, <1>3, <1>5 DEF TypeOK, WellFormed, TF, TF_WAITMASK
<1>7. QueueInv'
  BY <1>1, <1>2, <1>3, <1>5
  DEF QueueInv, IdleIsLast, T_WAITING, T_ISZOMBIE, TypeOK, TF_WAITMASK
<1>8. FlagInv'
  BY <1>1, <1>2, <1>3 DEF FlagInv, TypeOK, T_ISZOMBIE
<1>9. PlaceInv'
  BY <1>1, <1>2, <1>3 DEF PlaceInv, TypeOK, T_WAITING, TF_WAITMASK
<1>10. CpuInv'
  BY <1>1, <1>2, <1>3 DEF CpuInv, T_WAITING, T_ISZOMBIE, TypeOK
<1>11. FamilyInv'
  BY <1>1, <1>2, <1>3 DEF FamilyInv, FamilyConsistent, T_ISZOMBIE, TypeOK
<1>12. NoMissedExit'
  BY <1>1, <1>2, <1>3 DEF NoMissedExit, T_ISZOMBIE, T_WAITING, TF_WAITMASK, TypeOK
<1>13. WokenByZombie'
  <2>1. T_WAITING(current)'
    BY <1>1, <1>2, <1>3 DEF T_WAITING, TypeOK
  <2>2. \A p \in Pid \ {current} :
          /\ t_flags'[p] = t_flags[p] /\ pc'[p] = pc[p] /\ t_waitfor'[p] = t_waitfor[p]
          /\ T_WAITING(p)' <=> T_WAITING(p)
    BY <1>1, <1>2, <1>3 DEF T_WAITING, TypeOK
  <2>3. \A p \in Pid : t_flags[p] = {"TF_ZOMBIE"} => p # current
    BY <1>2
  <2> QED BY <1>1, <1>2, <2>1, <2>2, <2>3 DEF WokenByZombie, TypeOK
<1> QED BY <1>6, <1>7, <1>8, <1>9, <1>10, <1>11, <1>12, <1>13 DEF IInv

LEMMA WaitpidSleepIInv ==
  ASSUME NEW w \in WaitArg, IInv, WaitpidSleep(w) PROVE IInv'
PROOF
<1> USE Nodes
<1>1. /\ mode = "run" /\ pc[current] = "user" /\ current # 0
      /\ ~ T_WAITING(current) /\ current \in Pid
  BY DEF WaitpidSleep, Executing, IInv, CpuInv, PlaceInv, TypeOK
<1>2. w \in Int
  BY UseAssumption
<1>3. ASSUME NEW c \in t_children[current], w \in {-1, c} PROVE ~ T_ISZOMBIE(c)
  <2>1. c \in globlist /\ c \in Pid /\ t_parent[c] = current
    BY <1>1 DEF IInv, FamilyInv, FamilyConsistent, TypeOK
  <2>2. Answers(w) = {}
    BY DEF WaitpidSleep
  <2>3. CASE w = -1
    BY <1>3, <2>2, <2>3, SMTT(30), ZenonT(30) DEF Answers
  <2>4. CASE w = c /\ c = 0
    BY <2>4 DEF IInv, QueueInv, IdleIsLast, T_ISZOMBIE
  <2>5. CASE w = c /\ c # 0
    <3>1. w > 0
      BY <2>1, <2>5 DEF Pid
    <3> QED BY <2>1, <2>2, <2>5, <3>1 DEF Answers
  <2> QED BY <1>3, <2>3, <2>4, <2>5
<1> QED
  BY <1>1, <1>2, <1>3, SleepIInv, Zenon DEF WaitpidSleep, TF_WAITMASK, Place

LEMMA WaitioIInv == IInv /\ task_waitio => IInv'
PROOF
<1> SUFFICES ASSUME IInv, task_waitio PROVE IInv'
  OBVIOUS
<1>1. /\ mode = "run" /\ pc[current] = "user" /\ current # 0
      /\ ~ T_WAITING(current) /\ current \in Pid
  BY DEF task_waitio, Executing, IInv, CpuInv, PlaceInv, TypeOK
<1>2. /\ t_waitfor[current] \in Int
      /\ t_waitfor' = [t_waitfor EXCEPT ![current] = t_waitfor[current]]
  BY <1>1 DEF task_waitio, IInv, TypeOK
<1> QED BY <1>1, <1>2, SleepIInv, Zenon DEF task_waitio, TF_WAITMASK, Place

LEMMA WorkerWaitsIInv == IInv /\ WorkerWaits => IInv'
PROOF
<1> SUFFICES ASSUME IInv, WorkerWaits PROVE IInv'
  OBVIOUS
<1>1. /\ mode = "run" /\ pc[current] = "kernel" /\ current # 0
      /\ ~ T_WAITING(current) /\ current \in Pid
  BY DEF WorkerWaits, Executing, IInv, CpuInv, PlaceInv, TypeOK
<1>2. /\ t_waitfor[current] \in Int
      /\ t_waitfor' = [t_waitfor EXCEPT ![current] = t_waitfor[current]]
  BY <1>1 DEF WorkerWaits, IInv, TypeOK
<1> QED BY <1>1, <1>2, SleepIInv, Zenon DEF WorkerWaits, TF_WAITMASK, Place

LEMMA WorkerSchedulesIInv == IInv /\ WorkerSchedules => IInv'
PROOF
<1> SUFFICES ASSUME IInv, WorkerSchedules PROVE IInv'
  OBVIOUS
<1> USE Nodes
<1>1. /\ TypeOK /\ QueueInv /\ FlagInv /\ PlaceInv /\ CpuInv /\ FamilyInv
      /\ NoMissedExit /\ WokenByZombie
  BY DEF IInv
<1>2. /\ mode = "run" /\ pc[current] = "ksched" /\ current \in Pid
      /\ pc' = [pc EXCEPT ![current] = "kwait"] /\ mode' = "preempt"
      /\ UNCHANGED <<current, curdir, ready_tasks, globlist, next_pid, ticks_left,
                     t_flags, t_parent, t_children, t_gid, t_waitfor, t_status>>
  BY <1>1 DEF WorkerSchedules, Executing, CpuInv, TypeOK
<1>3. TypeOK' /\ PlaceInv'
  BY <1>1, <1>2 DEF TypeOK, PlaceInv, CpuInv, Place
<1>4. QueueInv' /\ FlagInv' /\ FamilyInv' /\ NoMissedExit'
  BY <1>2, Frame
<1>6. CpuInv'
  BY <1>1, <1>2 DEF CpuInv, T_WAITING, T_ISZOMBIE
<1>5. WokenByZombie'
  BY <1>1, <1>2 DEF WokenByZombie, T_WAITING, TypeOK
<1> QED BY <1>3, <1>4, <1>5, <1>6 DEF IInv

LEMMA WaitioReturnsIInv == IInv /\ WaitioReturns => IInv'
PROOF
<1> SUFFICES ASSUME IInv, WaitioReturns PROVE IInv'
  OBVIOUS
<1> USE Nodes
<1>1. /\ TypeOK /\ QueueInv /\ FlagInv /\ PlaceInv /\ CpuInv /\ FamilyInv
      /\ NoMissedExit /\ WokenByZombie
  BY DEF IInv
<1>2. /\ mode = "run" /\ pc[current] \in {"io", "kwait"} /\ current \in Pid
      /\ \E place \in {"user", "kernel"} : pc' = [pc EXCEPT ![current] = place]
      /\ UNCHANGED <<mode, current, curdir, ready_tasks, globlist, next_pid,
                     ticks_left, t_flags, t_parent, t_children, t_gid, t_waitfor,
                     t_status>>
  BY <1>1, Zenon DEF WaitioReturns, Executing, CpuInv, TypeOK
<1>3. "TF_RUNNING" \in t_flags[current] /\ ~ T_WAITING(current)
  BY <1>1, <1>2 DEF CpuInv
<1>4. TypeOK' /\ PlaceInv'
  BY <1>1, <1>2, <1>3 DEF TypeOK, PlaceInv, Place, T_WAITING, TF_WAITMASK
<1>5. QueueInv' /\ FlagInv' /\ FamilyInv' /\ NoMissedExit'
  BY <1>2, Frame
<1>7. CpuInv'
  BY <1>1, <1>2, <1>3 DEF CpuInv, T_WAITING, T_ISZOMBIE
<1>6. WokenByZombie'
  BY <1>1, <1>2 DEF WokenByZombie, T_WAITING, TypeOK
<1> QED BY <1>4, <1>5, <1>6, <1>7 DEF IInv

LEMMA WakeupIInv == ASSUME NEW p \in Pid, IInv, task_wakeup(p) PROVE IInv'
PROOF
<1> USE Nodes
<1>1. /\ TypeOK /\ QueueInv /\ FlagInv /\ PlaceInv /\ CpuInv /\ FamilyInv
      /\ NoMissedExit /\ WokenByZombie
  BY DEF IInv
<1>2. /\ ready_tasks' = WokenQueue(ready_tasks, p)
      /\ t_flags' = [t_flags EXCEPT ![p] = WokenFlags(@)]
      /\ "TF_WAITIO" \in t_flags[p] /\ mode = "run"
      /\ UNCHANGED <<mode, current, curdir, globlist, next_pid, ticks_left,
                     t_parent, t_children, t_gid, t_waitfor, t_status, pc>>
  BY DEF task_wakeup, WaitsForDevice, InterruptsOn
<1>3. /\ T_WAITING(p) /\ p \in globlist /\ ~ T_ISZOMBIE(p) /\ p # 0
      /\ "TF_RUNNING" \in t_flags[p] /\ "TF_EXIT" \notin t_flags[p]
      /\ pc[p] # "waitpid"
  BY <1>1, <1>2 DEF FlagInv, PlaceInv, T_WAITING, T_ISZOMBIE, TF_WAITMASK, QueueInv,
     IdleIsLast
<1>4. /\ "TF_RUNNING" \in t_flags'[p] /\ "TF_EXIT" \notin t_flags'[p]
      /\ "TF_ZOMBIE" \notin t_flags'[p]
      /\ "TF_WAITIO" \notin t_flags'[p] /\ "TF_WAITTASK" \notin t_flags'[p]
      /\ t_flags' \in [Pid -> SUBSET TF]
      /\ \A n \in Pid \ {p} : t_flags'[n] = t_flags[n]
  BY <1>1, <1>2, <1>3 DEF WokenFlags, TF, TF_WAITMASK, TypeOK, T_ISZOMBIE
<1>5. /\ WellFormed(ready_tasks', Node, Head) /\ ready_tasks'.prev[Head] = 0
      /\ \A n \in Pid : list_inserted(ready_tasks', n)
                          <=> n = p \/ list_inserted(ready_tasks, n)
  <2>1. /\ WellFormed(ready_tasks, Node, Head) /\ ready_tasks.prev[Head] = 0
        /\ ~ list_inserted(ready_tasks, p)
    BY <1>1, <1>3 DEF QueueInv, IdleIsLast
  <2> QED BY <1>2, <2>1, Woken
<1>6. TypeOK'
  BY <1>1, <1>2, <1>4, <1>5 DEF TypeOK, WellFormed
<1>7. QueueInv'
  <2>1. ASSUME NEW n \in Pid
        PROVE  list_inserted(ready_tasks', n)
                 <=> n \in globlist' /\ ~ T_WAITING(n)' /\ ~ T_ISZOMBIE(n)'
    <3>1. CASE n = p
      BY <1>2, <1>3, <1>4, <1>5, <3>1, Zenon DEF T_WAITING, T_ISZOMBIE, TF_WAITMASK
    <3>2. CASE n # p
      <4>1. t_flags'[n] = t_flags[n] /\ globlist' = globlist
        BY <1>2, <1>4, <3>2
      <4>2. list_inserted(ready_tasks, n)
              <=> n \in globlist /\ ~ T_WAITING(n) /\ ~ T_ISZOMBIE(n)
        BY <1>1, Zenon DEF QueueInv
      <4> QED BY <1>5, <3>2, <4>1, <4>2, Zenon DEF T_WAITING, T_ISZOMBIE
    <3> QED BY <3>1, <3>2, Zenon
  <2>2. IdleIsLast'
    BY <1>1, <1>2, <1>3, <1>4, <1>5, ZenonT(40)
    DEF QueueInv, IdleIsLast, T_WAITING, T_ISZOMBIE, TF_WAITMASK
  <2> QED BY <1>5, <2>1, <2>2, Zenon DEF QueueInv
<1>8. FlagInv' /\ PlaceInv'
  BY <1>1, <1>2, <1>3, <1>4 DEF FlagInv, PlaceInv, TypeOK
<1>9. CpuInv'
  BY <1>1, <1>2, <1>3, <1>4 DEF CpuInv, T_WAITING, T_ISZOMBIE, TF_WAITMASK, TypeOK
<1>10. FamilyInv'
  BY <1>1, <1>2, <1>3, <1>4, ZenonT(40) DEF FamilyInv, FamilyConsistent, T_ISZOMBIE
<1>11. NoMissedExit'
  BY <1>1, <1>2, <1>3, <1>4, Zenon DEF NoMissedExit, T_ISZOMBIE
<1>12. WokenByZombie'
  BY <1>1, <1>2, <1>3, <1>4, SMTT(30), ZenonT(30) DEF WokenByZombie, T_WAITING, TypeOK
<1> QED BY <1>6, <1>7, <1>8, <1>9, <1>10, <1>11, <1>12 DEF IInv

LEMMA TimerIInv == IInv /\ timer_interrupt => IInv'
PROOF
<1> SUFFICES ASSUME IInv, timer_interrupt PROVE IInv'
  OBVIOUS
<1>1. CpuInv'
  BY DEF IInv, CpuInv, timer_interrupt, InterruptsOn, T_WAITING, T_ISZOMBIE
<1>2. TypeOK'
  BY DEF IInv, TypeOK, timer_interrupt
<1>3. FlagInv'
  BY Frame DEF timer_interrupt
<1> QED BY <1>1, <1>2, <1>3, CpuStep DEF timer_interrupt

(* Behind a linked node, the head included, there is the end of the queue   *)
(* or another task that can be a candidate.  The queue is never empty.      *)
LEMMA Candidates ==
  ASSUME IInv, NEW x \in Node, x = Head \/ list_inserted(ready_tasks, x)
  PROVE  /\ \/ list_next(ready_tasks, x, Head, NULL) = NULL
            \/ /\ list_next(ready_tasks, x, Head, NULL) \in globlist \ {x}
               /\ ~ T_ISZOMBIE(list_next(ready_tasks, x, Head, NULL))
         /\ ready_tasks.next[Head] \in globlist
         /\ ~ T_ISZOMBIE(ready_tasks.next[Head])
PROOF
<1> USE Nodes
<1>1. /\ ready_tasks.next \in [Node -> Node] /\ ready_tasks.prev \in [Node -> Node]
      /\ \A n \in Node : /\ ready_tasks.prev[ready_tasks.next[n]] = n
                         /\ ready_tasks.next[ready_tasks.prev[n]] = n
      /\ ready_tasks.prev[Head] = 0
  BY DEF IInv, QueueInv, IdleIsLast, WellFormed, ListOver, Linked
<1>2. \A n \in Pid : list_inserted(ready_tasks, n) => n \in globlist /\ ~ T_ISZOMBIE(n)
  BY DEF IInv, QueueInv
<1>3. ASSUME NEW n \in Node, n = Head \/ list_inserted(ready_tasks, n),
             ready_tasks.next[n] # Head
      PROVE  /\ ready_tasks.next[n] \in globlist \ {n}
             /\ ~ T_ISZOMBIE(ready_tasks.next[n])
  <2>1. ready_tasks.next[n] \in Pid /\ ready_tasks.next[n] # n
    BY <1>1, <1>3 DEF list_inserted
  <2>2. list_inserted(ready_tasks, ready_tasks.next[n])
    BY <1>1, <2>1 DEF list_inserted
  <2> QED BY <1>2, <2>1, <2>2, Zenon
<1>4. ready_tasks.next[Head] # Head
  BY <1>1
<1>5. ready_tasks.next[Head] \in globlist /\ ~ T_ISZOMBIE(ready_tasks.next[Head])
  BY <1>3, <1>4
<1>6. CASE ready_tasks.next[x] = Head
  BY <1>5, <1>6 DEF list_next
<1>7. CASE ready_tasks.next[x] # Head
  BY <1>3, <1>5, <1>7 DEF list_next
<1> QED BY <1>6, <1>7

LEMMA PreemptIInv == IInv /\ task_preempt => IInv'
PROOF
<1> SUFFICES ASSUME IInv, task_preempt PROVE IInv'
  OBVIOUS
<1> USE Nodes
<1>1. /\ TypeOK /\ QueueInv /\ FlagInv /\ PlaceInv /\ CpuInv /\ FamilyInv
      /\ NoMissedExit /\ WokenByZombie
  BY DEF IInv
<1>2. /\ mode = "preempt" /\ current = curdir /\ current \in globlist
      /\ current \in Pid /\ ~ T_ISZOMBIE(current)
      /\ T_WAITING(current) => "TF_RESCHED" \in t_flags[current]
      /\ UNCHANGED <<curdir, ready_tasks, globlist, next_pid, t_parent,
                     t_children, t_gid, t_waitfor, t_status, pc>>
  BY <1>1 DEF task_preempt, CpuInv, TypeOK
<1>3. CASE /\ list_is_lonely(ready_tasks, current, Head)
           /\ mode' = "run" /\ UNCHANGED <<current, ticks_left, t_flags>>
  <2>1. current = 0
    BY <1>1, <1>2, <1>3
    DEF list_is_lonely, QueueInv, IdleIsLast, WellFormed, Linked
  <2>2. CpuInv'
    BY <1>1, <1>2, <1>3, <2>1
    DEF CpuInv, T_WAITING, T_ISZOMBIE, QueueInv, IdleIsLast, TF_WAITMASK
  <2>3. TypeOK'
    BY <1>1, <1>2, <1>3 DEF TypeOK
  <2>4. FlagInv'
    BY <1>2, <1>3, Frame
  <2> QED BY <1>2, <1>3, <2>2, <2>3, <2>4, CpuStep
<1>4. CASE /\ KeepsRunning /\ mode' = "run" /\ ticks_left' = ticks_left - 1
           /\ UNCHANGED <<current, t_flags>>
  <2>1. CpuInv'
    BY <1>1, <1>2, <1>4 DEF CpuInv, T_WAITING, T_ISZOMBIE, KeepsRunning
  <2>2. TypeOK'
    BY <1>1, <1>2, <1>4 DEF TypeOK, KeepsRunning
  <2>3. FlagInv'
    BY <1>2, <1>4, Frame
  <2> QED BY <1>2, <1>4, <2>1, <2>2, <2>3, CpuStep
<1>5. CASE /\ mode' = "sched"
           /\ t_flags' = [t_flags EXCEPT ![current] = @ \ {"TF_RESCHED"}]
           /\ current' = IF "TF_RUNNING" \in t_flags[current]
                         THEN list_next(ready_tasks, current, Head, NULL)
                         ELSE ready_tasks.next[Head]
           /\ UNCHANGED ticks_left
  <2>1. /\ t_flags' \in [Pid -> SUBSET TF]
        /\ \A p \in Pid : \A f \in TF \ {"TF_RESCHED"} :
             f \in t_flags'[p] <=> f \in t_flags[p]
        /\ \A p \in Pid \ {current} : t_flags'[p] = t_flags[p]
    BY <1>1, <1>2, <1>5 DEF TypeOK
  <2>2. \A p \in Pid : /\ T_WAITING(p)' <=> T_WAITING(p)
                       /\ T_ISZOMBIE(p)' <=> T_ISZOMBIE(p)
    BY <2>1 DEF T_WAITING, T_ISZOMBIE, TF, TF_WAITMASK
  <2>3. current' = NULL \/ (current' \in globlist /\ ~ T_ISZOMBIE(current'))
    <3>1. CASE list_inserted(ready_tasks, current)
      BY <1>2, <1>5, <3>1, Candidates
    <3>2. CASE ~ list_inserted(ready_tasks, current) /\ "TF_RUNNING" \in t_flags[current]
      BY <1>2, <1>5, <3>2 DEF list_next, list_inserted
    <3>3. CASE "TF_RUNNING" \notin t_flags[current]
      BY <1>2, <1>5, <3>3, Candidates
    <3> QED BY <3>1, <3>2, <3>3
  <2>4. TypeOK'
    BY <1>1, <1>2, <1>5, <2>1, <2>3, Zenon DEF TypeOK
  <2>5. QueueInv'
    BY <1>1, <1>2, <1>5, <2>2, SMTT(30), ZenonT(30) DEF QueueInv, IdleIsLast, TypeOK
  <2>6. FlagInv'
    BY <1>1, <1>2, <1>5, <2>1, SMTT(30), ZenonT(30) DEF FlagInv, TypeOK, TF
  <2>7. PlaceInv'
    BY <1>1, <1>2, <2>1 DEF PlaceInv, TF, TF_WAITMASK
  <2>8. CpuInv'
    BY <1>1, <1>2, <1>5, <2>2, <2>3, Zenon DEF CpuInv, TypeOK
  <2>9. FamilyInv'
    BY <1>1, <1>2, <2>2, Zenon DEF FamilyInv, FamilyConsistent
  <2>10. NoMissedExit'
    BY <1>1, <1>2, <2>1, <2>2, Zenon DEF NoMissedExit, TF, TF_WAITMASK
  <2>11. WokenByZombie'
    BY <1>1, <1>2, <2>1, <2>2 DEF WokenByZombie, T_ISZOMBIE, TypeOK
  <2> QED BY <2>4, <2>5, <2>6, <2>7, <2>8, <2>9, <2>10, <2>11 DEF IInv
<1> QED BY <1>3, <1>4, <1>5 DEF task_preempt

(* A step of the scheduler's loop that only moves current. *)
LEMMA MoveIInv ==
  ASSUME IInv, mode = "sched", mode' = "sched",
         current' = NULL \/ (current' \in globlist /\ ~ T_ISZOMBIE(current')),
         UNCHANGED <<curdir, ready_tasks, globlist, next_pid, ticks_left,
                     t_flags, t_parent, t_children, t_gid, t_waitfor, t_status, pc>>
  PROVE  IInv'
PROOF
<1>1. TypeOK' /\ CpuInv'
  BY DEF IInv, TypeOK, CpuInv, T_ISZOMBIE
<1>2. FlagInv'
  BY Frame
<1> QED BY <1>1, <1>2, CpuStep

LEMMA RestartsIInv == IInv /\ LoopRestarts => IInv'
BY Nodes, Candidates, MoveIInv DEF LoopRestarts

(* The candidate that the loop meets is a task in the queue. *)
LEMMA Met ==
  ASSUME IInv, NEW exiting \in BOOLEAN, LoopMeets(exiting)
  PROVE  /\ mode = "sched" /\ current \in Pid /\ current \in globlist
         /\ list_inserted(ready_tasks, current)
         /\ exiting => t_flags[current] = {"TF_EXIT"}
         /\ ~ exiting => /\ "TF_RUNNING" \in t_flags[current]
                         /\ "TF_EXIT" \notin t_flags[current]
BY Nodes, SMTT(30), ZenonT(30) DEF LoopMeets, IInv, CpuInv, QueueInv, FlagInv, TypeOK, T_ISZOMBIE

LEMMA SkipsIInv == IInv /\ LoopSkips => IInv'
PROOF
<1> SUFFICES ASSUME IInv, LoopSkips PROVE IInv'
  OBVIOUS
<1>1. /\ mode = "sched" /\ current \in Node /\ list_inserted(ready_tasks, current)
  BY Met, Nodes, Zenon DEF LoopSkips
<1> QED BY <1>1, Candidates, MoveIInv, Zenon DEF LoopSkips

LEMMA SwitchIInv == IInv /\ task_switch => IInv'
PROOF
<1> SUFFICES ASSUME IInv, task_switch PROVE IInv'
  OBVIOUS
<1> USE Nodes
<1>1. /\ mode = "sched" /\ current \in Pid /\ current \in globlist
      /\ ~ T_WAITING(current) /\ ~ T_ISZOMBIE(current)
      /\ "TF_RUNNING" \in t_flags[current]
  BY Met, Zenon DEF task_switch, LoopMeets, IInv, QueueInv
<1>2. TypeOK'
  BY <1>1, BoundAssumption, SMTT(30), ZenonT(30) DEF task_switch, IInv, TypeOK
<1>3. CpuInv'
  BY <1>1 DEF task_switch, IInv, CpuInv, T_WAITING, T_ISZOMBIE
<1>4. FlagInv'
  BY Frame DEF task_switch
<1> QED BY <1>2, <1>3, <1>4, CpuStep DEF task_switch

LEMMA FreesIInv == IInv /\ LoopFrees => IInv'
PROOF
<1> SUFFICES ASSUME IInv, LoopFrees PROVE IInv'
  OBVIOUS
<1> USE Nodes
<1> DEFINE dead == current
           par  == t_parent[dead]
           q    == list_rem(ready_tasks, dead)
           woken == par # NULL /\ ParentListens(par, dead)
<1>1. /\ TypeOK /\ QueueInv /\ FlagInv /\ PlaceInv /\ CpuInv /\ FamilyInv
      /\ NoMissedExit /\ WokenByZombie
  BY DEF IInv
<1>2. /\ mode = "sched" /\ dead \in Pid /\ dead \in globlist /\ dead # curdir
      /\ list_inserted(ready_tasks, dead) /\ t_flags[dead] = {"TF_EXIT"} /\ dead # 0
  BY <1>1, Met, Zenon DEF LoopFrees, QueueInv, IdleIsLast
<1>3. /\ t_parent' = [p \in Pid |-> IF p \in t_children[dead] THEN NULL ELSE t_parent[p]]
      /\ t_children' = [t_children EXCEPT ![dead] = {}]
      /\ current' = list_next(ready_tasks, dead, Head, NULL)
      /\ UNCHANGED <<mode, curdir, globlist, next_pid, ticks_left, t_gid, pc>>
  BY DEF LoopFrees, task_free, Orphaned
<1>4. /\ WellFormed(q, Node, Head) /\ q.prev[Head] = 0
      /\ \A n \in Pid : list_inserted(q, n) <=> n # dead /\ list_inserted(ready_tasks, n)
  <2>1. /\ WellFormed(ready_tasks, Node, Head) /\ ready_tasks.prev[Head] = 0
    BY <1>1, <1>2 DEF QueueInv, IdleIsLast
  <2> QED BY <1>2, <2>1, Unqueued, Zenon
<1>5. ASSUME woken
      PROVE  /\ par \in Pid /\ par \in globlist /\ par # dead /\ par # 0
             /\ "TF_WAITTASK" \in t_flags[par] /\ T_WAITING(par)
             /\ pc[par] = "waitpid" /\ "TF_RUNNING" \in t_flags[par]
             /\ "TF_EXIT" \notin t_flags[par] /\ "TF_ZOMBIE" \notin t_flags[par]
  <2>1. par \in Pid /\ "TF_WAITTASK" \in t_flags[par]
    BY <1>1, <1>2, <1>5 DEF TypeOK, ParentListens
  <2>2. par \in globlist /\ par # dead /\ par # 0
    <3>1. par \in globlist
      BY <1>1, <2>1, Zenon DEF FlagInv
    <3>2. "TF_WAITTASK" \notin t_flags[dead] /\ "TF_WAITTASK" \notin t_flags[0]
      BY <1>1, <1>2 DEF QueueInv, IdleIsLast
    <3> QED BY <2>1, <3>1, <3>2
  <2>3. T_WAITING(par) /\ pc[par] = "waitpid"
    BY <1>1, <2>1, Zenon DEF PlaceInv, T_WAITING, TF_WAITMASK
  <2>4. /\ "TF_RUNNING" \in t_flags[par]
        /\ "TF_EXIT" \notin t_flags[par] /\ "TF_ZOMBIE" \notin t_flags[par]
    BY <1>1, <2>1, <2>2, SMTT(30), ZenonT(30) DEF FlagInv
  <2> QED BY <2>1, <2>2, <2>3, <2>4
<1>6. /\ t_flags' \in [Pid -> SUBSET TF]
      /\ t_flags'[dead] = {"TF_ZOMBIE"}
      /\ \A p \in Pid \ {dead} : ~ (woken /\ p = par) => t_flags'[p] = t_flags[p]
      /\ woken => /\ "TF_RUNNING" \in t_flags'[par] /\ "TF_EXIT" \notin t_flags'[par]
                  /\ "TF_ZOMBIE" \notin t_flags'[par]
                  /\ "TF_WAITIO" \notin t_flags'[par]
                  /\ "TF_WAITTASK" \notin t_flags'[par]
  <2>1. CASE woken
    <3>1. t_flags' = [[t_flags EXCEPT ![dead] = {"TF_ZOMBIE"}]
                        EXCEPT ![par] = WokenFlags(@)]
      BY <2>1 DEF LoopFrees, task_free
    <3>2. t_flags' = [[t_flags EXCEPT ![dead] = {"TF_ZOMBIE"}]
                        EXCEPT ![par] = WokenFlags(t_flags[par])]
      BY <1>1, <1>2, <1>5, <2>1, <3>1 DEF TypeOK
    <3>3. /\ WokenFlags(t_flags[par]) \in SUBSET TF
          /\ "TF_RUNNING" \in WokenFlags(t_flags[par])
          /\ "TF_EXIT" \notin WokenFlags(t_flags[par])
          /\ "TF_ZOMBIE" \notin WokenFlags(t_flags[par])
          /\ "TF_WAITIO" \notin WokenFlags(t_flags[par])
          /\ "TF_WAITTASK" \notin WokenFlags(t_flags[par])
      BY <1>1, <1>5, <2>1, Zenon DEF WokenFlags, TF, TF_WAITMASK, TypeOK
    <3>4. {"TF_ZOMBIE"} \in SUBSET TF
      BY SMTT(30), ZenonT(30) DEF TF
    <3> QED BY <1>1, <1>2, <1>5, <2>1, <3>2, <3>3, <3>4 DEF TypeOK
  <2>2. CASE ~ woken
    BY <1>1, <1>2, <2>2, SMTT(30), ZenonT(30) DEF LoopFrees, task_free, TypeOK, TF
  <2> QED BY <2>1, <2>2, SMTT(30), ZenonT(30)
<1>7. /\ WellFormed(ready_tasks', Node, Head) /\ ready_tasks'.prev[Head] = 0
      /\ \A n \in Pid : list_inserted(ready_tasks', n)
                          <=> \/ woken /\ n = par
                              \/ n # dead /\ list_inserted(ready_tasks, n)
  <2>1. CASE woken
    <3>1. ready_tasks' = WokenQueue(q, par)
      BY <2>1 DEF LoopFrees, task_free
    <3>2. ~ list_inserted(q, par)
      BY <1>1, <1>4, <1>5, <2>1, Zenon DEF QueueInv
    <3> QED BY <1>4, <1>5, <2>1, <3>1, <3>2, Woken, Zenon
  <2>2. CASE ~ woken
    <3>1. ready_tasks' = q
      BY <2>2 DEF LoopFrees, task_free
    <3> QED BY <1>4, <2>2, <3>1, Zenon
  <2> QED BY <2>1, <2>2, Zenon
<1>8. /\ woken => /\ t_waitfor' = [t_waitfor EXCEPT ![par] = dead]
                  /\ t_status' = [t_status EXCEPT ![par] = t_status[dead]]
      /\ ~ woken => UNCHANGED <<t_waitfor, t_status>>
  BY SMTT(30), ZenonT(30) DEF LoopFrees, task_free
<1>9. current' = NULL \/ (current' \in globlist \ {dead} /\ ~ T_ISZOMBIE(current'))
  BY <1>2, <1>3, Candidates, SMTT(30), ZenonT(30)
<1>10. \A p \in Pid \ {dead} :
         /\ T_ISZOMBIE(p)' <=> T_ISZOMBIE(p)
         /\ ~ (woken /\ p = par) => (T_WAITING(p)' <=> T_WAITING(p))
  BY <1>5, <1>6 DEF T_ISZOMBIE, T_WAITING
<1>11. \A p \in Pid : /\ p = dead => ~ T_WAITING(p)' /\ T_ISZOMBIE(p)'
                      /\ woken /\ p = par => ~ T_WAITING(p)'
  BY <1>6 DEF T_WAITING, TF_WAITMASK, T_ISZOMBIE
<1>12. TypeOK'
  <2>1. t_waitfor' \in [Pid -> Int] /\ t_status' \in [Pid -> Code]
    BY <1>1, <1>2, <1>5, <1>8 DEF TypeOK
  <2>2. t_parent' \in [Pid -> Pid \cup {NULL}] /\ t_children' \in [Pid -> SUBSET Pid]
    BY <1>1, <1>2, <1>3 DEF TypeOK
  <2>3. ready_tasks' \in ListOver(Node)
    BY <1>7 DEF WellFormed
  <2> QED BY <1>1, <1>3, <1>6, <1>9, <2>1, <2>2, <2>3, Zenon DEF TypeOK
<1>13. QueueInv'
  <2>1. IdleIsLast'
    BY <1>1, <1>2, <1>5, <1>6, <1>7, Zenon DEF QueueInv, IdleIsLast
  <2>2. ASSUME NEW p \in Pid
        PROVE  list_inserted(ready_tasks', p)
                 <=> p \in globlist' /\ ~ T_WAITING(p)' /\ ~ T_ISZOMBIE(p)'
    <3>1. CASE p = dead
      BY <1>2, <1>5, <1>7, <1>11, <3>1, ZenonT(40)
    <3>2. CASE p # dead /\ woken /\ p = par
      BY <1>3, <1>5, <1>7, <1>10, <1>11, <3>2, SMTT(30), ZenonT(30) DEF T_ISZOMBIE
    <3>3. CASE p # dead /\ ~ (woken /\ p = par)
      BY <1>1, <1>3, <1>7, <1>10, <3>3, Zenon DEF QueueInv
    <3> QED BY <3>1, <3>2, <3>3, SMTT(30), ZenonT(30)
  <2> QED BY <1>7, <2>1, <2>2, SMTT(30), ZenonT(30) DEF QueueInv
<1>14. FlagInv'
  BY <1>1, <1>2, <1>3, <1>5, <1>6, SMTT(30), ZenonT(30) DEF FlagInv, TypeOK
<1>15. PlaceInv'
  BY <1>1, <1>2, <1>3, <1>5, <1>6, SMTT(30), ZenonT(30) DEF PlaceInv, TypeOK
<1>16. CpuInv'
  BY <1>1, <1>2, <1>3, <1>9, <1>10, Zenon DEF CpuInv, TypeOK
<1>17. FamilyInv'
  <2>1. \A p, c \in Pid : t_parent'[c] = p => t_parent[c] = p /\ p # dead
    BY <1>1, <1>2, <1>3 DEF FamilyInv, FamilyConsistent, TypeOK
  <2>2. \A p, c \in Pid : c \in t_children'[p] => c \in t_children[p] /\ p # dead
    BY <1>1, <1>2, <1>3 DEF TypeOK
  <2>3. \A p, c \in Pid : c \in t_children[p] /\ p # dead =>
          c \in t_children'[p] /\ t_parent'[c] = p
    BY <1>1, <1>2, <1>3 DEF FamilyInv, FamilyConsistent, TypeOK
  <2> QED BY <1>1, <1>3, <1>10, <2>1, <2>2, <2>3 DEF FamilyInv, FamilyConsistent
<1>18. NoMissedExit'
  <2> SUFFICES ASSUME NEW p \in Pid, NEW c \in Pid, "TF_WAITTASK" \in t_flags'[p],
                      c \in t_children'[p], t_waitfor'[p] \in {-1, c}
               PROVE  ~ T_ISZOMBIE(c)'
    BY SMTT(30), ZenonT(30) DEF NoMissedExit
  <2>1. p # dead /\ ~ (woken /\ p = par) /\ c \in t_children[p]
    BY <1>1, <1>2, <1>3, <1>6, SMTT(30), ZenonT(30) DEF TypeOK
  <2>2. "TF_WAITTASK" \in t_flags[p] /\ t_waitfor[p] \in {-1, c}
    BY <1>1, <1>5, <1>6, <1>8, <2>1, SMTT(30), ZenonT(30) DEF TypeOK
  <2>3. c # dead
    <3>1. SUFFICES ASSUME c = dead PROVE FALSE
      OBVIOUS
    <3>2. par = p
      BY <1>1, <2>1, <3>1 DEF FamilyInv, FamilyConsistent
    <3>3. dead > 0
      BY <1>2, BoundAssumption DEF Pid
    <3> QED BY <2>1, <2>2, <3>1, <3>2, <3>3, SMTT(30), ZenonT(30) DEF ParentListens
  <2> QED BY <1>1, <1>10, <2>1, <2>2, <2>3, ZenonT(40) DEF NoMissedExit
<1>19. WokenByZombie'
  <2> DEFINE Awake(p) == p \in globlist /\ pc[p] = "waitpid" /\ ~ T_WAITING(p)
  <2>1. ASSUME NEW p \in Pid
        PROVE  /\ Awake(p)' <=> Awake(p) \/ (woken /\ p = par)
               /\ Awake(p) => p # dead /\ ~ (woken /\ p = par)
    BY <1>1, <1>2, <1>3, <1>5, <1>10, <1>11, ZenonT(40) DEF PlaceInv
  <2>2. ASSUME NEW p \in Pid, Awake(p)
        PROVE  /\ t_waitfor'[p] = t_waitfor[p] /\ t_status'[p] = t_status[p]
               /\ t_waitfor[p] \in globlist /\ t_flags[t_waitfor[p]] = {"TF_ZOMBIE"}
               /\ t_waitfor[p] # dead /\ ~ (woken /\ t_waitfor[p] = par)
               /\ t_parent[t_waitfor[p]] \in {p, NULL}
               /\ t_status[p] = t_status[t_waitfor[p]]
    <3>1. /\ t_waitfor[p] \in globlist /\ t_flags[t_waitfor[p]] = {"TF_ZOMBIE"}
          /\ t_parent[t_waitfor[p]] \in {p, NULL}
          /\ t_status[p] = t_status[t_waitfor[p]]
      BY <1>1, <2>2, Zenon DEF WokenByZombie
    <3>2. t_waitfor'[p] = t_waitfor[p] /\ t_status'[p] = t_status[p]
      BY <1>1, <1>8, <2>1, <2>2 DEF TypeOK
    <3>3. t_waitfor[p] # dead
      BY <1>2, <3>1, SMTT(30), ZenonT(30)
    <3>4. ~ (woken /\ t_waitfor[p] = par)
      BY <1>5, <3>1, SMTT(30), ZenonT(30)
    <3> QED BY <3>1, <3>2, <3>3, <3>4, ZenonT(40)
  <2>3. ASSUME NEW p \in Pid, Awake(p)
        PROVE  /\ t_flags'[t_waitfor'[p]] = {"TF_ZOMBIE"}
               /\ t_parent'[t_waitfor'[p]] \in {p, NULL}
               /\ t_status'[p] = t_status'[t_waitfor'[p]]
    <3>1. t_waitfor[p] \in Pid /\ t_waitfor'[p] = t_waitfor[p]
      BY <1>1, <2>2, <2>3 DEF TypeOK
    <3>2. t_flags'[t_waitfor[p]] = {"TF_ZOMBIE"}
      BY <1>6, <2>2, <2>3, <3>1, Zenon
    <3>3. t_parent'[t_waitfor[p]] \in {p, NULL}
      BY <1>3, <2>2, <2>3, <3>1, Zenon
    <3>4. t_status'[t_waitfor[p]] = t_status[t_waitfor[p]]
      BY <1>1, <1>8, <2>2, <2>3, <3>1, SMTT(30), ZenonT(30) DEF TypeOK
    <3> QED BY <2>2, <2>3, <3>1, <3>2, <3>3, <3>4, Zenon
  <2>4. ASSUME woken
        PROVE  /\ t_waitfor'[par] = dead /\ t_status'[par] = t_status'[dead]
               /\ t_parent'[dead] \in {par, NULL}
    BY <1>1, <1>2, <1>3, <1>5, <1>8, <2>4 DEF TypeOK
  <2>5. ASSUME NEW p \in Pid, NEW r \in Pid \ {p}, Awake(p)', Awake(r)'
        PROVE  t_waitfor'[r] # t_waitfor'[p]
    <3>1. CASE Awake(p) /\ Awake(r)
      <4>1. t_waitfor[r] # t_waitfor[p]
        BY <1>1, <3>1, Zenon DEF WokenByZombie
      <4> QED BY <2>2, <3>1, <4>1, Zenon
    <3>2. CASE woken /\ p = par /\ Awake(r)
      BY <2>2, <2>4, <3>2, SMTT(30), ZenonT(30)
    <3>3. CASE woken /\ r = par /\ Awake(p)
      BY <2>2, <2>4, <3>3
    <3> QED BY <2>1, <2>5, <3>1, <3>2, <3>3, SMTT(30), ZenonT(30)
  <2>6. ASSUME NEW p \in Pid, Awake(p)'
        PROVE  LET c == t_waitfor'[p] IN
               /\ c \in globlist' /\ t_flags'[c] = {"TF_ZOMBIE"}
               /\ t_parent'[c] \in {p, NULL} /\ t_status'[p] = t_status'[c]
    <3>1. CASE Awake(p)
      BY <1>3, <2>2, <2>3, <3>1, Zenon
    <3>2. CASE woken /\ p = par
      BY <1>2, <1>3, <1>6, <2>4, <3>2, Zenon
    <3> QED BY <2>1, <2>6, <3>1, <3>2, ZenonT(40)
  <2>7. globlist' \subseteq Pid
    BY <1>12 DEF TypeOK
  <2> QED BY <2>5, <2>6, <2>7, SMTT(30), ZenonT(30) DEF WokenByZombie
<1> QED BY <1>12, <1>13, <1>14, <1>15, <1>16, <1>17, <1>18, <1>19 DEF IInv

-----------------------------------------------------------------------------
(* Every step preserves the invariant. *)
LEMMA NextIInv == IInv /\ [Next]_vars => IInv'
PROOF
<1> SUFFICES ASSUME IInv, [Next]_vars PROVE IInv'
  OBVIOUS
<1>1. CASE Syscall
  <2>1. CASE \E code \in Code : sys_exit(code)
    BY <2>1, ExitIInv
  <2>2. CASE \E p \in Detachable : task_detach(p)
    BY <2>2, DetachIInv, UseAssumption
  <2>3. CASE \E w \in WaitArg : WaitpidAtOnce(w)
    BY <2>3, AtOnceIInv
  <2>4. CASE \E w \in WaitArg : WaitpidSleep(w)
    BY <2>4, WaitpidSleepIInv
  <2> QED
    BY <1>1, <2>1, <2>2, <2>3, <2>4, ForkIInv, ForkFailsIInv, SpawnIInv,
       SetsidIInv, WaitioIInv, WorkerWaitsIInv DEF Syscall
<1>2. CASE Resumes
  BY <1>2, WakesIInv, WaitioReturnsIInv, WorkerSchedulesIInv DEF Resumes
<1>3. CASE timer_interrupt
  BY <1>3, TimerIInv
<1>4. CASE \E p \in Pid : task_wakeup(p)
  BY <1>4, WakeupIInv
<1>5. CASE Scheduler
  BY <1>5, PreemptIInv, RestartsIInv, FreesIInv, SkipsIInv, SwitchIInv DEF Scheduler
<1>6. CASE UNCHANGED vars
  <2>1. TypeOK'
    BY <1>6 DEF vars, IInv, TypeOK
  <2>2. FlagInv' /\ CpuInv'
    BY <1>6, Frame DEF vars
  <2> QED BY <1>6, <2>1, <2>2, CpuStep DEF vars
<1> QED BY <1>1, <1>2, <1>3, <1>4, <1>5, <1>6 DEF Next

(* IInv holds throughout every behaviour of the task subsystem. *)
THEOREM Invariance == Spec => []IInv
PROOF
<1>1. Init => IInv
  BY InitIInv
<1>2. IInv /\ [Next]_vars => IInv'
  BY NextIInv
<1> QED BY <1>1, <1>2, PTL DEF Spec

(* The variables of task.c keep their types. *)
THEOREM TypeCorrect == Spec => []TypeOK
PROOF
<1>1. IInv => TypeOK
  BY DEF IInv
<1> QED BY <1>1, Invariance, PTL

(* The ready queue holds exactly the tasks that can run, properly linked:   *)
(* task_wait, task_wakeup, fork and task_free keep queue and flags in step. *)
THEOREM QueueCorrect == Spec => []QueueConsistent
PROOF
<1>1. IInv => QueueConsistent
  BY DEF IInv, QueueInv, QueueConsistent, WellFormed
<1> QED BY <1>1, Invariance, PTL

(* The idle task is in the ready queue and at its end, wherever task_wakeup *)
(* and fork put the others, so that the scheduler never runs out of tasks.  *)
THEOREM IdleCorrect == Spec => []IdleIsLast
PROOF
<1>1. IInv => IdleIsLast
  BY DEF IInv, QueueInv, WellFormed
<1> QED BY <1>1, Invariance, PTL

(* t_parent and t_children never point to a freed task. *)
THEOREM FamilyCorrect == Spec => []FamilyConsistent
PROOF
<1>1. IInv => FamilyConsistent
  BY DEF IInv, FamilyInv
<1> QED BY <1>1, Invariance, PTL

(* waitpid for a child never sleeps past the child's exit. *)
THEOREM WaitpidCorrect == Spec => []NoMissedExit
PROOF
<1>1. IInv => NoMissedExit
  BY DEF IInv
<1> QED BY <1>1, Invariance, PTL

(* A sleeper that comes back in waitpid finds a zombie that is its to free. *)
THEOREM WokenCorrect == Spec => []WokenByZombie
PROOF
<1>1. IInv => WokenByZombie
  BY DEF IInv
<1> QED BY <1>1, Invariance, PTL

(* The loaded page directory is never that of a freed task, and the task    *)
(* that runs is neither exiting nor asleep.                                 *)
THEOREM MemoryCorrect == Spec => []RunsOnLiveMemory
PROOF
<1>1. IInv => RunsOnLiveMemory
  <2> SUFFICES ASSUME IInv PROVE RunsOnLiveMemory
    OBVIOUS
  <2>1. ASSUME mode = "run" PROVE "TF_EXIT" \notin t_flags[current]
    <3>1. current \in globlist /\ "TF_RUNNING" \in t_flags[current]
      BY <2>1 DEF IInv, CpuInv
    <3>2. t_flags[current] # {"TF_EXIT"} /\ t_flags[current] # {"TF_ZOMBIE"}
      BY <3>1, SMTT(30), ZenonT(30)
    <3> QED BY <3>1, <3>2 DEF IInv, FlagInv
  <2> QED BY <2>1 DEF IInv, CpuInv, RunsOnLiveMemory
<1> QED BY <1>1, Invariance, PTL

(* What Reap frees is a zombie, and Reap leaves the other zombies alone. *)
LEMMA ReapFrees ==
  ASSUME IInv, NEW c \in globlist, T_ISZOMBIE(c), Reap(c), NEW p \in globlist
  PROVE  /\ p \notin globlist' => T_ISZOMBIE(p)
         /\ T_ISZOMBIE(p) /\ p \in globlist' => t_flags'[p] = t_flags[p]
BY DEF Reap, IInv, TypeOK

(* waitpid frees only zombies, and nothing revives a zombie. *)
THEOREM FreesCorrect == Spec => FreesOnlyZombies
PROOF
<1> DEFINE Good == \A p \in globlist :
                     /\ p \notin globlist' => T_ISZOMBIE(p)
                     /\ T_ISZOMBIE(p) /\ p \in globlist' => t_flags'[p] = t_flags[p]
<1>1. IInv /\ [Next]_vars => [Good]_vars
  <2> SUFFICES ASSUME IInv, Next, NEW p \in globlist
               PROVE  /\ p \notin globlist' => T_ISZOMBIE(p)
                      /\ T_ISZOMBIE(p) /\ p \in globlist' => t_flags'[p] = t_flags[p]
    OBVIOUS
  <2> USE Nodes
  <2>1. /\ TypeOK /\ FlagInv /\ CpuInv
        /\ mode = "run" => /\ current \in Pid /\ current \in globlist
                           /\ ~ T_ISZOMBIE(current)
    BY DEF IInv, TypeOK, CpuInv
  <2>2. CASE \/ UNCHANGED <<globlist, t_flags>>
             \/ /\ globlist' = globlist /\ mode = "run"
                /\ \E fl : t_flags' = [t_flags EXCEPT ![current] = fl]
    BY <2>1, <2>2 DEF TypeOK
  <2>3. CASE sys_fork \/ worker_spawn
    <3>1. /\ next_pid \in Pid /\ next_pid \notin globlist
          /\ globlist' = globlist \cup {next_pid}
          /\ \E fl : t_flags' = [t_flags EXCEPT ![next_pid] = fl]
      BY <2>1, <2>3, SMTT(30), ZenonT(30) DEF sys_fork, worker_spawn, FlagInv, TypeOK
    <3> QED BY <2>1, <3>1, SMTT(30), ZenonT(30) DEF TypeOK
  <2>4. CASE \E code \in Code : sys_exit(code)
    BY <2>2, <2>4, Zenon DEF sys_exit, Executing
  <2>5. CASE \E w \in WaitArg : WaitpidAtOnce(w)
    <3>1. PICK w \in WaitArg : WaitpidAtOnce(w)
      BY <2>5
    <3>2. PICK c \in Answers(w) : Reap(c)
      BY <3>1, SMTT(30), ZenonT(30) DEF WaitpidAtOnce
    <3>3. c \in globlist /\ T_ISZOMBIE(c)
      BY <2>1, <3>1, SMTT(30), ZenonT(30) DEF Answers, WaitpidAtOnce, Executing, IInv, FamilyInv,
         FamilyConsistent, TypeOK
    <3> QED BY <3>2, <3>3, ReapFrees
  <2>6. CASE WaitpidWakes
    <3>1. /\ t_waitfor[current] \in globlist
          /\ T_ISZOMBIE(t_waitfor[current])
      BY <2>1, <2>6, Zenon DEF WaitpidWakes, Executing, IInv, CpuInv, WokenByZombie, T_ISZOMBIE
    <3>2. Reap(t_waitfor[current])
      BY <2>6, <3>1, SMTT(30), ZenonT(30) DEF WaitpidWakes
    <3> QED BY <3>1, <3>2, ReapFrees, SMTT(30), ZenonT(30)
  <2>7. CASE (\E w \in WaitArg : WaitpidSleep(w)) \/ task_waitio \/ WorkerWaits
    BY <2>2, <2>7, Zenon DEF WaitpidSleep, task_waitio, WorkerWaits, task_wait, Executing
  <2>8. CASE \E r \in Pid : task_wakeup(r)
    <3>1. PICK r \in Pid : task_wakeup(r)
      BY <2>8
    <3>2. p = r => ~ T_ISZOMBIE(p)
      <4>1. "TF_WAITIO" \in t_flags[r]
        BY <3>1 DEF task_wakeup, WaitsForDevice
      <4>2. t_flags[r] # {"TF_ZOMBIE"} /\ t_flags[r] # {"TF_EXIT"}
        BY <4>1
      <4> QED BY <2>1, <4>2, Zenon DEF FlagInv, T_ISZOMBIE
    <3>3. globlist' = globlist /\ t_flags' = [t_flags EXCEPT ![r] = WokenFlags(@)]
      BY <3>1 DEF task_wakeup
    <3> QED BY <2>1, <3>2, <3>3 DEF TypeOK
  <2>9. CASE task_preempt
    <3>1. mode = "preempt" /\ current \in Pid /\ ~ T_ISZOMBIE(current)
      BY <2>1, <2>9 DEF task_preempt, CpuInv, TypeOK
    <3> QED BY <2>1, <2>9, <3>1, Zenon DEF task_preempt, TypeOK
  <2>10. CASE LoopFrees
    <3>1. t_flags[current] = {"TF_EXIT"} /\ current \in Pid
      BY <2>10, Met, Zenon DEF LoopFrees
    <3>2. \/ t_flags' = [t_flags EXCEPT ![current] = {"TF_ZOMBIE"}]
          \/ /\ t_parent[current] \in Pid
             /\ "TF_WAITTASK" \in t_flags[t_parent[current]]
             /\ t_flags' = [[t_flags EXCEPT ![current] = {"TF_ZOMBIE"}]
                              EXCEPT ![t_parent[current]] = WokenFlags(@)]
      <4>1. CASE t_parent[current] # NULL /\ ParentListens(t_parent[current], current)
        <5>1. /\ t_parent[current] \in Pid
              /\ "TF_WAITTASK" \in t_flags[t_parent[current]]
          BY <2>1, <3>1, <4>1, SMTT(30), ZenonT(30) DEF ParentListens, TypeOK
        <5> QED BY <2>10, <4>1, <5>1 DEF LoopFrees, task_free
      <4>2. CASE ~ (t_parent[current] # NULL
                      /\ ParentListens(t_parent[current], current))
        BY <2>10, <4>2 DEF LoopFrees, task_free
      <4> QED BY <4>1, <4>2
    <3>3. T_ISZOMBIE(p) => p # current /\ "TF_WAITTASK" \notin t_flags[p]
      BY <2>1, <3>1 DEF FlagInv, T_ISZOMBIE
    <3>4. globlist' = globlist
      BY <2>10, SMTT(30), ZenonT(30) DEF LoopFrees
    <3> QED BY <2>1, <3>1, <3>2, <3>3, <3>4, SMTT(30), ZenonT(30) DEF TypeOK
  <2>11. CASE \/ ForkFails \/ task_setsid \/ (\E r \in Detachable : task_detach(r))
              \/ WaitioReturns \/ WorkerSchedules \/ timer_interrupt
              \/ LoopRestarts \/ LoopSkips \/ task_switch
    BY <2>2, <2>11, Zenon
    DEF ForkFails, task_setsid, task_detach, WaitioReturns, WorkerSchedules,
        timer_interrupt, LoopRestarts, LoopSkips, task_switch
  <2> QED
    BY <2>3, <2>4, <2>5, <2>6, <2>7, <2>8, <2>9, <2>10, <2>11, Zenon
    DEF Next, Syscall, Resumes, Scheduler
<1>2. Spec => []IInv
  BY Invariance
<1>3. Spec => [][Good]_vars
  BY <1>1, <1>2, PTL DEF Spec
<1> QED BY <1>3, SMTT(30), ZenonT(30) DEF FreesOnlyZombies

-----------------------------------------------------------------------------
(* The stage of one process. *)
StageOf(p) ==
  IF p >= next_pid THEN "new"
  ELSE IF p \notin globlist THEN "gone"
  ELSE IF T_ISZOMBIE(p) THEN "dead"
  ELSE IF "TF_EXIT" \in t_flags[p] THEN "exited"
  ELSE "live"

OutcomeOf(p) == IF StageOf(p) \in {"exited", "dead"} THEN t_status[p] ELSE 0

LEMMA Stages ==
  /\ stage = [p \in Pid |-> StageOf(p)]
  /\ outcome = [p \in Pid |-> OutcomeOf(p)]
PROOF
<1>1. stage = [p \in Pid |-> StageOf(p)]
  BY DEF stage, StageOf
<1>2. \A p \in Pid : stage[p] = StageOf(p)
  BY <1>1
<1> QED BY <1>1, <1>2 DEF outcome, OutcomeOf

(* The same of the next state. *)
LEMMA NextStages ==
  /\ stage' = [p \in Pid |-> StageOf(p)']
  /\ outcome' = [p \in Pid |-> OutcomeOf(p)']
PROOF
<1>1. stage' = [p \in Pid |-> StageOf(p)']
  BY DEF stage, StageOf, T_ISZOMBIE
<1>2. \A p \in Pid : stage'[p] = StageOf(p)'
  BY <1>1
<1> QED BY <1>1, <1>2 DEF outcome, OutcomeOf

(* A step that moves process p to stage s with outcome o is one step of     *)
(* both abstract variables.                                                 *)
LEMMA OneMoves ==
  ASSUME NEW p \in Pid, NEW s, NEW o,
         StageOf(p)' = s, OutcomeOf(p)' = o,
         \A q \in Pid \ {p} : StageOf(q)' = StageOf(q) /\ OutcomeOf(q)' = OutcomeOf(q)
  PROVE  /\ stage' = [stage EXCEPT ![p] = s]
         /\ outcome' = [outcome EXCEPT ![p] = o]
BY Stages, NextStages, Zenon

(* A step that moves none changes neither. *)
LEMMA NoneMoves ==
  ASSUME \A q \in Pid : StageOf(q)' = StageOf(q) /\ OutcomeOf(q)' = OutcomeOf(q)
  PROVE  UNCHANGED Life!life
BY Stages, NextStages DEF Life!life

(* The steps that leave the list, the counter, and the dying bits and       *)
(* statuses of the dying alone, move no process.                            *)
LEMMA Still ==
  ASSUME globlist' = globlist, next_pid' = next_pid,
         \A q \in globlist :
           /\ "TF_ZOMBIE" \in t_flags'[q] <=> "TF_ZOMBIE" \in t_flags[q]
           /\ "TF_EXIT" \in t_flags'[q] <=> "TF_EXIT" \in t_flags[q]
           /\ "TF_ZOMBIE" \in t_flags[q] \/ "TF_EXIT" \in t_flags[q]
                => t_status'[q] = t_status[q]
  PROVE  UNCHANGED Life!life
PROOF
<1>1. ASSUME NEW q \in Pid
      PROVE  StageOf(q)' = StageOf(q) /\ OutcomeOf(q)' = OutcomeOf(q)
  <2>1. CASE q \in globlist
    BY <2>1, SMTT(30), ZenonT(30) DEF StageOf, OutcomeOf, T_ISZOMBIE
  <2>2. CASE q \notin globlist
    BY <2>2 DEF StageOf, OutcomeOf
  <2> QED BY <2>1, <2>2
<1> QED BY <1>1, NoneMoves, SMTT(30), ZenonT(30)

(* Creating a process, or losing its id. *)
LEMMA Creates ==
  ASSUME IInv, NEW s \in {"live", "gone"}, next_pid \in Pid,
         next_pid' = next_pid + 1,
         \A q \in globlist : t_flags'[q] = t_flags[q],
         t_status' = t_status,
         s = "live" => /\ globlist' = globlist \cup {next_pid}
                       /\ "TF_ZOMBIE" \notin t_flags'[next_pid]
                       /\ "TF_EXIT" \notin t_flags'[next_pid],
         s = "gone" => globlist' = globlist
  PROVE  Life!Step
PROOF
<1> USE Nodes
<1>1. /\ globlist \subseteq Pid /\ next_pid \in Int
      /\ \A q \in globlist : q < next_pid
  BY DEF IInv, TypeOK, FlagInv
<1> PICK p \in Pid : p = next_pid
  OBVIOUS
<1>2. StageOf(p) = "new" /\ OutcomeOf(p) = 0
  BY <1>1 DEF StageOf, OutcomeOf
<1>3. StageOf(p)' = s /\ OutcomeOf(p)' = 0
  <2>1. StageOf(p)' = s
    <3>1. CASE s = "live"
      BY <1>1, <3>1 DEF StageOf, T_ISZOMBIE
    <3>2. CASE s = "gone"
      BY <1>1, <3>2 DEF StageOf
    <3> QED BY <3>1, <3>2
  <2> QED BY <2>1 DEF OutcomeOf
<1>4. ASSUME NEW q \in Pid \ {p}
      PROVE  StageOf(q)' = StageOf(q) /\ OutcomeOf(q)' = OutcomeOf(q)
  <2>4. q \in Int /\ q # next_pid
    OBVIOUS
  <2>5. q >= next_pid' <=> q >= next_pid
    BY <1>1, <2>4
  <2>6. q \in globlist' <=> q \in globlist
    <3>1. globlist' = globlist \/ globlist' = globlist \cup {next_pid}
      OBVIOUS
    <3> QED BY <2>4, <3>1
  <2>1. (q >= next_pid' <=> q >= next_pid) /\ (q \in globlist' <=> q \in globlist)
    BY <2>5, <2>6
  <2>2. CASE q \in globlist
    BY <2>1, <2>2 DEF StageOf, OutcomeOf, T_ISZOMBIE
  <2>3. CASE q \notin globlist
    BY <2>1, <2>3 DEF StageOf, OutcomeOf
  <2> QED BY <2>2, <2>3
<1>5. stage' = [stage EXCEPT ![p] = s] /\ outcome' = [outcome EXCEPT ![p] = 0]
  BY <1>3, <1>4, OneMoves
<1>6. outcome' = outcome
  BY <1>2, <1>5, Stages
<1>7. stage[p] = "new"
  BY <1>2, Stages
<1>8. ASSUME NEW q \in 0 .. p - 1 PROVE stage[q] # "new"
  <2>1. q \in Pid /\ ~ (q >= next_pid)
    BY <1>1, BoundAssumption DEF Pid
  <2> QED BY <2>1, Stages DEF StageOf
<1>9. Life!Create(p, s)
  BY <1>5, <1>6, <1>7, <1>8 DEF Life!Create
<1> QED BY <1>9 DEF Life!Step, Life!Stage, Pid

(* Freeing the structure of a zombie. *)
LEMMA Buries ==
  ASSUME IInv, NEW c \in globlist, T_ISZOMBIE(c), Reap(c), next_pid' = next_pid
  PROVE  Life!Step
PROOF
<1> USE Nodes
<1>1. /\ globlist \subseteq Pid /\ next_pid \in Int /\ c \in Pid /\ c < next_pid
      /\ t_flags \in [Pid -> SUBSET TF] /\ t_status \in [Pid -> Code]
  BY DEF IInv, TypeOK, FlagInv
<1>2. /\ globlist' = globlist \ {c}
      /\ t_flags' = [t_flags EXCEPT ![c] = {}]
      /\ t_status' = [t_status EXCEPT ![c] = 0]
  BY DEF Reap
<1>3. StageOf(c) = "dead"
  BY <1>1 DEF StageOf
<1>4. StageOf(c)' = "gone" /\ OutcomeOf(c)' = 0
  BY <1>1, <1>2, SMTT(30), ZenonT(30) DEF StageOf, OutcomeOf
<1>5. ASSUME NEW q \in Pid \ {c}
      PROVE  StageOf(q)' = StageOf(q) /\ OutcomeOf(q)' = OutcomeOf(q)
  <2>1. /\ q \in globlist' <=> q \in globlist
        /\ t_flags'[q] = t_flags[q] /\ t_status'[q] = t_status[q]
    BY <1>1, <1>2
  <2> QED BY <2>1 DEF StageOf, OutcomeOf, T_ISZOMBIE
<1>6. stage' = [stage EXCEPT ![c] = "gone"] /\ outcome' = [outcome EXCEPT ![c] = 0]
  BY <1>1, <1>4, <1>5, OneMoves
<1>7. Life!Bury(c)
  BY <1>1, <1>3, <1>6, Stages DEF Life!Bury
<1> QED BY <1>1, <1>7 DEF Life!Step, Pid

(* A process exits. *)
LEMMA Exits ==
  ASSUME IInv, NEW code \in Code, sys_exit(code)
  PROVE  Life!Step
PROOF
<1> USE Nodes
<1>1. /\ current \in globlist /\ current \in Pid /\ current # 0
      /\ current < next_pid /\ next_pid \in Int
      /\ "TF_RUNNING" \in t_flags[current]
      /\ t_flags \in [Pid -> SUBSET TF] /\ t_status \in [Pid -> Code]
  BY DEF IInv, TypeOK, FlagInv, CpuInv, sys_exit, Executing
<1> PICK p \in Pid : p = current
  BY <1>1
<1>2. "TF_ZOMBIE" \notin t_flags[p] /\ "TF_EXIT" \notin t_flags[p]
  <2>1. t_flags[p] # {"TF_EXIT"} /\ t_flags[p] # {"TF_ZOMBIE"}
    BY <1>1
  <2> QED BY <1>1, <2>1 DEF IInv, FlagInv
<1>3. /\ t_flags' = [t_flags EXCEPT ![p] = {"TF_EXIT"}]
      /\ t_status' = [t_status EXCEPT ![p] = code]
      /\ globlist' = globlist /\ next_pid' = next_pid
  BY DEF sys_exit
<1>4. StageOf(p) = "live"
  BY <1>1, <1>2 DEF StageOf, T_ISZOMBIE
<1>5. StageOf(p)' = "exited" /\ OutcomeOf(p)' = code
  BY <1>1, <1>3 DEF StageOf, OutcomeOf, T_ISZOMBIE
<1>6. ASSUME NEW q \in Pid \ {p}
      PROVE  StageOf(q)' = StageOf(q) /\ OutcomeOf(q)' = OutcomeOf(q)
  <2>1. t_flags'[q] = t_flags[q] /\ t_status'[q] = t_status[q]
    BY <1>1, <1>3
  <2> QED BY <1>3, <2>1 DEF StageOf, OutcomeOf, T_ISZOMBIE
<1>7. stage' = [stage EXCEPT ![p] = "exited"] /\ outcome' = [outcome EXCEPT ![p] = code]
  BY <1>5, <1>6, OneMoves
<1>8. Life!Exit(p, code)
  BY <1>1, <1>4, <1>7, Stages DEF Life!Exit
<1> QED BY <1>8, SMTT(30), ZenonT(30) DEF Life!Step, Pid

(* The scheduler frees what an exited process used. *)
LEMMA Dies ==
  ASSUME IInv, LoopFrees
  PROVE  Life!Step
PROOF
<1> USE Nodes
<1>1. /\ current \in globlist /\ current \in Pid /\ current < next_pid
      /\ next_pid \in Int /\ t_flags[current] = {"TF_EXIT"}
      /\ t_flags \in [Pid -> SUBSET TF] /\ t_status \in [Pid -> Code]
      /\ t_parent \in [Pid -> Pid \cup {NULL}] /\ globlist \subseteq Pid
  <2>1. LoopMeets(TRUE)
    BY Zenon DEF LoopFrees
  <2>2. current \in globlist /\ current \in Pid /\ t_flags[current] = {"TF_EXIT"}
    BY <2>1, Met, Zenon
  <2> QED BY <2>2 DEF IInv, TypeOK, FlagInv
<1> PICK p \in Pid : p = current
  BY <1>1
<1> DEFINE par == t_parent[p]
           woken == par # NULL /\ ParentListens(par, p)
<1>2. globlist' = globlist /\ next_pid' = next_pid
  BY DEF LoopFrees
<1>3. ASSUME woken
      PROVE  /\ par \in Pid /\ par # p
             /\ par \in globlist => /\ "TF_ZOMBIE" \notin t_flags[par]
                                    /\ "TF_EXIT" \notin t_flags[par]
  <2>1. par \in Pid /\ "TF_WAITTASK" \in t_flags[par]
    BY <1>1, <1>3 DEF ParentListens
  <2>2. t_flags[par] # {"TF_EXIT"} /\ t_flags[par] # {"TF_ZOMBIE"} /\ par # p
    BY <1>1, <2>1, SMTT(30), ZenonT(30)
  <2> QED BY <2>1, <2>2 DEF IInv, FlagInv
<1>4. /\ t_flags'[p] = {"TF_ZOMBIE"} /\ t_status'[p] = t_status[p]
      /\ \A q \in Pid \ {p} : ~ (woken /\ q = par) =>
           t_flags'[q] = t_flags[q] /\ t_status'[q] = t_status[q]
      /\ woken => t_flags'[par] = WokenFlags(t_flags[par])
  <2>1. CASE woken
    <3>1. /\ t_flags' = [[t_flags EXCEPT ![p] = {"TF_ZOMBIE"}]
                            EXCEPT ![par] = WokenFlags(@)]
          /\ t_status' = [t_status EXCEPT ![par] = t_status[p]]
      BY <2>1 DEF LoopFrees, task_free
    <3> QED BY <1>1, <1>3, <2>1, <3>1, SMTT(30), ZenonT(30)
  <2>2. CASE ~ woken
    <3>1. t_flags' = [t_flags EXCEPT ![p] = {"TF_ZOMBIE"}] /\ t_status' = t_status
      BY <2>2 DEF LoopFrees, task_free
    <3> QED BY <1>1, <2>2, <3>1, SMTT(30), ZenonT(30)
  <2> QED BY <2>1, <2>2, Zenon
<1>5. StageOf(p) = "exited"
  BY <1>1 DEF StageOf, T_ISZOMBIE
<1>6. StageOf(p)' = "dead"
  <2>1. "TF_ZOMBIE" \in t_flags'[p]
    BY <1>4
  <2>2. p \in globlist' /\ ~ (p >= next_pid')
    BY <1>1, <1>2, SMTT(30), ZenonT(30) DEF Pid
  <2> QED BY <2>1, <2>2, SMTT(30), ZenonT(30) DEF StageOf, T_ISZOMBIE
<1>7. OutcomeOf(p)' = OutcomeOf(p)
  BY <1>4, <1>5, <1>6, Zenon DEF OutcomeOf
<1>8. ASSUME NEW q \in Pid \ {p}
      PROVE  StageOf(q)' = StageOf(q) /\ OutcomeOf(q)' = OutcomeOf(q)
  <2>1. CASE woken /\ q = par
    <3>1. q \in globlist => "TF_ZOMBIE" \notin t_flags'[q] /\ "TF_EXIT" \notin t_flags'[q]
      BY <1>3, <1>4, <2>1, Zenon DEF WokenFlags
    <3> QED BY <1>2, <1>3, <2>1, <3>1, SMTT(30), ZenonT(30) DEF StageOf, OutcomeOf, T_ISZOMBIE
  <2>2. CASE ~ (woken /\ q = par)
    <3>1. t_flags'[q] = t_flags[q] /\ t_status'[q] = t_status[q]
      BY <1>4, <2>2, Zenon
    <3> QED BY <1>2, <3>1, SMTT(30), ZenonT(30) DEF StageOf, OutcomeOf, T_ISZOMBIE
  <2> QED BY <2>1, <2>2
<1>9. /\ stage' = [stage EXCEPT ![p] = "dead"]
      /\ outcome' = [outcome EXCEPT ![p] = OutcomeOf(p)]
  BY <1>6, <1>7, <1>8, OneMoves
<1>10. outcome' = outcome /\ stage[p] = "exited"
  BY <1>5, <1>9, Stages
<1>11. Life!Die(p)
  BY <1>9, <1>10 DEF Life!Die
<1> QED BY <1>11 DEF Life!Step, Pid

(* The steps that only clear TF_RESCHED, or set or clear wait flags of one  *)
(* task that is not dying.                                                  *)
LEMMA Waits ==
  ASSUME IInv, NEW p \in Pid, NEW flags,
         t_flags' = [t_flags EXCEPT ![p] = flags],
         "TF_ZOMBIE" \in flags <=> "TF_ZOMBIE" \in t_flags[p],
         "TF_EXIT" \in flags <=> "TF_EXIT" \in t_flags[p],
         UNCHANGED <<globlist, next_pid, t_status>>
  PROVE  UNCHANGED Life!life
PROOF
<1>1. ASSUME NEW q \in globlist
      PROVE  /\ "TF_ZOMBIE" \in t_flags'[q] <=> "TF_ZOMBIE" \in t_flags[q]
             /\ "TF_EXIT" \in t_flags'[q] <=> "TF_EXIT" \in t_flags[q]
  <2>1. q \in Pid /\ t_flags \in [Pid -> SUBSET TF]
    BY DEF IInv, TypeOK
  <2>2. CASE q = p
    BY <2>1, <2>2
  <2>3. CASE q # p
    BY <2>1, <2>3
  <2> QED BY <2>2, <2>3
<1> QED BY <1>1, Still

(* Every step of task.c is a step of Lifecycle, or changes no stage. *)
LEMMA StepsLife ==
  ASSUME IInv, [Next]_vars
  PROVE  [Life!Step]_(Life!life)
PROOF
<1> USE Nodes
<1>1. /\ globlist \subseteq Pid /\ t_flags \in [Pid -> SUBSET TF]
      /\ mode = "run" => current \in globlist /\ "TF_RUNNING" \in t_flags[current]
      /\ mode = "preempt" => current \in Pid
  BY DEF IInv, TypeOK, CpuInv
<1>2. CASE sys_fork
  <2>1. mode = "run" /\ next_pid \in Pid /\ next_pid \notin globlist
    BY <1>2 DEF sys_fork, Executing, IInv, FlagInv, TypeOK
  <2>2. t_flags[current] # {"TF_EXIT"} /\ t_flags[current] # {"TF_ZOMBIE"}
    BY <1>1, <2>1
  <2>3. "TF_ZOMBIE" \notin t_flags[current] /\ "TF_EXIT" \notin t_flags[current]
    BY <1>1, <2>1, <2>2, Zenon DEF IInv, FlagInv
  <2>4. /\ next_pid' = next_pid + 1 /\ globlist' = globlist \cup {next_pid}
        /\ t_status' = t_status
        /\ t_flags' = [t_flags EXCEPT ![next_pid] = t_flags[current]]
    BY <1>2 DEF sys_fork
  <2>5. /\ \A q \in globlist : t_flags'[q] = t_flags[q]
        /\ t_flags'[next_pid] = t_flags[current]
    BY <1>1, <2>1, <2>4
  <2> QED BY <2>1, <2>3, <2>4, <2>5, Creates, SMTT(30), ZenonT(30)
<1>3. CASE worker_spawn
  <2>1. next_pid \in Pid /\ next_pid \notin globlist
    BY <1>3 DEF worker_spawn, IInv, FlagInv, TypeOK
  <2>2. /\ next_pid' = next_pid + 1 /\ globlist' = globlist \cup {next_pid}
        /\ t_status' = t_status
        /\ t_flags' = [t_flags EXCEPT ![next_pid] = {"TF_RUNNING"}]
    BY <1>3 DEF worker_spawn
  <2>3. /\ \A q \in globlist : t_flags'[q] = t_flags[q]
        /\ t_flags'[next_pid] = {"TF_RUNNING"}
    BY <1>1, <2>1, <2>2, SMTT(30), ZenonT(30)
  <2> QED BY <2>1, <2>2, <2>3, Creates
<1>4. CASE ForkFails
  BY <1>4, Creates DEF ForkFails
<1>5. CASE \E code \in Code : sys_exit(code)
  BY <1>5, Exits
<1>6. CASE \E w \in WaitArg : WaitpidAtOnce(w)
  <2>1. PICK w \in WaitArg : WaitpidAtOnce(w)
    BY <1>6
  <2>2. PICK c \in Answers(w) : Reap(c)
    BY <2>1, SMTT(30), ZenonT(30) DEF WaitpidAtOnce
  <2>3. c \in globlist /\ T_ISZOMBIE(c)
    BY <1>1, <2>1, Zenon DEF Answers, WaitpidAtOnce, Executing, IInv, FamilyInv,
       FamilyConsistent, TypeOK
  <2>4. next_pid' = next_pid
    BY <2>1 DEF WaitpidAtOnce
  <2> QED BY <2>2, <2>3, <2>4, Buries
<1>7. CASE WaitpidWakes
  <2>1. t_waitfor[current] \in globlist /\ T_ISZOMBIE(t_waitfor[current])
    <3>1. current \in globlist /\ current \in Pid /\ pc[current] = "waitpid"
      BY <1>1, <1>7, Zenon DEF WaitpidWakes, Executing
    <3>2. ~ T_WAITING(current)
      BY <1>7 DEF WaitpidWakes, Executing, IInv, CpuInv
    <3> QED BY <3>1, <3>2 DEF IInv, WokenByZombie, T_ISZOMBIE
  <2>2. Reap(t_waitfor[current]) /\ next_pid' = next_pid
    BY <1>7, <2>1 DEF WaitpidWakes
  <2> QED BY <2>1, <2>2, Buries
<1>8. CASE LoopFrees
  BY <1>8, Dies
<1>9. CASE (\E w \in WaitArg : WaitpidSleep(w)) \/ task_waitio \/ WorkerWaits
  <2>1. PICK f \in TF_WAITMASK :
          /\ t_flags' = [t_flags EXCEPT ![current] = @ \cup {f, "TF_RESCHED"}]
          /\ mode = "run" /\ UNCHANGED <<globlist, next_pid, t_status>>
    BY <1>9 DEF WaitpidSleep, task_waitio, WorkerWaits, task_wait, Executing,
       TF_WAITMASK
  <2>2. /\ current \in Pid
        /\ t_flags' = [t_flags EXCEPT ![current] = t_flags[current] \cup {f, "TF_RESCHED"}]
    BY <1>1, <2>1, Zenon
  <2>3. f # "TF_ZOMBIE" /\ f # "TF_EXIT"
    BY DEF TF_WAITMASK
  <2> QED BY <2>1, <2>2, <2>3, Waits, Zenon
<1>10. CASE \E r \in Pid : task_wakeup(r)
  <2>1. PICK r \in Pid : task_wakeup(r)
    BY <1>10
  <2>2. /\ t_flags' = [t_flags EXCEPT ![r] = WokenFlags(t_flags[r])]
        /\ UNCHANGED <<globlist, next_pid, t_status>>
    BY <1>1, <2>1, SMTT(30), ZenonT(30) DEF task_wakeup
  <2>3. /\ "TF_ZOMBIE" \in WokenFlags(t_flags[r]) <=> "TF_ZOMBIE" \in t_flags[r]
        /\ "TF_EXIT" \in WokenFlags(t_flags[r]) <=> "TF_EXIT" \in t_flags[r]
    BY DEF WokenFlags, TF_WAITMASK
  <2> QED BY <2>2, <2>3, Waits, Zenon
<1>11. CASE task_preempt
  <2>1. UNCHANGED <<globlist, next_pid, t_status>> /\ current \in Pid
    BY <1>1, <1>11, SMTT(30), ZenonT(30) DEF task_preempt
  <2>2. \/ t_flags' = t_flags
        \/ t_flags' = [t_flags EXCEPT ![current] = t_flags[current] \ {"TF_RESCHED"}]
    BY <1>1, <1>11, <2>1 DEF task_preempt
  <2>3. CASE t_flags' = t_flags
    BY <2>1, <2>3, Still
  <2>4. CASE t_flags' = [t_flags EXCEPT ![current] = t_flags[current] \ {"TF_RESCHED"}]
    BY <2>1, <2>4, Waits, Zenon
  <2> QED BY <2>2, <2>3, <2>4, SMTT(30), ZenonT(30)
<1>12. CASE UNCHANGED <<globlist, next_pid, t_flags, t_status>>
  BY <1>12, Still
<1>13. \/ task_setsid \/ (\E r \in Detachable : task_detach(r)) \/ WaitioReturns
       \/ WorkerSchedules \/ timer_interrupt \/ LoopRestarts \/ LoopSkips
       \/ task_switch \/ UNCHANGED vars
       => UNCHANGED <<globlist, next_pid, t_flags, t_status>>
  BY Zenon DEF task_setsid, task_detach, WaitioReturns, WorkerSchedules, timer_interrupt,
     LoopRestarts, LoopSkips, task_switch, vars
<1> QED
  BY <1>2, <1>3, <1>4, <1>5, <1>6, <1>7, <1>8, <1>9, <1>10, <1>11, <1>12, <1>13, SMTT(30), ZenonT(30)
  DEF Next, Syscall, Resumes, Scheduler

(* The refinement: task.c implements Lifecycle. *)
THEOREM Refinement == Spec => ImplementsLifecycle
PROOF
<1>1. Init => Life!Begin
  <2> SUFFICES ASSUME Init PROVE Life!Begin
    OBVIOUS
  <2>1. \A p \in Pid : StageOf(p) = IF p = 0 THEN "live" ELSE "new"
    BY Nodes, BoundAssumption DEF Init, StageOf, T_ISZOMBIE, Pid
  <2>2. \A p \in Pid : OutcomeOf(p) = 0
    BY <2>1 DEF OutcomeOf
  <2> QED BY <2>1, <2>2, Stages DEF Life!Begin, Pid
<1> QED BY <1>1, StepsLife, Invariance, PTL DEF Spec, ImplementsLifecycle, Life!Lives
=============================================================================
