------------------------------- MODULE Message -------------------------------
(***************************************************************************)
(* Message queues, kernel/src/message.c: each task has a queue; anybody    *)
(* sends to it, its owner pops the oldest message, or the oldest with an   *)
(* id, and may sleep until one arrives.  task_free empties the queue of a  *)
(* task that dies and waitpid frees the structure that holds it.           *)
(*                                                                         *)
(* A message is its number in the order of sending, and its id.            *)
(***************************************************************************)
EXTENDS Sleep, Lists, Functions, FiniteSetsExt

CONSTANTS
  Id,        \* the message ids in use
  MESG_ANY,  \* the id that matches every message
  MaxMesg,   \* bound: messages sent
  Mortal     \* the tasks that exit

ASSUME MessageAssumption ==
  MESG_ANY \notin Id /\ MaxMesg \in Nat /\ Mortal \subseteq Tasks

VARIABLES
  t_mesgq,     \* the queue of each task, oldest first
  life,        \* "live", "zombie" (still in task_globlist) or "freed"
  wants,       \* the arguments of a pop that sleeps
  nsent,       \* how many messages have been sent
  containers,  \* the message_container_t that are allocated, by number
  popped       \* history: the number of the last message popped, by task and id

mesgVars == <<t_mesgq, life, wants, nsent, containers, popped>>
messageVars == <<t_wait, pc, mesgVars>>

Mesg == [nr : 1 .. MaxMesg, id : Id]
Args == [id : Id \cup {MESG_ANY}, leave : BOOLEAN]
NoArgs == [id |-> MESG_ANY, leave |-> FALSE]

MessageInit ==
  /\ t_wait = [t \in Tasks |-> "none"]
  /\ pc = [t \in Tasks |-> "user"]
  /\ t_mesgq = [t \in Tasks |-> <<>>]
  /\ life = [t \in Tasks |-> "live"]
  /\ wants = [t \in Tasks |-> NoArgs]
  /\ nsent = 0
  /\ containers = {}
  /\ popped = [t \in Tasks |-> [i \in Id |-> 0]]

-----------------------------------------------------------------------------
(* Variants: the message is dropped for a receiver that sleeps, goes to the *)
(* wrong end of the queue, or has no id; the receiver is not woken.         *)
QueueUnlessWaited(t, m) ==
  t_mesgq' = IF t_wait[t] = "TF_WAITMESG" THEN t_mesgq
             ELSE [t_mesgq EXCEPT ![t] = Append(@, m)]
QueueAtHead(t, m) == t_mesgq' = [t_mesgq EXCEPT ![t] = <<m>> \o @]
QueueNoId(t, m) ==
  t_mesgq' = [t_mesgq EXCEPT ![t] = Append(@, [m EXCEPT !.id = MESG_ANY])]
WakeNobody(t) == UNCHANGED t_wait

Queue(t, m) == t_mesgq' = [t_mesgq EXCEPT ![t] = Append(@, m)]

WakeReceiver(t) ==
  IF t_wait[t] = "TF_WAITMESG" THEN task_wakeup(t) ELSE UNCHANGED t_wait

(* task_lookup finds zombies too.  A call that fails for want of memory or  *)
(* of a receiver changes nothing.                                           *)
sys_message_send(s, t, id) ==
  /\ At(s, "user") /\ life[t] # "freed"
  /\ nsent < MaxMesg
  /\ nsent' = nsent + 1
  /\ containers' = containers \cup {nsent + 1}
  /\ Queue(t, [nr |-> nsent + 1, id |-> id])
  /\ WakeReceiver(t)
  /\ UNCHANGED <<pc, life, wants, popped>>

(* The places in a queue that a pop with this id accepts. *)
Matching(q, id) == {i \in DOMAIN q : id \in {q[i].id, MESG_ANY}}

(* Variant: the message returned is not the one removed. *)
TakeRemovesFirst(t, arg) ==
  LET q == t_mesgq[t]
      found == Matching(q, arg.id)
  IN IF found = {} THEN UNCHANGED <<t_mesgq, containers, popped>>
     ELSE LET i == Min(found) IN
          /\ popped' = [popped EXCEPT ![t][q[i].id] = q[i].nr]
          /\ t_mesgq' = [t_mesgq EXCEPT ![t] = Tail(@)]
          /\ containers' = containers \ {q[1].nr}

(* The search of sys_message_pop, and what it does with the message found.  *)
Take(t, arg) ==
  LET q == t_mesgq[t]
      found == Matching(q, arg.id)
  IN IF found = {} THEN UNCHANGED <<t_mesgq, containers, popped>>   \* ENOENT
     ELSE LET i == Min(found) IN
          /\ popped' = [popped EXCEPT ![t][q[i].id] = q[i].nr]
          /\ IF arg.leave THEN UNCHANGED <<t_mesgq, containers>>
             ELSE /\ t_mesgq' = [t_mesgq EXCEPT ![t] = Without(@, {q[i]})]
                  /\ containers' = containers \ {q[i].nr}

(* sys_message_pop that finds the queue not empty, MESG_POP_WAIT or not. *)
PopAtOnce(t, arg) ==
  /\ At(t, "user") /\ t_mesgq[t] # <<>>
  /\ Take(t, arg)
  /\ UNCHANGED <<t_wait, pc, life, wants, nsent>>

(* MESG_POP_WAIT on an empty queue: sleep, then search once. *)
PopSleeps(t, arg) ==
  /\ At(t, "user") /\ t_mesgq[t] = <<>>
  /\ task_wait(t, "TF_WAITMESG", "pop")
  /\ wants' = [wants EXCEPT ![t] = arg]
  /\ UNCHANGED <<t_mesgq, life, nsent, containers, popped>>

PopWakes(t) ==
  /\ At(t, "pop")
  /\ Take(t, wants[t])
  /\ pc' = [pc EXCEPT ![t] = "user"]
  /\ wants' = [wants EXCEPT ![t] = NoArgs]
  /\ UNCHANGED <<t_wait, life, nsent>>

(* What task_free does for a task that has exited. *)
task_free(t) ==
  /\ At(t, "user") /\ t \in Mortal
  /\ life' = [life EXCEPT ![t] = "zombie"]
  /\ pc' = [pc EXCEPT ![t] = "dead"]
  /\ containers' = containers \ {m.nr : m \in Range(t_mesgq[t])}
  /\ t_mesgq' = [t_mesgq EXCEPT ![t] = <<>>]
  /\ UNCHANGED <<t_wait, wants, nsent, popped>>

(* sys_waitpid frees the structure of a zombie, and nothing it points to.   *)
FreeStruct(t) ==
  /\ life[t] = "zombie"
  /\ life' = [life EXCEPT ![t] = "freed"]
  /\ t_mesgq' = [t_mesgq EXCEPT ![t] = <<>>]
  /\ UNCHANGED <<t_wait, pc, wants, nsent, containers, popped>>

MessageNext ==
  \E t \in Tasks :
    \/ \E s \in Tasks, id \in Id : sys_message_send(s, t, id)
    \/ \E arg \in Args : PopAtOnce(t, arg)
    \/ \E arg \in Args : PopSleeps(t, arg)
    \/ PopWakes(t)
    \/ task_free(t)
    \/ FreeStruct(t)

MessageSpec == MessageInit /\ [][MessageNext]_messageVars

-----------------------------------------------------------------------------
MessageTypeOK ==
  /\ t_wait \in [Tasks -> Flags]
  /\ pc \in [Tasks -> {"user", "pop", "dead"}]
  /\ t_mesgq \in [Tasks -> Seq(Mesg)]
  /\ life \in [Tasks -> {"live", "zombie", "freed"}]
  /\ wants \in [Tasks -> Args]
  /\ nsent \in 0 .. MaxMesg
  /\ containers \subseteq 1 .. nsent
  /\ popped \in [Tasks -> [Id -> 0 .. nsent]]

(* message.c:60, "when we wake up we will have a message": a task that is   *)
(* awake inside sys_message_pop has one in its queue.                       *)
WokenHasMessage ==
  \A t \in Tasks : At(t, "pop") => t_mesgq[t] # <<>>

(* No wakeup is lost: nobody sleeps in sys_message_pop over a queue that    *)
(* has messages, whatever their id.                                         *)
NoSleepOverMessages ==
  \A t \in Tasks : t_wait[t] = "TF_WAITMESG" => t_mesgq[t] = <<>>

(* Messages with one id reach their receiver in the order in which they     *)
(* were sent, however pops by other ids and pops that leave the message     *)
(* are mixed in.                                                            *)
PopsInOrder ==
  [][\A t \in Tasks, i \in Id : popped'[t][i] >= popped[t][i]]_popped

(* A message leaves the queue of a living task only by being popped, and    *)
(* when it does no older message with its id stays behind.                  *)
NothingSkipped ==
  [][\A t \in Tasks : life'[t] = "live" =>
       \A m \in Range(t_mesgq[t]) \ Range(t_mesgq'[t]) :
         /\ popped'[t][m.id] = m.nr
         /\ \A k \in Range(t_mesgq'[t]) : k.id = m.id => k.nr > m.nr]_t_mesgq

(* task.c:899-900, "the tasks runtime data should have already been free'd, *)
(* we just need to free the task structure": every container that is        *)
(* allocated is in the queue of a task that still exists.                   *)
ContainersReachable ==
  containers = UNION {{m.nr : m \in Range(t_mesgq[t])} : t \in Tasks}
=============================================================================
