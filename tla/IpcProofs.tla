----------------------------- MODULE IpcProofs -----------------------------
(***************************************************************************)
(* Proofs about messages and pipes.                                        *)
(*                                                                         *)
(* Message, for any number of tasks, ids and messages: no wakeup is lost,  *)
(* a task woken in sys_message_pop has a message, and messages with one id *)
(* are popped in the order of sending, none skipped.                       *)
(*                                                                         *)
(* Pipe, for any number of readers, writers and kernel tasks and a ring of *)
(* any length: the task asleep in pipe_read is the one pipe_write wakes,   *)
(* no wakeup is lost, and the ring holds what was written and not yet      *)
(* read.                                                                   *)
(***************************************************************************)
EXTENDS Message, Pipe, OrderProofs

(* Messages. *)

(* The elements of a sequence, by place. *)
LEMMA RangeByPlace ==
  ASSUME NEW S, NEW s \in Seq(S)
  PROVE  \A m : m \in Range(s) <=> \E k \in 1 .. Len(s) : m = s[k]
<1>1. DOMAIN s = 1 .. Len(s)
  OBVIOUS
<1> QED BY <1>1, Zenon DEF Range

-----------------------------------------------------------------------------
(* A queue holds messages in the order of sending, none older than the last *)
(* message with its id that was popped.                                     *)
Sound(q, last, n) ==
  /\ \A i, j \in 1 .. Len(q) : i < j => q[i].nr < q[j].nr
  /\ \A i \in 1 .. Len(q) : q[i].nr <= n /\ last[q[i].id] <= q[i].nr

(* A task sleeps only in sys_message_pop, and only the dead are dead. *)
Phases ==
  \A t \in Tasks :
    /\ t_wait[t] # "none" => t_wait[t] = "TF_WAITMESG" /\ pc[t] = "pop"
    /\ life[t] = "live" <=> pc[t] # "dead"

Queues == \A t \in Tasks : Sound(t_mesgq[t], popped[t], nsent)

(* The inductive invariant. *)
MessageInv ==
  /\ MessageTypeOK
  /\ Phases
  /\ WokenHasMessage
  /\ NoSleepOverMessages
  /\ Queues

(* What one step may do to the queue of one task, the promise of            *)
(* PopsInOrder and NothingSkipped.                                          *)
Promised(t) ==
  /\ \A i \in Id : popped'[t][i] >= popped[t][i]
  /\ life'[t] = "live" =>
       \A m \in Range(t_mesgq[t]) \ Range(t_mesgq'[t]) :
         /\ popped'[t][m.id] = m.nr
         /\ \A k \in Range(t_mesgq'[t]) : k.id = m.id => k.nr > m.nr

(* The search and the removal of sys_message_pop keep a queue sound and     *)
(* take the oldest message with its id.                                     *)
LEMMA TakeIsSound ==
  ASSUME MessageTypeOK, NEW t \in Tasks, NEW arg \in Args,
         Sound(t_mesgq[t], popped[t], nsent), Take(t, arg)
  PROVE  /\ t_mesgq' \in [Tasks -> Seq(Mesg)]
         /\ containers' \subseteq 1 .. nsent
         /\ popped' \in [Tasks -> [Id -> 0 .. nsent]]
         /\ \A u \in Tasks \ {t} : t_mesgq'[u] = t_mesgq[u] /\ popped'[u] = popped[u]
         /\ Sound(t_mesgq'[t], popped'[t], nsent)
         /\ Promised(t)
<1> DEFINE q == t_mesgq[t]
           found == Matching(q, arg.id)
<1> USE MessageAssumption
<1>t. /\ q \in Seq(Mesg) /\ t_mesgq \in [Tasks -> Seq(Mesg)]
      /\ containers \subseteq 1 .. nsent /\ nsent \in 0 .. MaxMesg
      /\ popped \in [Tasks -> [Id -> 0 .. nsent]]
      /\ arg.id \in Id \cup {MESG_ANY} /\ arg.leave \in BOOLEAN
  BY DEF MessageTypeOK, Args
<1>1. CASE found = {}
  <2>1. UNCHANGED <<t_mesgq, containers, popped>>
    BY <1>1 DEF Take
  <2> QED BY <2>1, <1>t DEF Promised
<1>2. CASE found # {}
  <2> DEFINE i == Min(found)
             rest == Without(q, {q[i]})
  <2>1. found \in SUBSET Nat /\ \A k \in found : k \in 1 .. Len(q)
    BY <1>t DEF Matching
  <2>2. i \in found /\ \A k \in found : i <= k
    BY <1>2, <2>1, MinProperty
  <2>3. i \in 1 .. Len(q) /\ q[i] \in Mesg
    BY <2>1, <2>2, <1>t
  <2>4. /\ popped' = [popped EXCEPT ![t][q[i].id] = q[i].nr]
        /\ \/ UNCHANGED <<t_mesgq, containers>>
           \/ /\ t_mesgq' = [t_mesgq EXCEPT ![t] = Without(@, {q[i]})]
              /\ containers' = containers \ {q[i].nr}
    BY <1>2 DEF Take
  <2>5. /\ rest \in Seq(Mesg) /\ Range(rest) = Range(q) \ {q[i]}
        /\ \A a, b \in DOMAIN rest : a < b =>
             \E k, l \in DOMAIN q : k < l /\ q[k] = rest[a] /\ q[l] = rest[b]
    <3> DEFINE gone == {q[i]}
    <3>1. q \in Seq(Mesg)
      BY <1>t
    <3> HIDE DEF q, gone
    <3>2. /\ Without(q, gone) \in Seq(Mesg) /\ Range(Without(q, gone)) = Range(q) \ gone
          /\ \A a, b \in DOMAIN Without(q, gone) : a < b =>
               \E k, l \in DOMAIN q : k < l /\ q[k] = Without(q, gone)[a]
                                            /\ q[l] = Without(q, gone)[b]
      BY <3>1, WithoutProperty
    <3> QED BY <3>2 DEF gone
  \* Nothing before the message found has its id.
  <2>6. \A k \in 1 .. Len(q) : q[k].id = q[i].id => i <= k
    <3>1. arg.id \in {q[i].id, MESG_ANY}
      BY <2>2 DEF Matching
    <3>2. ASSUME NEW k \in 1 .. Len(q), q[k].id = q[i].id
          PROVE  k \in found
      <4>1. k \in DOMAIN q
        BY <1>t
      <4> QED BY <4>1, <3>1, <3>2, Zenon DEF Matching
    <3> QED BY <3>2, <2>2
  <2> HIDE DEF found, i, rest
  <2>7. /\ q[i].id \in Id /\ q[i].nr \in 1 .. MaxMesg /\ q[i].nr <= nsent
        /\ popped[t][q[i].id] <= q[i].nr
    BY <2>3 DEF Sound, Mesg
  <2>8. /\ popped' \in [Tasks -> [Id -> 0 .. nsent]]
        /\ popped'[t][q[i].id] = q[i].nr
        /\ \A d \in Id : d # q[i].id => popped'[t][d] = popped[t][d]
        /\ \A u \in Tasks \ {t} : popped'[u] = popped[u]
    BY <2>4, <2>7, <1>t
  <2>9. \A d \in Id : popped'[t][d] >= popped[t][d]
    <3> TAKE d \in Id
    <3>1. popped[t][d] \in Nat
      BY <1>t
    <3> QED BY <3>1, <2>7, <2>8
  \* The messages with its id that stay are younger.
  <2>10. \A k \in 1 .. Len(q) : q[k].id = q[i].id => k = i \/ q[i].nr < q[k].nr
    BY <2>3, <2>6, <1>t DEF Sound
  <2>11. \A k \in 1 .. Len(q) : popped'[t][q[k].id] <= q[k].nr
    <3> TAKE k \in 1 .. Len(q)
    <3>1. q[k] \in Mesg /\ popped[t][q[k].id] <= q[k].nr
      BY <1>t DEF Sound
    <3>2. q[k].id \in Id /\ q[k].nr \in Nat
      BY <3>1 DEF Mesg
    <3>3. CASE q[k].id = q[i].id
      BY <3>3, <3>2, <2>10, <2>8, <2>7, SMTT(30), ZenonT(30)
    <3>4. CASE q[k].id # q[i].id
      BY <3>4, <3>1, <3>2, <2>8
    <3> QED BY <3>3, <3>4
  <2>12. CASE UNCHANGED <<t_mesgq, containers>>
    BY <2>12, <2>8, <2>9, <2>11, <1>t, SMTT(30), ZenonT(30) DEF Sound, Promised
  <2>13. CASE /\ t_mesgq' = [t_mesgq EXCEPT ![t] = Without(@, {q[i]})]
              /\ containers' = containers \ {q[i].nr}
    <3>0. /\ \A m : m \in Range(q) <=> \E k \in 1 .. Len(q) : m = q[k]
          /\ \A m : m \in Range(rest) <=> \E k \in 1 .. Len(rest) : m = rest[k]
      BY <1>t, <2>5, RangeByPlace
    <3>1. /\ t_mesgq'[t] = rest /\ t_mesgq' \in [Tasks -> Seq(Mesg)]
          /\ \A u \in Tasks \ {t} : t_mesgq'[u] = t_mesgq[u]
      BY <2>13, <2>5, <1>t DEF rest
    <3>2. \A k \in 1 .. Len(rest) : \E j \in 1 .. Len(q) : rest[k] = q[j] /\ j # i
      <4> TAKE k \in 1 .. Len(rest)
      <4>1. rest[k] \in Range(q) /\ rest[k] # q[i]
        BY <3>0, <2>5, Zenon
      <4> QED BY <4>1, <3>0, Zenon
    <3>3. Sound(rest, popped'[t], nsent)
      <4>1. \A k \in 1 .. Len(rest) :
              rest[k].nr <= nsent /\ popped'[t][rest[k].id] <= rest[k].nr
        BY <3>2, <2>11 DEF Sound
      <4>2. DOMAIN rest = 1 .. Len(rest) /\ DOMAIN q = 1 .. Len(q)
        BY <2>5, <1>t
      <4>3. ASSUME NEW k \in 1 .. Len(rest), NEW l \in 1 .. Len(rest), k < l
            PROVE  rest[k].nr < rest[l].nr
        <5>1. PICK a, b \in 1 .. Len(q) : a < b /\ q[a] = rest[k] /\ q[b] = rest[l]
          <6>1. k \in DOMAIN rest /\ l \in DOMAIN rest
            BY <4>2, <4>3, Zenon
          <6>2. PICK a, b \in DOMAIN q : a < b /\ q[a] = rest[k] /\ q[b] = rest[l]
            BY <6>1, <4>3, <2>5, Zenon
          <6> QED BY <6>2, <4>2, Zenon
        <5> QED BY <5>1, Zenon DEF Sound
      <4> QED BY <4>1, <4>3 DEF Sound
    <3>4. \A m \in Range(q) \ Range(rest) : m = q[i]
      BY <2>5, Zenon
    <3>5. \A m \in Range(rest) : m.id = q[i].id => q[i].nr < m.nr
      <4>1. \A k \in 1 .. Len(rest) : rest[k].id = q[i].id => q[i].nr < rest[k].nr
        BY <3>2, <2>10, Zenon
      <4> QED BY <4>1, <3>0, Zenon
    <3>6. Promised(t)
      <4>1. ASSUME NEW m \in Range(q) \ Range(rest)
            PROVE  /\ popped'[t][m.id] = m.nr
                   /\ \A k \in Range(rest) : k.id = m.id => m.nr < k.nr
        <5>1. m = q[i]
          BY <3>4
        <5> QED BY <5>1, <3>5, <2>8
      <4>n. \A m \in Mesg : m.nr \in Nat
        BY DEF Mesg
      <4>2. \A k \in Range(rest) : k.nr \in Nat
        <5>1. \A k \in 1 .. Len(rest) : rest[k].nr \in Nat
          BY <4>n, <2>5
        <5> QED BY <5>1, <3>0, Zenon
      <4>3. \A m \in Range(q) : m.nr \in Nat
        <5>1. \A k \in 1 .. Len(q) : q[k].nr \in Nat
          BY <4>n, <1>t
        <5> QED BY <5>1, <3>0, Zenon
      <4> QED BY <4>1, <4>2, <4>3, <3>1, <2>9, SMTT(30), ZenonT(30) DEF Promised
    <3> QED BY <3>1, <3>3, <3>6, <2>13, <2>8, <1>t, Zenon
  <2> QED BY <2>4, <2>12, <2>13
<1> QED BY <1>1, <1>2

-----------------------------------------------------------------------------
(* What is in a queue is a message. *)
LEMMA MessagesOfQueue ==
  ASSUME NEW q \in Seq(Mesg), NEW k \in 1 .. Len(q)
  PROVE  q[k] \in Mesg /\ q[k].nr \in Nat /\ q[k].id \in Id
<1>1. q[k] \in Mesg
  OBVIOUS
<1> QED BY <1>1 DEF Mesg

(* A queue stays sound while messages go elsewhere, *)
LEMMA LaterIsSound ==
  ASSUME NEW q \in Seq(Mesg), NEW last, NEW n \in Nat, Sound(q, last, n)
  PROVE  Sound(q, last, n + 1)
<1>1. \A k \in 1 .. Len(q) : q[k].nr <= n + 1
  BY MessagesOfQueue DEF Sound
<1> QED BY <1>1 DEF Sound

(* and when the next message comes here. *)
LEMMA AppendIsSound ==
  ASSUME NEW q \in Seq(Mesg), NEW last, NEW n \in Nat, NEW m \in Mesg,
         Sound(q, last, n), m.nr = n + 1, last[m.id] <= m.nr
  PROVE  Sound(Append(q, m), last, n + 1)
<1> DEFINE r == Append(q, m)
<1>1. /\ Len(r) = Len(q) + 1 /\ Len(q) \in Nat /\ r[Len(q) + 1] = m
      /\ \A k \in 1 .. Len(q) : r[k] = q[k]
  OBVIOUS
<1> HIDE DEF r
<1>2. Sound(q, last, n + 1)
  BY LaterIsSound
<1>3. ASSUME NEW k \in 1 .. Len(r)
      PROVE  r[k].nr <= n + 1 /\ last[r[k].id] <= r[k].nr
  <2>1. CASE k \in 1 .. Len(q)
    BY <2>1, <1>1, <1>2 DEF Sound
  <2>2. CASE k = Len(q) + 1
    BY <2>2, <1>1
  <2> QED BY <2>1, <2>2, <1>1
<1>4. ASSUME NEW k \in 1 .. Len(r), NEW l \in 1 .. Len(r), k < l
      PROVE  r[k].nr < r[l].nr
  <2>1. k \in 1 .. Len(q)
    BY <1>4, <1>1
  <2>2. CASE l \in 1 .. Len(q)
    BY <2>1, <2>2, <1>4, <1>1 DEF Sound
  <2>3. CASE l = Len(q) + 1
    <3>1. q[k].nr \in Nat /\ q[k].nr <= n
      BY <2>1, MessagesOfQueue DEF Sound
    <3> QED BY <3>1, <2>1, <2>3, <1>1
  <2> QED BY <2>2, <2>3, <1>1
<1> QED BY <1>3, <1>4 DEF Sound, r

-----------------------------------------------------------------------------
(* The initial state is sound. *)
LEMMA MessageStarts == MessageInit => MessageInv
<1> SUFFICES ASSUME MessageInit PROVE MessageInv
  OBVIOUS
<1> USE MessageAssumption DEF MessageInit
<1>1. MessageTypeOK
  BY DEF MessageTypeOK, Flags, Args, NoArgs
<1>2. \A t \in Tasks : Len(t_mesgq[t]) = 0
  OBVIOUS
<1>3. ASSUME NEW t \in Tasks
      PROVE  Sound(t_mesgq[t], popped[t], nsent)
  <2>1. 1 .. Len(t_mesgq[t]) = {}
    BY <1>2
  <2> QED BY <2>1, Zenon DEF Sound
<1> QED BY <1>1, <1>3
  DEF MessageInv, Queues, Phases, WokenHasMessage, NoSleepOverMessages, At

(* A task whose queue and history stay as they are is not let down. *)
LEMMA UntouchedIsPromised ==
  ASSUME MessageTypeOK, NEW u \in Tasks, t_mesgq'[u] = t_mesgq[u], popped'[u] = popped[u]
  PROVE  Promised(u)
<1>1. \A i \in Id : popped[u][i] \in Nat
  BY MessageAssumption DEF MessageTypeOK
<1> QED BY <1>1 DEF Promised

(* Every step keeps the invariant, and keeps its promise to every task. *)
LEMMA MessageStep ==
  MessageInv /\ [MessageNext]_messageVars => MessageInv' /\ \A t \in Tasks : Promised(t)
<1> SUFFICES ASSUME MessageInv, [MessageNext]_messageVars
             PROVE  MessageInv' /\ \A t \in Tasks : Promised(t)
  OBVIOUS
<1> USE MessageAssumption
<1>t. MessageTypeOK /\ Phases /\ WokenHasMessage /\ NoSleepOverMessages /\ Queues
  BY DEF MessageInv
<1>1. ASSUME NEW t \in Tasks, NEW s \in Tasks, NEW id \in Id, sys_message_send(s, t, id)
      PROVE  MessageInv' /\ \A u \in Tasks : Promised(u)
  <2> USE DEF sys_message_send, Queue, WakeReceiver, task_wakeup
  <2> DEFINE m == [nr |-> nsent + 1, id |-> id]
             q == t_mesgq[t]
  <2>1. /\ m \in Mesg /\ q \in Seq(Mesg)
        /\ t_mesgq \in [Tasks -> Seq(Mesg)] /\ nsent \in Nat
    <3>1. nsent + 1 \in 1 .. MaxMesg
      BY <1>1, <1>t DEF MessageTypeOK
    <3>2. t_mesgq \in [Tasks -> Seq(Mesg)] /\ nsent \in Nat
      BY <1>t DEF MessageTypeOK
    <3> QED BY <3>1, <3>2, Zenon DEF Mesg
  <2>2. /\ t_mesgq' = [t_mesgq EXCEPT ![t] = Append(q, m)]
        /\ nsent' = nsent + 1 /\ nsent' \in 0 .. MaxMesg
        /\ containers' = containers \cup {nsent + 1}
        /\ t_wait' = [t_wait EXCEPT ![t] = t_wait'[t]]
        /\ t_wait'[t] \in {"none", t_wait[t]} /\ t_wait'[t] # "TF_WAITMESG"
        /\ UNCHANGED <<pc, life, wants, popped>>
    BY <1>1, <1>t DEF MessageTypeOK
  <2> HIDE DEF sys_message_send, Queue, WakeReceiver, task_wakeup
  <2>3. /\ Append(q, m) \in Seq(Mesg) /\ Append(q, m) # <<>>
        /\ Len(Append(q, m)) = Len(q) + 1
        /\ Append(q, m)[Len(q) + 1] = m /\ \A k \in 1 .. Len(q) : Append(q, m)[k] = q[k]
    <3>1. q \in Seq(Mesg) /\ m \in Mesg
      BY <2>1
    <3> HIDE DEF m, q
    <3> QED BY <3>1
  <2> HIDE DEF m
  <2>4. MessageTypeOK'
    <3>1. t_mesgq' \in [Tasks -> Seq(Mesg)]
      BY <2>1, <2>2, <2>3
    <3>2. t_wait' \in [Tasks -> Flags]
      BY <2>2, <1>t DEF MessageTypeOK, Flags
    <3>3. containers' \subseteq 1 .. nsent'
      BY <2>1, <2>2, <1>t DEF MessageTypeOK
    <3>4. popped' \in [Tasks -> [Id -> 0 .. nsent']]
      <4>1. \A u \in Tasks, i \in Id : popped[u][i] \in 0 .. nsent'
        BY <2>1, <2>2, <1>t DEF MessageTypeOK
      <4> QED BY <4>1, <2>2, <1>t DEF MessageTypeOK
    <3> QED BY <3>1, <3>2, <3>3, <3>4, <2>2, <1>t DEF MessageTypeOK
  <2>5. Phases' /\ WokenHasMessage' /\ NoSleepOverMessages'
    BY <2>2, <2>3, <2>1, <1>t
      DEF Phases, WokenHasMessage, NoSleepOverMessages, At, MessageTypeOK
  <2>6. Sound(Append(q, m), popped[t], nsent + 1)
    <3>1. Sound(q, popped[t], nsent)
      BY <1>t DEF Queues
    <3>2. m.nr = nsent + 1 /\ popped[t][m.id] <= m.nr
      BY <2>1, <1>t DEF m, MessageTypeOK
    <3> QED BY <3>1, <3>2, <2>1, AppendIsSound
  <2>7. \A u \in Tasks \ {t} : Sound(t_mesgq[u], popped[u], nsent + 1)
    BY <2>1, <1>t, LaterIsSound DEF Queues
  <2>8. Queues'
    BY <2>1, <2>2, <2>6, <2>7 DEF Queues
  <2>9. Promised(t)
    <3>1. \A k \in Range(q) : k \in Range(Append(q, m))
      <4>1. \A k \in 1 .. Len(q) : \E j \in 1 .. Len(q) + 1 : q[k] = Append(q, m)[j]
        BY <2>3, <2>1
      <4>2. /\ \A x : x \in Range(q) <=> \E k \in 1 .. Len(q) : x = q[k]
            /\ \A x : x \in Range(Append(q, m))
                        <=> \E k \in 1 .. Len(q) + 1 : x = Append(q, m)[k]
        <5> HIDE DEF q
        <5>1. /\ \A x : x \in Range(q) <=> \E k \in 1 .. Len(q) : x = q[k]
              /\ \A x : x \in Range(Append(q, m))
                          <=> \E k \in 1 .. Len(Append(q, m)) : x = Append(q, m)[k]
          BY <2>1, <2>3, RangeByPlace, Zenon
        <5> QED BY <5>1, <2>3
      <4> QED BY <4>1, <4>2, Zenon
    <3>2. \A i \in Id : popped[t][i] \in Nat
      BY <1>t DEF MessageTypeOK
    <3> QED BY <3>1, <3>2, <2>1, <2>2 DEF Promised
  <2>10. \A u \in Tasks \ {t} : Promised(u)
    BY <2>1, <2>2, <1>t, UntouchedIsPromised
  <2> QED BY <2>4, <2>5, <2>8, <2>9, <2>10 DEF MessageInv
<1>2. ASSUME NEW t \in Tasks, NEW arg \in Args, PopAtOnce(t, arg)
      PROVE  MessageInv' /\ \A u \in Tasks : Promised(u)
  <2>1. /\ arg \in Args /\ Sound(t_mesgq[t], popped[t], nsent)
        /\ Take(t, arg) /\ t_wait[t] = "none" /\ pc[t] = "user"
        /\ UNCHANGED <<t_wait, pc, life, wants, nsent>>
    BY <1>2, <1>t DEF PopAtOnce, At, Queues, MessageTypeOK
  <2>2. /\ t_mesgq' \in [Tasks -> Seq(Mesg)]
        /\ containers' \subseteq 1 .. nsent
        /\ popped' \in [Tasks -> [Id -> 0 .. nsent]]
        /\ \A u \in Tasks \ {t} : t_mesgq'[u] = t_mesgq[u] /\ popped'[u] = popped[u]
        /\ Sound(t_mesgq'[t], popped'[t], nsent)
        /\ Promised(t)
    BY <2>1, <1>t, TakeIsSound
  <2>3. MessageTypeOK'
    BY <2>1, <2>2, <1>t DEF MessageTypeOK
  <2>4. Phases' /\ WokenHasMessage' /\ NoSleepOverMessages'
    BY <2>1, <2>2, <1>t, Zenon DEF Phases, WokenHasMessage, NoSleepOverMessages, At, MessageTypeOK
  <2>5. Queues'
    BY <2>1, <2>2, <1>t, Zenon DEF Queues
  <2>6. \A u \in Tasks \ {t} : Promised(u)
    BY <2>2, <1>t, UntouchedIsPromised
  <2> QED BY <2>2, <2>3, <2>4, <2>5, <2>6 DEF MessageInv
<1>3. ASSUME NEW t \in Tasks, NEW arg \in Args, PopSleeps(t, arg)
      PROVE  MessageInv' /\ \A u \in Tasks : Promised(u)
  <2>1. /\ t_wait[t] = "none" /\ pc[t] = "user" /\ t_mesgq[t] = <<>>
        /\ t_wait' = [t_wait EXCEPT ![t] = "TF_WAITMESG"]
        /\ pc' = [pc EXCEPT ![t] = "pop"]
        /\ wants' = [wants EXCEPT ![t] = arg]
        /\ UNCHANGED <<t_mesgq, life, nsent, containers, popped>>
    BY <1>3 DEF PopSleeps, At, task_wait
  <2>2. MessageTypeOK'
    BY <2>1, <1>t DEF MessageTypeOK, Flags
  <2>3. Phases' /\ WokenHasMessage' /\ NoSleepOverMessages'
    BY <2>1, <1>t DEF Phases, WokenHasMessage, NoSleepOverMessages, At, MessageTypeOK
  <2>4. Queues'
    BY <2>1, <1>t DEF Queues
  <2>5. \A u \in Tasks : Promised(u)
    BY <2>1, <1>t, UntouchedIsPromised
  <2> QED BY <2>2, <2>3, <2>4, <2>5 DEF MessageInv
<1>4. ASSUME NEW t \in Tasks, PopWakes(t)
      PROVE  MessageInv' /\ \A u \in Tasks : Promised(u)
  <2>1. /\ wants[t] \in Args /\ Sound(t_mesgq[t], popped[t], nsent)
        /\ Take(t, wants[t]) /\ t_wait[t] = "none" /\ pc[t] = "pop"
        /\ pc' = [pc EXCEPT ![t] = "user"] /\ wants' = [wants EXCEPT ![t] = NoArgs]
        /\ UNCHANGED <<t_wait, life, nsent>>
    BY <1>4, <1>t DEF PopWakes, At, Queues, MessageTypeOK
  <2>2. /\ t_mesgq' \in [Tasks -> Seq(Mesg)]
        /\ containers' \subseteq 1 .. nsent
        /\ popped' \in [Tasks -> [Id -> 0 .. nsent]]
        /\ \A u \in Tasks \ {t} : t_mesgq'[u] = t_mesgq[u] /\ popped'[u] = popped[u]
        /\ Sound(t_mesgq'[t], popped'[t], nsent)
        /\ Promised(t)
    BY <2>1, <1>t, TakeIsSound
  <2>3. MessageTypeOK'
    BY <2>1, <2>2, <1>t DEF MessageTypeOK, Args, NoArgs
  <2>4. Phases' /\ WokenHasMessage' /\ NoSleepOverMessages'
    BY <2>1, <2>2, <1>t, Zenon DEF Phases, WokenHasMessage, NoSleepOverMessages, At, MessageTypeOK
  <2>5. Queues'
    BY <2>1, <2>2, <1>t, Zenon DEF Queues
  <2>6. \A u \in Tasks \ {t} : Promised(u)
    BY <2>2, <1>t, UntouchedIsPromised
  <2> QED BY <2>2, <2>3, <2>4, <2>5, <2>6 DEF MessageInv
<1>5. ASSUME NEW t \in Tasks, task_free(t)
      PROVE  MessageInv' /\ \A u \in Tasks : Promised(u)
  <2>1. /\ t_wait[t] = "none" /\ pc[t] = "user"
        /\ life' = [life EXCEPT ![t] = "zombie"] /\ pc' = [pc EXCEPT ![t] = "dead"]
        /\ containers' \subseteq containers
        /\ t_mesgq' = [t_mesgq EXCEPT ![t] = <<>>]
        /\ UNCHANGED <<t_wait, wants, nsent, popped>>
    BY <1>5 DEF task_free, At
  <2>2. MessageTypeOK'
    BY <2>1, <1>t DEF MessageTypeOK
  <2>3. Phases' /\ WokenHasMessage' /\ NoSleepOverMessages'
    BY <2>1, <1>t
      DEF Phases, WokenHasMessage, NoSleepOverMessages, At, MessageTypeOK
  <2>4. /\ t_mesgq \in [Tasks -> Seq(Mesg)] /\ Len(<<>>) = 0
        /\ life \in [Tasks -> {"live", "zombie", "freed"}]
    BY <1>t DEF MessageTypeOK
  <2>5. Queues'
    BY <2>1, <2>4, <1>t DEF Queues, Sound
  <2>6. \A u \in Tasks \ {t} : Promised(u)
    BY <2>1, <2>4, <1>t, UntouchedIsPromised
  <2>7. Promised(t)
    <3>1. \A i \in Id : popped[t][i] \in Nat
      BY <1>t DEF MessageTypeOK
    <3>2. life'[t] # "live"
      BY <2>1, <2>4
    <3> QED BY <2>1, <3>1, <3>2 DEF Promised
  <2> QED BY <2>2, <2>3, <2>5, <2>6, <2>7 DEF MessageInv
<1>6. ASSUME NEW t \in Tasks, FreeStruct(t)
      PROVE  MessageInv' /\ \A u \in Tasks : Promised(u)
  <2>1. /\ life[t] = "zombie" /\ life' = [life EXCEPT ![t] = "freed"]
        /\ t_mesgq' = [t_mesgq EXCEPT ![t] = <<>>]
        /\ UNCHANGED <<t_wait, pc, wants, nsent, containers, popped>>
    BY <1>6 DEF FreeStruct
  <2>2. MessageTypeOK'
    BY <2>1, <1>t DEF MessageTypeOK
  <2>3. Phases' /\ WokenHasMessage' /\ NoSleepOverMessages'
    BY <2>1, <1>t, Zenon
      DEF Phases, WokenHasMessage, NoSleepOverMessages, At, MessageTypeOK
  <2>4. /\ t_mesgq \in [Tasks -> Seq(Mesg)] /\ Len(<<>>) = 0
        /\ life \in [Tasks -> {"live", "zombie", "freed"}]
    BY <1>t DEF MessageTypeOK
  <2>5. Queues'
    BY <2>1, <2>4, <1>t DEF Queues, Sound
  <2>6. \A u \in Tasks \ {t} : Promised(u)
    BY <2>1, <2>4, <1>t, UntouchedIsPromised
  <2>7. Promised(t)
    <3>1. \A i \in Id : popped[t][i] \in Nat
      BY <1>t DEF MessageTypeOK
    <3>2. life'[t] # "live"
      BY <2>1, <2>4
    <3> QED BY <2>1, <3>1, <3>2 DEF Promised
  <2> QED BY <2>2, <2>3, <2>5, <2>6, <2>7 DEF MessageInv
<1>7. CASE UNCHANGED messageVars
  <2>1. UNCHANGED <<t_wait, pc, t_mesgq, life, wants, nsent, containers, popped>>
    BY <1>7 DEF messageVars, mesgVars
  <2>2. MessageInv'
    BY <2>1, <1>t
      DEF MessageInv, MessageTypeOK, Phases, WokenHasMessage, NoSleepOverMessages, At,
          Queues
  <2>3. \A u \in Tasks : Promised(u)
    BY <2>1, <1>t, UntouchedIsPromised
  <2> QED BY <2>2, <2>3
<1> QED BY <1>1, <1>2, <1>3, <1>4, <1>5, <1>6, <1>7 DEF MessageNext

(* A task awake inside sys_message_pop finds a message. *)
THEOREM WokenHasMessageAlways == MessageSpec => []WokenHasMessage
<1>1. MessageInv /\ [MessageNext]_messageVars => MessageInv'
  BY MessageStep
<1>2. MessageInv => WokenHasMessage
  BY DEF MessageInv
<1> QED BY MessageStarts, <1>1, <1>2, PTL DEF MessageSpec

(* The queues, the flags and the bounds of module Message keep their types. *)
THEOREM MessageTypeCorrect == MessageSpec => []MessageTypeOK
<1>1. MessageInv /\ [MessageNext]_messageVars => MessageInv'
  BY MessageStep
<1>2. MessageInv => MessageTypeOK
  BY DEF MessageInv
<1> QED BY MessageStarts, <1>1, <1>2, PTL DEF MessageSpec

(* Nobody sleeps in sys_message_pop over messages. *)
THEOREM NoSleepOverMessagesAlways == MessageSpec => []NoSleepOverMessages
<1>1. MessageInv /\ [MessageNext]_messageVars => MessageInv'
  BY MessageStep
<1>2. MessageInv => NoSleepOverMessages
  BY DEF MessageInv
<1> QED BY MessageStarts, <1>1, <1>2, PTL DEF MessageSpec

(* Messages with one id are popped in the order of sending. *)
THEOREM PopsInOrderAlways == MessageSpec => PopsInOrder
<1>1. MessageInv /\ [MessageNext]_messageVars => MessageInv'
  BY MessageStep
<1>2. MessageInv /\ [MessageNext]_messageVars
        => [\A t \in Tasks, i \in Id : popped'[t][i] >= popped[t][i]]_popped
  BY MessageStep DEF Promised
<1> QED BY MessageStarts, <1>1, <1>2, PTL DEF MessageSpec, PopsInOrder

(* No message leaves the queue of a living task unpopped, and none is       *)
(* popped before an older one with its id.                                  *)
THEOREM NothingSkippedAlways == MessageSpec => NothingSkipped
<1>1. MessageInv /\ [MessageNext]_messageVars => MessageInv'
  BY MessageStep
<1>2. MessageInv /\ [MessageNext]_messageVars
        => [\A t \in Tasks : life'[t] = "live" =>
              \A m \in Range(t_mesgq[t]) \ Range(t_mesgq'[t]) :
                /\ popped'[t][m.id] = m.nr
                /\ \A k \in Range(t_mesgq'[t]) : k.id = m.id => k.nr > m.nr]_t_mesgq
  BY MessageStep DEF Promised
<1> QED BY MessageStarts, <1>1, <1>2, PTL DEF MessageSpec, NothingSkipped

-----------------------------------------------------------------------------
(* Pipes. *)

(* A reader that takes all there is in the ring catches up with write. *)
LEMMA CatchesUp ==
  ASSUME NEW l \in Nat \ {0}, NEW r \in 0 .. l - 1, NEW w \in 0 .. l - 1
  PROVE  (r + ((w - r) % l)) % l = w
<1>1. CASE r <= w
  <2>1. (w - r) % l = w - r
    BY <1>1
  <2> QED BY <2>1
<1>2. CASE w < r
  <2>1. (w - r) % l = w - r + l
    BY <1>2
  <2>2. (w + l) % l = w
    OBVIOUS
  <2> QED BY <2>1, <2>2
<1> QED BY <1>1, <1>2

-----------------------------------------------------------------------------
(* The types the argument needs. *)
Types ==
  /\ t_wait \in [Tasks -> Flags]
  /\ pc \in [Tasks -> {"user", "read", "write", "wake"}]
  /\ file \in [Tasks -> CanRead \cup CanWrite \cup {"closed", "dangling"}]
  /\ left \in [Tasks -> Nat]
  /\ read \in Index /\ write \in 0 .. Length
  /\ reader \in Tasks \cup {NULL}

(* The one task inside pipe_read whose pipe is still there holds the lock   *)
(* and is recorded as the reader, asleep or awake.                          *)
OneReads ==
  \A t \in Tasks : pc[t] = "read" =>
    \/ file[t] = "dangling"
    \/ file[t] \in CanRead /\ reader = t /\ rdlock = t

(* Only the kernel's own tasks can be met in the middle of pipe_write. *)
OnlyWorkers == \A t \in Tasks : pc[t] \in {"write", "wake"} => t \in Workers

(* The inductive invariant. *)
PipeInv == Types /\ OneReads /\ OnlyWorkers /\ NoSleepOverData

(* No pipe, nobody reading. *)
LEMMA PipeStarts == PipeInit => PipeInv
BY PipeAssumption DEF PipeInit, PipeInv, Types, OneReads, OnlyWorkers,
   NoSleepOverData, Asleep, Flags, Index

(* Whoever is asleep in pipe_read when WakeReader runs is woken. *)
LEMMA WakeReaderWakes ==
  ASSUME Types, OneReads, WakeReader
  PROVE  /\ t_wait' \in [Tasks -> Flags]
         /\ \A t \in Tasks : Asleep(t) => t_wait'[t] = "none"
         /\ \A t \in Tasks : t_wait'[t] \in {"none", t_wait[t]}
BY PipeAssumption DEF Types, OneReads, WakeReader, task_wakeup, Asleep, Flags

(* A reader that goes back to sleep leaves an empty ring. *)
LEMMA ReadLoopIsSound ==
  ASSUME PipeInv, NEW t \in Tasks, NEW n \in Nat, ReadLoop(t, n),
         t_wait[t] = "none", file[t] \in CanRead, rdlock \in {NULL, t}
  PROVE  PipeInv'
<1> USE PipeAssumption
<1> DEFINE k == Available(n)
<1>t. Types /\ OneReads /\ OnlyWorkers /\ NoSleepOverData
  BY DEF PipeInv
<1>1. read' = (read + k) % Length /\ UNCHANGED <<write, file>>
  BY DEF ReadLoop, Advanced
<1>2. k \in Nat /\ (k < n => write # Length /\ k = (write - read) % Length)
  BY <1>t DEF Available, Types, Index, Min
<1>3. k < n => read' = write
  <2> SUFFICES ASSUME k < n PROVE read' = write
    OBVIOUS
  <2> HIDE DEF k
  <2>1. write \in 0 .. Length - 1 /\ read \in 0 .. Length - 1
    BY <1>2, <1>t DEF Types, Index
  <2> QED BY <2>1, <1>1, <1>2, CatchesUp
<1>4. read' \in Index
  <2> HIDE DEF k
  <2> QED BY <1>1, <1>2, <1>t DEF Types, Index
<1>5. CASE k < n /\ nwriters > 0
  <2>1. /\ t_wait' = [t_wait EXCEPT ![t] = "TF_WAITIO"]
        /\ pc' = [pc EXCEPT ![t] = "read"]
        /\ left' = [left EXCEPT ![t] = n - k]
        /\ rdlock' = t /\ reader' = t
    BY <1>5 DEF ReadLoop, task_wait
  <2> HIDE DEF k
  <2>2. Types'
    BY <2>1, <1>1, <1>2, <1>4, <1>5, <1>t DEF Types, Flags, Index
  <2>3. OneReads' /\ OnlyWorkers'
    BY <2>1, <1>1, <1>t DEF OneReads, OnlyWorkers, Types
  <2>4. NoSleepOverData'
    BY <1>1, <1>3, <1>5 DEF NoSleepOverData
  <2> QED BY <2>2, <2>3, <2>4 DEF PipeInv
<1>6. CASE ~ (k < n /\ nwriters > 0)
  <2>1. /\ UNCHANGED t_wait /\ pc' = [pc EXCEPT ![t] = "user"]
        /\ left' = [left EXCEPT ![t] = 0]
        /\ rdlock' = NULL /\ reader' \in {NULL, t}
    BY <1>6 DEF ReadLoop
  <2>2. Types'
    BY <2>1, <1>1, <1>4, <1>t DEF Types, Index
  <2>3. OneReads' /\ OnlyWorkers'
    BY <2>1, <1>1, <1>t DEF OneReads, OnlyWorkers, Types
  <2>4. \A u \in Tasks : ~ Asleep(u)'
    BY <2>1, <1>1, <1>t DEF OneReads, Types, Asleep
  <2> QED BY <2>2, <2>3, <2>4 DEF PipeInv, NoSleepOverData
<1> QED BY <1>5, <1>6

(* Every step keeps the invariant. *)
LEMMA PipeStep == PipeInv /\ [PipeNext]_pipingVars => PipeInv'
<1> SUFFICES ASSUME PipeInv, [PipeNext]_pipingVars
             PROVE  PipeInv'
  OBVIOUS
<1> USE PipeAssumption
<1>t. Types /\ OneReads /\ OnlyWorkers /\ NoSleepOverData
  BY DEF PipeInv
<1>1. ASSUME NEW t \in Tasks, NEW mode \in CanRead \cup CanWrite, pipe_open(t, mode)
      PROVE  PipeInv'
  BY <1>1, <1>t DEF pipe_open, Ready, At, PipeInv, Types, OneReads, OnlyWorkers,
     NoSleepOverData, Asleep
<1>2. ASSUME NEW t \in Tasks, pipe_close(t)
      PROVE  PipeInv'
  <2>0. pc[t] = "user" /\ UNCHANGED <<t_wait, pc, left>>
    BY <1>2 DEF pipe_close, Ready, At
  <2>1. CASE /\ file' = [u \in Tasks |-> IF [file EXCEPT ![t] = "closed"][u] = "closed"
                                         THEN "closed" ELSE "dangling"]
             /\ read' = 0 /\ write' = 0 /\ reader' = NULL
    <3>1. \A u \in Tasks : pc[u] = "read" => file'[u] = "dangling"
      BY <2>0, <2>1, <1>t DEF OneReads, Types, CanRead
    <3>2. Types'
      BY <2>0, <2>1, <1>t DEF Types, Index
    <3> QED BY <3>1, <3>2, <2>0, <2>1, <1>t
      DEF PipeInv, OneReads, OnlyWorkers, NoSleepOverData
  <2>2. CASE /\ file' = [file EXCEPT ![t] = "closed"]
             /\ UNCHANGED <<read, write, reader, rdlock>>
    BY <2>0, <2>2, <1>t
      DEF PipeInv, Types, OneReads, OnlyWorkers, NoSleepOverData, Asleep
  <2> QED BY <1>2, <2>1, <2>2 DEF pipe_close
<1>3. ASSUME NEW t \in Tasks, UseFreed(t)
      PROVE  PipeInv'
  BY <1>3, <1>t
    DEF UseFreed, PipeInv, Types, OneReads, OnlyWorkers, NoSleepOverData, Asleep
<1>4. ASSUME NEW t \in Tasks, NEW n \in Counts, pipe_read(t, n)
      PROVE  PipeInv'
  <2>1. CASE Spin
    BY <2>1, <1>t
      DEF Spin, PipeInv, Types, OneReads, OnlyWorkers, NoSleepOverData, Asleep
  <2>2. CASE rdlock = NULL /\ ReadLoop(t, n)
    <3>1. n \in Nat /\ t_wait[t] = "none" /\ file[t] \in CanRead
      BY <1>4 DEF pipe_read, Ready, At
    <3> QED BY <3>1, <2>2, ReadLoopIsSound
  <2> QED BY <1>4, <2>1, <2>2 DEF pipe_read
<1>5. ASSUME NEW t \in Tasks, ReadWakes(t)
      PROVE  PipeInv'
  <2>1. /\ left[t] \in Nat /\ t_wait[t] = "none" /\ file[t] \in CanRead /\ rdlock = t
        /\ ReadLoop(t, left[t])
    BY <1>5, <1>t DEF ReadWakes, Ready, At, OneReads, Types
  <2> QED BY <2>1, ReadLoopIsSound
<1>6. ASSUME NEW t \in Tasks, NEW n \in Counts, pipe_write(t, n)
      PROVE  PipeInv'
  <2>1. CASE Spin
    BY <2>1, <1>t
      DEF Spin, PipeInv, Types, OneReads, OnlyWorkers, NoSleepOverData, Asleep
  <2>2. CASE wrlock = NULL
    <3>1. /\ WakeReader /\ write' = (write + n) % Length
          /\ UNCHANGED <<pc, read, reader, rdlock, file, left>>
      BY <1>6, <2>2 DEF pipe_write
    <3>2. write' \in 0 .. Length
      BY <3>1, <1>t DEF Types
    <3>3. Types' /\ OneReads' /\ OnlyWorkers'
      BY <3>1, <3>2, <1>t, WakeReaderWakes DEF Types, OneReads, OnlyWorkers
    <3>4. \A u \in Tasks : ~ Asleep(u)'
      BY <3>1, <1>t, WakeReaderWakes DEF Asleep, Types
    <3> QED BY <3>3, <3>4 DEF PipeInv, NoSleepOverData
  <2> QED BY <1>6, <2>1, <2>2 DEF pipe_write
<1>7. ASSUME NEW t \in Tasks, NEW n \in Counts, WriteLocks(t, n)
      PROVE  PipeInv'
  <2>1. /\ t \in Workers /\ pc[t] = "user" /\ pc' = [pc EXCEPT ![t] = "write"]
        /\ left' = [left EXCEPT ![t] = n]
        /\ UNCHANGED <<t_wait, file, read, write, reader, rdlock>>
    BY <1>7, Zenon DEF WriteLocks, Ready, At
  <2>2. n \in Nat
    OBVIOUS
  <2> QED BY <2>1, <2>2, <1>t
    DEF PipeInv, Types, OneReads, OnlyWorkers, NoSleepOverData, Asleep
<1>8. ASSUME NEW t \in Tasks, WriteStores(t)
      PROVE  PipeInv'
  <2>1. /\ pc[t] = "write" /\ write' \in 0 .. Length
        /\ left' = [left EXCEPT ![t] = left[t] - 1] /\ left[t] > 0
        /\ UNCHANGED <<t_wait, pc, read, reader, rdlock, file>>
    BY <1>8, <1>t DEF WriteStores, Ready, At, Types
  <2> QED BY <2>1, <1>t
    DEF PipeInv, Types, OneReads, OnlyWorkers, NoSleepOverData, Asleep
<1>9. ASSUME NEW t \in Tasks, WriteWraps(t)
      PROVE  PipeInv'
  BY <1>9, <1>t DEF WriteWraps, Ready, At, PipeInv, Types, OneReads, OnlyWorkers,
     NoSleepOverData, Asleep
<1>10. ASSUME NEW t \in Tasks, WriteUnlocks(t)
      PROVE  PipeInv'
  BY <1>10, <1>t DEF WriteUnlocks, Ready, At, PipeInv, Types, OneReads, OnlyWorkers,
     NoSleepOverData, Asleep
<1>11. ASSUME NEW t \in Tasks, WriteWakes(t)
      PROVE  PipeInv'
  <2>1. /\ WakeReader /\ pc[t] = "wake" /\ pc' = [pc EXCEPT ![t] = "user"]
        /\ UNCHANGED <<read, write, reader, rdlock, file, left>>
    BY <1>11 DEF WriteWakes, Ready, At, pipeVars
  <2>2. Types' /\ OneReads' /\ OnlyWorkers'
    BY <2>1, <1>t, WakeReaderWakes DEF Types, OneReads, OnlyWorkers
  <2>3. \A u \in Tasks : ~ Asleep(u)'
    BY <2>1, <1>t, WakeReaderWakes DEF Asleep, Types
  <2> QED BY <2>2, <2>3 DEF PipeInv, NoSleepOverData
<1>12. CASE UNCHANGED pipingVars
  BY <1>12, <1>t
    DEF pipingVars, pipeVars, PipeInv, Types, OneReads, OnlyWorkers, NoSleepOverData, Asleep
<1> QED BY <1>1, <1>2, <1>3, <1>4, <1>5, <1>6, <1>7, <1>8, <1>9, <1>10, <1>11, <1>12
        DEF PipeNext, WorkerStep

(* The task asleep in pipe_read is the recorded reader and holds the lock. *)
THEOREM SleeperIsReaderAlways == PipeSpec => []SleeperIsReader
<1>1. PipeInv => SleeperIsReader
  BY DEF PipeInv, OneReads, SleeperIsReader, Asleep
<1> QED BY PipeStarts, PipeStep, <1>1, PTL DEF PipeSpec

(* Whoever sleeps in pipe_read over bytes is about to be woken. *)
THEOREM NoSleepOverDataAlways == PipeSpec => []NoSleepOverData
<1>1. PipeInv => NoSleepOverData
  BY DEF PipeInv
<1> QED BY PipeStarts, PipeStep, <1>1, PTL DEF PipeSpec

-----------------------------------------------------------------------------
(* What a pipe carries.  The arithmetic of the ring comes first: r is where *)
(* the reader is, w where the writer is, l the length.                      *)
(* Taking k bytes leaves k fewer, the rest where they were. *)
LEMMA ReadAdvances ==
  ASSUME NEW l \in Nat \ {0}, NEW r \in 0 .. l - 1, NEW w \in 0 .. l - 1,
         NEW k \in 0 .. (w - r) % l
  PROVE  /\ (w - ((r + k) % l)) % l = ((w - r) % l) - k
         /\ \A j \in 1 .. ((w - r) % l) - k :
              (((r + k) % l) + j - 1) % l = (r + (k + j) - 1) % l
<1> DEFINE u == (w - r) % l
           s == (r + k) % l
<1>1. u = IF w - r < 0 THEN w - r + l ELSE w - r
  OBVIOUS
<1>2. u \in 0 .. l - 1 /\ k \in 0 .. u
  BY <1>1
<1> HIDE DEF u
<1>3. s = IF r + k < l THEN r + k ELSE r + k - l
  BY <1>2
<1>4. s \in 0 .. l - 1
  BY <1>3, <1>2
<1> HIDE DEF s
<1>5. (w - s) % l = IF w - s < 0 THEN w - s + l ELSE w - s
  BY <1>4
<1>6. (w - s) % l = u - k
  BY <1>5, <1>3, <1>1, <1>2
<1>7. ASSUME NEW j \in 1 .. u - k
      PROVE  (s + j - 1) % l = (r + (k + j) - 1) % l
  <2>1. (s + j - 1) % l = IF s + j - 1 < l THEN s + j - 1 ELSE s + j - 1 - l
    BY <1>4, <1>2
  <2>2. (r + (k + j) - 1) % l
          = IF r + (k + j) - 1 < l THEN r + (k + j) - 1 ELSE r + (k + j) - 1 - l
    BY <1>2
  <2> QED BY <2>1, <2>2, <1>3, <1>4, <1>2
<1> QED BY <1>6, <1>7 DEF u, s

(* What a write of n bytes does to the ring that holds u. *)
LEMMA WriteAdvances ==
  ASSUME NEW l \in Nat \ {0}, NEW r \in 0 .. l - 1, NEW w \in 0 .. l - 1,
         NEW n \in Nat, ((w - r) % l) + n < l
  PROVE  /\ (((w + n) % l) - r) % l = ((w - r) % l) + n
         /\ \A k \in 1 .. ((w - r) % l) + n :
              /\ (r + k - 1) % l \in 0 .. l - 1
              /\ k <= (w - r) % l => (((r + k - 1) % l) - w) % l >= n
              /\ (w - r) % l < k => (((r + k - 1) % l) - w) % l = k - 1 - ((w - r) % l)
<1> DEFINE u == (w - r) % l
           v == (w + n) % l
<1>1. u = IF w - r < 0 THEN w - r + l ELSE w - r
  OBVIOUS
<1>2. u \in 0 .. l - 1 /\ u + n < l
  BY <1>1
<1> HIDE DEF u
<1>3. v = IF w + n < l THEN w + n ELSE w + n - l
  BY <1>2
<1>4. v \in 0 .. l - 1
  BY <1>3, <1>2
<1> HIDE DEF v
<1>5. (v - r) % l = IF v - r < 0 THEN v - r + l ELSE v - r
  BY <1>4
<1>6. (v - r) % l = u + n
  BY <1>5, <1>3, <1>1, <1>2
<1>7. ASSUME NEW k \in 1 .. u + n
      PROVE  /\ (r + k - 1) % l \in 0 .. l - 1
             /\ k <= u => (((r + k - 1) % l) - w) % l >= n
             /\ u < k => (((r + k - 1) % l) - w) % l = k - 1 - u
  <2> DEFINE i == (r + k - 1) % l
  <2>1. i = IF r + k - 1 < l THEN r + k - 1 ELSE r + k - 1 - l
    BY <1>2
  <2>2. i \in 0 .. l - 1
    BY <2>1, <1>2
  <2> HIDE DEF i
  <2>3. (i - w) % l = IF i - w < 0 THEN i - w + l ELSE i - w
    BY <2>2
  <2>4. k <= u => (i - w) % l >= n
    BY <2>1, <2>2, <2>3, <1>1, <1>2
  <2>5. u < k => (i - w) % l = k - 1 - u
    BY <2>1, <2>2, <2>3, <1>1, <1>2
  <2> QED BY <2>2, <2>4, <2>5 DEF i
<1> QED BY <1>6, <1>7 DEF u, v

-----------------------------------------------------------------------------
(* nwriters counts the files that can write, so that the pipe is not freed  *)
(* under a writer.                                                          *)
Counted == nwriters = Cardinality({t \in Tasks : CountsAsWriter(file[t])})

(* A task in the middle of a write holds the lock, and write is past the    *)
(* end of the ring only then.                                               *)
Writing ==
  /\ \A t \in Tasks : pc[t] = "write" => wrlock = t /\ file[t] \in CanWrite
  /\ write = Length => wrlock # NULL

Numbers == written \in Nat /\ taken \in Nat /\ garbled \in BOOLEAN

RInv == PipeInv /\ Counted /\ Writing /\ Numbers /\ RingHoldsUnread

(* Bytes stored behind the unread ones are read after them. *)
LEMMA StoreKeepsRing ==
  ASSUME Numbers, RingHoldsUnread, ~ garbled, read \in Index, write \in Index,
         NEW n \in Nat, Unread + n < Length, buffer' = Stored(n),
         written' = written + n, UNCHANGED <<read, taken>>,
         write' \in {write + n, (write + n) % Length}, write' \in 0 .. Length
  PROVE  RingHoldsUnread'
<1> USE PipeAssumption
<1>0. /\ Length \in Nat \ {0} /\ read \in 0 .. Length - 1 /\ write \in 0 .. Length - 1
      /\ written \in Nat /\ taken \in Nat /\ ((write - read) % Length) + n < Length
  BY DEF Index, Numbers, Unread
<1>1. /\ (((write + n) % Length) - read) % Length = ((write - read) % Length) + n
      /\ \A k \in 1 .. ((write - read) % Length) + n :
           /\ (read + k - 1) % Length \in 0 .. Length - 1
           /\ k <= (write - read) % Length
                => (((read + k - 1) % Length) - write) % Length >= n
           /\ (write - read) % Length < k
                => (((read + k - 1) % Length) - write) % Length
                     = k - 1 - ((write - read) % Length)
  BY <1>0, WriteAdvances, ZenonT(40)
<1>2. /\ written - taken = Unread
      /\ \A k \in 1 .. written - taken : buffer[(read + k - 1) % Length] = taken + k
  BY DEF RingHoldsUnread
<1>3. Unread' = Unread + n
  <2>1. CASE write' = (write + n) % Length
    BY <2>1, <1>1 DEF Unread
  <2>2. CASE write' = write + n
    <3>1. write + n = Length \/ (write + n) % Length = write + n
      BY <2>2, <1>0
    <3>2. CASE write + n = Length
      <4>1. (write + n) % Length = 0 /\ (Length - read) % Length = (0 - read) % Length
        BY <3>2, <1>0
      <4> QED BY <4>1, <3>2, <2>2, <1>1 DEF Unread
    <3> QED BY <3>1, <3>2, <2>2, <1>1 DEF Unread
  <2> QED BY <2>1, <2>2
<1>4. ASSUME NEW k \in 1 .. (written - taken) + n
      PROVE  buffer'[(read + k - 1) % Length] = taken + k
  <2> DEFINE i == (read + k - 1) % Length
             u == (write - read) % Length
  <2>1. /\ i \in Index /\ u = written - taken
        /\ k <= u => (i - write) % Length >= n
        /\ u < k => (i - write) % Length = k - 1 - u
    BY <1>1, <1>2, <1>0, Zenon DEF Index, Unread
  <2> HIDE DEF i, u
  <2>2. buffer'[i] = IF (i - write) % Length < n
                     THEN written + 1 + ((i - write) % Length) ELSE buffer[i]
    BY <2>1 DEF Stored
  <2>3. (i - write) % Length \in Nat
    BY <2>1, <1>0 DEF Index
  <2>4. CASE k <= u
    <3>1. k \in 1 .. written - taken
      BY <2>4, <2>1, <1>0
    <3>2. buffer[i] = taken + k
      BY <3>1, <1>2 DEF i
    <3> QED BY <3>2, <2>1, <2>2, <2>3, <2>4 DEF i
  <2>5. CASE u < k
    <3>1. buffer'[i] = written + 1 + (k - 1 - u)
      BY <2>1, <2>2, <2>5, <1>0
    <3>2. written + 1 + (k - 1 - u) = taken + k
      BY <2>1, <1>0
    <3> QED BY <3>1, <3>2 DEF i
  <2> QED BY <2>1, <2>4, <2>5, <1>0
<1>5. written' - taken' = (written - taken) + n
  BY <1>0
<1> QED BY <1>2, <1>3, <1>4, <1>5 DEF RingHoldsUnread

(* A reader takes the oldest bytes and leaves the others. *)
LEMMA TakeKeepsRing ==
  ASSUME Numbers, RingHoldsUnread, ~ garbled, read \in Index, write \in Index,
         NEW k \in 0 .. Unread, read' = (read + k) % Length, taken' = taken + k,
         UNCHANGED <<write, written, buffer>>
  PROVE  RingHoldsUnread'
<1> USE PipeAssumption
<1>0. /\ Length \in Nat \ {0} /\ read \in 0 .. Length - 1 /\ write \in 0 .. Length - 1
      /\ written \in Nat /\ taken \in Nat /\ k \in 0 .. (write - read) % Length
  BY DEF Index, Numbers, Unread
<1>1. /\ (write - ((read + k) % Length)) % Length = ((write - read) % Length) - k
      /\ \A j \in 1 .. ((write - read) % Length) - k :
           (((read + k) % Length) + j - 1) % Length = (read + (k + j) - 1) % Length
  BY <1>0, ReadAdvances, ZenonT(40)
<1>2. /\ written - taken = Unread
      /\ \A j \in 1 .. written - taken : buffer[(read + j - 1) % Length] = taken + j
  BY DEF RingHoldsUnread
<1>3. Unread' = Unread - k
  BY <1>1 DEF Unread
<1>4. ASSUME NEW j \in 1 .. (written - taken) - k
      PROVE  buffer[(read' + j - 1) % Length] = (taken + k) + j
  <2>1. (read' + j - 1) % Length = (read + (k + j) - 1) % Length
    BY <1>1, <1>2 DEF Unread
  <2>2. k + j \in 1 .. written - taken
    BY <1>0
  <2>3. buffer[(read + (k + j) - 1) % Length] = taken + (k + j)
    BY <2>2, <1>2
  <2> QED BY <2>1, <2>3, <1>0
<1>5. written' - taken' = (written - taken) - k /\ Unread - k = (written - taken) - k
  BY <1>0, <1>2
<1> QED BY <1>3, <1>4, <1>5 DEF RingHoldsUnread

(* Opening and closing keep the count of writers. *)
LEMMA OneMoreOrLess ==
  ASSUME NEW t \in Tasks, Counted, Types, nwriters \in Nat,
         NEW new \in CanRead \cup CanWrite \cup {"closed"},
         file[t] # "dangling", file' = [file EXCEPT ![t] = new],
         nwriters' = (nwriters - (IF CountsAsWriter(file[t]) THEN 1 ELSE 0))
                       + (IF CountsAsWriter(new) THEN 1 ELSE 0)
  PROVE  Counted'
<1> USE PipeAssumption
<1> DEFINE W == {u \in Tasks : CountsAsWriter(file[u])}
           V == {u \in Tasks : CountsAsWriter(file'[u])}
<1>1. IsFiniteSet(W) /\ nwriters = Cardinality(W)
  BY FS_Subset DEF Counted
<1>2. \A u \in Tasks : file'[u] = IF u = t THEN new ELSE file[u]
  BY DEF Types
<1>3. V = IF CountsAsWriter(new) THEN (W \ {t}) \cup {t} ELSE W \ {t}
  BY <1>2
<1>4. t \in W <=> CountsAsWriter(file[t])
  OBVIOUS
<1> HIDE DEF W, V
<1>5. /\ IsFiniteSet(W \ {t})
      /\ Cardinality(W \ {t}) = IF t \in W THEN Cardinality(W) - 1 ELSE Cardinality(W)
  BY <1>1, FS_RemoveElement, SMTT(30), ZenonT(30)
<1>6. Cardinality((W \ {t}) \cup {t}) = Cardinality(W \ {t}) + 1
  BY <1>5, FS_AddElement, Zenon
<1>7. nwriters' = Cardinality(V)
  BY <1>1, <1>3, <1>4, <1>5, <1>6
<1> QED BY <1>7 DEF Counted, V

(* A pipe that is freed has no writer left. *)
LEMMA FreedHasNoWriters ==
  ASSUME NEW t \in Tasks, Counted, Types,
         nwriters - (IF CountsAsWriter(file[t]) THEN 1 ELSE 0) = 0
  PROVE  \A u \in Tasks \ {t} : ~ CountsAsWriter(file[u])
<1> USE PipeAssumption
<1> DEFINE W == {u \in Tasks : CountsAsWriter(file[u])}
<1>1. IsFiniteSet(W) /\ nwriters = Cardinality(W)
  BY FS_Subset DEF Counted
<1>2. t \in W <=> CountsAsWriter(file[t])
  OBVIOUS
<1> HIDE DEF W
<1>3. /\ IsFiniteSet(W \ {t})
      /\ Cardinality(W \ {t}) = IF t \in W THEN Cardinality(W) - 1 ELSE Cardinality(W)
  BY <1>1, FS_RemoveElement
<1>4. Cardinality(W) \in Nat
  BY <1>1, FS_CardinalityType
<1>5. Cardinality(W \ {t}) = 0
  BY <1>1, <1>2, <1>3, <1>4
<1>6. W \ {t} = {}
  BY <1>3, <1>5, FS_EmptySet
<1> QED BY <1>6 DEF W

(* The loop of pipe_read keeps the ring, whoever calls it. *)
LEMMA ReadLoopKeepsRing ==
  ASSUME RInv, NEW t \in Tasks, NEW n \in Nat, ReadLoop(t, n), pc[t] # "write"
  PROVE  Counted' /\ Writing' /\ Numbers' /\ RingHoldsUnread'
<1> USE PipeAssumption
<1> DEFINE k == Available(n)
<1>t. /\ Types /\ Counted /\ Writing /\ Numbers /\ RingHoldsUnread
  BY DEF RInv, PipeInv
<1>1. /\ read' = (read + k) % Length /\ garbled' = (garbled \/ write = Length)
      /\ taken' = IF garbled' THEN taken ELSE taken + k
      /\ UNCHANGED <<buffer, write, nwriters, wrlock, file, written>>
      /\ \E p \in {"read", "user"} : pc' = [pc EXCEPT ![t] = p]
  BY DEF ReadLoop, Advanced, task_wait
<1>2. k \in Nat /\ (write # Length => k \in 0 .. Unread)
  <2>1. Unread \in Nat
    BY <1>t DEF Unread, Types, Index
  <2> HIDE DEF Unread
  <2> QED BY <2>1 DEF Available, Unread, Min
<1> HIDE DEF k
<1>3. Numbers'
  BY <1>1, <1>2, <1>t DEF Numbers
<1>4. Counted' /\ Writing'
  BY <1>1, <1>t DEF Counted, Writing, Types
<1>5. RingHoldsUnread'
  <2>1. CASE garbled'
    BY <2>1 DEF RingHoldsUnread
  <2>2. CASE ~ garbled'
    <3>1. ~ garbled /\ write # Length
      BY <2>2, <1>1, Zenon
    <3>2. taken' = taken + k
      BY <2>2, <1>1, Zenon
    <3>3. read \in Index /\ write \in Index
      BY <3>1, <1>t DEF Types, Index
    <3> QED BY <3>1, <3>2, <3>3, <1>1, <1>2, <1>t, TakeKeepsRing
  <2> QED BY <2>1, <2>2
<1> QED BY <1>3, <1>4, <1>5

(* Every step keeps the ring. *)
LEMMA RingStepIsSound == RInv /\ [PipeNext]_pipingVars => RInv'
<1> SUFFICES ASSUME RInv, [PipeNext]_pipingVars
             PROVE  Counted' /\ Writing' /\ Numbers' /\ RingHoldsUnread'
  BY PipeStep DEF RInv
<1> USE PipeAssumption
<1>t. PipeInv /\ Types /\ Counted /\ Writing /\ Numbers /\ RingHoldsUnread
  BY DEF RInv, PipeInv
<1> DEFINE Goal == Counted' /\ Writing' /\ Numbers' /\ RingHoldsUnread'
           Ring == <<buffer, read, write, written, taken, garbled>>
<1>r. ASSUME UNCHANGED Ring
      PROVE  Numbers' /\ RingHoldsUnread'
  BY <1>r, <1>t DEF Numbers, RingHoldsUnread, Unread
<1>n. nwriters \in Nat
  <2>1. IsFiniteSet({t \in Tasks : CountsAsWriter(file[t])})
    BY FS_Subset
  <2> QED BY <2>1, <1>t, FS_CardinalityType DEF Counted
<1>1. ASSUME NEW t \in Tasks, NEW mode \in CanRead \cup CanWrite, pipe_open(t, mode)
      PROVE  Goal
  <2>1. /\ file[t] = "closed" /\ pc[t] = "user" /\ file' = [file EXCEPT ![t] = mode]
        /\ nwriters' = nwriters + (IF CountsAsWriter(mode) THEN 1 ELSE 0)
        /\ UNCHANGED <<pc, wrlock>> /\ UNCHANGED Ring
    BY <1>1, Zenon DEF pipe_open, Ready, At
  <2>2. ~ CountsAsWriter(file[t])
    BY <2>1 DEF CountsAsWriter, CanWrite
  <2>3. Counted'
    <3>1. nwriters' = (nwriters - (IF CountsAsWriter(file[t]) THEN 1 ELSE 0))
                        + (IF CountsAsWriter(mode) THEN 1 ELSE 0)
      BY <2>1, <2>2, <1>n
    <3>2. file[t] # "dangling" /\ mode \in CanRead \cup CanWrite \cup {"closed"}
      BY <2>1
    <3> QED BY <3>1, <3>2, <2>1, <1>t, <1>n, OneMoreOrLess, Zenon
  <2>4. Writing'
    BY <2>1, <1>t DEF Writing, Types
  <2> QED BY <2>1, <2>3, <2>4, <1>r
<1>2. ASSUME NEW t \in Tasks, pipe_close(t)
      PROVE  Goal
  <2> DEFINE nw == nwriters - (IF CountsAsWriter(file[t]) THEN 1 ELSE 0)
             closed == [file EXCEPT ![t] = "closed"]
  <2>1. /\ pc[t] = "user" /\ file[t] \in CanRead \cup CanWrite
        /\ nwriters' = nw /\ UNCHANGED pc
    BY <1>2, Zenon DEF pipe_close, Ready, At
  <2>2. CASE /\ nw = 0
             /\ file' = [u \in Tasks |->
                          IF closed[u] = "closed" THEN "closed" ELSE "dangling"]
             /\ buffer' = [i \in Index |-> 0]
             /\ read' = 0 /\ write' = 0 /\ wrlock' = NULL
             /\ written' = 0 /\ taken' = 0 /\ garbled' = FALSE
    <3>1. \A u \in Tasks : ~ CountsAsWriter(file'[u])
      BY <2>2 DEF CountsAsWriter, CanWrite
    <3>2. Counted'
      <4>1. {u \in Tasks : CountsAsWriter(file'[u])} = {}
        BY <3>1
      <4> QED BY <4>1, <2>1, <2>2, FS_EmptySet, Zenon DEF Counted
    <3>3. \A u \in Tasks : pc[u] # "write"
      <4>1. \A u \in Tasks \ {t} : ~ CountsAsWriter(file[u])
        BY <2>2, <1>t, FreedHasNoWriters
      <4> QED BY <4>1, <2>1, <1>t DEF Writing, CountsAsWriter
    <3>4. Writing' /\ Numbers'
      BY <3>3, <2>1, <2>2, Zenon DEF Writing, Numbers
    <3>5. RingHoldsUnread'
      <4>1. (write - read)' % Length = 0
        BY <2>2
      <4> QED BY <4>1, <2>2 DEF RingHoldsUnread, Unread
    <3> QED BY <3>2, <3>4, <3>5
  <2>3. CASE file' = closed /\ UNCHANGED wrlock /\ UNCHANGED Ring
    <3>1. Counted'
      <4>1. ~ CountsAsWriter("closed") /\ file[t] # "dangling"
        BY <2>1 DEF CountsAsWriter, CanRead, CanWrite
      <4>2. nwriters' = (nwriters - (IF CountsAsWriter(file[t]) THEN 1 ELSE 0))
                          + (IF CountsAsWriter("closed") THEN 1 ELSE 0)
        BY <4>1, <2>1, <1>n
      <4> QED BY <4>1, <4>2, <2>3, <1>t, <1>n, OneMoreOrLess, Zenon
    <3>2. Writing'
      BY <2>1, <2>3, <1>t, SMTT(30), ZenonT(30) DEF Writing, Types
    <3> QED BY <3>1, <3>2, <2>3, <1>r
  <2> QED BY <1>2, <2>2, <2>3, Zenon DEF pipe_close
<1>3. ASSUME NEW t \in Tasks, UseFreed(t)
      PROVE  Goal
  <2>1. UNCHANGED <<pc, nwriters, wrlock, file>> /\ UNCHANGED Ring
    BY <1>3, Zenon DEF UseFreed
  <2> QED BY <2>1, <1>r, <1>t DEF Counted, Writing
<1>s. ASSUME Spin PROVE Goal
  <2>1. UNCHANGED <<pc, nwriters, wrlock, file>> /\ UNCHANGED Ring
    BY <1>s, Zenon DEF Spin
  <2> QED BY <2>1, <1>r, <1>t DEF Counted, Writing
<1>4. ASSUME NEW t \in Tasks, NEW n \in Counts, pipe_read(t, n)
      PROVE  Goal
  <2>1. CASE Spin
    BY <2>1, <1>s
  <2>2. CASE ReadLoop(t, n)
    <3>1. n \in Nat /\ pc[t] # "write"
      BY <1>4 DEF pipe_read, Ready, At
    <3> QED BY <3>1, <2>2, ReadLoopKeepsRing
  <2> QED BY <1>4, <2>1, <2>2 DEF pipe_read
<1>5. ASSUME NEW t \in Tasks, ReadWakes(t)
      PROVE  Goal
  <2>1. left[t] \in Nat /\ pc[t] # "write" /\ ReadLoop(t, left[t])
    BY <1>5, <1>t DEF ReadWakes, Ready, At, Types
  <2> QED BY <2>1, ReadLoopKeepsRing
<1>6. ASSUME NEW t \in Tasks, NEW n \in Counts, pipe_write(t, n)
      PROVE  Goal
  <2>1. CASE Spin
    BY <2>1, <1>s
  <2>2. CASE wrlock = NULL
    <3>1. /\ buffer' = Stored(n) /\ write' = (write + n) % Length
          /\ written' = written + n /\ garbled' = (garbled \/ Unread + n >= Length)
          /\ UNCHANGED <<pc, read, nwriters, wrlock, file, taken>>
      BY <1>6, <2>2, Zenon DEF pipe_write
    <3>2. n \in Nat /\ write \in Index /\ read \in Index /\ write' \in Index
      BY <2>2, <3>1, <1>t DEF Writing, Types, Index
    <3>3. Counted' /\ Writing'
      <4>1. Counted'
        BY <3>1, <1>t DEF Counted
      <4>2. write' # Length
        BY <3>2 DEF Index, PipeAssumption
      <4>3. Writing'
        BY <3>1, <4>2, <1>t, Zenon DEF Writing
      <4> QED BY <4>1, <4>3
    <3>4. Numbers'
      BY <3>1, <3>2, <1>t DEF Numbers
    <3>5. RingHoldsUnread'
      <4>1. CASE garbled'
        BY <4>1 DEF RingHoldsUnread
      <4>2. CASE ~ garbled'
        <5>1. ~ garbled /\ ~ (Unread + n >= Length)
          BY <4>2, <3>1, Zenon
        <5>2. Unread + n < Length
          BY <5>1, <3>2 DEF Unread, Index
        <5>3. write' \in 0 .. Length
          BY <3>2 DEF Index
        <5> QED BY <5>1, <5>2, <5>3, <3>1, <3>2, <1>t, StoreKeepsRing
      <4> QED BY <4>1, <4>2
    <3> QED BY <3>3, <3>4, <3>5
  <2> QED BY <1>6, <2>1, <2>2 DEF pipe_write
<1>7. ASSUME NEW t \in Tasks, NEW n \in Counts, WriteLocks(t, n)
      PROVE  Goal
  <2>1. /\ pc[t] = "user" /\ file[t] \in CanWrite /\ wrlock = NULL /\ wrlock' = t
        /\ pc' = [pc EXCEPT ![t] = "write"]
        /\ UNCHANGED <<nwriters, file>> /\ UNCHANGED Ring
    BY <1>7, Zenon DEF WriteLocks, Ready, At
  <2>2. Writing'
    BY <2>1, <1>t DEF Writing, Types
  <2> QED BY <2>1, <2>2, <1>r, <1>t DEF Counted
<1>8. ASSUME NEW t \in Tasks, WriteStores(t)
      PROVE  Goal
  <2>1. /\ pc[t] = "write" /\ write < Length
        /\ buffer' = Stored(1) /\ write' = write + 1 /\ written' = written + 1
        /\ garbled' = (garbled \/ Unread + 1 >= Length)
        /\ UNCHANGED <<pc, read, nwriters, wrlock, file, taken>>
    BY <1>8, Zenon DEF WriteStores, Ready, At
  <2>2. write \in Index /\ read \in Index /\ write' \in 0 .. Length
    BY <2>1, <1>t DEF Types, Index
  <2>3. wrlock = t /\ t # NULL
    BY <2>1, <1>t DEF Writing
  <2>4. Counted' /\ Writing'
    BY <2>1, <2>3, <1>t DEF Counted, Writing
  <2>5. Numbers'
    BY <2>1, <1>t DEF Numbers
  <2>6. RingHoldsUnread'
    <3>1. CASE garbled'
      BY <3>1 DEF RingHoldsUnread
    <3>2. CASE ~ garbled'
      <4>1. ~ garbled /\ ~ (Unread + 1 >= Length)
        BY <3>2, <2>1, Zenon
      <4>2. Unread + 1 < Length
        BY <4>1, <2>2 DEF Unread, Index
      <4> QED BY <4>1, <4>2, <2>1, <2>2, <1>t, StoreKeepsRing
    <3> QED BY <3>1, <3>2
  <2> QED BY <2>4, <2>5, <2>6
<1>9. ASSUME NEW t \in Tasks, WriteWraps(t)
      PROVE  Goal
  <2>1. /\ write = Length /\ write' = 0
        /\ UNCHANGED <<pc, nwriters, wrlock, file, buffer, read, written, taken, garbled>>
    BY <1>9, Zenon DEF WriteWraps
  <2>2. Counted' /\ Writing' /\ Numbers'
    BY <2>1, <1>t DEF Counted, Writing, Numbers
  <2>3. Unread' = Unread
    <3>1. (Length - read) % Length = (0 - read) % Length
      BY <1>t DEF Types, Index
    <3> QED BY <3>1, <2>1 DEF Unread
  <2> QED BY <2>1, <2>2, <2>3, <1>t DEF RingHoldsUnread
<1>10. ASSUME NEW t \in Tasks, WriteUnlocks(t)
      PROVE  Goal
  <2>1. /\ pc[t] = "write" /\ write < Length /\ wrlock' = NULL
        /\ pc' = [pc EXCEPT ![t] = "wake"]
        /\ UNCHANGED <<nwriters, file>> /\ UNCHANGED Ring
    BY <1>10, Zenon DEF WriteUnlocks, Ready, At
  <2>2. Writing'
    BY <2>1, <1>t DEF Writing, Types
  <2> QED BY <2>1, <2>2, <1>r, <1>t DEF Counted
<1>11. ASSUME NEW t \in Tasks, WriteWakes(t)
      PROVE  Goal
  <2>1. /\ pc' = [pc EXCEPT ![t] = "user"]
        /\ UNCHANGED <<nwriters, file, wrlock>> /\ UNCHANGED Ring
    BY <1>11, Zenon DEF WriteWakes, pipeVars
  <2>2. Writing'
    BY <2>1, <1>t DEF Writing, Types
  <2> QED BY <2>1, <2>2, <1>r, <1>t DEF Counted
<1>12. CASE UNCHANGED pipingVars
  <2>1. UNCHANGED <<pc, nwriters, wrlock, file>> /\ UNCHANGED Ring
    BY <1>12, Zenon DEF pipingVars, pipeVars
  <2> QED BY <2>1, <1>r, <1>t DEF Counted, Writing
<1> QED BY <1>1, <1>2, <1>3, <1>4, <1>5, <1>6, <1>7, <1>8, <1>9, <1>10, <1>11, <1>12
        DEF PipeNext, WorkerStep

(* A pipe that is not there yet holds nothing. *)
LEMMA RingInitIsSound == PipeInit => RInv
<1> SUFFICES ASSUME PipeInit PROVE RInv
  OBVIOUS
<1> USE PipeAssumption DEF PipeInit
<1>1. Counted
  <2>1. {t \in Tasks : CountsAsWriter(file[t])} = {}
    BY DEF CountsAsWriter, CanWrite
  <2> QED BY <2>1, FS_EmptySet DEF Counted
<1>2. Writing /\ Numbers
  BY Zenon DEF Writing, Numbers
<1>3. RingHoldsUnread
  <2>1. (write - read) % Length = 0
    OBVIOUS
  <2> QED BY <2>1 DEF RingHoldsUnread, Unread
<1> QED BY <1>1, <1>2, <1>3, PipeStarts DEF RInv

(* The ring holds exactly the bytes written and not yet read, in order,     *)
(* until a writer laps the reader or is caught past the end.                *)
THEOREM RingHoldsUnreadAlways == PipeSpec => []RingHoldsUnread
<1>1. RInv => RingHoldsUnread
  BY DEF RInv
<1> QED BY <1>1, RingInitIsSound, RingStepIsSound, PTL DEF PipeSpec

-----------------------------------------------------------------------------
(* The fields of the pipe stay in their ranges, and a worker that has begun *)
(* to write has room for what is left of its call: the lock it holds keeps  *)
(* every other writer out.                                                  *)
Fields ==
  /\ exists \in BOOLEAN /\ garbled \in BOOLEAN
  /\ buffer \in [Index -> 0 .. MaxBytes]
  /\ {reader, rdlock, wrlock} \subseteq Tasks \cup {NULL}
  /\ left \in [Tasks -> 0 .. Length]
  /\ written \in 0 .. MaxBytes /\ taken \in Nat
  /\ cpu \in {"ok", "spins", "wild"}
  /\ \A t \in Tasks : pc[t] = "write" => written + left[t] <= MaxBytes

ReadersCounted == nreaders = Cardinality({t \in Tasks : CountsAsReader(file[t])})

TInv == RInv /\ Fields /\ ReadersCounted

(* One file opened or closed changes a count by what it counts for. *)
LEMMA CountOfFiles ==
  ASSUME Types, NEW t \in Tasks, NEW new, NEW M,
         file' = [file EXCEPT ![t] = new]
  PROVE  Cardinality({u \in Tasks : file'[u] \in M})
           = (Cardinality({u \in Tasks : file[u] \in M}) - (IF file[t] \in M THEN 1 ELSE 0))
               + (IF new \in M THEN 1 ELSE 0)
<1> USE PipeAssumption
<1> DEFINE W == {u \in Tasks : file[u] \in M}
           V == {u \in Tasks : file'[u] \in M}
<1>1. IsFiniteSet(W)
  BY FS_Subset
<1>a. \A u \in Tasks : file'[u] = IF u = t THEN new ELSE file[u]
  BY DEF Types
<1>2. V = IF new \in M THEN (W \ {t}) \cup {t} ELSE W \ {t}
  BY <1>a
<1>3. t \in W <=> file[t] \in M
  OBVIOUS
<1> HIDE DEF W, V
<1>4. /\ IsFiniteSet(W \ {t}) /\ Cardinality(W) \in Nat
      /\ Cardinality(W \ {t}) = IF t \in W THEN Cardinality(W) - 1 ELSE Cardinality(W)
  BY <1>1, FS_RemoveElement, FS_CardinalityType
<1>5. Cardinality((W \ {t}) \cup {t}) = Cardinality(W \ {t}) + 1
  BY <1>4, FS_AddElement, Zenon
<1>6. Cardinality(V) = (Cardinality(W) - (IF t \in W THEN 1 ELSE 0))
                          + (IF new \in M THEN 1 ELSE 0)
  BY <1>2, <1>4, <1>5
<1> QED BY <1>3, <1>6 DEF V, W

(* The smaller of two numbers. *)
LEMMA MinOfTwo ==
  ASSUME NEW a \in Nat, NEW b \in Nat
  PROVE  Min({a, b}) \in Nat /\ Min({a, b}) <= a /\ Min({a, b}) <= b
BY DEF Min

(* Whoever stores n bytes numbers them within the bound. *)
LEMMA StoredInRange ==
  ASSUME Fields, Types, NEW n \in Nat, written + n <= MaxBytes, buffer' = Stored(n)
  PROVE  buffer' \in [Index -> 0 .. MaxBytes]
<1> USE PipeAssumption
<1>1. ASSUME NEW i \in Index
      PROVE  (IF (i - write) % Length < n
              THEN written + 1 + ((i - write) % Length) ELSE buffer[i]) \in 0 .. MaxBytes
  <2>1. (i - write) % Length \in Nat
    BY SMTT(30), ZenonT(30) DEF Index, Types
  <2> QED BY <2>1 DEF Fields
<1> QED BY <1>1 DEF Stored

(* The loop of pipe_read keeps the fields. *)
LEMMA ReadLoopKeepsFields ==
  ASSUME Types, Fields, ReadersCounted, NEW t \in Tasks, NEW n \in 0 .. Length,
         ReadLoop(t, n), pc[t] # "write"
  PROVE  Fields' /\ ReadersCounted'
<1> USE PipeAssumption
<1> DEFINE k == Available(n)
<1>1. k \in 0 .. n
  <2>1. (write - read) % Length \in Nat
    BY DEF Types, Index
  <2>2. CASE write = Length
    BY <2>2 DEF Available
  <2>3. CASE write # Length
    BY <2>1, <2>3, MinOfTwo DEF Available
  <2> QED BY <2>2, <2>3
<1>g. garbled' \in BOOLEAN
  BY DEF ReadLoop
<1>2. /\ taken' = IF garbled' THEN taken ELSE taken + k
      /\ UNCHANGED <<exists, buffer, nreaders, wrlock, file, written, cpu>>
      /\ rdlock' \in {NULL, t} /\ reader' \in {NULL, t}
      /\ left' \in {[left EXCEPT ![t] = n - k], [left EXCEPT ![t] = 0]}
      /\ \E p \in {"read", "user"} : pc' = [pc EXCEPT ![t] = p]
  BY DEF ReadLoop, task_wait
<1> HIDE DEF k
<1>3. taken' \in Nat
  BY <1>1, <1>2 DEF Fields
<1>4. left' \in [Tasks -> 0 .. Length]
  BY <1>1, <1>2 DEF Fields
<1>5. ASSUME NEW u \in Tasks, pc'[u] = "write"
      PROVE  written' + left'[u] <= MaxBytes
  BY <1>2, <1>5 DEF Fields, Types
<1> QED BY <1>g, <1>2, <1>3, <1>4, <1>5 DEF Fields, ReadersCounted

(* A step that leaves most of the pipe alone keeps the fields. *)
LEMMA FieldsKept ==
  ASSUME Fields, ReadersCounted, cpu' \in {"ok", "spins", "wild"},
         UNCHANGED <<pc, exists, buffer, nreaders, reader, rdlock, wrlock, file, left,
                     written, taken, garbled>>
  PROVE  Fields' /\ ReadersCounted'
BY DEF Fields, ReadersCounted

(* Every step keeps them. *)
LEMMA FieldsStepIsSound == TInv /\ [PipeNext]_pipingVars => TInv'
<1> SUFFICES ASSUME TInv, [PipeNext]_pipingVars
             PROVE  Fields' /\ ReadersCounted'
  BY RingStepIsSound DEF TInv
<1> USE PipeAssumption
<1>t. Types /\ Writing /\ Counted /\ Fields /\ ReadersCounted
  BY DEF TInv, RInv, PipeInv
<1>0. \A m : (CountsAsReader(m) <=> m \in {"O_RDWR"}) /\ (CountsAsWriter(m) <=> m \in CanWrite)
  BY DEF CountsAsReader, CountsAsWriter
<1>c. /\ nreaders = Cardinality({u \in Tasks : file[u] \in {"O_RDWR"}})
      /\ ReadersCounted' <=>
           nreaders' = Cardinality({u \in Tasks : file'[u] \in {"O_RDWR"}})
  BY <1>0, <1>t DEF ReadersCounted
<1>n. nreaders \in Nat
  <2>1. IsFiniteSet({t \in Tasks : CountsAsReader(file[t])})
    BY FS_Subset
  <2> QED BY <2>1, <1>t, FS_CardinalityType DEF ReadersCounted
<1>s. ASSUME Spin PROVE Fields' /\ ReadersCounted'
  BY <1>s, <1>t, FieldsKept DEF Spin
<1>1. ASSUME NEW t \in Tasks, NEW mode \in CanRead \cup CanWrite, pipe_open(t, mode)
      PROVE  Fields' /\ ReadersCounted'
  <2>1. /\ file[t] = "closed" /\ file' = [file EXCEPT ![t] = mode] /\ exists' = TRUE
        /\ nreaders' = nreaders + (IF CountsAsReader(mode) THEN 1 ELSE 0)
        /\ UNCHANGED <<pc, buffer, reader, rdlock, wrlock, left, written, taken, garbled, cpu>>
    BY <1>1 DEF pipe_open
  <2>2. Fields'
    BY <2>1, <1>t DEF Fields
  <2>3. Cardinality({u \in Tasks : file'[u] \in {"O_RDWR"}})
          = (Cardinality({u \in Tasks : file[u] \in {"O_RDWR"}})
               - (IF file[t] \in {"O_RDWR"} THEN 1 ELSE 0))
                 + (IF mode \in {"O_RDWR"} THEN 1 ELSE 0)
    <3> DEFINE M == {"O_RDWR"}
    <3> HIDE DEF M
    <3>1. Cardinality({u \in Tasks : file'[u] \in M})
            = (Cardinality({u \in Tasks : file[u] \in M}) - (IF file[t] \in M THEN 1 ELSE 0))
                + (IF mode \in M THEN 1 ELSE 0)
      BY <2>1, <1>t, CountOfFiles, Zenon
    <3> QED BY <3>1 DEF M
  <2>4. file[t] \notin {"O_RDWR"} /\ (CountsAsReader(mode) <=> mode \in {"O_RDWR"})
    BY <2>1, <1>0
  <2>5. ReadersCounted'
    BY <2>1, <2>3, <2>4, <1>c, <1>n
  <2> QED BY <2>2, <2>5
<1>2. ASSUME NEW t \in Tasks, pipe_close(t)
      PROVE  Fields' /\ ReadersCounted'
  <2> DEFINE nr == nreaders - (IF CountsAsReader(file[t]) THEN 1 ELSE 0)
             nw == nwriters - (IF CountsAsWriter(file[t]) THEN 1 ELSE 0)
             closed == [file EXCEPT ![t] = "closed"]
  <2>1. /\ pc[t] = "user" /\ nreaders' = nr /\ UNCHANGED <<pc, left, cpu>>
    BY <1>2, Zenon DEF pipe_close, Ready, At
  <2>2. CASE /\ nr = 0 /\ nw = 0 /\ exists' = FALSE
             /\ file' = [u \in Tasks |->
                          IF closed[u] = "closed" THEN "closed" ELSE "dangling"]
             /\ buffer' = [i \in Index |-> 0]
             /\ reader' = NULL /\ rdlock' = NULL /\ wrlock' = NULL
             /\ written' = 0 /\ taken' = 0 /\ garbled' = FALSE
    <3>1. \A u \in Tasks : pc[u] # "write"
      <4>1. \A u \in Tasks \ {t} : ~ CountsAsWriter(file[u])
        BY <2>2, <1>t, FreedHasNoWriters, SMTT(30), ZenonT(30)
      <4> QED BY <4>1, <2>1, <1>t DEF Writing, CountsAsWriter
    <3>2. Fields'
      <4>1. buffer' \in [Index -> 0 .. MaxBytes]
        BY <2>2
      <4>2. exists' \in BOOLEAN /\ garbled' \in BOOLEAN
        BY <2>2, Zenon
      <4>3. /\ reader' = NULL /\ rdlock' = NULL /\ wrlock' = NULL
            /\ written' = 0 /\ taken' = 0
        BY <2>2, Zenon
      <4>4. {reader', rdlock', wrlock'} \subseteq Tasks \cup {NULL}
        BY <4>3, Zenon
      <4>5. written' \in 0 .. MaxBytes /\ taken' \in Nat
        BY <4>3, <1>t DEF Fields
      <4>6. left' \in [Tasks -> 0 .. Length] /\ cpu' \in {"ok", "spins", "wild"}
        BY <2>1, <1>t, Zenon DEF Fields
      <4>7. \A u \in Tasks : pc'[u] # "write"
        BY <3>1, <2>1, <1>t
      <4> QED BY <4>1, <4>2, <4>4, <4>5, <4>6, <4>7, Zenon DEF Fields
    <3>3. {u \in Tasks : file'[u] \in {"O_RDWR"}} = {}
      BY <2>2
    <3>4. Cardinality({}) = 0
      BY FS_EmptySet
    <3>5. ReadersCounted'
      BY <3>3, <3>4, <2>1, <2>2, <1>c
    <3> QED BY <3>2, <3>5
  <2>3. CASE /\ file' = closed
             /\ UNCHANGED <<exists, buffer, reader, rdlock, wrlock, written, taken, garbled>>
    <3>1. Fields'
      BY <2>1, <2>3, <1>t DEF Fields
    <3>2. Cardinality({u \in Tasks : file'[u] \in {"O_RDWR"}})
            = (Cardinality({u \in Tasks : file[u] \in {"O_RDWR"}})
                 - (IF file[t] \in {"O_RDWR"} THEN 1 ELSE 0))
                   + (IF "closed" \in {"O_RDWR"} THEN 1 ELSE 0)
      <4> DEFINE M == {"O_RDWR"}
      <4> HIDE DEF M
      <4>1. Cardinality({u \in Tasks : file'[u] \in M})
              = (Cardinality({u \in Tasks : file[u] \in M}) - (IF file[t] \in M THEN 1 ELSE 0))
                  + (IF "closed" \in M THEN 1 ELSE 0)
        BY <2>3, <1>t, CountOfFiles, Zenon
      <4> QED BY <4>1 DEF M
    <3>3. "closed" \notin {"O_RDWR"} /\ (CountsAsReader(file[t]) <=> file[t] \in {"O_RDWR"})
      BY <1>0
    <3>4. ReadersCounted'
      <4> DEFINE b == IF file[t] \in {"O_RDWR"} THEN 1 ELSE 0
                 before == Cardinality({u \in Tasks : file[u] \in {"O_RDWR"}})
                 after == Cardinality({u \in Tasks : file'[u] \in {"O_RDWR"}})
      <4>0. after = (before - b) + 0
        BY <3>2, <3>3, Zenon
      <4>1. nreaders' = nreaders - b
        BY <3>3, <2>1, SMTT(30), ZenonT(30)
      <4>2. b \in Int
        OBVIOUS
      <4>3. before = nreaders /\ before \in Int
        BY <1>c, <1>n
      <4> HIDE DEF b, before
      <4>4. before - b \in Int
        BY <4>2, <4>3
      <4>5. nreaders' = after
        <5> HIDE DEF after
        <5> QED BY <4>0, <4>1, <4>3, <4>4
      <4> QED BY <4>5, <1>c, Zenon
    <3> QED BY <3>1, <3>4
  <2> QED BY <1>2, <2>2, <2>3, Zenon DEF pipe_close
<1>3. ASSUME NEW t \in Tasks, UseFreed(t)
      PROVE  Fields' /\ ReadersCounted'
  BY <1>3, <1>t, FieldsKept DEF UseFreed
<1>4. ASSUME NEW t \in Tasks, NEW n \in Counts, pipe_read(t, n)
      PROVE  Fields' /\ ReadersCounted'
  <2>1. CASE ReadLoop(t, n)
    <3>1. n \in 0 .. Length /\ pc[t] # "write"
      BY <1>4 DEF pipe_read, Ready, At
    <3> QED BY <3>1, <2>1, <1>t, ReadLoopKeepsFields
  <2> QED BY <1>4, <2>1, <1>s DEF pipe_read
<1>5. ASSUME NEW t \in Tasks, ReadWakes(t)
      PROVE  Fields' /\ ReadersCounted'
  <2>1. left[t] \in 0 .. Length /\ pc[t] # "write" /\ ReadLoop(t, left[t])
    BY <1>5, <1>t DEF ReadWakes, Ready, At, Fields
  <2> QED BY <2>1, <1>t, ReadLoopKeepsFields
<1>6. ASSUME NEW t \in Tasks, NEW n \in Counts, pipe_write(t, n)
      PROVE  Fields' /\ ReadersCounted'
  <2>1. CASE wrlock = NULL
    <3>1. /\ buffer' = Stored(n) /\ written' = written + n /\ garbled' \in BOOLEAN
          /\ n \in Nat /\ written + n <= MaxBytes
          /\ UNCHANGED <<pc, exists, nreaders, reader, rdlock, wrlock, file, left, taken, cpu>>
      BY <1>6, <2>1 DEF pipe_write
    <3>2. buffer' \in [Index -> 0 .. MaxBytes]
      BY <3>1, <1>t, StoredInRange
    <3>3. \A u \in Tasks : pc[u] # "write"
      BY <2>1, <1>t DEF Writing
    <3>4. Fields'
      BY <3>1, <3>2, <3>3, <1>t, SMTT(30), ZenonT(30) DEF Fields
    <3> QED BY <3>1, <3>4, <1>t DEF ReadersCounted
  <2> QED BY <1>6, <2>1, <1>s DEF pipe_write
<1>7. ASSUME NEW t \in Tasks, NEW n \in Counts, WriteLocks(t, n)
      PROVE  Fields' /\ ReadersCounted'
  <2>1. /\ n \in 0 .. Length /\ written + n <= MaxBytes /\ wrlock = NULL /\ wrlock' = t
        /\ pc' = [pc EXCEPT ![t] = "write"] /\ left' = [left EXCEPT ![t] = n]
        /\ UNCHANGED <<exists, buffer, nreaders, reader, rdlock, file, written, taken,
                       garbled, cpu>>
    BY <1>7, SMTT(30), ZenonT(30) DEF WriteLocks
  <2>2. \A u \in Tasks : pc[u] # "write"
    BY <2>1, <1>t, Zenon DEF Writing
  <2>3. \A u \in Tasks : pc'[u] = "write" => u = t /\ left'[u] = n
    BY <2>1, <2>2, <1>t DEF Types, Fields
  <2>4. left' \in [Tasks -> 0 .. Length]
    BY <2>1, <1>t, SMTT(30), ZenonT(30) DEF Fields
  <2> QED BY <2>1, <2>3, <2>4, <1>t DEF Fields, ReadersCounted
<1>8. ASSUME NEW t \in Tasks, WriteStores(t)
      PROVE  Fields' /\ ReadersCounted'
  <2>1. /\ pc[t] = "write" /\ left[t] > 0 /\ buffer' = Stored(1) /\ written' = written + 1
        /\ left' = [left EXCEPT ![t] = @ - 1] /\ garbled' \in BOOLEAN
        /\ UNCHANGED <<pc, exists, nreaders, reader, rdlock, wrlock, file, taken, cpu>>
    BY <1>8, Zenon DEF WriteStores, Ready, At
  <2>2. written + left[t] <= MaxBytes /\ left[t] \in 1 .. Length
    BY <2>1, <1>t DEF Fields
  <2>3. written + 1 <= MaxBytes /\ written' \in 0 .. MaxBytes
    BY <2>1, <2>2, <1>t DEF Fields
  <2>4. buffer' \in [Index -> 0 .. MaxBytes]
    BY <2>1, <2>3, <1>t, StoredInRange
  <2>5. \A u \in Tasks : pc[u] = "write" => u = t
    BY <2>1, <1>t DEF Writing
  <2>6. left' \in [Tasks -> 0 .. Length] /\ written' + left'[t] <= MaxBytes
    BY <2>1, <2>2, <1>t DEF Fields
  <2> QED BY <2>1, <2>3, <2>4, <2>5, <2>6, <1>t, ZenonT(40) DEF Fields, ReadersCounted
<1>9. ASSUME NEW t \in Tasks, WriteWraps(t)
      PROVE  Fields' /\ ReadersCounted'
  BY <1>9, <1>t, FieldsKept DEF WriteWraps, Fields
<1>10. ASSUME NEW t \in Tasks, WriteUnlocks(t)
      PROVE  Fields' /\ ReadersCounted'
  BY <1>10, <1>t DEF WriteUnlocks, Fields, ReadersCounted, Types
<1>11. ASSUME NEW t \in Tasks, WriteWakes(t)
      PROVE  Fields' /\ ReadersCounted'
  BY <1>11, <1>t, SMTT(30), ZenonT(30) DEF WriteWakes, pipeVars, Fields, ReadersCounted, Types
<1>12. CASE UNCHANGED pipingVars
  BY <1>12, <1>t, FieldsKept, Zenon DEF pipingVars, pipeVars, Fields
<1> QED BY <1>1, <1>2, <1>3, <1>4, <1>5, <1>6, <1>7, <1>8, <1>9, <1>10, <1>11, <1>12
        DEF PipeNext, WorkerStep

(* The fields of pipe_t keep their ranges, and nreaders and nwriters are    *)
(* the numbers of open files that count as readers and as writers.          *)
THEOREM PipeTypeCorrect == PipeSpec => []PipeTypeOK
<1>1. PipeInit => TInv
  <2> SUFFICES ASSUME PipeInit PROVE Fields /\ ReadersCounted
    BY RingInitIsSound DEF TInv
  <2> USE PipeAssumption
  <2>1. Fields
    <3>1. buffer \in [Index -> 0 .. MaxBytes] /\ left \in [Tasks -> 0 .. Length]
      BY DEF PipeInit
    <3>2. \A t \in Tasks : pc[t] # "write"
      BY DEF PipeInit
    <3>3. exists \in BOOLEAN /\ garbled \in BOOLEAN
      BY Zenon DEF PipeInit
    <3>4. /\ reader = NULL /\ rdlock = NULL /\ wrlock = NULL
          /\ written = 0 /\ taken = 0 /\ cpu = "ok"
      BY Zenon DEF PipeInit
    <3> QED BY <3>1, <3>2, <3>3, <3>4 DEF Fields
  <2>2. {t \in Tasks : CountsAsReader(file[t])} = {} /\ nreaders = 0
    BY DEF CountsAsReader, PipeInit
  <2> QED BY <2>1, <2>2, FS_EmptySet DEF ReadersCounted
<1>2. TInv => PipeTypeOK
  BY DEF TInv, RInv, PipeInv, Types, Counted, Fields, ReadersCounted, PipeTypeOK
<1> QED BY <1>1, <1>2, FieldsStepIsSound, PTL DEF PipeSpec
=============================================================================
