---------------------------- MODULE ServiceProofs ----------------------------
(***************************************************************************)
(* Proofs about what the kernel tells its tasks, for every number of       *)
(* tasks, slots, events and signals.                                       *)
(*                                                                         *)
(* Timer: until a callback is put before two later ones the list holds     *)
(* every registered callback, once and in the order of time, and no        *)
(* callback that is due outlives its tick.                                 *)
(*                                                                         *)
(* Event: the monitor takes an event only when there is one, and the       *)
(* oldest.                                                                 *)
(*                                                                         *)
(* Signal: no raised signal is overlooked, the main program goes on where  *)
(* it was interrupted, and a SIGKILL that is taken ends the task.          *)
(***************************************************************************)
EXTENDS Timer, Event, Signal, FiniteSetTheorems, OrderProofs

(* Timer callbacks. *)

(* There is one caller. *)
Alone(c) == Callers = {c}

(* The k-th of a sequence of slots, NULL behind its ends. *)
Place(s, k) == IF k \in 1 .. Len(s) THEN s[k] ELSE NULL

(* The structures of s are linked in this order, which is that of time. *)
Chained(s) ==
  /\ s \in Seq(Slots) /\ IsInjective(s)
  /\ \A i, j \in 1 .. Len(s) : i < j => when[s[i]] <= when[s[j]]
  /\ \A k \in 1 .. Len(s) : next[s[k]] = Place(s, k + 1) /\ prev[s[k]] = Place(s, k - 1)

(* Between two calls: the chain is that of the registered callbacks. *)
Whole(s) == Chained(s) /\ next_callback = Place(s, 1) /\ Range(s) = Registered

(* The insertion loop has come to the k-th structure. *)
Searching(s, k) ==
  /\ Chained(s) /\ next_callback = Place(s, 1) /\ Range(s) = Registered
  /\ k \in 1 .. Len(s) /\ iter = s[k] /\ next[tmp] = NULL /\ prev[tmp] = NULL
  /\ \A i \in 1 .. Len(s) : i < Len(s) => when[s[i]] <= when[tmp]

(* It has linked the new one before the last. *)
Linked(s) ==
  /\ Chained(s) /\ Range(s) = Registered \cup {tmp} /\ iter = NULL /\ Len(s) > 1
  /\ next_callback = s[1] \/ (Len(s) = 2 /\ next_callback = s[2])

(* It has linked the new one behind the last, and goes round in it. *)
Circling == iter = tmp /\ next[tmp] \in {NULL, tmp}

TimerTyped(c) ==
  /\ TimerTypeOK
  /\ calltick[c] \in 0 .. MaxTick + 1
  /\ callpc[c] # "idle" => nr[c] \in Slots
  /\ timercpu = "none" => iter = NULL
  /\ timercpu = "timer" /\ iter # NULL => tmp \in Slots
  /\ timercpu = c => callpc[c] = "filled" /\ tmp = nr[c] /\ next_callback # NULL

(* The slot that is being filled is the caller's own. *)
Owned(c) ==
  /\ callpc[c] = "chosen" => when[nr[c]] = TIMER_CANCEL
  /\ callpc[c] = "filled" => when[nr[c]] # TIMER_CANCEL /\ next[nr[c]] = NULL /\ prev[nr[c]] = NULL

(* The inductive invariant: the list is whole, or one of the two loops      *)
(* works on it, until a callback overtakes two.                             *)
Settled(c) == Owned(c) /\ \E s \in Seq(Slots) : Whole(s)
Inserting ==
  /\ when[tmp] # TIMER_CANCEL
  /\ \/ Circling
     \/ \E s \in Seq(Slots) : Linked(s)
     \/ \E s \in Seq(Slots) : \E k \in 1 .. Len(s) : Searching(s, k)
TimerInv(c) ==
  /\ TimerTyped(c)
  /\ ~ overtook /\ timercpu # c /\ iter = NULL => Settled(c)
  /\ ~ overtook /\ timercpu = c => Inserting

-----------------------------------------------------------------------------
(* The registered callbacks when there is one caller, before and after a    *)
(* step.                                                                    *)
RegisteredBy(w, p, n) == {i \in Slots : w[i] # TIMER_CANCEL /\ ~ (p = "filled" /\ i = n)}

LEMMA RegisteredIs ==
  ASSUME NEW c, Alone(c)
  PROVE  /\ Registered = RegisteredBy(when, callpc[c], nr[c])
         /\ Registered' = RegisteredBy(when', callpc'[c], nr'[c])
BY Zenon DEF Alone, Registered, RegisteredBy, Free

LEMMA TimerConstants ==
  ASSUME TimerAssumption, NEW c, Alone(c)
  PROVE  /\ c # "none" /\ c # "timer" /\ c # NULL /\ NULL \notin Slots /\ Callers = {c}
         /\ MaxTick \in Nat /\ MaxSlots \in Nat /\ MaxSlots > 0 /\ TIMER_CANCEL \in Nat
         /\ \A t \in 0 .. MaxTick + 1 : t \in 0 .. TIMER_CANCEL /\ t # TIMER_CANCEL
         /\ \A t \in 0 .. MaxTick : Later(t) \subseteq 0 .. MaxTick + 1
         /\ Slots \subseteq Nat
<1>1. /\ c \in Callers /\ MaxSlots \in Nat \ {0} /\ MaxTick \in Nat /\ Callers = {c}
      /\ NULL \notin Callers \cup Nat /\ Callers \cap {"none", "timer"} = {}
  BY Zenon DEF TimerAssumption, Alone
<1>2. c # "none" /\ c # "timer" /\ c # NULL
  BY <1>1, Zenon
<1>3. Slots \subseteq Nat /\ NULL \notin Slots
  BY <1>1 DEF Slots
<1>4. TIMER_CANCEL = MaxTick + 2
  BY Zenon DEF TIMER_CANCEL
<1>5. \A t \in 0 .. MaxTick + 1 : t \in 0 .. TIMER_CANCEL /\ t # TIMER_CANCEL
  BY <1>1, <1>4
<1>6. \A t \in 0 .. MaxTick : Later(t) \subseteq 0 .. MaxTick + 1
  BY <1>1 DEF Later
<1> QED BY <1>1, <1>2, <1>3, <1>4, <1>5, <1>6

-----------------------------------------------------------------------------
(* Each step keeps the types and what the call of timer_callback relies on. *)
LEMMA ChooseTyped ==
  ASSUME TimerAssumption, NEW c, Alone(c), TimerTyped(c), NEW tick \in Later(current_tick),
         ChooseSlot(c, tick)
  PROVE  TimerTyped(c)' /\ nr'[c] \in Free
<1>0. /\ c # "none" /\ c # "timer" /\ Callers = {c} /\ Slots \subseteq Nat
      /\ tick \in 0 .. MaxTick + 1
  BY TimerConstants, Zenon DEF TimerTyped, TimerTypeOK
<1>1. /\ timercpu = "none" /\ callpc[c] = "idle" /\ Free # {}
      /\ nr' = [nr EXCEPT ![c] = CHOOSE i \in Free : \A j \in Free : i <= j]
      /\ calltick' = [calltick EXCEPT ![c] = tick] /\ callpc' = [callpc EXCEPT ![c] = "chosen"]
      /\ UNCHANGED <<when, next, prev, next_callback, current_tick, timercpu, iter, tmp, overtook>>
  BY Zenon DEF ChooseSlot, listVars
<1>2. Free \subseteq Slots
  BY Zenon DEF Free
<1>3. Min(Free) \in Free
  BY <1>0, <1>1, <1>2, MinProperty, Zenon
<1>4. nr' = [nr EXCEPT ![c] = Min(Free)]
  BY <1>1, Zenon DEF Min
<1>5. nr'[c] = Min(Free) /\ nr' \in [Callers -> Pointer] /\ callpc'[c] = "chosen"
      /\ callpc' \in [Callers -> {"idle", "chosen", "filled"}]
  BY <1>0, <1>1, <1>2, <1>3, <1>4, Zenon DEF TimerTyped, TimerTypeOK, Pointer
<1>6. nr'[c] \in Slots
  BY <1>1, <1>2, <1>3, <1>5, Zenon
<1>7. TimerTypeOK'
  BY <1>1, <1>5, Zenon DEF TimerTyped, TimerTypeOK
<1>8. calltick'[c] \in 0 .. MaxTick + 1
  BY <1>0, <1>1 DEF TimerTyped
<1> QED BY <1>0, <1>1, <1>3, <1>5, <1>6, <1>7, <1>8, Zenon DEF TimerTyped

LEMMA FillTyped ==
  ASSUME TimerAssumption, NEW c, Alone(c), TimerTyped(c), FillSlot(c)
  PROVE  TimerTyped(c)'
<1>0. /\ c # "none" /\ Callers = {c} /\ calltick[c] \in 0 .. TIMER_CANCEL /\ calltick[c] # TIMER_CANCEL
  BY TimerConstants, Zenon DEF TimerTyped
<1>1. /\ timercpu = "none" /\ callpc[c] = "chosen" /\ nr[c] \in Slots
      /\ when' = [when EXCEPT ![nr[c]] = calltick[c]]
      /\ next' = [next EXCEPT ![nr[c]] = NULL] /\ prev' = [prev EXCEPT ![nr[c]] = NULL]
      /\ callpc' = [callpc EXCEPT ![c] = "filled"]
      /\ UNCHANGED <<next_callback, current_tick, timercpu, iter, tmp, nr, calltick, overtook>>
  BY Zenon DEF FillSlot, TimerTyped
<1>2. callpc'[c] = "filled" /\ callpc' \in [Callers -> {"idle", "chosen", "filled"}]
  BY <1>0, <1>1, Zenon DEF TimerTyped, TimerTypeOK
<1>3. /\ when' \in [Slots -> 0 .. TIMER_CANCEL] /\ when'[nr'[c]] = calltick[c]
      /\ next' \in [Slots -> Pointer] /\ next'[nr'[c]] = NULL
      /\ prev' \in [Slots -> Pointer] /\ prev'[nr'[c]] = NULL
  BY <1>0, <1>1, Zenon DEF TimerTyped, TimerTypeOK, Pointer
<1>4. TimerTypeOK'
  BY <1>1, <1>2, <1>3, Zenon DEF TimerTyped, TimerTypeOK
<1> QED BY <1>0, <1>1, <1>2, <1>3, <1>4, Zenon DEF TimerTyped

LEMMA BeginTyped ==
  ASSUME TimerAssumption, NEW c, Alone(c), TimerTyped(c), InsertBegins(c)
  PROVE  TimerTyped(c)'
<1>0. c # "none" /\ c # "timer" /\ Callers = {c} /\ NULL \notin Slots
  BY TimerConstants, Zenon
<1>1. /\ timercpu = "none" /\ callpc[c] = "filled" /\ nr[c] \in Slots
      /\ UNCHANGED <<when, next, prev, current_tick, nr, calltick>>
  BY Zenon DEF InsertBegins, TimerTyped
<1>2. CASE next_callback = NULL
  <2>1. /\ next_callback' = nr[c] /\ callpc' = [callpc EXCEPT ![c] = "idle"] /\ UNCHANGED <<timercpu, iter, tmp>>
    BY <1>2, Zenon DEF InsertBegins
  <2>2. callpc'[c] = "idle" /\ callpc' \in [Callers -> {"idle", "chosen", "filled"}]
    BY <1>0, <2>1, Zenon DEF TimerTyped, TimerTypeOK
  <2>3. TimerTypeOK'
    BY <1>1, <2>1, <2>2, Zenon DEF TimerTyped, TimerTypeOK, Pointer
  <2> QED BY <1>0, <1>1, <2>1, <2>2, <2>3, Zenon DEF TimerTyped
<1>3. CASE next_callback # NULL
  <2>1. /\ timercpu' = c /\ iter' = next_callback /\ tmp' = nr[c] /\ UNCHANGED <<next_callback, callpc>>
    BY <1>3, Zenon DEF InsertBegins
  <2>3. TimerTypeOK'
    BY <1>0, <1>1, <2>1, Zenon DEF TimerTyped, TimerTypeOK, Pointer
  <2> QED BY <1>0, <1>1, <1>3, <2>1, <2>3, Zenon DEF TimerTyped
<1> QED BY <1>2, <1>3, Zenon

(* What the body of the loops stores. *)
LEMMA LinkTyped ==
  ASSUME TimerTypeOK, NEW i \in Slots, NEW new \in Slots, Link(i, new)
  PROVE  next' \in [Slots -> Pointer] /\ prev' \in [Slots -> Pointer]
<1> DEFINE before == prev[i]
           next1 == IF before = NULL THEN next ELSE [next EXCEPT ![before] = new]
<1>1. before \in Pointer /\ next \in [Slots -> Pointer] /\ prev \in [Slots -> Pointer]
      /\ new \in Pointer /\ i \in Pointer
  BY Zenon DEF TimerTypeOK, Pointer
<1>2. next1 \in [Slots -> Pointer]
  BY <1>1, Zenon
<1>3. CASE /\ prev' = [prev EXCEPT ![new] = before, ![i] = new] /\ next' = [next1 EXCEPT ![new] = i]
  BY <1>1, <1>2, <1>3, Zenon
<1>4. CASE next' = [next EXCEPT ![i] = new] /\ prev' = [prev EXCEPT ![new] = i]
  BY <1>1, <1>4, Zenon
<1>5. CASE UNCHANGED <<next, prev>>
  BY <1>1, <1>5, Zenon
<1> QED BY <1>3, <1>4, <1>5, Zenon DEF Link

LEMMA LoopTyped ==
  ASSUME TimerAssumption, NEW c, Alone(c), TimerTyped(c), InsertStep(c) \/ ReinsertStep
  PROVE  TimerTyped(c)'
<1>0. c # "none" /\ c # "timer" /\ Callers = {c} /\ NULL \notin Slots
  BY TimerConstants, Zenon
<1>1. /\ iter # NULL /\ Link(iter, tmp) /\ (iter' = next'[iter] \/ iter' = iter)
      /\ timercpu = c \/ (timercpu = "timer" /\ iter' = iter)
      /\ UNCHANGED <<when, next_callback, current_tick, timercpu, tmp, callpc, nr, calltick, overtook>>
  BY Zenon DEF InsertStep, ReinsertStep, callVars
<1>2. iter \in Slots /\ tmp \in Slots
  BY <1>0, <1>1, Zenon DEF TimerTyped, TimerTypeOK, Pointer
<1>3. next' \in [Slots -> Pointer] /\ prev' \in [Slots -> Pointer]
  BY <1>1, <1>2, LinkTyped, Zenon DEF TimerTyped
<1>4. TimerTypeOK'
  BY <1>1, <1>2, <1>3, Zenon DEF TimerTyped, TimerTypeOK, Pointer
<1> QED BY <1>0, <1>1, <1>2, <1>4, Zenon DEF TimerTyped

LEMMA EndTyped ==
  ASSUME TimerAssumption, NEW c, Alone(c), TimerTyped(c), InsertEnds(c)
  PROVE  TimerTyped(c)'
<1>0. c # "none" /\ c # "timer" /\ Callers = {c}
  BY TimerConstants, Zenon
<1>1. /\ timercpu = c /\ iter = NULL /\ FixFirst /\ timercpu' = "none" /\ tmp' = NULL
      /\ callpc' = [callpc EXCEPT ![c] = "idle"]
      /\ UNCHANGED <<when, next, prev, current_tick, iter, nr, calltick, overtook>>
  BY Zenon DEF InsertEnds
<1>2. callpc'[c] = "idle" /\ callpc' \in [Callers -> {"idle", "chosen", "filled"}]
  BY <1>0, <1>1, Zenon DEF TimerTyped, TimerTypeOK
<1>3. next_callback' \in Pointer
  BY <1>0, <1>1, Zenon DEF TimerTyped, TimerTypeOK, Pointer, FixFirst
<1>4. TimerTypeOK'
  BY <1>1, <1>2, <1>3, Zenon DEF TimerTyped, TimerTypeOK, Pointer
<1> QED BY <1>0, <1>1, <1>2, <1>4, Zenon DEF TimerTyped

LEMMA TickTyped ==
  ASSUME TimerAssumption, NEW c, Alone(c), TimerTyped(c), TickBegins \/ TickEnds
  PROVE  TimerTyped(c)'
<1>0. c # "none" /\ c # "timer" /\ Callers = {c} /\ MaxTick \in Nat
  BY TimerConstants, Zenon
<1>1. /\ timercpu \in {"none", "timer"} /\ timercpu' \in {"none", "timer"} /\ iter = NULL /\ current_tick' \in 0 .. MaxTick
      /\ UNCHANGED <<when, next, prev, next_callback, iter, tmp, callpc, nr, calltick, overtook>>
  BY <1>0 DEF TickBegins, TickEnds, listVars, callVars, TimerTyped, TimerTypeOK
<1>2. TimerTypeOK'
  BY <1>1, Zenon DEF TimerTyped, TimerTypeOK
<1> QED BY <1>0, <1>1, <1>2, Zenon DEF TimerTyped

LEMMA FireTyped ==
  ASSUME TimerAssumption, NEW c, Alone(c), TimerTyped(c),
         NEW again \in Later(current_tick) \cup {TIMER_CANCEL}, Fire(again)
  PROVE  TimerTyped(c)'
<1>0. c # "none" /\ c # "timer" /\ Callers = {c} /\ again \in 0 .. TIMER_CANCEL
  BY TimerConstants DEF TimerTyped, TimerTypeOK
<1>1. /\ timercpu = "timer" /\ next_callback # NULL
      /\ when' = [when EXCEPT ![next_callback] = again] /\ next' = [next EXCEPT ![next_callback] = NULL]
      /\ prev' = [i \in Slots |-> IF i \in {next_callback, next[next_callback]} THEN NULL ELSE prev[i]]
      /\ next_callback' \in {next_callback, next[next_callback]}
      /\ (iter' = next[next_callback] /\ tmp' = next_callback) \/ UNCHANGED <<iter, tmp>>
      /\ UNCHANGED <<current_tick, timercpu, callpc, nr, calltick, overtook>>
  BY Zenon DEF Fire, FirstIsDue, callVars
<1>2. next_callback \in Slots /\ next[next_callback] \in Pointer
  BY <1>1, Zenon DEF TimerTyped, TimerTypeOK, Pointer
<1>3. when' \in [Slots -> 0 .. TIMER_CANCEL] /\ next' \in [Slots -> Pointer] /\ prev' \in [Slots -> Pointer]
  BY <1>0, <1>1, <1>2, Zenon DEF TimerTyped, TimerTypeOK, Pointer
<1>4. iter' \in Pointer /\ tmp' \in Pointer /\ next_callback' \in Pointer
  BY <1>1, <1>2, Zenon DEF TimerTyped, TimerTypeOK, Pointer
<1>5. TimerTypeOK'
  BY <1>1, <1>3, <1>4, Zenon DEF TimerTyped, TimerTypeOK
<1> QED BY <1>0, <1>1, <1>2, <1>5, Zenon DEF TimerTyped

-----------------------------------------------------------------------------
(* A chain whose structures are left alone stays one. *)
LEMMA ChainKept ==
  ASSUME NEW s, Chained(s),
         \A i \in 1 .. Len(s) : when'[s[i]] = when[s[i]] /\ next'[s[i]] = next[s[i]]
                                /\ prev'[s[i]] = prev[s[i]]
  PROVE  Chained(s)'
BY DEF Chained, Place

LEMMA ChainRange ==
  ASSUME NEW s \in Seq(Slots)
  PROVE  /\ \A i \in 1 .. Len(s) : s[i] \in Range(s) /\ s[i] \in Slots
         /\ \A x \in Range(s) : \E i \in 1 .. Len(s) : s[i] = x
BY DEF Range

LEMMA ChooseSettles ==
  ASSUME TimerAssumption, NEW c, Alone(c), TimerInv(c), NEW tick \in Later(current_tick),
         ChooseSlot(c, tick)
  PROVE  TimerInv(c)'
<1>1. TimerTyped(c)' /\ nr'[c] \in Free
  BY ChooseTyped, Zenon DEF TimerInv
<1>2. c # "none" /\ c # "timer" /\ Callers = {c}
  BY TimerConstants, Zenon
<1>3. /\ timercpu = "none" /\ iter = NULL /\ callpc[c] = "idle" /\ callpc'[c] = "chosen"
      /\ UNCHANGED <<when, next, prev, next_callback, timercpu, iter, tmp, overtook>>
  BY <1>2, Zenon DEF ChooseSlot, listVars, TimerInv, TimerTyped, TimerTypeOK
<1>4. Owned(c)'
  BY <1>1, <1>3, Zenon DEF Owned, Free
<1>5. Registered' = Registered
  BY <1>3, RegisteredIs, Zenon DEF RegisteredBy
<1>6. \A s : Whole(s) => Whole(s)'
  BY <1>3, <1>5, Zenon DEF Whole, Chained
<1> QED BY <1>1, <1>2, <1>3, <1>4, <1>6, Zenon DEF TimerInv, Settled

LEMMA FillSettles ==
  ASSUME TimerAssumption, NEW c, Alone(c), TimerInv(c), FillSlot(c)
  PROVE  TimerInv(c)'
<1>1. TimerTyped(c)'
  BY FillTyped, Zenon DEF TimerInv
<1>2. /\ c # "none" /\ Callers = {c} /\ calltick[c] \in 0 .. TIMER_CANCEL /\ calltick[c] # TIMER_CANCEL
  BY TimerConstants, Zenon DEF TimerInv, TimerTyped
<1>3. /\ timercpu = "none" /\ iter = NULL /\ callpc[c] = "chosen" /\ callpc'[c] = "filled" /\ nr[c] \in Slots
      /\ when' = [when EXCEPT ![nr[c]] = calltick[c]]
      /\ next' = [next EXCEPT ![nr[c]] = NULL] /\ prev' = [prev EXCEPT ![nr[c]] = NULL]
      /\ UNCHANGED <<next_callback, timercpu, iter, nr, overtook>>
  BY <1>2, Zenon DEF FillSlot, TimerInv, TimerTyped, TimerTypeOK
<1>4. when \in [Slots -> 0 .. TIMER_CANCEL] /\ next \in [Slots -> Pointer] /\ prev \in [Slots -> Pointer]
  BY Zenon DEF TimerInv, TimerTyped, TimerTypeOK
<1>5. /\ when'[nr[c]] = calltick[c] /\ next'[nr[c]] = NULL /\ prev'[nr[c]] = NULL
      /\ \A i \in Slots : i # nr[c] => when'[i] = when[i] /\ next'[i] = next[i] /\ prev'[i] = prev[i]
  BY <1>3, <1>4, Zenon
<1>6. Owned(c)'
  BY <1>2, <1>3, <1>5, Zenon DEF Owned
<1>7. ASSUME ~ overtook PROVE \E s \in Seq(Slots) : Whole(s)'
  <2>1. when[nr[c]] = TIMER_CANCEL
    BY <1>2, <1>3, <1>7, Zenon DEF TimerInv, Settled, Owned
  <2>2. PICK s \in Seq(Slots) : Whole(s)
    BY <1>2, <1>3, <1>7, Zenon DEF TimerInv, Settled
  <2>3. Registered' = Registered /\ nr[c] \notin Registered
    BY <1>3, <1>5, <2>1, RegisteredIs, SMTT(30), ZenonT(30) DEF RegisteredBy
  <2>4. \A i \in 1 .. Len(s) : s[i] \in Slots /\ s[i] # nr[c]
    BY <2>2, <2>3, ChainRange, Zenon DEF Whole
  <2>5. Chained(s)'
    BY <1>5, <2>2, <2>4, ChainKept, Zenon DEF Whole
  <2> QED BY <1>3, <2>2, <2>3, <2>5, Zenon DEF Whole
<1> QED BY <1>1, <1>2, <1>3, <1>6, <1>7, Zenon DEF TimerInv, Settled

(* Two that are later are more than one. *)
LEMMA TwoLater ==
  ASSUME NEW S, IsFiniteSet(S), ~ (Cardinality(S) > 1), NEW a \in S, NEW b \in S
  PROVE  a = b
<1> SUFFICES ASSUME a # b PROVE FALSE
  BY Zenon
<1>1. IsFiniteSet(S \ {a}) /\ Cardinality(S \ {a}) = Cardinality(S) - 1
  BY FS_RemoveElement, Zenon
<1>2. Cardinality(S) \in Nat /\ Cardinality(S \ {a}) \in Nat
  BY <1>1, FS_CardinalityType, Zenon
<1>3. Cardinality(S \ {a}) = 0 \/ Cardinality(S) = 0
  BY <1>1, <1>2
<1>4. S \ {a} = {} \/ S = {}
  BY <1>1, <1>3, FS_EmptySet, Zenon
<1> QED BY <1>4, Zenon

LEMMA BeginSettles ==
  ASSUME TimerAssumption, NEW c, Alone(c), TimerInv(c), InsertBegins(c)
  PROVE  TimerInv(c)'
<1>1. TimerTyped(c)'
  BY BeginTyped DEF TimerInv
<1>2. c # "none" /\ c # "timer" /\ Callers = {c} /\ NULL \notin Slots
  BY TimerConstants
<1>3. /\ timercpu = "none" /\ iter = NULL /\ callpc[c] = "filled" /\ nr[c] \in Slots
      /\ overtook' = (overtook \/ Cardinality({i \in Registered : when[i] > when[nr[c]]}) > 1)
      /\ UNCHANGED <<when, next, prev, nr>>
  BY Zenon DEF InsertBegins, TimerInv, TimerTyped
<1> SUFFICES ASSUME ~ overtook' PROVE TimerInv(c)'
  BY <1>1, Zenon DEF TimerInv
<1>4. ~ overtook /\ ~ (Cardinality({i \in Registered : when[i] > when[nr[c]]}) > 1)
  BY <1>3, Zenon
<1>5. PICK s \in Seq(Slots) : Whole(s)
  BY <1>2, <1>3, <1>4, Zenon DEF TimerInv, Settled
<1>6. when[nr[c]] # TIMER_CANCEL /\ next[nr[c]] = NULL /\ prev[nr[c]] = NULL
  BY <1>2, <1>3, <1>4, Zenon DEF TimerInv, Settled, Owned
<1>7. nr[c] \notin Registered
  BY <1>3, RegisteredIs, Zenon DEF RegisteredBy
<1>8. CASE next_callback = NULL
  <2>1. /\ next_callback' = nr[c] /\ callpc'[c] = "idle" /\ UNCHANGED <<timercpu, iter, tmp>>
    BY <1>2, <1>8, Zenon DEF InsertBegins, TimerInv, TimerTyped, TimerTypeOK
  <2>2. s = <<>>
    BY <1>2, <1>5, <1>8 DEF Whole, Place
  <2>3. Registered = {}
    BY <1>5, <2>2 DEF Whole, Range
  <2>4. Registered' = {nr[c]}
    BY <1>3, <1>6, <2>1, <2>3, RegisteredIs DEF RegisteredBy
  <2>5. PICK q \in Seq(Slots) : Len(q) = 1 /\ q[1] = nr[c] /\ IsInjective(q) /\ Range(q) = {nr[c]}
    <3>1. /\ <<nr[c]>> \in Seq(Slots) /\ Len(<<nr[c]>>) = 1 /\ IsInjective(<<nr[c]>>)
          /\ Range(<<nr[c]>>) = {nr[c]}
      BY <1>3 DEF IsInjective, Range
    <3> QED BY <3>1, Zenon
  <2>6. Chained(q)'
    BY <1>3, <1>6, <2>5 DEF Chained, Place
  <2>7. Whole(q)'
    BY <2>1, <2>4, <2>5, <2>6 DEF Whole, Place
  <2>8. Owned(c)'
    BY <2>1, Zenon DEF Owned
  <2> QED BY <1>1, <1>2, <1>3, <2>1, <2>5, <2>7, <2>8, Zenon DEF TimerInv, Settled
<1>9. CASE next_callback # NULL
  <2>1. /\ timercpu' = c /\ iter' = next_callback /\ tmp' = nr[c] /\ UNCHANGED <<next_callback, callpc>>
    BY <1>9, Zenon DEF InsertBegins
  <2>2. Len(s) \in Nat /\ 1 \in 1 .. Len(s) /\ iter' = s[1]
    BY <1>5, <1>9, <2>1 DEF Whole, Place
  <2>3. Registered' = Registered
    BY <1>3, <2>1, RegisteredIs, Zenon DEF RegisteredBy
  <2>4. ASSUME NEW i \in 1 .. Len(s), i < Len(s) PROVE when[s[i]] <= when[nr[c]]
    <3> DEFINE S == {j \in Registered : when[j] > when[nr[c]]}
    <3>1. IsFiniteSet(S)
      <4>1. S \subseteq 1 .. MaxSlots
        BY RegisteredIs, Zenon DEF RegisteredBy, Slots
      <4> HIDE DEF S
      <4>2. IsFiniteSet(1 .. MaxSlots)
        BY FS_Interval, TimerConstants
      <4> QED BY <4>1, <4>2, FS_Subset, Zenon
    <3>2. ~ (Cardinality(S) > 1)
      BY <1>4, Zenon
    <3>3. /\ s[i] \in Registered /\ s[Len(s)] \in Registered /\ when[s[i]] <= when[s[Len(s)]]
          /\ s[i] # s[Len(s)] /\ s[i] \in Slots /\ s[Len(s)] \in Slots
      <4>1. Len(s) \in 1 .. Len(s) /\ i # Len(s)
        BY <2>2, <2>4
      <4> QED BY <1>5, <2>4, <4>1, ChainRange DEF Whole, Chained, IsInjective
    <3>4. when[s[i]] \in Nat /\ when[s[Len(s)]] \in Nat /\ when[nr[c]] \in Nat
      <4>1. when \in [Slots -> 0 .. TIMER_CANCEL] /\ nr[c] \in Slots
        BY <1>3, Zenon DEF TimerInv, TimerTyped, TimerTypeOK
      <4>2. 0 .. TIMER_CANCEL \subseteq Nat
        BY TimerConstants
      <4> QED BY <3>3, <4>1, <4>2, Zenon
    <3>5. s[i] \notin S \/ s[Len(s)] \notin S
      <4> HIDE DEF S
      <4> QED BY <3>1, <3>2, <3>3, TwoLater, Zenon
    <3> QED BY <3>3, <3>4, <3>5
  <2>5. Chained(s)'
    BY <1>3, <1>5, ChainKept, Zenon DEF Whole
  <2>6. Searching(s, 1)'
    BY <1>3, <1>5, <1>6, <2>1, <2>2, <2>3, <2>4, <2>5, Zenon DEF Whole, Searching
  <2> QED BY <1>1, <1>3, <1>6, <2>1, <2>2, <2>6, Zenon DEF TimerInv, Inserting
<1> QED BY <1>8, <1>9, Zenon

(* The new one is linked before the last. *)
LEMMA BeforeLast ==
  ASSUME TimerTypeOK, NULL \notin Slots, NEW s, NEW k, Searching(s, k), tmp \in Slots, tmp \notin Range(s),
         when[s[k]] > when[tmp], Link(iter, tmp), iter' = next'[iter],
         UNCHANGED <<when, next_callback, tmp>>, Registered' = Registered
  PROVE  \E q \in Seq(Slots) : Linked(q)'
<1> DEFINE n == Len(s)
<1>1. /\ s \in Seq(Slots) /\ n \in Nat /\ n > 0 /\ IsInjective(s) /\ DOMAIN s = 1 .. n /\ iter = s[k]
      /\ \A i \in 1 .. n : s[i] \in Slots /\ s[i] # tmp /\ when[s[i]] \in Int
      /\ when[tmp] \in Int
  <2>1. s \in Seq(Slots) /\ n \in Nat /\ k \in 1 .. n /\ IsInjective(s) /\ DOMAIN s = 1 .. n /\ iter = s[k]
    BY DEF Searching, Chained, n
  <2>2. \A i \in Slots : when[i] \in Int
    BY DEF TimerTypeOK
  <2> QED BY <2>1, <2>2, ChainRange
<1>2. k = n
  <2>1. k \in 1 .. n /\ (k < n => when[s[k]] <= when[tmp])
    BY Zenon DEF Searching
  <2> HIDE DEF n
  <2> QED BY <1>1, <2>1
<1> DEFINE before == Place(s, n - 1)
<1>3. n \in 1 .. n /\ prev[s[n]] = before /\ next[s[n]] = Place(s, n + 1)
  BY <1>1, <1>2, Zenon DEF Searching, Chained
<1>0. n \in Nat /\ n > 0
  BY <1>1, Zenon
<1> HIDE DEF n
<1>4. /\ prev' = [prev EXCEPT ![tmp] = before, ![s[n]] = tmp]
      /\ next' = [(IF before = NULL THEN next ELSE [next EXCEPT ![before] = tmp]) EXCEPT ![tmp] = s[n]]
  <2>1. ~ (when[s[n]] <= when[tmp])
    BY <1>1, <1>2, <1>3
  <2> HIDE DEF before
  <2> QED BY <1>1, <1>2, <1>3, <2>1, Zenon DEF Link
<1>5. before = NULL \/ (before \in Slots /\ before # tmp /\ before = s[n - 1] /\ n - 1 \in 1 .. n)
  BY <1>0, <1>1, Zenon DEF Place, n
<1>6. next \in [Slots -> Pointer] /\ prev \in [Slots -> Pointer]
  BY Zenon DEF TimerTypeOK
<1> HIDE DEF before
<1>7. /\ prev'[tmp] = before /\ prev'[s[n]] = tmp /\ next'[tmp] = s[n]
      /\ before # NULL => next'[before] = tmp
      /\ \A x \in Slots : x # tmp /\ x # s[n] => prev'[x] = prev[x]
      /\ \A x \in Slots : x # tmp /\ x # before => next'[x] = next[x]
  BY <1>1, <1>3, <1>4, <1>5, <1>6, Zenon
<1>8. PICK q : q = [i \in 1 .. n + 1 |-> IF i < n THEN s[i] ELSE IF i = n THEN tmp ELSE s[n]]
  BY Zenon
<1>9. q \in Seq(Slots) /\ Len(q) = n + 1
  BY <1>0, <1>1, <1>3, <1>8
<1>10. /\ \A i \in 1 .. n - 1 : q[i] = s[i] /\ i \in 1 .. n
       /\ q[n] = tmp /\ q[n + 1] = s[n] /\ DOMAIN q = 1 .. n + 1
  BY <1>0, <1>8
<1>11. \A i \in 1 .. n + 1 : i \in 1 .. n - 1 \/ i = n \/ i = n + 1
  BY <1>0
<1>12. \A i, j \in 1 .. n : s[i] = s[j] => i = j
  BY <1>1, Zenon DEF IsInjective
<1>13. IsInjective(q)
  <2>1. ASSUME NEW i \in 1 .. n + 1, NEW j \in 1 .. n + 1, q[i] = q[j] PROVE i = j
    <3>1. CASE i \in 1 .. n - 1 /\ j \in 1 .. n - 1
      BY <1>10, <1>12, <2>1, <3>1, Zenon
    <3>2. CASE i \in 1 .. n - 1 /\ j = n
      BY <1>1, <1>10, <2>1, <3>2, Zenon
    <3>3. CASE i \in 1 .. n - 1 /\ j = n + 1
      BY <1>1, <1>3, <1>10, <1>12, <2>1, <3>3
    <3>4. CASE i = n /\ j \in 1 .. n - 1
      BY <1>1, <1>10, <2>1, <3>4, Zenon
    <3>5. CASE i = n + 1 /\ j \in 1 .. n - 1
      BY <1>1, <1>3, <1>10, <1>12, <2>1, <3>5
    <3>6. CASE i \in {n, n + 1} /\ j \in {n, n + 1}
      BY <1>0, <1>1, <1>3, <1>10, <2>1, <3>6
    <3> QED BY <1>11, <3>1, <3>2, <3>3, <3>4, <3>5, <3>6, Zenon
  <2> QED BY <1>10, <2>1, Zenon DEF IsInjective
<1>14. Range(q) = Range(s) \cup {tmp}
  <2>1. \A x \in Range(q) : x \in Range(s) \cup {tmp}
    BY <1>1, <1>3, <1>10, <1>11 DEF Range
  <2>2. tmp \in Range(q)
    BY <1>0, <1>10, <1>11 DEF Range
  <2>3. ASSUME NEW i \in 1 .. n PROVE s[i] \in Range(q)
    <3>1. CASE i = n
      BY <1>1, <1>10, <3>1 DEF Range
    <3>2. CASE i # n
      <4>1. i \in 1 .. n - 1 /\ i \in 1 .. n + 1
        BY <1>0, <3>2
      <4> QED BY <1>10, <4>1, Zenon DEF Range
    <3> QED BY <3>1, <3>2, Zenon
  <2> QED BY <1>1, <2>1, <2>2, <2>3, Zenon DEF Range
<1>15. \A i, j \in 1 .. n + 1 : i < j => when'[q[i]] <= when'[q[j]]
  <2>1. \A i, j \in 1 .. n : i < j => when[s[i]] <= when[s[j]]
    BY Zenon DEF Searching, Chained, n
  <2>2. \A i \in 1 .. n : i < n => when[s[i]] <= when[tmp]
    BY Zenon DEF Searching, n
  <2>3. when[tmp] <= when[s[n]] /\ when' = when
    BY <1>1, <1>2, <1>3
  <2> SUFFICES ASSUME NEW i \in 1 .. n + 1, NEW j \in 1 .. n + 1, i < j
               PROVE  when[q[i]] <= when[q[j]]
    BY <2>3, Zenon
  <2>4. CASE i \in 1 .. n - 1 /\ j \in 1 .. n - 1
    BY <1>10, <2>1, <2>4, Zenon
  <2>5. CASE i \in 1 .. n - 1 /\ j = n
    BY <1>1, <1>10, <2>2, <2>5, Zenon
  <2>6. CASE i \in 1 .. n - 1 /\ j = n + 1
    BY <1>1, <1>3, <1>10, <2>1, <2>6
  <2>7. CASE i = n /\ j = n + 1
    BY <1>10, <2>3, <2>7, Zenon
  <2>8. ~ (i = n + 1) /\ (i = n => j = n + 1)
    BY <1>0
  <2> QED BY <1>11, <2>4, <2>5, <2>6, <2>7, <2>8, Zenon
<1>16. ASSUME NEW i \in 1 .. n + 1
       PROVE  next'[q[i]] = Place(q, i + 1) /\ prev'[q[i]] = Place(q, i - 1)
  <2>0. \A j \in 1 .. n : next[s[j]] = Place(s, j + 1) /\ prev[s[j]] = Place(s, j - 1)
    BY Zenon DEF Searching, Chained, n
  <2>1. CASE i \in 1 .. n - 1
    <3>1. q[i] = s[i] /\ i \in 1 .. n /\ s[i] \in Slots /\ s[i] # tmp /\ s[i] # s[n]
      BY <1>1, <1>3, <1>10, <1>12, <2>1, Zenon
    <3>2. prev'[q[i]] = Place(q, i - 1)
      <4>1. prev'[q[i]] = Place(s, i - 1)
        BY <1>7, <2>0, <3>1, Zenon
      <4> QED BY <1>1, <1>9, <1>10, <2>1, <4>1 DEF Place
    <3>3. CASE i = n - 1
      <4>1. before = s[i] /\ before # NULL
        BY <1>1, <3>1, <3>3, Zenon DEF before, Place, n
      <4> QED BY <1>1, <1>7, <1>9, <1>10, <3>1, <3>2, <3>3, <4>1 DEF Place
    <3>4. CASE i # n - 1
      <4>1. before # s[i]
        BY <1>1, <1>5, <1>12, <3>1, <3>4, Zenon
      <4>2. next'[q[i]] = Place(s, i + 1)
        BY <1>7, <2>0, <3>1, <4>1, Zenon
      <4>3. i + 1 \in 1 .. n - 1
        BY <1>0, <2>1, <3>4
      <4> QED BY <1>1, <1>9, <1>10, <3>2, <4>2, <4>3 DEF Place
    <3> QED BY <3>3, <3>4, Zenon
  <2>2. CASE i = n
    <3>1. before = Place(q, n - 1)
      BY <1>1, <1>9, <1>10 DEF before, Place, n
    <3> QED BY <1>1, <1>7, <1>9, <1>10, <2>2, <3>1 DEF Place
  <2>3. CASE i = n + 1
    <3>1. s[n] # before /\ s[n] # tmp /\ s[n] \in Slots
      <4>1. n - 1 # n
        BY <1>0
      <4> QED BY <1>1, <1>3, <1>5, <1>12, <4>1, Zenon
    <3>2. next'[s[n]] = NULL
      BY <1>1, <1>3, <1>7, <3>1 DEF Place, n
    <3> QED BY <1>1, <1>7, <1>9, <1>10, <2>3, <3>2 DEF Place
  <2> QED BY <1>11, <2>1, <2>2, <2>3, Zenon
<1>17. Chained(q)'
  BY <1>9, <1>13, <1>15, <1>16, Zenon DEF Chained, Place
<1>18. iter' = NULL
  <2>1. s[n] # before /\ s[n] # tmp /\ s[n] \in Slots
    <3>1. n - 1 # n
      BY <1>0
    <3> QED BY <1>1, <1>3, <1>5, <1>12, <3>1
  <2> QED BY <1>1, <1>2, <1>3, <1>7, <2>1 DEF Place, n
<1>19. next_callback = q[1] \/ (n + 1 = 2 /\ next_callback = q[2])
  <2>1. next_callback = s[1]
    BY <1>0 DEF Searching, Place, n
  <2>2. CASE n = 1
    BY <1>10, <2>1, <2>2
  <2>3. CASE n # 1
    BY <1>1, <1>10, <2>1, <2>3
  <2> QED BY <2>2, <2>3, Zenon
<1>20. Range(q) = Registered' \cup {tmp'}
  BY <1>14, Zenon DEF Searching
<1>21. Linked(q)'
  BY <1>1, <1>9, <1>17, <1>18, <1>19, <1>20 DEF Linked
<1> QED BY <1>9, <1>21, Zenon

LEMMA LoopSettles ==
  ASSUME TimerAssumption, NEW c, Alone(c), TimerInv(c), InsertStep(c)
  PROVE  TimerInv(c)'
<1>1. TimerTyped(c)'
  BY LoopTyped, Zenon DEF TimerInv
<1>2. c # "none" /\ c # "timer" /\ Callers = {c} /\ NULL \notin Slots
  BY TimerConstants
<1>3. /\ timercpu = c /\ timercpu' = c /\ iter # NULL /\ Link(iter, tmp) /\ iter' = next'[iter]
      /\ callpc[c] = "filled" /\ tmp = nr[c]
      /\ UNCHANGED <<when, next_callback, timercpu, tmp, callpc, nr, overtook>>
  BY <1>2, Zenon DEF InsertStep, callVars, TimerInv, TimerTyped
<1>4. TimerTypeOK /\ tmp \in Slots /\ iter \in Slots
  BY <1>3, Zenon DEF TimerInv, TimerTyped, TimerTypeOK, Pointer
<1> SUFFICES ASSUME ~ overtook PROVE Inserting'
  BY <1>1, <1>2, <1>3, Zenon DEF TimerInv
<1>5. Inserting /\ when'[tmp'] # TIMER_CANCEL
  BY <1>3, Zenon DEF TimerInv, Inserting
<1>6. Registered' = Registered /\ tmp \notin Registered
  BY <1>3, RegisteredIs, Zenon DEF RegisteredBy
<1>7. next \in [Slots -> Pointer] /\ prev \in [Slots -> Pointer] /\ when[tmp] \in Int
  BY <1>4 DEF TimerTypeOK
<1>8. CASE Circling
  <2>1. iter = tmp /\ (next[tmp] = NULL \/ next[tmp] = tmp)
    BY <1>8, Zenon DEF Circling
  <2>2. when[tmp] <= when[tmp] /\ ~ (when[tmp] > when[tmp])
    BY <1>7
  <2>3. next'[tmp] = tmp
    <3>1. CASE next[tmp] = NULL
      <4>1. next' = [next EXCEPT ![tmp] = tmp]
        BY <1>3, <2>1, <2>2, <3>1, Zenon DEF Link
      <4> QED BY <1>4, <1>7, <4>1, Zenon
    <3>2. CASE next[tmp] = tmp
      <4>1. next' = next
        BY <1>2, <1>3, <1>4, <2>1, <2>2, <3>2, Zenon DEF Link
      <4> QED BY <3>2, <4>1, Zenon
    <3> QED BY <2>1, <3>1, <3>2, Zenon
  <2>4. Circling'
    BY <1>3, <2>1, <2>3, Zenon DEF Circling
  <2> QED BY <1>5, <2>4, Zenon DEF Inserting
<1>9. CASE \E s \in Seq(Slots) : \E k \in 1 .. Len(s) : Searching(s, k)
  <2>1. PICK s \in Seq(Slots) : \E k \in 1 .. Len(s) : Searching(s, k)
    BY <1>9, Zenon
  <2>2. PICK k \in 1 .. Len(s) : Searching(s, k)
    BY <2>1, Zenon
  <2>3. tmp \notin Range(s) /\ iter = s[k] /\ s[k] # tmp /\ when[s[k]] \in Int /\ Len(s) \in Nat
    BY <1>4, <1>6, <2>1, <2>2, ChainRange DEF Searching, TimerTypeOK
  <2>4. next[s[k]] = Place(s, k + 1) /\ next[tmp] = NULL /\ prev[tmp] = NULL
    BY <2>2, Zenon DEF Searching, Chained
  <2>5. CASE when[s[k]] > when[tmp]
    <3>1. \E q \in Seq(Slots) : Linked(q)'
      BY <1>2, <1>3, <1>4, <1>6, <2>2, <2>3, <2>5, BeforeLast, Zenon
    <3> QED BY <1>5, <3>1, Zenon DEF Inserting
  <2>6. CASE when[s[k]] <= when[tmp] /\ next[s[k]] = NULL
    <3>1. next' = [next EXCEPT ![s[k]] = tmp]
      <4>1. ~ (when[s[k]] > when[tmp])
        BY <1>7, <2>3, <2>6
      <4> QED BY <1>3, <2>3, <2>6, <4>1, Zenon DEF Link
    <3>2. next'[s[k]] = tmp /\ next'[tmp] = NULL
      BY <1>4, <1>7, <2>3, <2>4, <3>1, Zenon
    <3>3. Circling'
      BY <1>3, <2>3, <3>2, Zenon DEF Circling
    <3> QED BY <1>5, <3>3, Zenon DEF Inserting
  <2>7. CASE when[s[k]] <= when[tmp] /\ next[s[k]] # NULL
    <3>1. next' = next /\ prev' = prev
      <4>1. ~ (when[s[k]] > when[tmp])
        BY <1>7, <2>3, <2>7
      <4> QED BY <1>3, <2>3, <2>7, <4>1, Zenon DEF Link
    <3>2. k + 1 \in 1 .. Len(s) /\ iter' = s[k + 1]
      BY <1>3, <2>3, <2>4, <2>7, <3>1, Zenon DEF Place
    <3>3. Chained(s)'
      BY <1>3, <2>2, <3>1, ChainKept, Zenon DEF Searching
    <3>4. Searching(s, k + 1)'
      BY <1>3, <1>6, <2>2, <3>1, <3>2, <3>3, Zenon DEF Searching
    <3> QED BY <1>5, <2>1, <3>2, <3>4, Zenon DEF Inserting
  <2> QED BY <1>7, <2>3, <2>5, <2>6, <2>7
<1>10. ~ \E s \in Seq(Slots) : Linked(s)
  BY <1>3, Zenon DEF Linked
<1> QED BY <1>5, <1>8, <1>9, <1>10, Zenon DEF Inserting

LEMMA EndSettles ==
  ASSUME TimerAssumption, NEW c, Alone(c), TimerInv(c), InsertEnds(c)
  PROVE  TimerInv(c)'
<1>1. TimerTyped(c)'
  BY EndTyped DEF TimerInv
<1>2. c # "none" /\ c # "timer" /\ Callers = {c} /\ NULL \notin Slots
  BY TimerConstants
<1>3. /\ timercpu = c /\ iter = NULL /\ FixFirst /\ timercpu' = "none" /\ callpc[c] = "filled" /\ tmp = nr[c]
      /\ callpc'[c] = "idle" /\ nr[c] \in Slots
      /\ UNCHANGED <<when, next, prev, iter, nr, overtook>>
  BY <1>2, Zenon DEF InsertEnds, TimerInv, TimerTyped, TimerTypeOK
<1> SUFFICES ASSUME ~ overtook PROVE Settled(c)'
  BY <1>1, <1>2, <1>3, Zenon DEF TimerInv
<1>4. Inserting
  BY <1>3, Zenon DEF TimerInv
<1>5. ~ Circling
  BY <1>2, <1>3, Zenon DEF Circling
<1>6. \A s \in Seq(Slots) : \A k \in 1 .. Len(s) : ~ Searching(s, k)
  BY <1>2, <1>3, ChainRange DEF Searching
<1>7. PICK s \in Seq(Slots) : Linked(s)
  BY <1>4, <1>5, <1>6, Zenon DEF Inserting
<1>8. Registered' = Registered \cup {tmp}
  BY <1>3, <1>4, RegisteredIs, Zenon DEF RegisteredBy, Inserting
<1>9. /\ Chained(s) /\ Len(s) > 1 /\ Len(s) \in Nat
      /\ next_callback = s[1] \/ (Len(s) = 2 /\ next_callback = s[2])
      /\ s[1] \in Slots /\ prev[s[1]] = NULL /\ prev[s[2]] = s[1]
  BY <1>7 DEF Linked, Chained, Place
<1>10. next_callback' = s[1]
  BY <1>2, <1>3, <1>9, Zenon DEF FixFirst
<1>11. Chained(s)'
  BY <1>3, <1>9, ChainKept, Zenon
<1>12. Whole(s)'
  BY <1>7, <1>8, <1>9, <1>10, <1>11 DEF Whole, Place, Linked
<1>13. Owned(c)'
  BY <1>3, Zenon DEF Owned
<1> QED BY <1>12, <1>13, Zenon DEF Settled

LEMMA TickSettles ==
  ASSUME TimerAssumption, NEW c, Alone(c), TimerInv(c), TickBegins \/ TickEnds \/ ReinsertStep
  PROVE  TimerInv(c)'
<1>1. TimerTyped(c)'
  BY TickTyped, LoopTyped, Zenon DEF TimerInv
<1>2. c # "none" /\ c # "timer" /\ Callers = {c}
  BY TimerConstants, Zenon
<1>3. CASE ReinsertStep
  BY <1>1, <1>2, <1>3, Zenon DEF TimerInv, ReinsertStep
<1>4. CASE TickBegins \/ TickEnds
  <2>1. /\ timercpu \in {"none", "timer"} /\ timercpu' \in {"none", "timer"} /\ iter = NULL
        /\ UNCHANGED <<when, next, prev, next_callback, iter, tmp, callpc, nr, calltick, overtook>>
    BY <1>4, Zenon DEF TickBegins, TickEnds, listVars, callVars, TimerInv, TimerTyped
  <2>2. Registered' = Registered
    BY <2>1, RegisteredIs, Zenon
  <2>3. \A s : Whole(s) => Whole(s)'
    BY <2>1, <2>2, Zenon DEF Whole, Chained
  <2>4. Owned(c) => Owned(c)'
    BY <2>1, Zenon DEF Owned
  <2> QED BY <1>1, <1>2, <2>1, <2>3, <2>4, Zenon DEF TimerInv, Settled
<1> QED BY <1>3, <1>4, Zenon

(* The first callback fires, and leaves the list or stays alone in it. *)
LEMMA FireSettles ==
  ASSUME TimerAssumption, NEW c, Alone(c), TimerInv(c),
         NEW again \in Later(current_tick) \cup {TIMER_CANCEL}, Fire(again)
  PROVE  TimerInv(c)'
<1>1. TimerTyped(c)'
  BY FireTyped, Zenon DEF TimerInv
<1>2. c # "none" /\ c # "timer" /\ Callers = {c} /\ NULL \notin Slots
  BY TimerConstants, Zenon
<1> DEFINE first == next_callback
           rest == next[first]
<1>3. /\ timercpu = "timer" /\ iter = NULL /\ first # NULL
      /\ when' = [when EXCEPT ![first] = again] /\ next' = [next EXCEPT ![first] = NULL]
      /\ prev' = [i \in Slots |-> IF i \in {first, rest} THEN NULL ELSE prev[i]]
      /\ next_callback' = IF rest = NULL /\ again # TIMER_CANCEL THEN first ELSE rest
      /\ rest # NULL /\ again # TIMER_CANCEL => iter' = rest
      /\ UNCHANGED <<timercpu, callpc, nr, calltick, overtook>>
  BY Zenon DEF Fire, FirstIsDue, callVars
<1> SUFFICES ASSUME ~ overtook, rest = NULL \/ again = TIMER_CANCEL PROVE Settled(c)'
  BY <1>1, <1>2, <1>3, Zenon DEF TimerInv
<1>4. Settled(c)
  BY <1>2, <1>3, Zenon DEF TimerInv
<1>5. PICK s \in Seq(Slots) : Whole(s)
  BY <1>4, Zenon DEF Settled
<1>6. /\ Len(s) \in Nat /\ 1 \in 1 .. Len(s) /\ first = s[1] /\ s # <<>> /\ rest = Place(s, 2)
      /\ Chained(s) /\ IsInjective(s) /\ Range(s) = Registered /\ DOMAIN s = 1 .. Len(s)
      /\ \A i \in 1 .. Len(s) : s[i] \in Slots /\ s[i] \in Registered
  <2>1. Len(s) \in Nat /\ 1 \in 1 .. Len(s) /\ first = s[1]
    BY <1>3, <1>5 DEF Whole, Place
  <2>2. rest = Place(s, 1 + 1)
    BY <1>5, <2>1, Zenon DEF Whole, Chained
  <2>3. s # <<>> /\ 1 + 1 = 2
    BY <2>1
  <2> QED BY <1>5, <2>1, <2>2, <2>3, ChainRange DEF Whole, Chained
<1>7. when \in [Slots -> 0 .. TIMER_CANCEL] /\ next \in [Slots -> Pointer] /\ prev \in [Slots -> Pointer]
  BY Zenon DEF TimerInv, TimerTyped, TimerTypeOK
<1>8. first \in Slots /\ first \in Registered /\ (callpc[c] # "idle" => nr[c] \in Slots)
  BY <1>6, Zenon DEF TimerInv, TimerTyped
<1> HIDE DEF rest, first
<1>9. /\ \A i \in Slots : i # first => when'[i] = when[i] /\ next'[i] = next[i]
      /\ \A i \in Slots : i # first /\ i # rest => prev'[i] = prev[i]
      /\ when'[first] = again /\ next'[first] = NULL /\ prev'[first] = NULL
      /\ \A i \in Slots : i = rest => prev'[i] = NULL
  BY <1>3, <1>7, <1>8, Zenon
<1>10. Owned(c)'
  <2>1. callpc[c] \in {"chosen", "filled"} => nr[c] # first
    BY <1>4, <1>8, RegisteredIs, Zenon DEF RegisteredBy, Settled, Owned
  <2> QED BY <1>3, <1>4, <1>8, <1>9, <2>1 DEF Settled, Owned
<1>11. CASE again = TIMER_CANCEL
  <2>0. Tail(s) \in Seq(Slots)
    BY <1>6, TailProperty, Zenon
  <2>1. PICK q \in Seq(Slots) : q = Tail(s)
    BY <2>0, Zenon
  <2>2. /\ IsInjective(q) /\ Range(q) = Registered \ {first}
    BY <1>6, <2>1, TailProperty
  <2>3. /\ Len(q) = Len(s) - 1 /\ Len(q) \in Nat
        /\ \A i \in 1 .. Len(q) : q[i] = s[i + 1] /\ i + 1 \in 1 .. Len(s) /\ q[i] \in Slots
    BY <1>6, <2>1
  <2>4. \A i \in 1 .. Len(q) : q[i] # first
    BY <1>6, <2>3 DEF IsInjective
  <2>5. \A i, j \in 1 .. Len(q) : i < j => when'[q[i]] <= when'[q[j]]
    <3> SUFFICES ASSUME NEW i \in 1 .. Len(q), NEW j \in 1 .. Len(q), i < j
                 PROVE  when[q[i]] <= when[q[j]]
      BY <1>9, <2>3, <2>4, Zenon
    <3>1. i + 1 < j + 1
      OBVIOUS
    <3> QED BY <1>6, <2>3, <3>1, Zenon DEF Chained
  <2>6. ASSUME NEW i \in 1 .. Len(q)
        PROVE  next'[q[i]] = Place(q, i + 1) /\ prev'[q[i]] = Place(q, i - 1)
    <3>1. next[s[i + 1]] = Place(s, (i + 1) + 1) /\ prev[s[i + 1]] = Place(s, (i + 1) - 1)
      BY <1>6, <2>3, Zenon DEF Chained
    <3>2. Place(s, (i + 1) + 1) = Place(q, i + 1)
      <4>1. (i + 1) + 1 \in 1 .. Len(s) <=> i + 1 \in 1 .. Len(q)
        BY <2>3
      <4> QED BY <2>3, <4>1, Zenon DEF Place
    <3>3. CASE i = 1
      <4>1. q[i] = rest
        BY <1>6, <2>3, <3>3 DEF Place
      <4> QED BY <1>9, <2>3, <2>4, <3>1, <3>2, <3>3, <4>1 DEF Place
    <3>4. CASE i # 1
      <4>1. q[i] # rest
        <5>1. 2 \in 1 .. Len(s) /\ rest = s[2] /\ i + 1 # 2
          BY <1>6, <2>3, <3>4 DEF Place
        <5> QED BY <1>6, <2>3, <5>1 DEF IsInjective
      <4>2. i - 1 \in 1 .. Len(q) /\ (i - 1) + 1 = i /\ (i + 1) - 1 = i /\ i \in 1 .. Len(s)
        BY <2>3, <3>4
      <4>3. Place(s, i) = Place(q, i - 1)
        BY <2>3, <4>2, Zenon DEF Place
      <4> QED BY <1>9, <2>3, <2>4, <3>1, <3>2, <4>1, <4>2, <4>3
    <3> QED BY <3>3, <3>4, Zenon
  <2>7. Chained(q)'
    BY <2>1, <2>2, <2>5, <2>6, Zenon DEF Chained, Place
  <2>8. next_callback' = Place(q, 1)
    <3>1. 1 \in 1 .. Len(q) <=> 2 \in 1 .. Len(s)
      BY <1>6, <2>3
    <3> QED BY <1>3, <1>6, <1>11, <2>3, <3>1 DEF Place
  <2>9. Registered' = Registered \ {first}
    BY <1>3, <1>8, <1>9, <1>11, RegisteredIs, Zenon DEF RegisteredBy
  <2>10. Whole(q)'
    BY <2>2, <2>7, <2>8, <2>9, Zenon DEF Whole, Place
  <2> QED BY <1>10, <2>10, Zenon DEF Settled
<1>12. CASE again # TIMER_CANCEL
  <2>1. rest = NULL /\ next_callback' = first
    BY <1>3, <1>12, Zenon
  <2>2. Len(s) = 1
    BY <1>2, <1>6, <2>1 DEF Place
  <2>3. Chained(s)'
    BY <1>6, <1>9, <2>2 DEF Chained, Place
  <2>4. Registered' = Registered
    <3>0. when[first] # TIMER_CANCEL
      BY <1>8, RegisteredIs, Zenon DEF RegisteredBy
    <3>1. \A i \in Slots : when'[i] # TIMER_CANCEL <=> when[i] # TIMER_CANCEL
      BY <1>9, <1>12, <3>0, Zenon
    <3> QED BY <1>3, <3>1, RegisteredIs, Zenon DEF RegisteredBy
  <2>5. Whole(s)'
    BY <1>6, <2>1, <2>3, <2>4, Zenon DEF Whole, Place
  <2> QED BY <1>10, <2>5, Zenon DEF Settled
<1> QED BY <1>11, <1>12, Zenon

-----------------------------------------------------------------------------
LEMMA TimerStarts ==
  ASSUME TimerAssumption, NEW c, Alone(c), TimerInit
  PROVE  TimerInv(c)
<1>1. c # "none" /\ c # "timer" /\ Callers = {c} /\ MaxTick \in Nat /\ TIMER_CANCEL \in Nat
  BY TimerConstants, Zenon
<1>2. TimerTypeOK
  BY <1>1 DEF TimerInit, TimerTypeOK, Pointer
<1>3. TimerTyped(c) /\ callpc[c] = "idle"
  BY <1>1, <1>2 DEF TimerInit, TimerTyped
<1>4. Registered = {}
  BY RegisteredIs, Zenon DEF RegisteredBy, TimerInit
<1>5. Whole(<<>>)
  BY <1>4 DEF TimerInit, Whole, Chained, Place, IsInjective, Range
<1>6. <<>> \in Seq(Slots)
  OBVIOUS
<1> QED BY <1>1, <1>3, <1>5, <1>6, Zenon DEF TimerInv, Settled, Owned, TimerInit

LEMMA TimerStep ==
  ASSUME TimerAssumption, NEW c, Alone(c), TimerInv(c), [TimerNext]_timerVars
  PROVE  TimerInv(c)'
<1>1. CASE UNCHANGED timerVars
  <2>1. /\ UNCHANGED <<when, next, prev, next_callback, current_tick, timercpu, iter, tmp, callpc, nr, calltick, overtook>>
    BY <1>1, Zenon DEF timerVars, listVars, callVars
  <2>2. Registered' = Registered
    BY <2>1, RegisteredIs, Zenon
  <2>3. \A s : Chained(s) => Chained(s)'
    BY <2>1, Zenon DEF Chained
  <2>4. \A s : Whole(s) => Whole(s)'
    BY <2>1, <2>2, <2>3, Zenon DEF Whole
  <2>5. \A s : Linked(s) => Linked(s)'
    BY <2>1, <2>2, <2>3, Zenon DEF Linked
  <2>6. \A s, k : Searching(s, k) => Searching(s, k)'
    BY <2>1, <2>2, <2>3, Zenon DEF Searching
  <2>7. Settled(c) => Settled(c)'
    BY <2>1, <2>4, Zenon DEF Settled, Owned
  <2>8. Inserting => Inserting'
    BY <2>1, <2>5, <2>6, Zenon DEF Inserting, Circling
  <2>9. TimerTyped(c)'
    BY <2>1, Zenon DEF TimerInv, TimerTyped, TimerTypeOK
  <2> QED BY <2>1, <2>7, <2>8, <2>9, Zenon DEF TimerInv
<1>2. Callers = {c}
  BY Zenon DEF Alone
<1> QED BY <1>1, <1>2, ChooseSettles, FillSettles, BeginSettles, LoopSettles, EndSettles, TickSettles,
           FireSettles, Zenon DEF TimerNext

-----------------------------------------------------------------------------
(* A sequence of different slots is no longer than there are slots. *)
LEMMA FewEnough ==
  ASSUME TimerAssumption, NEW s \in Seq(Slots), IsInjective(s)
  PROVE  Len(s) <= MaxSlots
<1>1. MaxSlots \in Nat /\ Len(s) \in Nat /\ DOMAIN s = 1 .. Len(s)
  BY DEF TimerAssumption
<1>2. IsFiniteSet(1 .. MaxSlots) /\ Cardinality(1 .. MaxSlots) = MaxSlots
      /\ IsFiniteSet(1 .. Len(s)) /\ Cardinality(1 .. Len(s)) = Len(s)
  <2>1. ASSUME NEW n \in Nat PROVE IsFiniteSet(1 .. n) /\ Cardinality(1 .. n) = n
    <3>1. n - 1 + 1 = n /\ (1 > n => n = 0)
      OBVIOUS
    <3> QED BY <3>1, FS_Interval
  <2> QED BY <1>1, <2>1, Zenon
<1>3. s \in [1 .. Len(s) -> 1 .. MaxSlots]
  <2>1. s \in [1 .. Len(s) -> Slots]
    OBVIOUS
  <2> QED BY <2>1, Zenon DEF Slots
<1> SUFFICES ASSUME Len(s) > MaxSlots PROVE FALSE
  BY <1>1
<1>4. \E x, y \in 1 .. Len(s) : x # y /\ s[x] = s[y]
  <2>1. Cardinality(1 .. MaxSlots) < Cardinality(1 .. Len(s))
    BY <1>1, <1>2, Zenon
  <2> QED BY <1>2, <1>3, <2>1, FS_PigeonHole
<1> QED BY <1>1, <1>4, Zenon DEF IsInjective

(* Walking a whole chain meets its structures in order. *)
LEMMA WalkProperty ==
  ASSUME TimerAssumption, NEW s \in Seq(Slots), Whole(s)
  PROVE  \A k \in 0 .. MaxSlots : Walk[k] = Place(s, k + 1)
<1> DEFINE Step(f, k) == IF k = 0 THEN next_callback
                         ELSE IF f[k - 1] = NULL THEN NULL ELSE next[f[k - 1]]
           w == [k \in 0 .. MaxSlots |-> Place(s, k + 1)]
<1>1. MaxSlots \in Nat /\ NULL \notin Slots /\ Len(s) \in Nat
  BY DEF TimerAssumption, Slots
<1>2. ASSUME NEW k \in 0 .. MaxSlots PROVE Step(w, k) = Place(s, k + 1)
  <2>1. CASE k = 0
    BY <2>1 DEF Whole
  <2>2. CASE k # 0
    <3>1. k - 1 \in 0 .. MaxSlots /\ (k - 1) + 1 = k
      BY <1>1, <2>2
    <3>2. w[k - 1] = Place(s, k)
      BY <3>1, Zenon
    <3>3. CASE k \in 1 .. Len(s)
      <4>1. Place(s, k) = s[k] /\ s[k] \in Slots /\ next[s[k]] = Place(s, k + 1)
        BY <3>3 DEF Place, Whole, Chained
      <4> HIDE DEF w
      <4> QED BY <1>1, <2>2, <3>2, <4>1, Zenon
    <3>4. CASE k \notin 1 .. Len(s)
      <4>1. k + 1 \notin 1 .. Len(s)
        BY <1>1, <2>2, <3>4
      <4>2. Place(s, k) = NULL /\ Place(s, k + 1) = NULL
        BY <3>4, <4>1, Zenon DEF Place
      <4> HIDE DEF w
      <4> QED BY <2>2, <3>2, <4>2, Zenon
    <3> QED BY <3>3, <3>4, Zenon
  <2> QED BY <2>1, <2>2, Zenon
<1>3. w = [k \in 0 .. MaxSlots |-> Step(w, k)]
  BY <1>2, Zenon
<1>4. Walk = CHOOSE f : f = [k \in 0 .. MaxSlots |-> Step(f, k)]
  BY Zenon DEF Walk
<1>5. Walk = [k \in 0 .. MaxSlots |-> Step(Walk, k)]
  <2> HIDE DEF w, Step
  <2> QED BY <1>3, <1>4, Zenon
<1>6. \A k \in 0 .. MaxSlots : Walk[k] = Step(Walk, k)
  <2> HIDE DEF Step
  <2> QED BY <1>5, Zenon
<1> SUFFICES ASSUME NEW k0 \in 0 .. MaxSlots, Walk[k0] # Place(s, k0 + 1) PROVE FALSE
  BY Zenon
<1> DEFINE S == {k \in 0 .. MaxSlots : Walk[k] # Place(s, k + 1)}
           m == Min(S)
<1>7. m \in S /\ \A k \in S : m <= k
  <2>1. S \in SUBSET Nat /\ S # {}
    BY <1>1
  <2> HIDE DEF S
  <2> QED BY <2>1, MinProperty, Zenon
<1> HIDE DEF m
<1>8. m \in 0 .. MaxSlots /\ Walk[m] # Place(s, m + 1) /\ m # 0
  BY <1>6, <1>7 DEF Whole
<1>9. m - 1 \in 0 .. MaxSlots /\ (m - 1) + 1 = m
  BY <1>1, <1>8
<1>10. Walk[m - 1] = Place(s, m)
  BY <1>1, <1>7, <1>8, <1>9
<1>11. Step(Walk, m) = Step(w, m)
  <2>1. w[m - 1] = Place(s, m)
    BY <1>9, Zenon
  <2> HIDE DEF w
  <2> QED BY <1>8, <1>10, <2>1, Zenon
<1> HIDE DEF Step, w
<1> QED BY <1>2, <1>6, <1>8, <1>11, Zenon

LEMMA WholeIsInOrder ==
  ASSUME TimerAssumption, NEW s \in Seq(Slots), Whole(s)
  PROVE  InOrder
<1> DEFINE n == Len(s)
<1>1. /\ n \in Nat /\ MaxSlots \in Nat /\ NULL \notin Slots
      /\ \A i \in 1 .. n : s[i] \in Slots
  BY ChainRange DEF TimerAssumption, Slots
<1>2. n <= MaxSlots
  BY FewEnough, Zenon DEF Whole, Chained
<1>3. \A k \in 0 .. MaxSlots : Walk[k] = Place(s, k + 1)
  BY WalkProperty, Zenon
<1>4. \A k \in Int : Place(s, k) = IF k \in 1 .. n THEN s[k] ELSE NULL
  BY Zenon DEF Place
<1>5. {Walk[k] : k \in 0 .. MaxSlots} = Registered \cup {NULL}
  <2>1. Range(s) = Registered
    BY Zenon DEF Whole
  <2>2. ASSUME NEW k \in 0 .. MaxSlots PROVE Walk[k] \in Range(s) \cup {NULL}
    BY <1>3, <2>2, ChainRange, Zenon DEF Place
  <2>3. ASSUME NEW x \in Range(s) PROVE \E k \in 0 .. MaxSlots : Walk[k] = x
    <3>1. PICK i \in 1 .. n : s[i] = x
      BY ChainRange, Zenon
    <3> HIDE DEF n
    <3>2. i - 1 \in 0 .. MaxSlots /\ (i - 1) + 1 = i
      BY <1>1, <1>2
    <3>3. Walk[i - 1] = Place(s, i)
      BY <1>3, <3>2, Zenon
    <3> QED BY <1>4, <3>1, <3>2, <3>3
  <2>4. \E k \in 0 .. MaxSlots : Walk[k] = NULL
    <3> HIDE DEF n
    <3>1. n \in 0 .. MaxSlots /\ n + 1 \notin 1 .. n /\ n + 1 \in Int
      BY <1>1, <1>2
    <3> QED BY <1>3, <1>4, <3>1, Zenon
  <2> QED BY <2>1, <2>2, <2>3, <2>4, Zenon
<1>6. ASSUME NEW k \in 0 .. MaxSlots - 1, Walk[k] # NULL, Walk[k + 1] # NULL
      PROVE  when[Walk[k]] <= when[Walk[k + 1]] /\ prev[Walk[k + 1]] = Walk[k]
  <2> HIDE DEF n
  <2>1. k \in 0 .. MaxSlots /\ k + 1 \in 0 .. MaxSlots /\ (k + 1) + 1 = k + 2
    BY <1>1
  <2>2. Walk[k] = Place(s, k + 1) /\ Walk[k + 1] = Place(s, k + 2)
    BY <1>3, <2>1, Zenon
  <2>3. k + 1 \in 1 .. n /\ k + 2 \in 1 .. n
    BY <1>4, <1>6, <2>2
  <2>4. Walk[k] = s[k + 1] /\ Walk[k + 1] = s[k + 2]
    BY <1>4, <2>2, <2>3
  <2>5. k + 1 < k + 2 /\ (k + 2) - 1 = k + 1
    BY <1>1
  <2>6. when[s[k + 1]] <= when[s[k + 2]] /\ prev[s[k + 2]] = Place(s, (k + 2) - 1)
    BY <2>3, <2>5, Zenon DEF Whole, Chained, n
  <2> QED BY <2>2, <2>4, <2>5, <2>6, Zenon
<1>7. next_callback # NULL => prev[next_callback] = NULL
  <2>1. next_callback = Place(s, 1)
    BY Zenon DEF Whole
  <2>2. CASE 1 \in 1 .. n
    <3>1. prev[s[1]] = Place(s, 1 - 1)
      BY <2>2, Zenon DEF Whole, Chained
    <3> QED BY <2>1, <2>2, <3>1 DEF Place
  <2>3. CASE 1 \notin 1 .. n
    BY <2>1, <2>3, Zenon DEF Place
  <2> QED BY <2>2, <2>3, Zenon
<1> QED BY <1>5, <1>6, <1>7, Zenon DEF InOrder

(* A chain whose first is not due has none that is. *)
LEMMA NoneIsDue ==
  ASSUME TimerTypeOK, TimerAssumption, NEW s \in Seq(Slots), Whole(s), ~ FirstIsDue
  PROVE  \A i \in Registered : when[i] > current_tick
<1> SUFFICES ASSUME NEW x \in Registered PROVE when[x] > current_tick
  BY Zenon
<1>1. PICK i \in 1 .. Len(s) : s[i] = x
  BY ChainRange, Zenon DEF Whole
<1>2. /\ 1 \in 1 .. Len(s) /\ s[1] \in Slots /\ s[i] \in Slots /\ NULL \notin Slots
      /\ next_callback = s[1]
  BY <1>1, ChainRange DEF Whole, Place, TimerAssumption, Slots
<1>3. i = 1 \/ when[s[1]] <= when[s[i]]
  BY <1>1, <1>2 DEF Whole, Chained
<1>4. when[s[1]] \in Int /\ when[s[i]] \in Int /\ current_tick \in Int
  BY <1>2 DEF TimerTypeOK
<1>5. ~ (when[s[1]] <= current_tick)
  BY <1>2, Zenon DEF FirstIsDue
<1> QED BY <1>1, <1>3, <1>4, <1>5

LEMMA TimerImplies ==
  ASSUME TimerAssumption, NEW c, Alone(c), TimerInv(c)
  PROVE  TimerTypeOK /\ ListIsRight
         /\ (TickEnds /\ ~ overtook => \A i \in Registered : when[i] > current_tick)
<1>1. c # "none" /\ c # "timer" /\ TimerTypeOK
  BY TimerConstants, Zenon DEF TimerInv, TimerTyped
<1>2. ASSUME ~ overtook, timercpu = "none" PROVE InOrder
  <2>1. PICK s \in Seq(Slots) : Whole(s)
    BY <1>1, <1>2, Zenon DEF TimerInv, TimerTyped, Settled
  <2> QED BY <2>1, WholeIsInOrder, Zenon
<1>3. ListIsRight
  BY <1>2, Zenon DEF ListIsRight, InOrder
<1>4. ASSUME TickEnds, ~ overtook PROVE \A i \in Registered : when[i] > current_tick
  <2>1. timercpu = "timer" /\ iter = NULL /\ ~ FirstIsDue
    BY <1>4, Zenon DEF TickEnds
  <2>2. PICK s \in Seq(Slots) : Whole(s)
    BY <1>1, <1>4, <2>1, Zenon DEF TimerInv, Settled
  <2> QED BY <1>1, <2>1, <2>2, NoneIsDue, Zenon
<1> QED BY <1>1, <1>3, <1>4, Zenon

(* With one caller the list of callbacks is right, and every callback that  *)
(* is due fires, until one is put before two later ones.                    *)
THEOREM TimerRight ==
  ASSUME TimerAssumption, NEW c, Callers = {c}
  PROVE  TimerSpec => [](TimerTypeOK /\ ListIsRight) /\ EveryDueFires
<1>0. Alone(c)
  BY Zenon DEF Alone
<1>1. TimerInit => TimerInv(c)
  BY <1>0, TimerStarts, Zenon
<1>2. TimerInv(c) /\ [TimerNext]_timerVars => TimerInv(c)'
  BY <1>0, TimerStep, Zenon
<1>3. TimerInv(c) => TimerTypeOK /\ ListIsRight
  BY <1>0, TimerImplies, Zenon
<1>4. TimerInv(c) => [TickEnds /\ ~ overtook => \A i \in Registered : when[i] > current_tick]_timerVars
  BY <1>0, TimerImplies, Zenon
<1> QED BY <1>1, <1>2, <1>3, <1>4, PTL DEF TimerSpec, EveryDueFires

-----------------------------------------------------------------------------
(* Events. *)

Places == {"user", "listen", "check", "idle", "lock", "lockq", "take", "unlock", "hlock", "hlockq",
           "dispatch", "rlock", "rlockq", "radd", "hunlock"}
Framed == {t \in Tasks : frame[t]}
ToRaise == IF pc[Monitor] \in {"rlock", "rlockq", "radd"} THEN 1 ELSE 0

(* The type invariant, with what bounds the events. *)
Typed ==
  /\ t_wait \in [Tasks -> Flags] /\ pc \in [Tasks -> Places]
  /\ event_list \in Seq(Nat) /\ event_handlers \in Seq(Apps)
  /\ units \in [Mutexes -> Nat] /\ waiters \in [Mutexes -> Seq(Tasks)]
  /\ armed \in [Mutexes -> {"unset", "armed", "spent"}]
  /\ frame \in [Tasks -> BOOLEAN]
  /\ item \in Tasks /\ raised \in Nat /\ eventcpu \in {"ok", "wild"}
Bounded == IsFiniteSet(Framed) /\ raised + Cardinality(Framed) + ToRaise <= MaxEvents

(* The events are in the list newest first. *)
Ordered ==
  /\ \A i \in DOMAIN event_list : event_list[i] \in 1 .. raised
  /\ \A i, j \in DOMAIN event_list : i < j => event_list[i] > event_list[j]

(* Nobody waits for a mutex that is free, nobody is in two places of the    *)
(* queues.                                                                  *)
Queues ==
  /\ \A m \in Mutexes : waiters[m] # <<>> => units[m] = 0
  /\ \A m \in Mutexes : IsInjective(waiters[m])
  /\ \A t \in Tasks : ~(t \in Range(waiters["event_mutex"]) /\ t \in Range(waiters["event_handler_mutex"]))

(* Why the monitor finds an event: a monitor that was woken without one is  *)
(* in a queue it has no business in, which it can neither leave nor join.   *)
MonitorInv ==
  LET at == pc[Monitor]
      inEvents == Monitor \in Range(waiters["event_mutex"])
      inHandlers == Monitor \in Range(waiters["event_handler_mutex"])
      asleep == t_wait[Monitor] # "none"
      some == event_list # <<>>
  IN /\ at \in {"lockq", "take"} => some
     /\ at = "lock" /\ (~asleep \/ frame[Monitor]) => some
     /\ inEvents /\ ~frame[Monitor] /\ at \notin {"rlockq", "radd"} => some
     /\ inHandlers /\ at \notin {"unlock", "hlock", "hlockq"} /\ ~(at = "dispatch" /\ asleep) => some
     /\ at = "take" /\ ~asleep => ~inEvents

EventInv == Typed /\ Bounded /\ Ordered /\ Queues /\ MonitorInv

-----------------------------------------------------------------------------
(* What an unlock does to the queues and to the sleepers: it wakes only the *)
(* tasks it is told to and the one it takes out of the queue.               *)
Unlocked(m, more) ==
  /\ t_wait' \in [Tasks -> Flags] /\ units' \in [Mutexes -> Nat]
  /\ waiters' \in [Mutexes -> Seq(Tasks)]
  /\ Queues'
  /\ \A n \in Mutexes : Range(waiters'[n]) \subseteq Range(waiters[n])
  /\ \A t \in more \cap Tasks : t_wait'[t] = "none"
  /\ \A t \in Tasks : t_wait'[t] # t_wait[t] =>
       t_wait'[t] = "none"
       /\ (t \in more \/ (t \in Range(waiters[m]) /\ t \notin Range(waiters'[m])))

LEMMA SignalEffect ==
  ASSUME Typed, Queues, NEW m \in Mutexes, NEW more, mutex_unlock(m, more)
  PROVE  Unlocked(m, more)
<1> DEFINE q == waiters[m]
<1>1. q \in Seq(Tasks) /\ IsInjective(q) /\ units[m] \in Nat
  BY Zenon DEF Typed, Queues
<1>2. CASE q = <<>>
  <2>1. /\ units' = [units EXCEPT ![m] = @ + 1] /\ waiters' = waiters
        /\ t_wait' = [t \in Tasks |-> IF t \in more THEN "none" ELSE t_wait[t]]
    BY <1>2, Zenon DEF mutex_unlock
  <2>2. units' \in [Mutexes -> Nat] /\ \A n \in Mutexes : n # m => units'[n] = units[n]
    BY <1>1, <2>1 DEF Typed
  <2>3. Queues'
    BY <1>2, <2>1, <2>2, Zenon DEF Queues
  <2>4. t_wait' \in [Tasks -> Flags]
    BY <2>1, Zenon DEF Typed, Flags
  <2> QED BY <2>1, <2>2, <2>3, <2>4, Zenon DEF Unlocked, Typed
<1>3. CASE q # <<>>
  <2>1. /\ units' = units /\ waiters' = [waiters EXCEPT ![m] = Tail(q)]
        /\ t_wait' = [t \in Tasks |-> IF t \in more \cup {Head(q)} THEN "none" ELSE t_wait[t]]
    BY <1>3, Zenon DEF mutex_unlock
  <2>2. /\ Tail(q) \in Seq(Tasks) /\ IsInjective(Tail(q)) /\ Head(q) \in Tasks
        /\ Head(q) \in Range(q) /\ Range(Tail(q)) = Range(q) \ {Head(q)}
    BY <1>1, <1>3, TailProperty, Zenon
  <2> HIDE DEF q
  <2>3. /\ waiters' \in [Mutexes -> Seq(Tasks)] /\ waiters'[m] = Tail(q)
        /\ \A n \in Mutexes : n # m => waiters'[n] = waiters[n]
    BY <2>1, <2>2, Zenon DEF Typed
  <2>4. \A n \in Mutexes : Range(waiters'[n]) \subseteq Range(waiters[n])
    BY <2>2, <2>3, Zenon DEF q
  <2>5. Queues'
    <3>1. \A n \in Mutexes : waiters'[n] # <<>> => units'[n] = 0
      BY <1>3, <2>1, <2>3, Zenon DEF Queues, q
    <3>2. \A n \in Mutexes : IsInjective(waiters'[n])
      BY <2>2, <2>3, Zenon DEF Queues
    <3>3. \A t \in Tasks : ~(t \in Range(waiters'["event_mutex"])
                            /\ t \in Range(waiters'["event_handler_mutex"]))
      BY <2>4, Zenon DEF Queues, Mutexes
    <3> QED BY <3>1, <3>2, <3>3, Zenon DEF Queues
  <2>6. t_wait' \in [Tasks -> Flags]
    BY <2>1, Zenon DEF Typed, Flags
  <2>7. \A t \in Tasks : t_wait'[t] # t_wait[t] => t_wait'[t] = "none" /\ (t \in more \/ t = Head(q))
    BY <2>1, Zenon
  <2>8. \A t \in more \cap Tasks : t_wait'[t] = "none"
    BY <2>1, Zenon
  <2> QED BY <2>1, <2>2, <2>3, <2>4, <2>5, <2>6, <2>7, <2>8, Zenon DEF Unlocked, Typed, q
<1> QED BY <1>2, <1>3, Zenon

(* What joining a queue does. *)
LEMMA QueueEffect ==
  ASSUME Typed, Queues, NEW m \in Mutexes, NEW t \in Tasks, Queue(t, m), ~ InQueue(t),
         ~ (units[m] > 0), units' = units
  PROVE  /\ waiters' \in [Mutexes -> Seq(Tasks)]
         /\ armed' \in [Mutexes -> {"unset", "armed", "spent"}]
         /\ Queues'
         /\ Range(waiters'[m]) = Range(waiters[m]) \cup {t}
         /\ \A n \in Mutexes : n # m => waiters'[n] = waiters[n]
<1> DEFINE q == waiters[m]
<1>1. q \in Seq(Tasks) /\ IsInjective(q) /\ units[m] = 0 /\ t \notin Range(q)
  BY DEF Typed, Queues, InQueue
<1>2. /\ Append(q, t) \in Seq(Tasks) /\ IsInjective(Append(q, t))
      /\ Range(Append(q, t)) = Range(q) \cup {t}
  BY <1>1, AppendProperty
<1>3. waiters' = [waiters EXCEPT ![m] = Append(q, t)]
  BY Zenon DEF Queue
<1>4. /\ waiters' \in [Mutexes -> Seq(Tasks)] /\ waiters'[m] = Append(q, t)
      /\ \A n \in Mutexes : n # m => waiters'[n] = waiters[n]
  BY <1>2, <1>3, Zenon DEF Typed
<1>5. armed' \in [Mutexes -> {"unset", "armed", "spent"}]
  BY Zenon DEF Queue, Typed
<1>6. \A n \in Mutexes : waiters'[n] # <<>> => units'[n] = 0
  BY <1>1, <1>4, Zenon DEF Queues
<1>7. \A n \in Mutexes : IsInjective(waiters'[n])
  BY <1>2, <1>4, Zenon DEF Queues
<1>8. \A u \in Tasks : ~(u \in Range(waiters'["event_mutex"])
                        /\ u \in Range(waiters'["event_handler_mutex"]))
  <2>1. \A u \in Tasks : u # t => \A n \in Mutexes : u \in Range(waiters'[n]) => u \in Range(waiters[n])
    BY <1>2, <1>4, Zenon
  <2>2. \A n \in Mutexes : n # m => t \notin Range(waiters'[n])
    BY <1>4, Zenon DEF InQueue
  <2>3. \A u \in Tasks : u # t => ~(u \in Range(waiters'["event_mutex"])
                                   /\ u \in Range(waiters'["event_handler_mutex"]))
    BY <2>1, Zenon DEF Queues, Mutexes
  <2>4. ~(t \in Range(waiters'["event_mutex"]) /\ t \in Range(waiters'["event_handler_mutex"]))
    BY <2>2, Zenon DEF Mutexes
  <2> QED BY <2>3, <2>4, Zenon
<1>9. Queues'
  BY <1>6, <1>7, <1>8, Zenon DEF Queues
<1> QED BY <1>2, <1>4, <1>5, <1>9, Zenon

-----------------------------------------------------------------------------
(* event_raise adds an event, which is newer than all in the list. *)
LEMMA AddEffect ==
  ASSUME Typed, Ordered, Add
  PROVE  event_list' \in Seq(Nat) /\ event_list' # <<>> /\ raised' \in Nat /\ Ordered'
<1> DEFINE n == Len(event_list)
<1>1. event_list \in Seq(Nat) /\ n \in Nat /\ raised \in Nat /\ DOMAIN event_list = 1 .. n
  BY DEF Typed
<1>2. event_list' = <<raised + 1>> \o event_list /\ raised' = raised + 1
  BY Zenon DEF Add
<1>3. /\ event_list' \in Seq(Nat) /\ DOMAIN event_list' = 1 .. n + 1 /\ event_list'[1] = raised + 1
      /\ \A i \in 2 .. n + 1 : event_list'[i] = event_list[i - 1] /\ i - 1 \in 1 .. n
  BY <1>1, <1>2
<1> HIDE DEF n
<1>4. \A i \in 1 .. n + 1 : i = 1 \/ i \in 2 .. n + 1
  BY <1>1
<1>5. \A i \in 1 .. n : event_list[i] \in 1 .. raised
  BY <1>1, Zenon DEF Ordered
<1>6. \A i \in 2 .. n + 1 : event_list'[i] \in 1 .. raised
  BY <1>3, <1>5, Zenon
<1>7. \A i \in DOMAIN event_list' : event_list'[i] \in 1 .. raised'
  BY <1>1, <1>2, <1>3, <1>4, <1>6
<1>8. ASSUME NEW i \in 1 .. n + 1, NEW j \in 1 .. n + 1, i < j
      PROVE  event_list'[i] > event_list'[j]
  <2>1. j \in 2 .. n + 1
    BY <1>1, <1>8
  <2>2. CASE i = 1
    BY <1>1, <1>3, <1>6, <2>1, <2>2
  <2>3. CASE i \in 2 .. n + 1
    <3>1. i - 1 < j - 1
      BY <1>8
    <3> QED BY <1>1, <1>3, <2>1, <2>3, <3>1, Zenon DEF Ordered
  <2> QED BY <1>4, <2>2, <2>3, Zenon
<1>9. Ordered'
  BY <1>3, <1>7, <1>8, Zenon DEF Ordered
<1>10. event_list' # <<>>
  BY <1>1, <1>3
<1> QED BY <1>1, <1>2, <1>3, <1>9, <1>10

(* The calls of event_raise that wait are counted. *)
LEMMA CallBegins ==
  ASSUME Typed, Bounded, NEW t \in Tasks, ~ frame[t], frame' = [frame EXCEPT ![t] = TRUE]
  PROVE  /\ IsFiniteSet(Framed') /\ Cardinality(Framed') = Cardinality(Framed) + 1
         /\ Cardinality(Framed) \in Nat
<1>1. Framed' = Framed \cup {t} /\ t \notin Framed
  BY Zenon DEF Typed, Framed
<1> QED BY <1>1, FS_AddElement, FS_CardinalityType, Zenon DEF Bounded

LEMMA CallEnds ==
  ASSUME Typed, Bounded, NEW t \in Tasks, frame[t], frame' = [frame EXCEPT ![t] = FALSE]
  PROVE  /\ IsFiniteSet(Framed') /\ Cardinality(Framed') = Cardinality(Framed) - 1
         /\ Cardinality(Framed) \in Nat
<1>1. Framed' = Framed \ {t} /\ t \in Framed
  BY Zenon DEF Typed, Framed
<1> QED BY <1>1, FS_RemoveElement, FS_CardinalityType, Zenon DEF Bounded

(* No step but these changes what is counted, or it makes room first. *)
LEMMA CallsStay ==
  ASSUME Bounded, frame' = frame
  PROVE  IsFiniteSet(Framed') /\ Cardinality(Framed') = Cardinality(Framed) /\ Cardinality(Framed) \in Nat
<1>1. Framed' = Framed
  BY Zenon DEF Framed
<1> QED BY <1>1, FS_CardinalityType, Zenon DEF Bounded

LEMMA BoundStays ==
  ASSUME EventAssumption, Typed, Bounded, frame' = frame, raised' = raised, ToRaise' \in {0, ToRaise}
  PROVE  Bounded'
<1>1. IsFiniteSet(Framed') /\ Cardinality(Framed') = Cardinality(Framed) /\ Cardinality(Framed) \in Nat
  BY CallsStay, Zenon
<1>2. ToRaise \in {0, 1}
  BY Zenon DEF ToRaise
<1> QED BY <1>1, <1>2 DEF Bounded, Typed, EventAssumption

-----------------------------------------------------------------------------
(* The timer callback of a mutex. *)
LEMMA TimeoutIsSound ==
  ASSUME EventAssumption, EventInv, NEW m \in Mutexes, sem_timeout(m)
  PROVE  EventInv'
<1> USE DEF EventInv
<1>1. /\ t_wait' = [t \in Tasks |-> IF t \in Range(waiters[m]) THEN "none" ELSE t_wait[t]]
      /\ waiters' = [waiters EXCEPT ![m] = <<>>] /\ armed' = [armed EXCEPT ![m] = "spent"]
      /\ UNCHANGED <<pc, event_list, event_handlers, units, frame, item, raised, eventcpu>>
  BY Zenon DEF sem_timeout
<1>2. /\ waiters' \in [Mutexes -> Seq(Tasks)] /\ waiters'[m] = <<>> /\ Range(waiters'[m]) = {}
      /\ \A n \in Mutexes : n # m => waiters'[n] = waiters[n]
  BY <1>1 DEF Typed, Range
<1>3. Typed'
  BY <1>1, <1>2, Zenon DEF Typed, Flags
<1>4. Bounded'
  BY <1>1, BoundStays, Zenon DEF ToRaise
<1>5. Ordered'
  BY <1>1, Zenon DEF Ordered
<1>6. Queues'
  <2>1. \A n \in Mutexes : waiters'[n] # <<>> => units'[n] = 0
    BY <1>1, <1>2, Zenon DEF Queues
  <2>2. \A n \in Mutexes : IsInjective(waiters'[n])
    BY <1>2 DEF Queues, IsInjective
  <2>3. \A t \in Tasks : ~(t \in Range(waiters'["event_mutex"])
                          /\ t \in Range(waiters'["event_handler_mutex"]))
    BY <1>2, Zenon DEF Queues, Mutexes
  <2> QED BY <2>1, <2>2, <2>3, Zenon DEF Queues
<1>7. MonitorInv'
  <2>1. Monitor \in Tasks /\ \A n \in Mutexes : Range(waiters'[n]) \subseteq Range(waiters[n])
    BY <1>2, Zenon DEF EventAssumption
  <2>2. t_wait'[Monitor] # t_wait[Monitor] => t_wait'[Monitor] = "none" /\ Monitor \in Range(waiters[m])
                                            /\ Monitor \notin Range(waiters'[m])
    BY <1>1, <1>2, <2>1, Zenon
  <2> QED BY <1>1, <2>1, <2>2, Zenon DEF MonitorInv, Queues, Mutexes
<1> QED BY <1>3, <1>4, <1>5, <1>6, <1>7, Zenon

(* The keyboard interrupt. *)
LEMMA InterruptIsSound ==
  ASSUME EventAssumption, EventInv, NEW t \in Tasks, kbd_interrupt(t)
  PROVE  EventInv'
<1> USE DEF EventInv
<1>0. /\ eventcpu = "ok" /\ t_wait[t] = "none" /\ ~ frame[t] /\ Room /\ Monitor \in Tasks
      /\ raised \in Nat /\ MaxEvents \in Nat
  BY Zenon DEF kbd_interrupt, EventAssumption, Typed
<1>1. ToRaise \in {0, 1} /\ raised + Cardinality(Framed) + ToRaise < MaxEvents
  BY <1>0, Zenon DEF Room, ToRaise, Framed
<1>2. CASE units["event_mutex"] > 0
  <2>1. /\ Add /\ t_wait' = [u \in Tasks |-> IF u \in WokenByFirst THEN "none" ELSE t_wait[u]]
        /\ UNCHANGED <<pc, event_handlers, units, waiters, armed, frame, item, eventcpu>>
    BY <1>2, Zenon DEF kbd_interrupt
  <2>2. event_list' \in Seq(Nat) /\ event_list' # <<>> /\ raised' \in Nat /\ Ordered' /\ raised' = raised + 1
    BY <2>1, AddEffect, Zenon DEF Add
  <2>3. Typed'
    BY <2>1, <2>2, Zenon DEF Typed, Flags
  <2>4. Bounded'
    <3>1. IsFiniteSet(Framed') /\ Cardinality(Framed') = Cardinality(Framed) /\ Cardinality(Framed) \in Nat
      BY <2>1, CallsStay, Zenon
    <3>2. ToRaise' = ToRaise
      BY <2>1, Zenon DEF ToRaise
    <3> QED BY <1>0, <1>1, <2>2, <3>1, <3>2 DEF Bounded
  <2>5. Queues'
    BY <2>1, Zenon DEF Queues
  <2>6. MonitorInv'
    <3>1. \A n \in Mutexes : Range(waiters'[n]) = Range(waiters[n])
      BY <2>1, Zenon
    <3>2. event_list # <<>> => t_wait'[Monitor] = t_wait[Monitor]
      BY <1>0, <2>1, Zenon DEF WokenByFirst
    <3> QED BY <2>1, <2>2, <3>1, <3>2, Zenon DEF MonitorInv, Mutexes
  <2> QED BY <2>2, <2>3, <2>4, <2>5, <2>6, Zenon
<1>3. CASE ~ (units["event_mutex"] > 0) /\ InQueue(t)
  <2>1. Wild
    BY <1>3, Zenon DEF kbd_interrupt
  <2>2. Bounded'
    BY <2>1, BoundStays, Zenon DEF Wild, ToRaise
  <2> QED BY <2>1, <2>2, Zenon DEF Wild, Typed, Ordered, Queues, MonitorInv
<1>4. CASE ~ (units["event_mutex"] > 0) /\ ~ InQueue(t)
  <2>1. /\ Queue(t, "event_mutex") /\ t_wait' = [t_wait EXCEPT ![t] = "TF_WAITIO"]
        /\ frame' = [frame EXCEPT ![t] = TRUE]
        /\ UNCHANGED <<pc, event_list, event_handlers, units, item, raised, eventcpu>>
    BY <1>4, Zenon DEF kbd_interrupt
  <2>2. /\ waiters' \in [Mutexes -> Seq(Tasks)]
        /\ armed' \in [Mutexes -> {"unset", "armed", "spent"}]
        /\ Queues'
        /\ Range(waiters'["event_mutex"]) = Range(waiters["event_mutex"]) \cup {t}
        /\ \A n \in Mutexes : n # "event_mutex" => waiters'[n] = waiters[n]
    BY <1>4, <2>1, QueueEffect, Zenon DEF Mutexes
  <2>3. Typed'
    BY <2>1, <2>2, Zenon DEF Typed, Flags
  <2>4. Bounded'
    <3>1. /\ IsFiniteSet(Framed') /\ Cardinality(Framed') = Cardinality(Framed) + 1
          /\ Cardinality(Framed) \in Nat
      BY <1>0, <2>1, CallBegins, Zenon
    <3>2. ToRaise' = ToRaise
      BY <2>1, Zenon DEF ToRaise
    <3> QED BY <1>0, <1>1, <2>1, <3>1, <3>2 DEF Bounded
  <2>5. Ordered'
    BY <2>1, Zenon DEF Ordered
  <2>6. MonitorInv'
    <3>1. Range(waiters'["event_handler_mutex"]) = Range(waiters["event_handler_mutex"])
      BY <2>2, Zenon DEF Mutexes
    <3>2. CASE t = Monitor
      <4>1. /\ t_wait'[Monitor] = "TF_WAITIO" /\ frame'[Monitor] = TRUE
            /\ Monitor \notin Range(waiters["event_handler_mutex"])
        BY <1>0, <1>4, <2>1, <3>2, Zenon DEF Typed, InQueue, Mutexes
      <4> QED BY <1>0, <2>1, <2>2, <3>1, <3>2, <4>1, Zenon DEF MonitorInv
    <3>3. CASE t # Monitor
      <4>1. t_wait'[Monitor] = t_wait[Monitor] /\ frame'[Monitor] = frame[Monitor]
            /\ (Monitor \in Range(waiters'["event_mutex"]) <=> Monitor \in Range(waiters["event_mutex"]))
        BY <1>0, <2>1, <2>2, <3>3, Zenon DEF Typed
      <4> QED BY <2>1, <3>1, <4>1, Zenon DEF MonitorInv
    <3> QED BY <3>2, <3>3, Zenon
  <2> QED BY <2>2, <2>3, <2>4, <2>5, <2>6, Zenon
<1> QED BY <1>2, <1>3, <1>4, Zenon

(* The interrupted event_raise goes on. *)
LEMMA ResumeIsSound ==
  ASSUME EventAssumption, EventInv, NEW t \in Tasks, RaiseResumes(t)
  PROVE  EventInv'
<1> USE DEF EventInv
<1>1. /\ frame[t] /\ Add /\ mutex_unlock("event_mutex", WokenByFirst)
      /\ frame' = [frame EXCEPT ![t] = FALSE] /\ raised' = raised + 1
      /\ UNCHANGED <<pc, event_handlers, armed, item, eventcpu>> /\ Monitor \in Tasks
      /\ raised \in Nat /\ MaxEvents \in Nat
  BY Zenon DEF RaiseResumes, Add, EventAssumption, Typed
<1>2. event_list' \in Seq(Nat) /\ event_list' # <<>> /\ raised' \in Nat /\ Ordered'
  BY <1>1, AddEffect, Zenon
<1>3. Unlocked("event_mutex", WokenByFirst)
  BY <1>1, SignalEffect, Zenon DEF Mutexes
<1>4. Typed'
  BY <1>1, <1>2, <1>3, Zenon DEF Typed, Unlocked
<1>5. Bounded'
  <2>1. /\ IsFiniteSet(Framed') /\ Cardinality(Framed') = Cardinality(Framed) - 1
        /\ Cardinality(Framed) \in Nat
    BY <1>1, CallEnds, Zenon
  <2>2. ToRaise' = ToRaise /\ ToRaise \in {0, 1}
    BY <1>1, Zenon DEF ToRaise
  <2> QED BY <1>1, <2>1, <2>2 DEF Bounded
<1>6. MonitorInv'
  <2>1. event_list # <<>> => Monitor \notin WokenByFirst
    BY Zenon DEF WokenByFirst
  <2> QED BY <1>1, <1>2, <1>3, <2>1, Zenon DEF MonitorInv, Unlocked, Mutexes
<1> QED BY <1>2, <1>3, <1>4, <1>5, <1>6, Zenon DEF Unlocked

-----------------------------------------------------------------------------
(* The steps of the monitor change its place in the code, and few of them   *)
(* more than that.                                                          *)
LEMMA GotoEffect ==
  ASSUME EventAssumption, Typed, NEW p \in Places, Goto(Monitor, p)
  PROVE  pc' \in [Tasks -> Places] /\ pc'[Monitor] = p
BY Zenon DEF EventAssumption, Typed, Goto

LEMMA ChecksIsSound ==
  ASSUME EventAssumption, EventInv, MonitorChecks
  PROVE  EventInv'
<1> USE DEF EventInv
<1>1. /\ pc[Monitor] = "check" /\ Goto(Monitor, IF event_list = <<>> THEN "idle" ELSE "lock")
      /\ UNCHANGED <<t_wait, event_list, event_handlers, units, waiters, armed, frame, item, raised, eventcpu>>
  BY Zenon DEF MonitorChecks, Runs, At, queueVars
<1>2. pc' \in [Tasks -> Places] /\ pc'[Monitor] = IF event_list = <<>> THEN "idle" ELSE "lock"
  BY <1>1, GotoEffect, Zenon DEF Places
<1>3. Bounded'
  BY <1>1, <1>2, BoundStays, Zenon DEF ToRaise
<1>4. MonitorInv'
  BY <1>1, <1>2, Zenon DEF MonitorInv
<1> QED BY <1>1, <1>2, <1>3, <1>4, Zenon DEF Typed, Ordered, Queues

LEMMA IdlesIsSound ==
  ASSUME EventAssumption, EventInv, MonitorIdles
  PROVE  EventInv'
<1> USE DEF EventInv
<1>1. /\ pc[Monitor] = "idle" /\ ~ frame[Monitor] /\ task_wait(Monitor, "TF_WAITIO", "lock")
      /\ UNCHANGED <<event_list, event_handlers, units, waiters, armed, frame, item, raised, eventcpu>>
  BY Zenon DEF MonitorIdles, Runs, At, queueVars
<1>2. /\ pc' \in [Tasks -> Places] /\ pc'[Monitor] = "lock"
      /\ t_wait' \in [Tasks -> Flags] /\ t_wait'[Monitor] = "TF_WAITIO"
  BY <1>1, Zenon DEF task_wait, Typed, Places, Flags, EventAssumption
<1>3. Bounded'
  BY <1>1, <1>2, BoundStays, Zenon DEF ToRaise
<1>4. MonitorInv'
  BY <1>1, <1>2, Zenon DEF MonitorInv
<1> QED BY <1>1, <1>2, <1>3, <1>4, Zenon DEF Typed, Ordered, Queues

(* What the three waits of the monitor for a mutex have in common. *)
Locks(where, m, queued, onward) ==
  /\ <<where, m, queued, onward>> \in {<<"lock", "event_mutex", "lockq", "take">>,
                                     <<"hlock", "event_handler_mutex", "hlockq", "dispatch">>,
                                     <<"rlock", "event_mutex", "rlockq", "radd">>}

LEMMA LocksIsSound ==
  ASSUME EventAssumption, EventInv, NEW where, NEW m, NEW queued, NEW onward,
         Locks(where, m, queued, onward), MonitorLocks(where, m, queued, onward)
  PROVE  EventInv'
<1> USE DEF EventInv
<1>0. /\ m \in Mutexes /\ queued \in Places /\ onward \in Places
      /\ \/ where = "lock" /\ m = "event_mutex" /\ queued = "lockq" /\ onward = "take"
         \/ where = "hlock" /\ m = "event_handler_mutex" /\ queued = "hlockq" /\ onward = "dispatch"
         \/ where = "rlock" /\ m = "event_mutex" /\ queued = "rlockq" /\ onward = "radd"
  BY Zenon DEF Locks, Mutexes, Places
<1>1. /\ pc[Monitor] = where /\ ~ frame[Monitor] /\ t_wait[Monitor] = "none" /\ Monitor \in Tasks
      /\ UNCHANGED <<t_wait, event_list, event_handlers, frame, item, raised>>
  BY Zenon DEF MonitorLocks, Runs, At, EventAssumption
<1>2. CASE units[m] > 0
  <2>1. /\ units' = [units EXCEPT ![m] = @ - 1] /\ Goto(Monitor, onward)
        /\ UNCHANGED <<waiters, armed, eventcpu>>
    BY <1>2, Zenon DEF MonitorLocks
  <2>2. pc' \in [Tasks -> Places] /\ pc'[Monitor] = onward
    BY <1>0, <2>1, GotoEffect, Zenon
  <2>3. /\ units[m] \in Nat /\ units' \in [Mutexes -> Nat] /\ waiters[m] = <<>> /\ Range(waiters[m]) = {}
        /\ \A n \in Mutexes : n # m => units'[n] = units[n]
    BY <1>0, <1>2, <2>1 DEF Typed, Queues, Range
  <2>4. Queues'
    BY <2>1, <2>3, Zenon DEF Queues
  <2>5. Bounded'
    BY <1>0, <1>1, <2>2, BoundStays, Zenon DEF ToRaise
  <2>6. MonitorInv'
    BY <1>0, <1>1, <2>1, <2>2, <2>3, Zenon DEF MonitorInv
  <2> QED BY <1>1, <2>1, <2>2, <2>3, <2>4, <2>5, <2>6, Zenon DEF Typed, Ordered
<1>3. CASE ~ (units[m] > 0) /\ InQueue(Monitor)
  <2>1. eventcpu' = "wild" /\ UNCHANGED <<pc, units, waiters, armed>>
    BY <1>3, Zenon DEF MonitorLocks
  <2>2. Bounded'
    BY <1>1, <2>1, BoundStays, Zenon DEF ToRaise
  <2> QED BY <1>1, <2>1, <2>2, Zenon DEF Typed, Ordered, Queues, MonitorInv
<1>4. CASE ~ (units[m] > 0) /\ ~ InQueue(Monitor)
  <2>1. Queue(Monitor, m) /\ Goto(Monitor, queued) /\ UNCHANGED <<units, eventcpu>>
    BY <1>4, Zenon DEF MonitorLocks
  <2>2. pc' \in [Tasks -> Places] /\ pc'[Monitor] = queued
    BY <1>0, <2>1, GotoEffect, Zenon
  <2>3. /\ waiters' \in [Mutexes -> Seq(Tasks)]
        /\ armed' \in [Mutexes -> {"unset", "armed", "spent"}]
        /\ Queues'
        /\ Range(waiters'[m]) = Range(waiters[m]) \cup {Monitor}
        /\ \A n \in Mutexes : n # m => waiters'[n] = waiters[n]
    BY <1>0, <1>1, <1>4, <2>1, QueueEffect, Zenon
  <2>4. Bounded'
    BY <1>0, <1>1, <2>2, BoundStays, Zenon DEF ToRaise
  <2>5. MonitorInv'
    <3>1. /\ Monitor \notin Range(waiters["event_mutex"])
          /\ Monitor \notin Range(waiters["event_handler_mutex"])
      BY <1>4, Zenon DEF InQueue, Mutexes
    <3>2. /\ m = "event_mutex" => Monitor \notin Range(waiters'["event_handler_mutex"])
          /\ m = "event_handler_mutex" => Monitor \notin Range(waiters'["event_mutex"])
      BY <2>3, <3>1, Zenon DEF Mutexes
    <3> QED BY <1>0, <1>1, <2>2, <3>1, <3>2, Zenon DEF MonitorInv
  <2> QED BY <1>1, <2>1, <2>2, <2>3, <2>4, <2>5, Zenon DEF Typed, Ordered
<1> QED BY <1>2, <1>3, <1>4, Zenon

LEMMA SleepsIsSound ==
  ASSUME EventAssumption, EventInv, NEW where, NEW m, NEW queued, NEW onward,
         Locks(where, m, queued, onward), MonitorSleeps(queued, onward)
  PROVE  EventInv'
<1> USE DEF EventInv
<1>0. /\ onward \in Places
      /\ \/ queued = "lockq" /\ onward = "take"
         \/ queued = "hlockq" /\ onward = "dispatch"
         \/ queued = "rlockq" /\ onward = "radd"
  BY Zenon DEF Locks, Places
<1>1. /\ pc[Monitor] = queued /\ ~ frame[Monitor] /\ task_wait(Monitor, "TF_WAITIO", onward)
      /\ UNCHANGED <<event_list, event_handlers, units, waiters, armed, frame, item, raised, eventcpu>>
  BY Zenon DEF MonitorSleeps, Runs, At, queueVars
<1>2. /\ pc' \in [Tasks -> Places] /\ pc'[Monitor] = onward
      /\ t_wait' \in [Tasks -> Flags] /\ t_wait'[Monitor] = "TF_WAITIO"
  BY <1>0, <1>1, Zenon DEF task_wait, Typed, Places, Flags, EventAssumption
<1>3. Bounded'
  BY <1>0, <1>1, <1>2, BoundStays, Zenon DEF ToRaise
<1>4. MonitorInv'
  BY <1>0, <1>1, <1>2, Zenon DEF MonitorInv
<1> QED BY <1>1, <1>2, <1>3, <1>4, Zenon DEF Typed, Ordered, Queues

(* The monitor takes the oldest event: there is one. *)
LEMMA TakesIsSound ==
  ASSUME EventAssumption, EventInv, MonitorTakes
  PROVE  EventInv'
<1> USE DEF EventInv
<1>1. pc[Monitor] = "take" /\ ~ frame[Monitor] /\ t_wait[Monitor] = "none"
  BY Zenon DEF MonitorTakes, Runs, At
<1>2. event_list # <<>> /\ Monitor \notin Range(waiters["event_mutex"])
  BY <1>1, Zenon DEF MonitorInv
<1>3. /\ event_list' = SubSeq(event_list, 1, Len(event_list) - 1) /\ Goto(Monitor, "unlock")
      /\ UNCHANGED <<t_wait, event_handlers, units, waiters, armed, frame, item, raised, eventcpu>>
  BY <1>2, Zenon DEF MonitorTakes
<1>4. pc' \in [Tasks -> Places] /\ pc'[Monitor] = "unlock"
  BY <1>3, GotoEffect, Zenon DEF Places
<1>5. event_list' \in Seq(Nat) /\ Ordered'
  <2>1. event_list \in Seq(Nat) /\ Len(event_list) \in Nat /\ DOMAIN event_list = 1 .. Len(event_list)
        /\ Len(event_list) > 0
    BY <1>2 DEF Typed
  <2>2. /\ event_list' \in Seq(Nat) /\ DOMAIN event_list' = 1 .. Len(event_list) - 1
        /\ \A i \in 1 .. Len(event_list) - 1 : event_list'[i] = event_list[i] /\ i \in DOMAIN event_list
    BY <1>3, <2>1
  <2> QED BY <1>3, <2>2, Zenon DEF Ordered
<1>6. Bounded'
  BY <1>3, <1>4, BoundStays, Zenon DEF ToRaise
<1>7. MonitorInv'
  BY <1>2, <1>3, <1>4, Zenon DEF MonitorInv
<1> QED BY <1>3, <1>4, <1>5, <1>6, <1>7, Zenon DEF Typed, Queues

LEMMA UnlocksIsSound ==
  ASSUME EventAssumption, EventInv, MonitorUnlocks \/ MonitorReleases
  PROVE  EventInv'
<1> USE DEF EventInv
<1> DEFINE m == IF MonitorUnlocks THEN "event_mutex" ELSE "event_handler_mutex"
           p == IF MonitorUnlocks THEN "hlock" ELSE "check"
<1>0. /\ m \in Mutexes /\ p \in Places /\ mutex_unlock(m, {}) /\ Goto(Monitor, p)
      /\ (pc[Monitor] = "unlock" /\ p = "hlock") \/ (pc[Monitor] = "hunlock" /\ p = "check")
      /\ UNCHANGED <<event_list, event_handlers, armed, frame, item, raised, eventcpu>>
  <2>1. CASE MonitorUnlocks
    BY <2>1, Zenon DEF MonitorUnlocks, Runs, At, Places, Mutexes
  <2>2. CASE ~ MonitorUnlocks
    BY <2>2, Zenon DEF MonitorReleases, Runs, At, Places, Mutexes
  <2> QED BY <2>1, <2>2, Zenon
<1> HIDE DEF m, p
<1>1. Unlocked(m, {}) /\ Monitor \in Tasks
  BY <1>0, SignalEffect, Zenon DEF EventAssumption
<1>2. pc' \in [Tasks -> Places] /\ pc'[Monitor] = p
  BY <1>0, GotoEffect, Zenon
<1>3. Bounded'
  BY <1>0, <1>2, BoundStays, Zenon DEF ToRaise
<1>4. MonitorInv'
  BY <1>0, <1>1, <1>2, Zenon DEF MonitorInv, Unlocked, Mutexes
<1> QED BY <1>0, <1>1, <1>2, <1>3, <1>4, Zenon DEF Typed, Ordered, Unlocked

(* The handlers are tasks. *)
LEMMA FollowingProperty ==
  ASSUME EventAssumption, Typed, item = Monitor \/ item \in Range(event_handlers)
  PROVE  Following(item) \in Tasks
<1>1. event_handlers \in Seq(Apps) /\ Apps \subseteq Tasks /\ Monitor \in Tasks
  BY Zenon DEF Typed, Apps, EventAssumption
<1>2. CASE item = Monitor
  BY <1>1, <1>2 DEF Following
<1>3. CASE item # Monitor
  <2>1. \E j \in DOMAIN event_handlers : event_handlers[j] = item
    BY <1>3, Zenon DEF Range
  <2> DEFINE i == CHOOSE j \in DOMAIN event_handlers : event_handlers[j] = item
  <2>2. i \in DOMAIN event_handlers
    BY <2>1, Zenon
  <2>3. Following(item) = IF i = Len(event_handlers) THEN Monitor ELSE event_handlers[i + 1]
    BY <1>3, Zenon DEF Following
  <2> HIDE DEF i
  <2> QED BY <1>1, <2>2, <2>3
<1> QED BY <1>2, <1>3, Zenon

LEMMA DispatchesIsSound ==
  ASSUME EventAssumption, EventInv, MonitorDispatches
  PROVE  EventInv'
<1> USE DEF EventInv
<1>1. pc[Monitor] = "dispatch" /\ ~ frame[Monitor] /\ t_wait[Monitor] = "none"
  BY Zenon DEF MonitorDispatches, Runs, At
<1>2. CASE item # Monitor /\ item \notin Range(event_handlers)
  <2>1. Wild
    BY <1>2, Zenon DEF MonitorDispatches
  <2>2. Bounded'
    BY <2>1, BoundStays, Zenon DEF Wild, ToRaise
  <2> QED BY <2>1, <2>2, Zenon DEF Wild, Typed, Ordered, Queues, MonitorInv
<1>3. CASE item = Monitor \/ item \in Range(event_handlers)
  <2>1. PICK p \in Places :
          /\ p \in {"hunlock", "dispatch", "rlock"} /\ Goto(Monitor, p) /\ (p = "rlock" => Room)
          /\ item' = Following(item)
          /\ UNCHANGED <<t_wait, event_list, event_handlers, units, waiters, armed, frame, raised, eventcpu>>
    BY <1>3, Zenon DEF MonitorDispatches, Places
  <2>2. pc' \in [Tasks -> Places] /\ pc'[Monitor] = p
    BY <2>1, GotoEffect, Zenon
  <2>3. item' \in Tasks
    BY <1>3, <2>1, FollowingProperty, Zenon
  <2>4. Bounded'
    <3>1. CASE p = "rlock"
      <4>1. IsFiniteSet(Framed') /\ Cardinality(Framed') = Cardinality(Framed) /\ Cardinality(Framed) \in Nat
        BY <2>1, CallsStay, Zenon
      <4>2. ToRaise' = 1 /\ raised + Cardinality(Framed) + 0 < MaxEvents
        BY <1>1, <2>1, <2>2, <3>1, Zenon DEF ToRaise, Room, Framed
      <4> QED BY <2>1, <4>1, <4>2 DEF Bounded, Typed, EventAssumption
    <3>2. CASE p # "rlock"
      BY <2>1, <2>2, <3>2, BoundStays, Zenon DEF ToRaise
    <3> QED BY <3>1, <3>2, Zenon
  <2>5. MonitorInv'
    BY <1>1, <2>1, <2>2, Zenon DEF MonitorInv
  <2> QED BY <2>1, <2>2, <2>3, <2>4, <2>5, Zenon DEF Typed, Ordered, Queues
<1> QED BY <1>2, <1>3, Zenon

LEMMA HandlerIsSound ==
  ASSUME EventAssumption, EventInv, HandlerRaises
  PROVE  EventInv'
<1> USE DEF EventInv
<1>1. /\ pc[Monitor] = "radd" /\ Add /\ mutex_unlock("event_mutex", WokenByFirst) /\ Goto(Monitor, "dispatch")
      /\ UNCHANGED <<event_handlers, armed, frame, item, eventcpu>>
      /\ raised' = raised + 1 /\ raised \in Nat /\ MaxEvents \in Nat /\ Monitor \in Tasks
  BY Zenon DEF HandlerRaises, Runs, At, Add, Typed, EventAssumption
<1>2. event_list' \in Seq(Nat) /\ event_list' # <<>> /\ raised' \in Nat /\ Ordered'
  BY <1>1, AddEffect, Zenon
<1>3. Unlocked("event_mutex", WokenByFirst)
  BY <1>1, SignalEffect, Zenon DEF Mutexes
<1>4. pc' \in [Tasks -> Places] /\ pc'[Monitor] = "dispatch"
  BY <1>1, GotoEffect, Zenon DEF Places
<1>5. Bounded'
  <2>1. IsFiniteSet(Framed') /\ Cardinality(Framed') = Cardinality(Framed) /\ Cardinality(Framed) \in Nat
    BY <1>1, CallsStay, Zenon
  <2>2. ToRaise = 1 /\ ToRaise' = 0
    BY <1>1, <1>4, Zenon DEF ToRaise
  <2> QED BY <1>1, <2>1, <2>2 DEF Bounded
<1>6. MonitorInv'
  BY <1>2, <1>4, Zenon DEF MonitorInv
<1> QED BY <1>1, <1>2, <1>3, <1>4, <1>5, <1>6, Zenon DEF Typed, Unlocked

-----------------------------------------------------------------------------
(* event_listen and event_unlisten. *)
LEMMA ListenProperty ==
  ASSUME Typed, NEW t \in Apps, ListenEffect(t)
  PROVE  event_handlers' \in Seq(Apps)
<1>1. event_handlers \in Seq(Apps) /\ Without(event_handlers, {t}) \in Seq(Apps)
  BY WithoutProperty, Zenon DEF Typed
<1> QED BY <1>1 DEF ListenEffect

(* They leave the monitor alone, but for who is woken. *)
LEMMA ListenIsSound ==
  ASSUME EventAssumption, EventInv, NEW t \in Apps, event_listen(t)
  PROVE  EventInv'
<1> USE DEF EventInv
<1>0. /\ t \in Tasks /\ t # Monitor /\ Monitor \in Tasks
      /\ UNCHANGED <<event_list, units, frame, item, raised>>
  BY Zenon DEF event_listen, Apps, EventAssumption
<1>1. CASE units["event_handler_mutex"] > 0
  <2>1. ListenEffect(t) /\ UNCHANGED <<t_wait, pc, waiters, armed, eventcpu>>
    BY <1>1, Zenon DEF event_listen
  <2>2. event_handlers' \in Seq(Apps)
    BY <2>1, ListenProperty, Zenon
  <2>3. Bounded'
    BY <1>0, <2>1, BoundStays, Zenon DEF ToRaise
  <2> QED BY <1>0, <2>1, <2>2, <2>3, Zenon DEF Typed, Ordered, Queues, MonitorInv
<1>2. CASE ~ (units["event_handler_mutex"] > 0) /\ InQueue(t)
  <2>1. eventcpu' = "wild" /\ UNCHANGED <<t_wait, pc, event_handlers, waiters, armed>>
    BY <1>2, Zenon DEF event_listen
  <2>2. Bounded'
    BY <1>0, <2>1, BoundStays, Zenon DEF ToRaise
  <2> QED BY <1>0, <2>1, <2>2, Zenon DEF Typed, Ordered, Queues, MonitorInv
<1>3. CASE ~ (units["event_handler_mutex"] > 0) /\ ~ InQueue(t)
  <2>1. /\ Queue(t, "event_handler_mutex") /\ task_wait(t, "TF_WAITIO", "listen")
        /\ UNCHANGED <<event_handlers, eventcpu>>
    BY <1>3, Zenon DEF event_listen
  <2>2. /\ waiters' \in [Mutexes -> Seq(Tasks)]
        /\ armed' \in [Mutexes -> {"unset", "armed", "spent"}]
        /\ Queues'
        /\ Range(waiters'["event_handler_mutex"]) = Range(waiters["event_handler_mutex"]) \cup {t}
        /\ \A n \in Mutexes : n # "event_handler_mutex" => waiters'[n] = waiters[n]
    BY <1>0, <1>3, <2>1, QueueEffect, Zenon DEF Mutexes
  <2>3. /\ pc' \in [Tasks -> Places] /\ pc'[Monitor] = pc[Monitor]
        /\ t_wait' \in [Tasks -> Flags] /\ t_wait'[Monitor] = t_wait[Monitor]
    BY <1>0, <2>1, Zenon DEF task_wait, Typed, Places, Flags
  <2>4. Bounded'
    BY <1>0, <2>3, BoundStays, Zenon DEF ToRaise
  <2>5. MonitorInv'
    <3>1. \A n \in Mutexes : Monitor \in Range(waiters'[n]) <=> Monitor \in Range(waiters[n])
      BY <1>0, <2>2, Zenon
    <3> QED BY <1>0, <2>3, <3>1, Zenon DEF MonitorInv, Mutexes
  <2> QED BY <1>0, <2>1, <2>2, <2>3, <2>4, <2>5, Zenon DEF Typed, Ordered
<1> QED BY <1>1, <1>2, <1>3, Zenon

LEMMA ListenResumesIsSound ==
  ASSUME EventAssumption, EventInv, NEW t \in Apps, ListenResumes(t)
  PROVE  EventInv'
<1> USE DEF EventInv
<1>0. /\ t \in Tasks /\ t # Monitor /\ Monitor \in Tasks
      /\ ListenEffect(t) /\ mutex_unlock("event_handler_mutex", {}) /\ Goto(t, "user")
      /\ UNCHANGED <<event_list, armed, frame, item, raised, eventcpu>>
  BY Zenon DEF ListenResumes, Apps, EventAssumption
<1>1. event_handlers' \in Seq(Apps)
  BY <1>0, ListenProperty, Zenon
<1>2. Unlocked("event_handler_mutex", {})
  BY <1>0, SignalEffect, Zenon DEF Mutexes
<1>3. pc' \in [Tasks -> Places] /\ pc'[Monitor] = pc[Monitor]
  BY <1>0, Zenon DEF Goto, Typed, Places
<1>4. Bounded'
  BY <1>0, <1>3, BoundStays, Zenon DEF ToRaise
<1>5. MonitorInv'
  BY <1>0, <1>2, <1>3, Zenon DEF MonitorInv, Unlocked, Mutexes, Queues
<1> QED BY <1>0, <1>1, <1>2, <1>3, <1>4, <1>5, Zenon DEF Typed, Ordered, Unlocked

-----------------------------------------------------------------------------
LEMMA EventStarts ==
  ASSUME EventAssumption, EventInit
  PROVE  EventInv
<1>1. /\ Framed = {} /\ ToRaise = 0 /\ raised = 0 /\ Monitor \in Tasks
  BY Zenon DEF Framed, ToRaise, EventInit, EventAssumption
<1>2. Bounded
  BY <1>1, FS_EmptySet DEF Bounded, EventAssumption
<1>3. Typed
  BY <1>1 DEF Typed, EventInit, Places, Flags, Mutexes
<1>4. \A m \in Mutexes : waiters[m] = <<>> /\ IsInjective(waiters[m]) /\ Range(waiters[m]) = {}
  BY DEF EventInit, IsInjective, Range
<1>5. pc[Monitor] = "check" /\ event_list = <<>>
  BY <1>1, Zenon DEF EventInit
<1> QED BY <1>2, <1>3, <1>4, <1>5 DEF EventInv, Ordered, Queues, MonitorInv, Mutexes

LEMMA EventStep ==
  ASSUME EventAssumption, EventInv, [EventNext]_eventVars
  PROVE  EventInv'
<1>1. CASE UNCHANGED eventVars
  BY <1>1, Zenon DEF eventVars, queueVars, EventInv, Typed, Bounded, Framed, ToRaise, Ordered, Queues, MonitorInv
<1>2. ASSUME MonitorStep PROVE EventInv'
  <2>1. /\ Locks("lock", "event_mutex", "lockq", "take")
        /\ Locks("hlock", "event_handler_mutex", "hlockq", "dispatch")
        /\ Locks("rlock", "event_mutex", "rlockq", "radd")
    BY Zenon DEF Locks
  <2> QED BY <1>2, <2>1, ChecksIsSound, IdlesIsSound, TakesIsSound, UnlocksIsSound, DispatchesIsSound,
             HandlerIsSound, LocksIsSound, SleepsIsSound, Zenon DEF MonitorStep
<1> QED BY <1>1, <1>2, TimeoutIsSound, InterruptIsSound, ResumeIsSound, ListenIsSound,
           ListenResumesIsSound, Zenon DEF EventNext

LEMMA EventImplies ==
  ASSUME EventAssumption, EventInv
  PROVE  EventTypeOK /\ TakesAnEvent /\ OldestFirst
<1> USE DEF EventInv
<1>1. raised \in 0 .. MaxEvents
  <2>1. Cardinality(Framed) \in Nat /\ ToRaise \in Nat
    BY FS_CardinalityType, Zenon DEF Bounded, ToRaise
  <2> QED BY <2>1 DEF Bounded, Typed, EventAssumption
<1>2. \A i \in DOMAIN event_list : event_list[i] \in 1 .. MaxEvents
  BY <1>1 DEF Ordered, EventAssumption
<1>3. event_list \in Seq(1 .. MaxEvents)
  <2>1. event_list \in [1 .. Len(event_list) -> 1 .. MaxEvents] /\ Len(event_list) \in Nat
    BY <1>2 DEF Typed
  <2> QED BY <2>1, IsSequence, Zenon
<1> QED BY <1>1, <1>3, Zenon DEF Typed, EventTypeOK, TakesAnEvent, OldestFirst, Ordered, MonitorInv

(* The monitor finds an event whenever it takes one, and takes the oldest. *)
THEOREM EventsRight ==
  ASSUME EventAssumption
  PROVE  EventSpec => [](EventTypeOK /\ TakesAnEvent /\ OldestFirst)
<1>1. EventInit => EventInv
  BY EventStarts, Zenon
<1>2. EventInv /\ [EventNext]_eventVars => EventInv'
  BY EventStep, Zenon
<1>3. EventInv => EventTypeOK /\ TakesAnEvent /\ OldestFirst
  BY EventImplies, Zenon
<1> QED BY <1>1, <1>2, <1>3, PTL DEF EventSpec

-----------------------------------------------------------------------------
(* Signals. *)

Contexts == [where : {"main", "handler", "scheduler"}, at : Nat]

Types ==
  /\ bitmap \subseteq Sigs /\ nraised \in Nat
  /\ inSignal \in BOOLEAN /\ main \in Nat
  /\ ctx \in Contexts /\ saved \in Contexts

(* Only a task that is stopped was left in the middle of the scheduler, and *)
(* unless a handler has executed another program, a task that is not        *)
(* stopped is in a handler exactly when TF_SIGNAL says so.                  *)
Flag ==
  /\ ctx.where = "scheduler" => sched = "stopped"
  /\ saved.where # "scheduler"
  /\ "execve in a handler" \notin flaws /\ sigcpu = "ok" /\ sched # "stopped"
       => (inSignal <=> ctx.where = "handler")

(* The inductive invariant. *)
SignalInv == Types /\ NoSignalOverlooked /\ Flag /\ ResumesMain

-----------------------------------------------------------------------------
(* Signals that are raised or lowered, and the count. *)
LEMMA Raising ==
  ASSUME SignalAssumption, Types, NoSignalOverlooked, NEW s \in Sigs, RAISE_SIGNAL(s)
  PROVE  bitmap' \subseteq Sigs /\ nraised' \in Nat /\ NoSignalOverlooked'
<1>1. IsFiniteSet(bitmap)
  BY FS_Subset, Zenon DEF SignalAssumption, Types
<1>2. Cardinality(bitmap) \in Nat
  BY <1>1, FS_CardinalityType, Zenon
<1>a. Cardinality(bitmap \cup {s})
        = IF s \in bitmap THEN Cardinality(bitmap) ELSE Cardinality(bitmap) + 1
  BY <1>1, FS_AddElement, Zenon
<1>3. Cardinality(bitmap \cup {s}) <= Cardinality(bitmap) + 1
  BY <1>2, <1>a
<1>4. IsFiniteSet(bitmap \cup {s}) /\ Cardinality(bitmap \cup {s}) \in Nat
  BY <1>1, FS_AddElement, FS_CardinalityType, Zenon
<1> QED BY <1>2, <1>3, <1>4 DEF RAISE_SIGNAL, Types, NoSignalOverlooked

(* What signal_check and signal_return share. *)
Checks == IF Nothing THEN bitmap' = bitmap \ Seen /\ nraised' = 0 ELSE Lowers

(* Lowering bits never leaves fewer raises than bits. *)
LEMMA Lowering ==
  ASSUME SignalAssumption, Types, NoSignalOverlooked, Checks
  PROVE  /\ bitmap' \subseteq Sigs /\ nraised' \in Nat /\ NoSignalOverlooked'
         /\ ~ Nothing => Chosen \in Nat
<1>1. IsFiniteSet(bitmap) /\ Cardinality(bitmap) \in Nat
  BY FS_Subset, FS_CardinalityType, Zenon DEF SignalAssumption, Types
<1>2. CASE Nothing
  <2>1. bitmap \ Seen = {}
    <3>1. nraised = 0 => bitmap = {}
      <4>1. nraised = 0 => Cardinality(bitmap) = 0
        BY <1>1 DEF NoSignalOverlooked
      <4> QED BY <4>1, <1>1, FS_EmptySet, Zenon
    <3> QED BY <3>1, Zenon DEF Seen
  <2> QED BY <1>2, <2>1, FS_EmptySet DEF Checks, NoSignalOverlooked
<1>3. CASE ~ Nothing
  <2>1. Seen = bitmap /\ Passed \subseteq bitmap /\ Pending = bitmap \ Passed
    BY <1>3, Zenon DEF Nothing, Pending, Seen, Passed
  <2>2. Pending \in SUBSET Nat /\ Pending # {}
    BY <1>3, <2>1 DEF Nothing, SignalAssumption, Types
  <2>3. Chosen \in Pending
    BY <2>2, MinProperty, Zenon DEF Chosen
  <2>4. IsFiniteSet(Passed) /\ IsFiniteSet(Pending)
    BY <2>1, <1>1, FS_Subset, Zenon
  <2>5. /\ Cardinality(Pending) = Cardinality(bitmap) - Cardinality(Passed)
        /\ Cardinality(Passed) \in Nat /\ Cardinality(Pending) \in Nat
    <3>1. Passed = bitmap \cap Passed
      BY <2>1, Zenon
    <3>2. Cardinality(bitmap \ Passed)
            = Cardinality(bitmap) - Cardinality(bitmap \cap Passed)
      BY <1>1, FS_Difference, Zenon
    <3> QED BY <3>1, <3>2, <2>1, <2>4, FS_CardinalityType, Zenon
  <2>6. Cardinality(Pending \ {Chosen}) = Cardinality(Pending) - 1
    BY <2>3, <2>4, FS_RemoveElement, Zenon
  <2>7. Cardinality(Pending \ {Chosen}) \in Nat
    BY <2>4, FS_RemoveElement, FS_CardinalityType, Zenon
  <2>8. /\ bitmap' = Pending \ {Chosen}
        /\ nraised' = nraised - Cardinality(Passed) - 1
    BY <1>3, Zenon DEF Checks, Lowers
  <2>9. nraised \in Nat /\ nraised >= Cardinality(bitmap)
    BY Zenon DEF Types, NoSignalOverlooked
  <2>10. nraised' >= Cardinality(Pending \ {Chosen}) /\ nraised' \in Nat
    BY <2>5, <2>6, <2>7, <2>8, <2>9, <1>1
  <2>11. bitmap' \subseteq Sigs /\ Chosen \in Nat
    BY <2>8, <2>3, <2>2, <2>1, Zenon DEF Types
  <2> QED BY <2>8, <2>10, <2>11, Zenon DEF NoSignalOverlooked
<1> QED BY <1>2, <1>3, Zenon

-----------------------------------------------------------------------------
(* The initial state is sound. *)
LEMMA SignalStarts == ASSUME SignalAssumption PROVE SignalInit => SignalInv
<1> SUFFICES ASSUME SignalInit PROVE SignalInv
  BY Zenon
<1>1. Types /\ Flag /\ ResumesMain
  BY Zenon DEF SignalInit, Types, Flag, ResumesMain, Main, Contexts
<1>2. NoSignalOverlooked
  BY FS_EmptySet DEF SignalInit, NoSignalOverlooked
<1> QED BY <1>1, <1>2, Zenon DEF SignalInv

(* A place in the main program is told by its two parts. *)
LEMMA MainPlace ==
  ASSUME NEW c \in Contexts, NEW n \in Nat, c.where = "main", c.at = n
  PROVE  c = Main(n)
BY Zenon DEF Contexts, Main

(* The parts of the three kinds of context. *)
LEMMA SignalPlaces ==
  ASSUME NEW n
  PROVE  /\ Main(n).where = "main" /\ Main(n).at = n
         /\ Handler(n).where = "handler" /\ InScheduler.where = "scheduler"
         /\ n \in Nat => Handler(n) \in Contexts /\ Main(n) \in Contexts
         /\ InScheduler \in Contexts
BY Zenon DEF Main, Handler, InScheduler, Contexts

(* signal_check in the scheduler keeps the invariant. *)
LEMMA SignalPreempts ==
  ASSUME SignalAssumption, SignalInv, signal_preempt
  PROVE  SignalInv'
<1>t. Types /\ NoSignalOverlooked /\ Flag /\ ResumesMain
  BY Zenon DEF SignalInv
<1>1. Checks
  BY Zenon DEF signal_preempt, CheckLowers, Checks
<1>2. /\ bitmap' \subseteq Sigs /\ nraised' \in Nat /\ NoSignalOverlooked'
      /\ ~ Nothing => Chosen \in Nat
  BY <1>1, <1>t, Lowering, Zenon
<1>3. /\ sigcpu = "ok" /\ sched = "ready" /\ UNCHANGED main
      /\ saved' = IF Seen = {} THEN saved ELSE signal_save
      /\ (inSignal' <=> inSignal \/ Dispatch) /\ inSignal' \in BOOLEAN
      /\ "execve in a handler" \notin flaws' => "execve in a handler" \notin flaws
  BY <1>t, Zenon DEF signal_preempt, CheckLowers, Alive, Types, Dispatch, Nothing
<1>4. /\ Dispatch => ctx' = Handler(Chosen) /\ sched' = "running"
      /\ ~ Dispatch /\ Default("stop") => ctx' = InScheduler /\ sched' = "stopped"
      /\ ~ Dispatch /\ ~ Default("stop") => ctx' = ctx /\ sched' # "stopped"
  BY Zenon DEF signal_preempt, CheckDecides, Dispatch, Default
<1>5. Dispatch => Chosen \in Nat /\ Seen # {}
  <2>1. ~ Nothing => Chosen \in Nat
    BY <1>2, Zenon
  <2>2. ~ Nothing => Seen # {}
    BY Zenon DEF Nothing, Pending
  <2>3. Dispatch => ~ Nothing
    BY Zenon DEF Dispatch
  <2> QED BY <2>1, <2>2, <2>3, Zenon
<1>6. saved' \in Contexts /\ (saved' = saved \/ (~ inSignal /\ saved' = ctx))
  BY <1>3, <1>t, Zenon DEF signal_save, Types
<1>7. Types'
  <2>1. ctx' \in Contexts
    BY <1>4, <1>5, <1>t, SignalPlaces, Zenon DEF Types
  <2> QED BY <2>1, <1>2, <1>3, <1>6, <1>t, Zenon DEF Types
<1>8. Flag'
  <2>1. saved'.where # "scheduler"
    BY <1>3, <1>6, <1>t, Zenon DEF Flag
  <2>2. CASE Dispatch
    BY <2>1, <2>2, <1>3, <1>4, SignalPlaces DEF Flag
  <2>3. CASE ~ Dispatch /\ Default("stop")
    BY <2>1, <2>3, <1>4, Zenon DEF Flag
  <2>4. CASE ~ Dispatch /\ ~ Default("stop")
    BY <2>1, <2>4, <1>3, <1>4, <1>t, Zenon DEF Flag
  <2> QED BY <2>2, <2>3, <2>4, Zenon
<1>9. ResumesMain'
  <2> SUFFICES ASSUME "execve in a handler" \notin flaws', sigcpu' = "ok"
               PROVE  /\ ctx'.where = "main" => ctx'.at = main'
                      /\ ctx'.where = "handler" => inSignal'
                      /\ inSignal' => saved' = Main(main')
    BY Zenon DEF ResumesMain
  <2>1. /\ ctx.where = "main" => ctx.at = main
        /\ ctx.where = "handler" => inSignal
        /\ inSignal => saved = Main(main)
    BY <1>3, <1>t, Zenon DEF ResumesMain
  <2>2. ~ inSignal => ctx = Main(main)
    <3>1. ~ inSignal => ctx.where = "main"
      BY <1>3, <1>t, Zenon DEF Flag, Types, Contexts
    <3> QED BY <3>1, <2>1, <1>t, MainPlace, Zenon DEF Types
  <2>3. inSignal' => saved' = Main(main')
    <3>1. CASE inSignal
      BY <3>1, <2>1, <1>3, <1>6, Zenon
    <3>2. CASE ~ inSignal /\ Dispatch
      BY <3>2, <2>2, <1>3, <1>5, Zenon DEF signal_save
    <3> QED BY <3>1, <3>2, <1>3, Zenon
  <2>4. /\ ctx'.where = "main" => ctx'.at = main'
        /\ ctx'.where = "handler" => inSignal'
    <3>1. CASE Dispatch
      BY <3>1, <1>3, <1>4, SignalPlaces, Zenon
    <3>2. CASE ~ Dispatch /\ Default("stop")
      BY <3>2, <1>4, SignalPlaces, Zenon
    <3>3. CASE ~ Dispatch /\ ~ Default("stop")
      BY <3>3, <1>3, <1>4, <2>1, Zenon
    <3> QED BY <3>1, <3>2, <3>3, Zenon
  <2> QED BY <2>3, <2>4, Zenon
<1> QED BY <1>2, <1>7, <1>8, <1>9, Zenon DEF SignalInv

(* signal_return keeps it. *)
LEMMA ReturnIsSound ==
  ASSUME SignalAssumption, SignalInv, signal_return
  PROVE  SignalInv'
<1> DEFINE reset == Dispatch /\ Passed # {}
<1>t. Types /\ NoSignalOverlooked /\ Flag /\ ResumesMain
  BY DEF SignalInv
<1>1. Checks
  BY Zenon DEF signal_return, Checks
<1>2. /\ bitmap' \subseteq Sigs /\ nraised' \in Nat /\ NoSignalOverlooked'
      /\ ~ Nothing => Chosen \in Nat
  BY <1>1, <1>t, Lowering
<1>3. /\ sigcpu = "ok" /\ inSignal /\ ctx.where = "handler" /\ UNCHANGED <<main, saved>>
      /\ (inSignal' <=> (Dispatch /\ ~ reset) \/ Default("stop"))
      /\ inSignal' \in BOOLEAN
      /\ "execve in a handler" \notin flaws' => "execve in a handler" \notin flaws
  BY Zenon DEF signal_return, Running, Alive, Dispatch, Default, Nothing
<1>4. /\ Dispatch /\ ~ reset => ctx' = Handler(Chosen) /\ sched' = "running"
      /\ Default("stop") => ctx' = ctx /\ sched' = "stopped"
      /\ ~ (Dispatch /\ ~ reset) /\ ~ Default("stop")
           => ctx' = saved /\ sched' # "stopped"
  BY Zenon DEF signal_return, CheckDecides, Dispatch, Default
<1>5. Dispatch => Chosen \in Nat
  <2>1. ~ Nothing => Chosen \in Nat
    BY <1>2
  <2>2. Dispatch => ~ Nothing
    BY DEF Dispatch
  <2> QED BY <2>1, <2>2, Zenon
<1> HIDE DEF reset
<1>6. Types'
  <2>1. ctx' \in Contexts
    BY <1>3, <1>4, <1>5, <1>t, SignalPlaces, Zenon DEF Types
  <2> QED BY <2>1, <1>2, <1>3, <1>t, Zenon DEF Types
<1>7. "execve in a handler" \notin flaws' /\ sigcpu' = "ok" => saved = Main(main)
  BY <1>3, <1>t, Zenon DEF ResumesMain
<1>8. Flag' /\ ResumesMain'
  <2>0. saved'.where # "scheduler" /\ UNCHANGED saved /\ main' = main
    BY <1>3, <1>t, Zenon DEF Flag
  <2>1. CASE Dispatch /\ ~ reset
    <3>1. ctx'.where = "handler" /\ inSignal' /\ sched' = "running"
      BY <2>1, <1>3, <1>4, SignalPlaces
    <3> QED BY <3>1, <2>0, <1>7, Zenon DEF Flag, ResumesMain
  <2>2. CASE Default("stop")
    <3>1. ctx'.where = "handler" /\ inSignal' /\ sched' = "stopped"
      BY <2>2, <1>3, <1>4, Zenon
    <3> QED BY <3>1, <2>0, <1>7, Zenon DEF Flag, ResumesMain
  <2>3. CASE ~ (Dispatch /\ ~ reset) /\ ~ Default("stop")
    <3>1. ctx' = saved /\ ~ inSignal'
      BY <2>3, <1>3, <1>4, Zenon
    <3>2. Main(main).where = "main" /\ Main(main).at = main
      BY SignalPlaces, Zenon
    <3> QED BY <3>1, <3>2, <2>0, <1>7, Zenon DEF Flag, ResumesMain
  <2> QED BY <2>1, <2>2, <2>3, Zenon
<1> QED BY <1>2, <1>6, <1>8, Zenon DEF SignalInv

(* Every step keeps it. *)
LEMMA SignalStep ==
  ASSUME SignalAssumption
  PROVE  SignalInv /\ [SignalNext]_signalVars => SignalInv'
<1> SUFFICES ASSUME SignalInv, [SignalNext]_signalVars
             PROVE  SignalInv'
  BY Zenon
<1>t. Types /\ NoSignalOverlooked /\ Flag /\ ResumesMain
  BY Zenon DEF SignalInv
<1>1. CASE signal_preempt
  BY <1>1, SignalPreempts, Zenon
<1>2. CASE signal_return
  BY <1>2, ReturnIsSound, Zenon
<1>3. ASSUME NEW to \in {"ready", "waiting"}, Leaves(to)
      PROVE  SignalInv'
  BY <1>3, <1>t, Zenon
    DEF Leaves, Running, Alive, sigVars, SignalInv, Types, NoSignalOverlooked, Flag, ResumesMain
<1>4. CASE Wakes
  BY <1>4, <1>t, Zenon
    DEF Wakes, Alive, sigVars, SignalInv, Types, NoSignalOverlooked, Flag, ResumesMain
<1>5. CASE MainRuns
  <2>1. /\ sigcpu = "ok" /\ sched = "running" /\ ctx.where = "main"
        /\ main' = main + 1 /\ ctx' = Main(main + 1)
        /\ UNCHANGED <<bitmap, nraised, inSignal, saved, sched, sigcpu, flaws>>
    BY <1>5, Zenon DEF MainRuns, Running, Alive, sigVars
  <2>2. ctx'.where = "main" /\ ctx'.at = main' /\ ctx' \in Contexts
    <3>1. main + 1 \in Nat
      BY <1>t DEF Types
    <3> QED BY <3>1, <2>1, SignalPlaces, Zenon
  <2>3. Types' /\ NoSignalOverlooked'
    BY <2>1, <2>2, <1>t DEF Types, NoSignalOverlooked
  <2>4. Flag' /\ ResumesMain'
    BY <2>1, <2>2, <1>t, Zenon DEF Flag, ResumesMain
  <2> QED BY <2>3, <2>4, Zenon DEF SignalInv
<1>6. CASE signal_execve
  <2>1. /\ sigcpu = "ok" /\ sched = "running"
        /\ main' = main + 1 /\ ctx' = Main(main + 1) /\ bitmap' = {} /\ nraised' = 0
        /\ inSignal => "execve in a handler" \in flaws'
        /\ ~ inSignal => flaws' = flaws
        /\ UNCHANGED <<inSignal, saved, sched, sigcpu>>
    BY <1>6, Zenon DEF signal_execve, Running, Alive
  <2>2. ctx'.where = "main" /\ ctx'.at = main' /\ ctx' \in Contexts
    <3>1. main + 1 \in Nat
      BY <1>t DEF Types
    <3> QED BY <3>1, <2>1, SignalPlaces, Zenon
  <2>3. Types' /\ NoSignalOverlooked'
    <3>1. main + 1 \in Nat /\ Cardinality({}) = 0
      BY <1>t, FS_EmptySet DEF Types
    <3>2. NoSignalOverlooked'
      <4>1. nraised' = 0 /\ Cardinality(bitmap') = 0
        BY <3>1, <2>1, Zenon
      <4> QED BY <4>1, SMT DEF NoSignalOverlooked
    <3>3. Types'
      BY <3>1, <2>1, <2>2, <1>t, Zenon DEF Types
    <3> QED BY <3>2, <3>3, Zenon
  <2>4. Flag' /\ ResumesMain'
    BY <2>1, <2>2, <1>t, Zenon DEF Flag, ResumesMain
  <2> QED BY <2>3, <2>4 DEF SignalInv
<1>7. ASSUME NEW s \in Sigs, signal_kill(s)
      PROVE  SignalInv'
  <2>1. bitmap' \subseteq Sigs /\ nraised' \in Nat /\ NoSignalOverlooked'
    BY <1>7, <1>t, Raising, Zenon DEF signal_kill
  <2>2. /\ sched' = (IF sched = "running" THEN "ready" ELSE sched)
        /\ UNCHANGED <<inSignal, saved, ctx, sigcpu, main, flaws>>
    BY <1>7, Zenon DEF signal_kill
  <2> QED BY <2>1, <2>2, <1>t, Zenon DEF SignalInv, Types, Flag, ResumesMain
<1>8. ASSUME NEW s \in Sigs, NEW h \in {"SIG_DFL", "SIG_IGN", "user"}, signal_signal(s, h)
      PROVE  SignalInv'
  BY <1>8, <1>t, Zenon
    DEF signal_signal, sigVars, SignalInv, Types, NoSignalOverlooked, Flag, ResumesMain
<1>9. CASE UNCHANGED signalVars
  BY <1>9, <1>t, Zenon
    DEF signalVars, sigVars, SignalInv, Types, NoSignalOverlooked, Flag, ResumesMain
<1> QED BY <1>1, <1>2, <1>3, <1>4, <1>5, <1>6, <1>7, <1>8, <1>9, Zenon DEF SignalNext

(* signal_check looks at the bitmap only while nraised is not 0, and that   *)
(* never hides a signal: there are at least as many raises as bits.         *)
THEOREM NoSignalOverlookedAlways ==
  ASSUME SignalAssumption PROVE SignalSpec => []NoSignalOverlooked
<1>1. SignalInv => NoSignalOverlooked
  BY Zenon DEF SignalInv
<1> QED BY SignalStarts, SignalStep, <1>1, PTL DEF SignalSpec

(* However handlers nest and follow each other, signal_save keeps the place *)
(* of the main program until signal_return goes back to it.                 *)
THEOREM ResumesMainAlways ==
  ASSUME SignalAssumption PROVE SignalSpec => []ResumesMain
<1>1. SignalInv => ResumesMain
  BY Zenon DEF SignalInv
<1> QED BY SignalStarts, SignalStep, <1>1, PTL DEF SignalSpec

-----------------------------------------------------------------------------
(* No handler is ever set for SIGKILL, and a signal is counted at most once *)
(* for each time it was raised.                                             *)
Bounds ==
  /\ handler \in [Sigs -> {"SIG_DFL", "SIG_IGN", "user"}]
  /\ SIGKILL \in Sigs => handler[SIGKILL] = "SIG_DFL"
  /\ nraised <= raises /\ raises \in 0 .. MaxRaises /\ main \in 0 .. MaxSteps
  /\ sched \in {"running", "ready", "waiting", "stopped", "exit"}
  /\ sigcpu \in {"ok", "wild"}

TInv == SignalInv /\ Bounds

(* Lowering never counts up. *)
LEMMA LoweringCounts ==
  ASSUME SignalAssumption, Types, Checks
  PROVE  nraised' <= nraised
<1>1. IsFiniteSet(bitmap) /\ Passed \subseteq bitmap
  BY FS_Subset, Zenon DEF SignalAssumption, Types, Passed, Seen
<1>2. Cardinality(Passed) \in Nat
  BY <1>1, FS_Subset, FS_CardinalityType, Zenon
<1> QED BY <1>2 DEF Checks, Lowers, Types

LEMMA BoundsStep ==
  ASSUME SignalAssumption, SignalInv, Bounds, [SignalNext]_signalVars
  PROVE  Bounds'
<1>t. Types /\ nraised \in Nat
  BY Zenon DEF SignalInv, Types
<1>1. CASE signal_preempt \/ signal_return
  <2>1. Checks
    BY <1>1, Zenon DEF signal_preempt, signal_return, CheckLowers, Checks
  <2>2. nraised' <= nraised /\ nraised' \in Nat
    BY <2>1, <1>t, LoweringCounts, Lowering, Zenon DEF SignalInv
  <2>3. /\ sched' \in {"running", "stopped", "exit"} /\ sigcpu' \in {"ok", "wild"}
        /\ UNCHANGED <<handler, main, raises>>
    BY <1>1, Zenon DEF signal_preempt, signal_return, CheckDecides, Bounds
  <2> QED BY <2>2, <2>3, <1>t DEF Bounds
<1>2. CASE \/ \E to \in {"ready", "waiting"} : Leaves(to)
           \/ Wakes
  BY <1>2, Zenon DEF Leaves, Wakes, sigVars, Bounds
<1>3. CASE MainRuns \/ signal_execve
  <2>1. /\ main < MaxSteps /\ main' = main + 1 /\ (nraised' = nraised \/ nraised' = 0)
        /\ UNCHANGED <<raises, sched, sigcpu>>
    BY <1>3, Zenon DEF MainRuns, signal_execve, sigVars
  <2>2. handler' = handler \/ handler' = [s \in Sigs |-> "SIG_DFL"]
    BY <1>3, Zenon DEF MainRuns, signal_execve
  <2>3. main' \in 0 .. MaxSteps /\ nraised' <= raises'
    BY <2>1, <1>t DEF Bounds, SignalAssumption
  <2> QED BY <2>1, <2>2, <2>3, Zenon DEF Bounds
<1>4. ASSUME NEW s \in Sigs, signal_kill(s)
      PROVE  Bounds'
  <2>1. /\ raises < MaxRaises /\ raises' = raises + 1 /\ nraised' = nraised + 1
        /\ sched' = (IF sched = "running" THEN "ready" ELSE sched)
        /\ UNCHANGED <<handler, sigcpu, main>>
    BY <1>4, Zenon DEF signal_kill, RAISE_SIGNAL
  <2> QED BY <2>1, <1>t DEF Bounds, SignalAssumption
<1>5. ASSUME NEW s \in Sigs, NEW h \in {"SIG_DFL", "SIG_IGN", "user"}, signal_signal(s, h)
      PROVE  Bounds'
  BY <1>5, Zenon DEF signal_signal, sigVars, Bounds
<1>6. CASE UNCHANGED signalVars
  BY <1>6, Zenon DEF signalVars, sigVars, Bounds
<1> QED BY <1>1, <1>2, <1>3, <1>4, <1>5, <1>6, Zenon DEF SignalNext

LEMMA BoundsAlways ==
  ASSUME SignalAssumption
  PROVE  (SignalInit => TInv) /\ (TInv /\ [SignalNext]_signalVars => TInv')
<1>1. SignalInit => Bounds
  BY DEF SignalInit, Bounds, SignalAssumption
<1> QED BY <1>1, SignalStarts, SignalStep, BoundsStep, Zenon DEF TInv

(* The state has its type: in particular the count of raised signals stays  *)
(* within the signals raised, whatever signal_check subtracts.              *)
THEOREM SignalTypeCorrect ==
  ASSUME SignalAssumption PROVE SignalSpec => []SignalTypeOK
<1>1. TInv => SignalTypeOK
  BY DEF TInv, SignalInv, Types, Bounds, SignalTypeOK, SignalAssumption
<1> QED BY BoundsAlways, <1>1, PTL DEF SignalSpec

(* signal_check takes SIGKILL out of the bitmap only to end the task. *)
LEMMA KillEnds ==
  ASSUME SignalAssumption, TInv, Checks, SIGKILL \in bitmap, SIGKILL \notin bitmap'
  PROVE  Default("term")
<1>t. Types /\ NoSignalOverlooked /\ Bounds
  BY Zenon DEF TInv, SignalInv
<1>1. nraised # 0
  <2>1. IsFiniteSet(bitmap)
    BY <1>t, FS_Subset, Zenon DEF SignalAssumption, Types
  <2>2. Cardinality(bitmap) \in Nat \ {0}
    BY <2>1, FS_EmptySet, FS_CardinalityType, Zenon
  <2> QED BY <2>2, <1>t DEF NoSignalOverlooked, Types
<1>2. signal_default(SIGKILL) = "term"
  BY DEF signal_default, SIGKILL
<1>3. SIGKILL \in Sigs /\ handler[SIGKILL] = "SIG_DFL" /\ SIGKILL \in Nat
  BY <1>t, Zenon DEF Types, Bounds, SIGKILL
<1>4. ~ ComesBack(SIGKILL)
  BY <1>2, Zenon DEF ComesBack
<1>5. SIGKILL \in Seen /\ SIGKILL <= SIGKILL
  BY <1>1, <1>3 DEF Seen
<1>6. SIGKILL \in Pending
  BY <1>4, <1>5, Zenon DEF Pending, Passed
<1>7. ~ Nothing
  BY <1>6, Zenon DEF Nothing
<1>8. Chosen = SIGKILL
  BY <1>6, <1>7, Zenon DEF Checks, Lowers
<1> QED BY <1>2, <1>3, <1>7, <1>8, Zenon DEF Default

(* What no handler can prevent (signal_signal refuses one for SIGKILL,      *)
(* signal_check takes the signals in order): a SIGKILL that leaves the      *)
(* bitmap has ended the task, unless it executed another program.           *)
THEOREM KillIsTakenAlways ==
  ASSUME SignalAssumption PROVE SignalSpec => KillIsTaken
<1> DEFINE A == (SIGKILL \in bitmap /\ SIGKILL \notin bitmap') =>
                  (sched' = "exit" \/ main' # main)
<1>1. TInv /\ [SignalNext]_signalVars => [A]_signalVars
  <2> SUFFICES ASSUME TInv, SignalNext, SIGKILL \in bitmap, SIGKILL \notin bitmap'
               PROVE  sched' = "exit" \/ main' # main
    BY Zenon
  <2>1. CASE signal_preempt \/ signal_return
    <3>1. Checks
      BY <2>1, Zenon DEF signal_preempt, signal_return, CheckLowers, Checks
    <3>2. Default("term")
      BY <3>1, KillEnds, Zenon
    <3>3. sched' = CASE Default("term") -> "exit"
                     [] Default("stop") -> "stopped"
                     [] OTHER -> "running"
      BY <2>1, Zenon DEF signal_preempt, signal_return, CheckDecides
    <3>4. ~ Default("stop")
      BY <3>2, Zenon DEF Default
    <3> QED BY <3>2, <3>3, <3>4, Zenon
  <2>2. CASE MainRuns \/ signal_execve
    <3>1. main' = main + 1 /\ main \in Nat
      BY <2>2, Zenon DEF MainRuns, signal_execve, TInv, SignalInv, Types
    <3> QED BY <3>1
  <2>3. CASE \/ \E to \in {"ready", "waiting"} : Leaves(to)
             \/ Wakes
             \/ \E s \in Sigs : \/ signal_kill(s)
                                \/ \E h \in {"SIG_DFL", "SIG_IGN", "user"} :
                                     signal_signal(s, h)
    BY <2>3, Zenon DEF Leaves, Wakes, signal_kill, RAISE_SIGNAL, signal_signal, sigVars
  <2> QED BY <2>1, <2>2, <2>3, Zenon DEF SignalNext
<1>2. SignalSpec => [][A]_signalVars
  BY BoundsAlways, <1>1, PTL DEF SignalSpec
<1> QED BY <1>2, Zenon DEF KillIsTaken
=============================================================================
