-------------------------------- MODULE Timer --------------------------------
(***************************************************************************)
(* The timer's list of callbacks, kernel/src/timer.c: a fixed array of     *)
(* callback_info structures, those in use linked by next and prev in the   *)
(* order in which they are to fire.  The loops that insert into the list   *)
(* run with interrupts off; they are taken one iteration at a time, so     *)
(* that whether they end is visible.                                       *)
(***************************************************************************)
EXTENDS Integers, FiniteSets

CONSTANTS
  Callers,   \* the kernel tasks that register callbacks
  MaxSlots,  \* TIMER_MAX_CALLBACKS
  MaxTick,   \* bound: ticks that pass
  NULL

TimerAssumption ==
  /\ MaxSlots \in Nat \ {0} /\ MaxTick \in Nat
  /\ NULL \notin Callers \cup Nat /\ Callers \cap {"none", "timer"} = {}

Slots == 1 .. MaxSlots
Pointer == Slots \cup {NULL}
TIMER_CANCEL == MaxTick + 2         \* later than every tick, as (tick_t)-1 is
Later(tick) == tick + 1 .. MaxTick + 1

VARIABLES
  when, next, prev,   \* the fields of callbacks[i]
  next_callback,
  current_tick,
  timercpu,                \* who has interrupts off: a caller, "timer", or "none"
  iter,               \* the iterator of the loop that runs, else NULL
  tmp,                \* the structure it inserts
  callpc, nr, calltick,        \* the callers' position, chosen slot and tick
  overtook            \* history: a callback was put before two later ones

listVars == <<when, next, prev, next_callback>>
callVars == <<callpc, nr, calltick>>
timerVars == <<listVars, current_tick, timercpu, iter, tmp, callVars, overtook>>

TimerInit ==
  /\ when = [i \in Slots |-> TIMER_CANCEL]
  /\ next = [i \in Slots |-> NULL] /\ prev = [i \in Slots |-> NULL]
  /\ next_callback = NULL
  /\ current_tick = 0
  /\ timercpu = "none" /\ iter = NULL /\ tmp = NULL
  /\ callpc = [c \in Callers |-> "idle"] /\ nr = [c \in Callers |-> NULL]
  /\ calltick = [c \in Callers |-> 0]
  /\ overtook = FALSE

-----------------------------------------------------------------------------
(* timer_callback.  The slot is chosen, and then filled, with interrupts    *)
(* on; a call that finds none returns -1 and changes nothing.               *)
Free == {i \in Slots : when[i] = TIMER_CANCEL}

(* The callbacks that are registered: their slots are in use, and their     *)
(* call of timer_callback is over.                                          *)
Registered ==
  (Slots \ Free) \ {nr[c] : c \in {d \in Callers : callpc[d] = "filled"}}

ChooseSlot(c, tick) ==
  /\ timercpu = "none" /\ callpc[c] = "idle" /\ Free # {}
  /\ nr' = [nr EXCEPT ![c] = CHOOSE i \in Free : \A j \in Free : i <= j]
  /\ calltick' = [calltick EXCEPT ![c] = tick]
  /\ callpc' = [callpc EXCEPT ![c] = "chosen"]
  /\ UNCHANGED <<listVars, current_tick, timercpu, iter, tmp, overtook>>

FillSlot(c) ==
  /\ timercpu = "none" /\ callpc[c] = "chosen"
  /\ when' = [when EXCEPT ![nr[c]] = calltick[c]]
  /\ next' = [next EXCEPT ![nr[c]] = NULL]
  /\ prev' = [prev EXCEPT ![nr[c]] = NULL]
  /\ callpc' = [callpc EXCEPT ![c] = "filled"]
  /\ UNCHANGED <<next_callback, current_tick, timercpu, iter, tmp, nr, calltick, overtook>>

InsertBegins(c) ==
  /\ timercpu = "none" /\ callpc[c] = "filled"
  /\ IF next_callback = NULL
     THEN /\ next_callback' = nr[c]
          /\ callpc' = [callpc EXCEPT ![c] = "idle"]
          /\ UNCHANGED <<timercpu, iter, tmp>>
     ELSE /\ timercpu' = c /\ iter' = next_callback /\ tmp' = nr[c]
          /\ UNCHANGED <<next_callback, callpc>>
  /\ overtook' = (overtook \/ Cardinality({i \in Registered : when[i] > when[nr[c]]}) > 1)
  /\ UNCHANGED <<when, next, prev, current_tick, nr, calltick>>

(* The body of both insertion loops: new is linked before i, or behind it   *)
(* when i is the last.  The stores follow one another: iter->prev->next,    *)
(* new->prev, iter->prev, new->next.                                        *)
Link(i, new) ==
  LET before == prev[i]
      next1  == IF before = NULL THEN next ELSE [next EXCEPT ![before] = new]
  IN
  \/ /\ when[i] > when[new]
     /\ prev' = [prev EXCEPT ![new] = before, ![i] = new]
     /\ next' = [next1 EXCEPT ![new] = i]
  \/ /\ when[i] <= when[new] /\ next[i] = NULL
     /\ next' = [next EXCEPT ![i] = new]
     /\ prev' = [prev EXCEPT ![new] = i]
  \/ /\ when[i] <= when[new] /\ next[i] # NULL
     /\ UNCHANGED <<next, prev>>

(* Whoever was put before the first is the first. *)
FixFirst ==
  next_callback' =
    IF prev[next_callback] # NULL THEN prev[next_callback] ELSE next_callback

(* The loop goes on to the end of the list, also after it has linked new. *)
InsertStep(c) ==
  /\ timercpu = c /\ iter # NULL
  /\ Link(iter, tmp)
  /\ iter' = next'[iter]
  /\ UNCHANGED <<when, next_callback, current_tick, timercpu, tmp, callVars, overtook>>

InsertEnds(c) ==
  /\ timercpu = c /\ iter = NULL
  /\ FixFirst
  /\ timercpu' = "none" /\ tmp' = NULL
  /\ callpc' = [callpc EXCEPT ![c] = "idle"]
  /\ UNCHANGED <<when, next, prev, current_tick, iter, nr, calltick, overtook>>

-----------------------------------------------------------------------------
(* timer_interrupt. *)
TickBegins ==
  /\ timercpu = "none" /\ current_tick < MaxTick
  /\ current_tick' = current_tick + 1
  /\ timercpu' = "timer"
  /\ UNCHANGED <<listVars, iter, tmp, callVars, overtook>>

FirstIsDue == next_callback # NULL /\ when[next_callback] <= current_tick

(* The first callback runs and returns when it wants to run again. *)
Fire(again) ==
  LET first == next_callback
      rest  == next[first] IN
  /\ timercpu = "timer" /\ iter = NULL /\ FirstIsDue
  /\ when' = [when EXCEPT ![first] = again]
  /\ next' = [next EXCEPT ![first] = NULL]
  /\ prev' = [i \in Slots |-> IF i \in {first, rest} THEN NULL ELSE prev[i]]
  /\ next_callback' = IF rest = NULL /\ again # TIMER_CANCEL THEN first ELSE rest
  /\ IF rest # NULL /\ again # TIMER_CANCEL
     THEN iter' = rest /\ tmp' = first
     ELSE UNCHANGED <<iter, tmp>>
  /\ UNCHANGED <<current_tick, timercpu, callVars, overtook>>

(* The loop that puts it back does not advance its iterator. *)
ReinsertStep ==
  /\ timercpu = "timer" /\ iter # NULL
  /\ Link(iter, tmp)
  /\ UNCHANGED <<when, next_callback, current_tick, timercpu, iter, tmp, callVars, overtook>>

(* Variant: one callback is enough for one tick. *)
TickEndsEarly ==
  /\ timercpu = "timer" /\ iter = NULL
  /\ timercpu' = "none"
  /\ UNCHANGED <<listVars, current_tick, iter, tmp, callVars, overtook>>

TickEnds ==
  /\ timercpu = "timer" /\ iter = NULL /\ ~ FirstIsDue
  /\ timercpu' = "none"
  /\ UNCHANGED <<listVars, current_tick, iter, tmp, callVars, overtook>>

TimerNext ==
  \/ \E c \in Callers :
       \/ \E tick \in Later(current_tick) : ChooseSlot(c, tick)
       \/ FillSlot(c) \/ InsertBegins(c) \/ InsertStep(c) \/ InsertEnds(c)
  \/ TickBegins \/ ReinsertStep \/ TickEnds
  \/ \E again \in Later(current_tick) \cup {TIMER_CANCEL} : Fire(again)

TimerSpec == TimerInit /\ [][TimerNext]_timerVars

(* With interrupts off the processor runs nothing else. *)
InterruptsOff ==
  \/ \E c \in Callers : InsertStep(c) \/ InsertEnds(c)
  \/ ReinsertStep \/ TickEnds
  \/ \E again \in Later(current_tick) \cup {TIMER_CANCEL} : Fire(again)

TimerLiveSpec == TimerSpec /\ WF_timerVars(InterruptsOff)

-----------------------------------------------------------------------------
TimerTypeOK ==
  /\ when \in [Slots -> 0 .. TIMER_CANCEL]
  /\ next \in [Slots -> Pointer] /\ prev \in [Slots -> Pointer]
  /\ next_callback \in Pointer /\ iter \in Pointer /\ tmp \in Pointer
  /\ current_tick \in 0 .. MaxTick
  /\ timercpu \in Callers \cup {"none", "timer"}
  /\ callpc \in [Callers -> {"idle", "chosen", "filled"}]
  /\ nr \in [Callers -> Pointer]

(* The list as next_callback and next give it, at its k-th place. *)
Walk[k \in 0 .. MaxSlots] ==
  IF k = 0 THEN next_callback
  ELSE IF Walk[k - 1] = NULL THEN NULL ELSE next[Walk[k - 1]]

(* timer.c:149, "insert the callback at the appropriate position": between  *)
(* two calls the list holds every registered callback, once, in the order   *)
(* of time, and ends.                                                       *)
InOrder ==
  timercpu = "none" =>
    /\ {Walk[k] : k \in 0 .. MaxSlots} = Registered \cup {NULL}
    /\ \A k \in 0 .. MaxSlots - 1 :
         Walk[k] # NULL /\ Walk[k + 1] # NULL =>
           when[Walk[k]] <= when[Walk[k + 1]] /\ prev[Walk[k + 1]] = Walk[k]
    /\ next_callback # NULL => prev[next_callback] = NULL

(* What the code keeps of it: the list is right until a callback is put     *)
(* before two later ones, which InsertStep links twice.                     *)
ListIsRight == ~ overtook => InOrder

(* When a tick is over, no callback that was due at it is left, with the    *)
(* same exception.                                                          *)
EveryDueFires ==
  [][TickEnds /\ ~ overtook => \A i \in Registered : when[i] > current_tick]_timerVars

-----------------------------------------------------------------------------
(* What the source says of itself and the code does not do.                  *)

(* timer.c:149 again: the insertion comes to an end. *)
InsertionEnds == \A c \in Callers : timercpu = c ~> timercpu # c

(* timer.c:47, "reinsert the timer into the list (ordered by when it should *)
(* fire)": the interrupt comes to an end.                                   *)
InterruptEnds == timercpu = "timer" ~> timercpu # "timer"

(* timer.c:19, "empty=>when==TIMER_CANCEL": a slot that was found empty is  *)
(* empty when it is filled.                                                 *)
ChosenIsEmpty ==
  \A c \in Callers : callpc[c] = "chosen" => when[nr[c]] = TIMER_CANCEL
=============================================================================
