-------------------------------- MODULE Signal --------------------------------
(***************************************************************************)
(* Signals, kernel/src/signal.c: one task, which others may signal at any  *)
(* time it is not running and which may signal itself, change its          *)
(* handlers, execute another program, block and wake.                      *)
(*                                                                         *)
(* A signal takes effect where signal_check is called: by the scheduler    *)
(* for the task it has chosen, and by the system call with which a handler *)
(* ends.  Signals are their numbers in newlib.                             *)
(***************************************************************************)
EXTENDS Integers, FiniteSets, FiniteSetsExt

CONSTANTS
  Sigs,        \* the signals in play
  MaxRaises,   \* bound: signals raised
  MaxSteps     \* bound: steps and programs of the task

SignalAssumption ==
  /\ Sigs \subseteq 1 .. 31 /\ IsFiniteSet(Sigs)
  /\ MaxRaises \in Nat /\ MaxSteps \in Nat

SIGKILL == 9
SIGSTOP == 17

VARIABLES
  handler,   \* of each signal: "SIG_DFL", "SIG_IGN" or "user"
  bitmap, nraised,
  inSignal,  \* TF_SIGNAL
  ctx,       \* t_eip and the rest: where the task is, or goes on
  saved,     \* the same in t_signal
  sched,     \* "running", "ready", "waiting", "stopped", "exit"
  sigcpu,       \* "wild" after a call of a default action that is not there
  main,      \* history: where the main program is
  raises,    \* history: signals raised
  flaws      \* history: what went wrong

sigVars == <<bitmap, nraised, inSignal, saved>>
signalVars == <<handler, sigVars, ctx, sched, sigcpu, main, raises, flaws>>

(* Contexts: a place in the main program, a handler, or the middle of       *)
(* signal_check in the scheduler.                                           *)
Main(n) == [where |-> "main", at |-> n]
Handler(s) == [where |-> "handler", at |-> s]
InScheduler == [where |-> "scheduler", at |-> 0]

(* signal_init, which is also all that signal_copy leaves in a child. *)
SignalInit ==
  /\ handler = [s \in Sigs |-> "SIG_DFL"] /\ bitmap = {} /\ nraised = 0
  /\ inSignal = FALSE /\ ctx = Main(0) /\ saved = Main(0)
  /\ sched = "running" /\ sigcpu = "ok" /\ main = 0 /\ raises = 0 /\ flaws = {}

(* signal_default; the numbers it leaves out have no function at all. *)
signal_default(s) ==
  CASE s \in {1, 2, 9, 13, 14, 15, 30, 31} -> "term"
    [] s \in {3, 4, 6, 8}                  -> "term"
    [] s = 20                              -> "ignore"
    [] s = 19                              -> "cont"
    [] s = 17                              -> "stop"
    [] OTHER                               -> "none"

-----------------------------------------------------------------------------
RAISE_SIGNAL(s) == bitmap' = bitmap \cup {s} /\ nraised' = nraised + 1

(* Variant: the context is saved for every signal. *)
SaveAlways == ctx

signal_save == IF inSignal THEN saved ELSE ctx

(* signal_check handles the lowest signal; after a default action that      *)
(* comes back it calls itself and forgets what that call returns.  Passed   *)
(* are the signals whose default action comes back: nothing to continue and *)
(* nothing to do.  Nothing is looked at when the count is 0; on the way     *)
(* down it cannot become 0 too soon, which NoSignalOverlooked says.         *)
Seen == IF nraised = 0 THEN {} ELSE bitmap
ComesBack(s) == handler[s] = "SIG_DFL" /\ signal_default(s) \in {"ignore", "cont"}
Passed == {s \in Seen : \A r \in Seen : r <= s => ComesBack(r)}
Pending == Seen \ Passed

(* What it does with the first of the others, chosen from the scheduler or  *)
(* in signal_return.                                                        *)
Nothing == Pending = {}
Chosen == Min(Pending)
Dispatch == ~ Nothing /\ handler[Chosen] = "user"
Default(what) ==
  ~ Nothing /\ handler[Chosen] = "SIG_DFL" /\ signal_default(Chosen) = what

(* The part all callers share: counts and the saved context. *)
Lowers == bitmap' = Pending \ {Chosen} /\ nraised' = nraised - Cardinality(Passed) - 1

CheckLowers ==
  /\ saved' = IF Seen = {} THEN saved ELSE signal_save
  /\ IF Nothing THEN bitmap' = bitmap \ Seen /\ nraised' = 0 ELSE Lowers
  /\ flaws' = IF Nothing /\ nraised # Cardinality(Passed)
              THEN flaws \cup {"shouldn't happen"} ELSE flaws

(* And where it leads: into the handler unless the caller resets the        *)
(* context, and otherwise on in a given context.                            *)
CheckDecides(otherwise, stopIn, reset) ==
  /\ sched' = CASE Default("term") -> "exit"
                [] Default("stop") -> "stopped"
                [] OTHER -> "running"
  /\ ctx' = CASE Dispatch /\ ~ reset -> Handler(Chosen)
              [] Default("stop") -> stopIn
              [] OTHER -> otherwise
  /\ sigcpu' = IF Default("none") THEN "wild" ELSE sigcpu

-----------------------------------------------------------------------------
Alive == sigcpu = "ok" /\ sched # "exit"
Running == Alive /\ sched = "running"

(* The scheduler has chosen the task. *)
signal_preempt ==
  /\ Alive /\ sched = "ready"
  /\ CheckLowers /\ CheckDecides(ctx, InScheduler, FALSE)
  /\ inSignal' = (inSignal \/ Dispatch)
  /\ UNCHANGED <<handler, main, raises>>

(* The task is preempted, or falls asleep, in the kernel. *)
Leaves(to) ==
  /\ Running /\ sched' = to
  /\ UNCHANGED <<handler, sigVars, ctx, sigcpu, main, raises, flaws>>

Wakes ==
  /\ Alive /\ sched = "waiting" /\ sched' = "ready"
  /\ UNCHANGED <<handler, sigVars, ctx, sigcpu, main, raises, flaws>>

(* signal_kill by another task, and by the task itself, which reschedules. *)
signal_kill(s) ==
  /\ Alive /\ raises < MaxRaises /\ raises' = raises + 1
  /\ RAISE_SIGNAL(s)
  /\ sched' = IF sched = "running" THEN "ready" ELSE sched
  /\ UNCHANGED <<handler, inSignal, saved, ctx, sigcpu, main, flaws>>

(* The main program does something. *)
MainRuns ==
  /\ Running /\ ctx.where = "main" /\ main < MaxSteps
  /\ main' = main + 1 /\ ctx' = Main(main')
  /\ UNCHANGED <<handler, sigVars, sched, sigcpu, raises, flaws>>

(* signal_return, which a handler ends with.  It resets the context when    *)
(* signal_check says 0, which it also says when it dispatched a signal      *)
(* after a default action.                                                  *)
signal_return ==
  LET reset == Dispatch /\ Passed # {} IN
  /\ Running /\ ctx.where = "handler" /\ inSignal
  /\ IF Nothing THEN bitmap' = bitmap \ Seen /\ nraised' = 0 ELSE Lowers
  /\ CheckDecides(saved, ctx, reset)
  /\ inSignal' = ((Dispatch /\ ~ reset) \/ Default("stop"))
  /\ flaws' = flaws \cup (IF reset THEN {"reset"} ELSE {})
                    \cup (IF Nothing /\ nraised # Cardinality(Passed)
                          THEN {"shouldn't happen"} ELSE {})
  /\ UNCHANGED <<handler, saved, main, raises>>

signal_signal(s, h) ==
  /\ Running /\ s \notin {SIGKILL, SIGSTOP}
  /\ handler' = [handler EXCEPT ![s] = h]
  /\ UNCHANGED <<sigVars, ctx, sched, sigcpu, main, raises, flaws>>

(* execve: signal_init, and TF_SIGNAL as it was. *)
signal_execve ==
  /\ Running /\ main < MaxSteps
  /\ main' = main + 1 /\ ctx' = Main(main')
  /\ handler' = [s \in Sigs |-> "SIG_DFL"] /\ bitmap' = {} /\ nraised' = 0
  /\ flaws' = IF inSignal THEN flaws \cup {"execve in a handler"} ELSE flaws
  /\ UNCHANGED <<inSignal, saved, sched, sigcpu, raises>>

SignalNext ==
  \/ signal_preempt
  \/ \E to \in {"ready", "waiting"} : Leaves(to)
  \/ Wakes
  \/ MainRuns
  \/ signal_return
  \/ signal_execve
  \/ \E s \in Sigs : \/ signal_kill(s)
                     \/ \E h \in {"SIG_DFL", "SIG_IGN", "user"} : signal_signal(s, h)

SignalSpec == SignalInit /\ [][SignalNext]_signalVars

(* The timer preempts, the scheduler chooses every task that is ready, and  *)
(* handlers end.                                                            *)
SignalFairness ==
  WF_signalVars(Leaves("ready")) /\ WF_signalVars(signal_preempt) /\ SF_signalVars(signal_return)
SignalLiveSpec == SignalSpec /\ SignalFairness

-----------------------------------------------------------------------------
SignalTypeOK ==
  /\ handler \in [Sigs -> {"SIG_DFL", "SIG_IGN", "user"}] /\ bitmap \subseteq Sigs
  /\ nraised \in 0 .. MaxRaises /\ inSignal \in BOOLEAN
  /\ sched \in {"running", "ready", "waiting", "stopped", "exit"}
  /\ sigcpu \in {"ok", "wild"} /\ main \in 0 .. MaxSteps

(* No raised signal is overlooked: signal_check looks at the bitmap only    *)
(* when nraised is not 0, and counts and bits are raised and lowered apart. *)
NoSignalOverlooked == nraised >= Cardinality(bitmap)

(* However signals nest and handlers replace each other, the main program   *)
(* goes on where it was interrupted: its place is in the context or, while  *)
(* a handler runs, in the saved one.  (Not after an execve in a handler.)   *)
ResumesMain ==
  "execve in a handler" \notin flaws /\ sigcpu = "ok" =>
    /\ ctx.where = "main" => ctx.at = main
    /\ ctx.where = "handler" => inSignal
    /\ inSignal => saved = Main(main)

(* A SIGKILL that is raised ends the task, unless it is asleep or stopped,  *)
(* when nobody looks at its signals, or drops them all by executing another *)
(* program.                                                                 *)
KillKills ==
  SIGKILL \in bitmap ~>
    (sched \in {"exit", "waiting", "stopped"} \/ bitmap = {} \/ sigcpu = "wild")

(* What no handler can prevent: a task that took SIGKILL is gone, unless it *)
(* executed another program first, which drops all signals.                 *)
KillIsTaken ==
  [][(SIGKILL \in bitmap /\ SIGKILL \notin bitmap') =>
       (sched' = "exit" \/ main' # main)]_signalVars

-----------------------------------------------------------------------------
(* What the source says of itself and the code does not do.                  *)

(* signal_check on an empty bitmap with a count: "This shouldn't happen...".*)
NeverHappens == "shouldn't happen" \notin flaws

(* signal_return: "If there was another signal, don't reset".               *)
DoesNotReset == "reset" \notin flaws

(* TF_SIGNAL: "Executing a signal handler".                                 *)
FlagIsTrue == inSignal /\ sigcpu = "ok" /\ sched = "running" => ctx.where = "handler"
=============================================================================
