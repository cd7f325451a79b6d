-------------------------------- MODULE Sleep --------------------------------
(***************************************************************************)
(* Sleeping and waking, as the components above task.c see it: task_wait   *)
(* puts a task to sleep with a flag that says why, task_wakeup clears the  *)
(* flag whatever it was.  Module Task models what happens underneath.      *)
(*                                                                         *)
(* A task whose flag is "none" may be chosen to run at any time.  A system *)
(* call runs with interrupts off until it sleeps or returns, so it is one  *)
(* step, and one more for each time it wakes.                              *)
(***************************************************************************)
CONSTANTS Tasks

VARIABLES
  t_wait,   \* the bit of TF_WAITMASK that is set in t_flags, or "none"
  pc        \* where each task is, or will resume

Flags == {"none", "TF_WAITIO", "TF_WAITMESG"}

At(t, where) == t_wait[t] = "none" /\ pc[t] = where

(* Falls asleep at a place in the code. *)
task_wait(t, f, where) ==
  /\ t_wait' = [t_wait EXCEPT ![t] = f]
  /\ pc' = [pc EXCEPT ![t] = where]

task_wakeup(t) == t_wait' = [t_wait EXCEPT ![t] = "none"]
=============================================================================
