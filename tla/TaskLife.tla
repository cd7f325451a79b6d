------------------------------ MODULE TaskLife ------------------------------
(***************************************************************************)
(* The task subsystem implements Lifecycle: the mapping from its flags,    *)
(* its list of tasks and its counter to the stages of a process.           *)
(***************************************************************************)
EXTENDS Task

stage ==
  [p \in Pid |->
     IF p >= next_pid THEN "new"
     ELSE IF p \notin globlist THEN "gone"
     ELSE IF T_ISZOMBIE(p) THEN "dead"
     ELSE IF "TF_EXIT" \in t_flags[p] THEN "exited"
     ELSE "live"]

(* t_status also carries the status that waitpid is about to return, so it  *)
(* is an exit code only once its task has exited.                           *)
outcome ==
  [p \in Pid |-> IF stage[p] \in {"exited", "dead"} THEN t_status[p] ELSE 0]

Life == INSTANCE Lifecycle

(* Every process goes through its life in order, once, and its exit code is *)
(* not overwritten by the statuses task_free and waitpid pass around: each  *)
(* step of task.c is a step of Lifecycle or changes no stage.               *)
ImplementsLifecycle == Life!Lives
=============================================================================
