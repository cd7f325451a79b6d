--------------------------------- MODULE Ipc ---------------------------------
(***************************************************************************)
(* Messages and a pipe used by the same tasks.  The two components meet in *)
(* task.c: task_wakeup ends a sleep whatever its reason, and pipe_write    *)
(* calls it on the task that pipe->reader names.                           *)
(***************************************************************************)
EXTENDS Message, Pipe

Init == MessageInit /\ PipeInit

vars == <<t_wait, pc, mesgVars, pipeVars>>

Next ==
  \/ cpu = "ok" /\ MessageNext /\ UNCHANGED pipeVars
  \/ PipeNext /\ UNCHANGED mesgVars

Spec == Init /\ [][Next]_vars
=============================================================================
