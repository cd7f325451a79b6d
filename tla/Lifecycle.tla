------------------------------ MODULE Lifecycle ------------------------------
(***************************************************************************)
(* What the task subsystem promises of each process, with no queue, no     *)
(* flags and no scheduler: process ids are handed out in order and never   *)
(* again; a process lives, exits with a code, gives up its memory, and its *)
(* structure is freed, each once and in this order; and from its exit to   *)
(* the end the code is the one it exited with.                             *)
(***************************************************************************)
EXTENDS Integers

CONSTANTS MaxPid, Code

VARIABLES stage,    \* of each process id
          outcome   \* the exit code of a process, 0 while it has none

life == <<stage, outcome>>

Stage == {"new", "live", "exited", "dead", "gone"}

Begin ==
  /\ stage = [p \in 0 .. MaxPid |-> IF p = 0 THEN "live" ELSE "new"]
  /\ outcome = [p \in 0 .. MaxPid |-> 0]

(* The next id is given to a process, or lost when fork fails. *)
Create(p, s) ==
  /\ stage[p] = "new" /\ \A q \in 0 .. p - 1 : stage[q] # "new"
  /\ s \in {"live", "gone"}
  /\ stage' = [stage EXCEPT ![p] = s]
  /\ UNCHANGED outcome

Exit(p, code) ==
  /\ stage[p] = "live" /\ p # 0
  /\ stage' = [stage EXCEPT ![p] = "exited"]
  /\ outcome' = [outcome EXCEPT ![p] = code]

(* Its memory and its place in the queue are given up. *)
Die(p) ==
  /\ stage[p] = "exited"
  /\ stage' = [stage EXCEPT ![p] = "dead"]
  /\ UNCHANGED outcome

(* Its structure is freed. *)
Bury(p) ==
  /\ stage[p] = "dead"
  /\ stage' = [stage EXCEPT ![p] = "gone"]
  /\ outcome' = [outcome EXCEPT ![p] = 0]

Step == \E p \in 0 .. MaxPid :
          \/ \E s \in Stage : Create(p, s)
          \/ \E code \in Code : Exit(p, code)
          \/ Die(p)
          \/ Bury(p)

Lives == Begin /\ [][Step]_life
=============================================================================
