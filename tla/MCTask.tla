------------------------------- MODULE MCTask -------------------------------
(***************************************************************************)
(* Task for TLC: the arguments that waitpid is called with.                *)
(***************************************************************************)
EXTENDS TaskLife

(* Any child, or process 2, the first that can be the child of a waiter. *)
AnyOrOne == {-1, 2}

(* Any child. *)
Any == {-1}

(* Any child, a child of the own group, the group of process 2. *)
AnyOrGroup == {-1, 0, -2}

=============================================================================
