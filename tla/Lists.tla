-------------------------------- MODULE Lists --------------------------------
(***************************************************************************)
(* The lists of kernel/include/stewieos/linkedlist.h as their users see    *)
(* them: sequences, from the list head on.                                 *)
(***************************************************************************)
EXTENDS Integers, Sequences, FiniteSets

(* What list_rem leaves of a list: the others, in their order. *)
Without(q, gone) ==
  LET kept == {i \in DOMAIN q : q[i] \notin gone}
  IN [k \in 1 .. Cardinality(kept) |->
        q[CHOOSE i \in kept : Cardinality({j \in kept : j < i}) = k - 1]]
=============================================================================
