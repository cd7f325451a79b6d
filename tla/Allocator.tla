------------------------------- MODULE Allocator -------------------------------
(***************************************************************************)
(* What kmalloc and kfree promise to the rest of the kernel: memory that   *)
(* nobody else has, aligned to a page when that is asked for.              *)
(***************************************************************************)
EXTENDS Integers

CONSTANTS
  Start,     \* where the memory begins
  Page,      \* PAGE_SIZE
  Lengths    \* the lengths that are asked for

VARIABLE given   \* the blocks in use: [addr, len, align]

Disjoint(a, b) == a.addr + a.len <= b.addr \/ b.addr + b.len <= a.addr

Init == given = {}

(* A block anywhere, apart from those in use. *)
Malloc ==
  \E b \in given' \ given :
    /\ given' = given \cup {b}
    /\ b.addr >= Start /\ b.len \in Lengths /\ (b.align => b.addr % Page = 0)
    /\ \A a \in given : Disjoint(a, b)

Free == \E b \in given : given' = given \ {b}

Next == Malloc \/ Free
Spec == Init /\ [][Next]_given
=============================================================================
