--------------------------------- MODULE Kheap ---------------------------------
(***************************************************************************)
(* The kernel heap, kernel/src/kheap.c: blocks with a header and a footer  *)
(* that fill the memory, and the list of holes, ordered by size.           *)
(*                                                                         *)
(* Addresses count from memstart.  A block is the address of its header,   *)
(* and size says how large it is; headers inside a block, left over when   *)
(* blocks were merged, are not there.                                      *)
(***************************************************************************)
EXTENDS Lists, FiniteSetsExt

CONSTANTS
  PAGE_SIZE, Header, Footer,   \* sizes, in a unit of the model's
  memmax,                      \* the largest size of the heap
  Lengths,                     \* the lengths asked for
  MaxGiven                     \* bound: blocks in use

KheapAssumption ==
  /\ {PAGE_SIZE, Header, Footer, memmax, MaxGiven} \subseteq Nat \ {0}
  /\ memmax % PAGE_SIZE = 0 /\ Lengths \subseteq Nat /\ Header + Footer < PAGE_SIZE

KHEAP_OVHD == Header + Footer
PAGE_ALIGN(a) == a - (a % PAGE_SIZE)

VARIABLES
  heap,     \* [size, holes, memend]
  given,    \* the blocks callers have: [addr, len]
  heapcpu,      \* "ok"; "spins" on heap->lock; "wild" beyond the heap's page tables
  ret       \* the length the last call had no memory for, or -1
heapVars == <<heap, given, heapcpu, ret>>
None == -1
NoTables == -2

heap_addr(b) == b + Header
heap_head(addr) == addr - Header
Blocks(h) == DOMAIN h.size
IsHole(h, b) == b \in Range(h.holes)

(* head_init for a block that is in no list. *)
head_init(h, b, n) ==
  [h EXCEPT !.size = [x \in Blocks(h) \cup {b} |-> IF x = b THEN n ELSE h.size[x]]]
list_rem(h, b) == [h EXCEPT !.holes = Without(@, {b})]

(* heap_add_hole: before the first hole that is not smaller. *)
NotSmaller(h, b) ==
  {i \in 1 .. Len(h.holes) + 1 : i <= Len(h.holes) => h.size[h.holes[i]] >= h.size[b]}
heap_add_hole(h, b) ==
  LET i == Min(NotSmaller(h, b))
  IN [h EXCEPT !.holes = SubSeq(@, 1, i - 1) \o <<b>> \o SubSeq(@, i, Len(@))]

(* The holes that lie side by side up to b, and from b on: head_prev and    *)
(* head_next, taken for as long as they lead to a hole.                     *)
HolesBefore(h, b) ==
  {x \in Blocks(h) : x < b /\ \A y \in Blocks(h) : x <= y /\ y < b => IsHole(h, y)}
HolesBehind(h, b) ==
  {x \in Blocks(h) : b < x /\ \A y \in Blocks(h) : b < y /\ y <= x => IsHole(h, y)}

(* heap_free_nolock: one hole of the block and of all these. *)
Run(h, b) == HolesBefore(h, b) \cup {b} \cup HolesBehind(h, b)
Combined(h, b) ==
  LET first == Min(Run(h, b))
      last  == Max(Run(h, b))
  IN [h EXCEPT !.size = [x \in (Blocks(h) \ Run(h, b)) \cup {first} |->
                           IF x = first THEN (last - first) + h.size[last] ELSE h.size[x]],
               !.holes = Without(@, Run(h, b))]
heap_free_nolock(h, b) == heap_add_hole(Combined(h, b), Min(Run(h, b)))

(* heap_expand, in pages; the limit is compared with the start of the heap. *)
Expansion(need) ==
  LET n == IF need % PAGE_SIZE # 0 THEN PAGE_ALIGN(need) + PAGE_SIZE ELSE need
  IN IF n > memmax THEN memmax ELSE n
heap_expand(h, n) ==
  heap_free_nolock([head_init(h, h.memend, n) EXCEPT !.memend = @ + n], h.memend)

(* heap_trim in two parts.  The part before the aligned header becomes a    *)
(* hole of its own.                                                         *)
Aligned(h, b) == heap_addr(b) % PAGE_SIZE = 0

(* Variant: the header is aligned, not what follows it. *)
HeaderAligned(b) == PAGE_ALIGN(b) + PAGE_SIZE

NextAligned(b) == PAGE_ALIGN(b) + PAGE_SIZE - Header
CanAlign(h, b, reqd) ==
  \/ Aligned(h, b)
  \/ /\ NextAligned(b) - b > KHEAP_OVHD
     /\ h.size[b] - (NextAligned(b) - b) >= reqd + KHEAP_OVHD
Align(h, b) ==
  IF Aligned(h, b) THEN h
  ELSE LET t == NextAligned(b)
           split == head_init(head_init(list_rem(h, b), t, h.size[b] - (t - b)), b, t - b)
       IN heap_add_hole(heap_free_nolock(split, b), t)
AlignedHead(h, b) == IF Aligned(h, b) THEN b ELSE NextAligned(b)

Split(h, b, reqd) ==
  IF h.size[b] < reqd + 2 * KHEAP_OVHD THEN h
  ELSE LET t == b + reqd + KHEAP_OVHD
           split == head_init(head_init(list_rem(h, b), t, h.size[b] - reqd - KHEAP_OVHD),
                              b, reqd + KHEAP_OVHD)
       IN heap_add_hole(heap_free_nolock(split, t), b)

heap_trim(h, b, reqd, align) ==
  IF ~align /\ h.size[b] <= reqd + 2 * KHEAP_OVHD THEN [h |-> h, head |-> b]
  ELSE IF ~align THEN [h |-> Split(h, b, reqd), head |-> b]
  ELSE LET a == AlignedHead(h, b) IN [h |-> Split(Align(h, b), a, reqd), head |-> a]

(* heap_locate: the first hole that is large enough and can be aligned; or  *)
(* more memory, and another look.  Each expansion joins the one before.     *)
Fits(h, reqd, align) ==
  {i \in DOMAIN h.holes : /\ h.size[h.holes[i]] >= reqd + KHEAP_OVHD
                          /\ align => CanAlign(h, h.holes[i], reqd)}
Ends(h, reqd, align) ==
  LET n == Expansion(reqd + KHEAP_OVHD)
  IN Fits(h, reqd, align) # {} \/ h.memend + n > memmax \/ n < reqd + KHEAP_OVHD
Expanded(h, k, reqd) ==
  IF k = 0 THEN h ELSE heap_expand(h, k * Expansion(reqd + KHEAP_OVHD))

heap_locate(h, reqd, align) ==
  LET n == Expansion(reqd + KHEAP_OVHD)
      k == CHOOSE i \in 0 .. memmax :
             /\ Ends(Expanded(h, i, reqd), reqd, align)
             /\ \A j \in 0 .. i - 1 : ~Ends(Expanded(h, j, reqd), reqd, align)
      g == Expanded(h, k, reqd)
  IN IF Fits(g, reqd, align) # {}
     THEN heap_trim(g, g.holes[Min(Fits(g, reqd, align))], reqd, align)
     ELSE IF g.memend = memmax THEN [h |-> g, head |-> None]
     ELSE IF g.memend + n > memmax THEN [h |-> g, head |-> NoTables]
     ELSE [h |-> heap_expand(g, n), head |-> None]

-----------------------------------------------------------------------------
(* heap_init. *)
HeapInit ==
  /\ heap = heap_expand([size |-> <<>>, holes |-> <<>>, memend |-> 0], Expansion(1))
  /\ given = {} /\ heapcpu = "ok" /\ ret = -1

(* heap_alloc: without memory it returns and does not unlock the heap, so   *)
(* the next call spins.                                                     *)
heap_alloc(reqd, align) ==
  LET found == heap_locate(heap, reqd, align)
  IN /\ heapcpu = "ok" /\ Cardinality(given) < MaxGiven
     /\ \/ /\ found.head = NoTables /\ heapcpu' = "wild" /\ UNCHANGED <<heap, given, ret>>
        \/ /\ found.head = None /\ heapcpu' = "spins" /\ ret' = reqd
           /\ heap' = found.h /\ UNCHANGED given
        \/ /\ found.head >= 0 /\ heap' = list_rem(found.h, found.head)
           /\ given' = given \cup {[addr |-> heap_addr(found.head), len |-> reqd,
                                   align |-> align]}
           /\ ret' = -1 /\ UNCHANGED heapcpu

heap_free(g) ==
  /\ heapcpu = "ok"
  /\ heap' = heap_free_nolock(heap, heap_head(g.addr)) /\ given' = given \ {g}
  /\ ret' = -1 /\ UNCHANGED heapcpu

HeapStopped == heapcpu # "ok" /\ UNCHANGED heapVars

HeapNext ==
  \/ \E n \in Lengths, align \in BOOLEAN : heap_alloc(n, align)
  \/ \E g \in given : heap_free(g)
  \/ HeapStopped
HeapSpec == HeapInit /\ [][HeapNext]_heapVars

-----------------------------------------------------------------------------
(* The blocks fill the heap from its start to its end, which is what        *)
(* head_next and head_prev walk along, and each has room for its header and *)
(* footer.                                                                  *)
Tiles ==
  /\ \A b \in Blocks(heap) :
       /\ heap.size[b] >= KHEAP_OVHD
       /\ b + heap.size[b] \in Blocks(heap) \cup {heap.memend}
       /\ \A x \in Blocks(heap) : ~(b < x /\ x < b + heap.size[b])
  /\ 0 \in Blocks(heap)

(* A block is a hole or a caller has it, never both or neither.             *)
HolesAreTheRest ==
  /\ Range(heap.holes) = Blocks(heap) \ {heap_head(g.addr) : g \in given}
  /\ {heap_head(g.addr) : g \in given} \subseteq Blocks(heap)
  /\ IsInjective(heap.holes)

(* heap_locate takes the first hole that fits for the best one: the list is *)
(* in order of size.                                                        *)
BestFirst ==
  \A i, j \in 1 .. Len(heap.holes) : i < j => heap.size[heap.holes[i]] <= heap.size[heap.holes[j]]

(* No two holes side by side, whatever order the blocks were freed in: all  *)
(* free memory in one piece can be had in one piece.                        *)
Merged == \A b \in Range(heap.holes) : b + heap.size[b] \notin Range(heap.holes)

(* What callers get is theirs alone, and large enough, whatever the heap    *)
(* does to its blocks: the module implements Allocator.                     *)
Memory == INSTANCE Allocator WITH Start <- 0, Page <- PAGE_SIZE, Lengths <- Lengths, given <- given
ImplementsAllocator == Memory!Spec

HeapTypeOK ==
  /\ \A g \in given : g.len \in Lengths /\ g.align \in BOOLEAN
  /\ heap.memend % PAGE_SIZE = 0 /\ heapcpu \in {"ok", "spins", "wild"} /\ ret \in Lengths \cup {-1}

-----------------------------------------------------------------------------
(* What the source says of itself and the code does not do.                  *)

(* kheap.c:67: "We can only go to memmax".  The amount is compared as if    *)
(* the heap were empty, and there are no page tables beyond.                *)
WithinMax == heapcpu # "wild"

(* kheap.c:244 reports "out of memory!".  It is also reported when the last *)
(* hole has all the memory one could want, but begins so close to the end   *)
(* of its page that heap_trim gives up on aligning it: heap_locate takes    *)
(* page after page up to memmax, and each joins that hole.                  *)
OutMeansFull ==
  ret >= 0 => \A b \in Range(heap.holes) : heap.size[b] < ret + 2 * PAGE_SIZE + KHEAP_OVHD
=============================================================================
