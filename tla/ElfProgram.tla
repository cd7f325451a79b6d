----------------------------- MODULE ElfProgram -----------------------------
(* elf_load_exec (elf32.c): the segments of a program are given pages, read
   from the file and cleared, one after the other.  Addresses count cells; a
   page is PG of them. *)
EXTENDS Integers, Sequences, FiniteSets, FiniteSetsExt

CONSTANTS
  PG,           \* cells of a page
  Programs      \* the files: sequences of [load, vaddr, filesz, memsz, flags]

ElfProgramAssumption == PG \in Nat \ {0}

VARIABLES
  prog,         \* the program headers of the file
  next,         \* number of the next header
  pages,        \* page -> [user, rw], for the pages mapped
  mem,          \* address -> what the mapped pages hold
  bssend,       \* exec->bssend
  cpu           \* "ok", or "fault" after a write where no page is

vars == <<prog, next, pages, mem, bssend, cpu>>

Init ==
  /\ prog = <<>> /\ next = 1
  /\ pages = <<>> /\ mem = <<>> /\ bssend = 0 /\ cpu = "ok"

Cells(ps) == UNION {(p * PG)..(p * PG + PG - 1) : p \in ps}
End(s) == s.vaddr + s.memsz

(* The pages of elf_allocate_range and elf_modify_range: through the page of
   the first address after the segment. *)
PageRange(s) == (s.vaddr \div PG)..(End(s) \div PG)

(* elf_allocate_range: alloc_page leaves a page that is there in its frame. *)
elf_allocate_range(s) ==
  [a \in DOMAIN mem \cup Cells(PageRange(s)) |-> IF a \in DOMAIN mem THEN mem[a] ELSE <<"junk">>]

(* elf_modify_range: readable by the user when PF_R is set, writable when PF_W
   is. *)
elf_modify_range(s) ==
  [p \in DOMAIN pages \cup PageRange(s) |->
     IF p \in PageRange(s) THEN [user |-> "R" \in s.flags, rw |-> "W" \in s.flags] ELSE pages[p]]

Break(s) == IF bssend < End(s) THEN End(s) ELSE bssend

(* file_read of p_filesz bytes, then the rest of p_memsz is cleared. *)
Written(s, a) ==
  IF a < s.vaddr + s.filesz THEN <<"file", next, a - s.vaddr>> ELSE <<"zero">>

LoadSegment ==
  /\ cpu = "ok" /\ next <= Len(prog)
  /\ next' = next + 1
  /\ LET s == prog[next]
         m == elf_allocate_range(s)
         target == s.vaddr..(End(s) - 1)
     IN IF s.load
        THEN /\ mem' = [a \in DOMAIN m |-> IF a \in target THEN Written(s, a) ELSE m[a]]
             /\ cpu' = IF target \subseteq DOMAIN m THEN "ok" ELSE "fault"
             /\ pages' = elf_modify_range(s)
             /\ bssend' = Break(s)
        ELSE UNCHANGED <<mem, cpu, pages, bssend>>
  /\ UNCHANGED prog

Open(p) == prog = <<>> /\ prog' = p /\ UNCHANGED <<next, pages, mem, bssend, cpu>>

Loaded == prog # <<>> /\ next > Len(prog) /\ UNCHANGED vars

Next == (\E p \in Programs : Open(p)) \/ LoadSegment \/ Loaded

Spec == Init /\ [][Next]_vars

-----------------------------------------------------------------------------
Loads == {i \in 1..(next - 1) : prog[i].load}
Held(i) == prog[i].vaddr..(End(prog[i]) - 1)

TypeOK ==
  /\ next \in 1..(Len(prog) + 1) /\ bssend \in Nat /\ cpu \in {"ok", "fault"}
  /\ DOMAIN mem = Cells(DOMAIN pages)
  /\ \A p \in DOMAIN pages : pages[p] \in [user : BOOLEAN, rw : BOOLEAN]

(* Every segment loaded so far is complete: what the file holds of it, and
   zeros after that.  A segment that begins in the page another one ended in
   takes nothing from it, nor from what it cleared. *)
SegmentsInPlace ==
  \A i \in Loads : \A a \in Held(i) :
    a \in DOMAIN mem
    /\ mem[a] = IF a - prog[i].vaddr < prog[i].filesz
                THEN <<"file", i, a - prog[i].vaddr>> ELSE <<"zero">>

(* The program can write all of a segment that asks for it, unless a later
   one that does not ask shares the page. *)
WritableIsWritable ==
  \A i \in Loads : \A a \in Held(i) :
    ("W" \in prog[i].flags
       /\ ~\E j \in Loads : j > i /\ "W" \notin prog[j].flags /\ a \div PG \in PageRange(prog[j]))
      => pages[a \div PG].rw

(* The program can write no page that lies wholly in segments that do not ask
   for it: the page after a segment that ends on a boundary, which is mapped
   with it, gives nothing away. *)
OthersAreNot ==
  \A p \in DOMAIN pages :
    (\A i \in Loads : p \in {a \div PG : a \in Held(i)} => "W" \notin prog[i].flags)
      /\ (\E i \in Loads : p \in {a \div PG : a \in Held(i)})
      => ~pages[p].rw

(* The break, where sbrk will put the first new byte, is past every segment
   and leaves no gap after the last. *)
BreakPastAll ==
  bssend = Max({0} \cup {End(prog[i]) : i \in Loads})
=============================================================================
