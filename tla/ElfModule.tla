------------------------------ MODULE ElfModule ------------------------------
(* elf_load_module, elf_resolve and elf_relocate (elf32.c): the sections of a
   relocatable file are placed in one block of the kernel heap where their
   offsets in the file put them, and its relocations are applied.  A cell
   holds one word; EH is the size of the file's header. *)
EXTENDS Integers, Sequences, FiniteSets, FiniteSetsExt

CONSTANTS
  EH,           \* sizeof(Elf32_Ehdr)
  B,            \* the address kmalloc gives the block
  Files,        \* the modules: [sec, sym, rel]
  Kernel,       \* kernel symbol -> address
  Failing       \* the allocations that may fail

ElfModuleAssumption == EH \in Nat /\ B \in Nat

VARIABLES
  file,         \* the file being loaded
  pc,           \* "open", "measure", "place", "link", "done"
  next,         \* number of the section in hand
  r,            \* number of the relocation in hand
  block,        \* offset -> word, for the block of the module
  stray,        \* offsets outside the block that were written
  held,         \* heap blocks in use
  result

vars == <<file, pc, next, r, block, stray, held, result>>

SHN_UNDEF == 0
SHN_ABS == -1
SHN_COMMON == -2

(* What the file holds at cell c of section k. *)
Word(k, c) == 100 * k + c
Secs == 1..Len(file.sec)
Allocated == {k \in Secs : file.sec[k].alloc}
PlaceOf(k) == file.sec[k].off - EH

NoFile == [sec |-> <<>>, sym |-> <<>>, rel |-> <<>>]

Init ==
  /\ file = NoFile /\ pc = "open" /\ next = 1 /\ r = 1
  /\ block = <<>> /\ stray = {} /\ held = {} /\ result = "none"

Open(f) ==
  /\ pc = "open" /\ pc' = "measure" /\ file' = f
  /\ UNCHANGED <<next, r, block, stray, held, result>>

Fails(e, kept) == pc' = "done" /\ result' = e /\ held' = kept

(* The end of the farthest section. *)
module_length == Max({0} \cup {PlaceOf(k) + file.sec[k].size : k \in Allocated})

(* The tables and the size; a block that cannot be had leaves the section
   names behind.  kmalloc does not clear what it gives. *)
Measure(fails) ==
  /\ pc = "measure"
  /\ \/ fails = "shtab" /\ Fails("ENOMEM", {}) /\ UNCHANGED block
     \/ fails = "shstrtab" /\ Fails("ENOMEM", {}) /\ UNCHANGED block
     \/ /\ fails \notin {"shtab", "shstrtab"}
        /\ ~\E k \in Allocated : file.sec[k].name = ".module_info"
        /\ Fails("EINVAL", {}) /\ UNCHANGED block
     \/ /\ fails \notin {"shtab", "shstrtab"}
        /\ \E k \in Allocated : file.sec[k].name = ".module_info"
        /\ IF fails = "base" THEN Fails("ENOMEM", {"shstrtab"}) /\ UNCHANGED block
           ELSE /\ block' = [c \in 0..(module_length - 1) |-> -1]
                /\ held' = {"shtab", "shstrtab", "base"}
                /\ pc' = "place" /\ UNCHANGED result
  /\ UNCHANGED <<file, next, r, stray>>

(* A section of type NOBITS is cleared, any other read. *)
Placed(k) ==
  [c \in DOMAIN block |->
     IF c \in PlaceOf(k)..(PlaceOf(k) + file.sec[k].size - 1)
     THEN IF file.sec[k].type = "NOBITS" THEN 0 ELSE Word(k, c - PlaceOf(k))
     ELSE block[c]]

Place ==
  /\ pc = "place"
  /\ IF next > Len(file.sec)
     THEN pc' = "link" /\ next' = 1 /\ UNCHANGED block
     ELSE /\ next' = next + 1 /\ UNCHANGED pc
          /\ block' = IF file.sec[next].alloc THEN Placed(next) ELSE block
  /\ UNCHANGED <<file, r, stray, held, result>>

-----------------------------------------------------------------------------
(* elf_resolve with the value elf_relocate takes: an undefined symbol has the
   value of the first kernel symbol of that name, one of a section counts from
   where the section was placed. *)
Resolves(s) == s.shndx # SHN_COMMON /\ (s.shndx = SHN_UNDEF => s.name \in DOMAIN Kernel)
Value(s) ==
  CASE s.shndx = SHN_UNDEF -> Kernel[s.name]
    [] s.shndx = SHN_ABS -> s.value
    [] OTHER -> PlaceOf(s.shndx) + B + s.value

(* Variant: the place is taken relative to the block. *)
RelocatedHere(x, p, w) ==
  LET S == Value(file.sym[x.sym])
      A == IF x.addend = <<>> THEN w ELSE x.addend[1]
  IN CASE x.type = "NONE" -> w
       [] x.type = "32" -> S + A
       [] x.type = "PC32" -> S + A - p
       [] x.type = "JMP_SLOT" -> S

(* The word elf_relocate leaves at offset p of the block, which held w. *)
Relocated(x, p, w) ==
  LET S == Value(file.sym[x.sym])
      A == IF x.addend = <<>> THEN w ELSE x.addend[1]
  IN CASE x.type = "NONE" -> w
       [] x.type = "32" -> S + A
       [] x.type = "PC32" -> S + A - (B + p)
       [] x.type = "JMP_SLOT" -> S

(* What stays when a relocation fails: nothing. *)
BadLink == {}

(* One relocation of the section in hand. *)
Relocate(k) ==
  LET x == file.rel[k][r]
      p == PlaceOf(file.sec[k].info) + x.off
  IN IF ~Resolves(file.sym[x.sym]) \/ x.type \notin {"NONE", "32", "PC32", "JMP_SLOT"}
     THEN Fails("EINVAL", BadLink) /\ UNCHANGED <<block, stray, next, r>>
     ELSE /\ r' = r + 1 /\ UNCHANGED <<pc, next, held, result>>
          /\ IF p \in DOMAIN block
             THEN block' = [block EXCEPT ![p] = Relocated(x, p, @)] /\ UNCHANGED stray
             ELSE stray' = stray \cup {p} /\ UNCHANGED block

NextSection == next' = next + 1 /\ r' = 1

(* The relocation sections, each with its table, the symbols and their names,
   whether the section they apply to was placed or not. *)
Link(fails) ==
  /\ pc = "link"
  /\ LET rels == IF next \in Secs THEN file.sec[next].type = "REL" ELSE FALSE IN
     \/ /\ next > Len(file.sec)
        /\ pc' = "done" /\ result' = "ok" /\ held' = {"base"}
        /\ UNCHANGED <<next, r, block, stray>>
     \/ /\ next \in Secs /\ ~rels /\ next' = next + 1
        /\ UNCHANGED <<pc, r, block, stray, held, result>>
     \/ /\ next \in Secs /\ rels /\ r = 1 /\ fails \in {"rtab", "stab"}
        /\ Fails("ENOMEM", {}) /\ UNCHANGED <<next, r, block, stray>>
     \/ /\ next \in Secs /\ rels /\ fails \notin {"rtab", "stab"} /\ r <= Len(file.rel[next])
        /\ Relocate(next)
     \/ /\ next \in Secs /\ rels /\ r > Len(file.rel[next])
        /\ NextSection
        /\ UNCHANGED <<pc, block, stray, held, result>>
  /\ UNCHANGED file

Stopped == pc = "done" /\ UNCHANGED vars

Next ==
  \/ \E f \in Files : Open(f)
  \/ \E f \in Failing \cup {"none"} : Measure(f) \/ Link(f)
  \/ Place
  \/ Stopped

Spec == Init /\ [][Next]_vars

-----------------------------------------------------------------------------
TypeOK ==
  /\ pc \in {"open", "measure", "place", "link", "done"}
  /\ next \in 1..(Len(file.sec) + 1) /\ r \in Nat \ {0}
  /\ (pc = "link" /\ next \in DOMAIN file.rel /\ next \in Secs) => r <= Len(file.rel[next]) + 1
  /\ DOMAIN block \subseteq Nat /\ \A c \in DOMAIN block : block[c] \in Int
  /\ held \subseteq {"shtab", "shstrtab", "base"}

(* The relocations that apply to cell c of section k. *)
Touching(k, c) ==
  {x \in UNION {{file.rel[j][n] : n \in 1..Len(file.rel[j])} :
       j \in {i \in Secs : file.sec[i].type = "REL" /\ file.sec[i].info = k}} : x.off = c}

(* Where symbol s really is once the module is loaded. *)
Address(s) ==
  IF s.shndx = SHN_UNDEF THEN Kernel[s.name]
  ELSE IF s.shndx = SHN_ABS THEN s.value
  ELSE B + (file.sec[s.shndx].off - EH) + s.value

(* A loaded module is the file's, linked: every cell of a section that was
   read holds the file's word or, where a relocation applies, the address of
   its symbol as the kind of relocation asks for it (S + A, S + A - P, or S). *)
Linked ==
  result = "ok" =>
    \A k \in Allocated : file.sec[k].type # "NOBITS" =>
      \A c \in 0..(file.sec[k].size - 1) :
        LET at == file.sec[k].off - EH + c
            found == block[at]
        IN IF Touching(k, c) = {} THEN found = Word(k, c)
           ELSE \E x \in Touching(k, c) :
                  LET S == Address(file.sym[x.sym])
                      A == IF x.addend = <<>> THEN Word(k, c) ELSE x.addend[1]
                  IN found = CASE x.type = "32" -> S + A
                               [] x.type = "PC32" -> S + A - (B + at)
                               [] x.type = "JMP_SLOT" -> S
                               [] OTHER -> Word(k, c)

(* "You should fully load and link the module in one kmalloc'd memory block"
   (exec.h:89): every write lands in the block. *)
InOneBlock == stray = {}

(* The tables are gone when the function returns ("Free unneeded tables",
   elf32.c:323), and the block with them unless the module was loaded. *)
TablesFreed == pc = "done" => held = (IF result = "ok" THEN {"base"} ELSE {})

-----------------------------------------------------------------------------
(* What the source says of itself and the code does not do.                  *)

(* "clear all SHT_NOBITS sections" (elf32.c:225): such a section is zero when
   the module's m_load is called. *)
NobitsCleared ==
  result = "ok" =>
    \A k \in Allocated : file.sec[k].type = "NOBITS" =>
      \A c \in 0..(file.sec[k].size - 1) : block[PlaceOf(k) + c] = 0
=============================================================================
