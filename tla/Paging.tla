-------------------------------- MODULE Paging --------------------------------
(***************************************************************************)
(* Page directories and physical frames: kernel/src/paging.c and pmm.c,    *)
(* and what task.c, exec.c and signal.c do with them.                      *)
(*                                                                         *)
(* A page is its number, its address shifted right by 12.  A directory has *)
(* its tables and, for the pages that are not in the kernel's own tables,  *)
(* the frames.  The kernel's tables are linked into every directory, and   *)
(* what they map is left out but for one address that they do not map.     *)
(***************************************************************************)
EXTENDS Integers, FiniteSets, FiniteSetsExt

CONSTANTS
  Processes, init, NumFrames,
  MaxSignals,  \* bound: signals with a handler
  MaxBorn      \* bound: tasks created

PagingAssumption ==
  /\ init \in Processes /\ NumFrames \in Nat \ {0}
  /\ MaxSignals \in Nat /\ MaxBorn \in Nat

PROG == 1024      \* the program's first page, 0x00400000
DATA == 1025      \* the page sbrk adds
STK  == 786430    \* the user stack, up to TASK_STACK_START = 0xBFFFF000
SIG  == 786431    \* the signal stack, up to TASK_SIGNAL_STACK = 0xC0000000
KST  == 1048573   \* the kernel stack, TASK_KSTACK_ADDR = 0xFFFFD000
TEMP == 1048575   \* 0xFFFFF000, where temporary_map maps
HOLE == 851970    \* 0xD0002000, in the heap's tables, and not present

Pages == {PROG, DATA, STK, SIG, KST, TEMP}
PAGE_TABLE(p) == p \div 1024
KernTables == {PAGE_TABLE(HOLE)}
Tables == {PAGE_TABLE(p) : p \in Pages} \cup KernTables
Frames == 1 .. NumFrames

VARIABLES
  physical_frame,  \* the frames that are reserved
  data,            \* what is in each frame
  dir,             \* the directory of each task: [tables, page], 0 = not present
  state,           \* "none", "user", "kernel", "exiting"
  current, curdir, \* the task that runs, and whose directory is loaded
  nsig, born,      \* bounds: signals and tasks so far
  pagecpu,             \* "ok", or why nothing more is claimed
  dropped          \* history: frames that temporary_map unmapped
pagingVars == <<physical_frame, data, dir, state, current, curdir, nsig, born, pagecpu, dropped>>

Empty == [tables |-> KernTables, page |-> [p \in Pages |-> 0]]
Present(d) == {p \in Pages : d.page[p] # 0}
Mapped(d) == {d.page[p] : p \in Present(d)}

-----------------------------------------------------------------------------
(* find_free_frame and reserve_frame for each page of ps in turn: the lowest *)
(* frame for the lowest page.                                                *)
alloc_frames(ps, reserved) ==
  [p \in ps |-> CHOOSE f \in Frames \ reserved :
     Cardinality({g \in Frames \ reserved : g < f}) = Cardinality({q \in ps : q < p})]
Enough(ps, reserved) == Cardinality(Frames \ reserved) >= Cardinality(ps)

(* alloc_page for each page of ps: present pages stay, tables are made. *)
alloc_page(d, ps, reserved) ==
  LET new == alloc_frames(ps \ Present(d), reserved)
  IN [tables |-> d.tables \cup {PAGE_TABLE(p) : p \in ps},
      page |-> [p \in Pages |-> IF p \in ps \ Present(d) THEN new[p] ELSE d.page[p]]]

(* copy_page_dir: the kernel's tables are linked; of the others, every page *)
(* that is present gets a frame of its own.                                 *)
copy_page_dir(d, reserved) ==
  LET new == alloc_frames(Present(d), reserved)
  IN [tables |-> d.tables,
      page |-> [p \in Pages |-> IF p \in Present(d) THEN new[p] ELSE 0]]

(* copy_physical_frame, for every page copied. *)
Copied(dst, src) ==
  [f \in Frames |-> IF \E p \in Present(dst) : dst.page[p] = f
                    THEN data[src.page[CHOOSE p \in Present(dst) : dst.page[p] = f]]
                    ELSE data[f]]

(* The pages strip_page_dir keeps.  TASK_STACK_START - TASK_STACK_INIT_BASE  *)
(* is a length, 0x3000, and not the address where the initial stack begins.  *)
Kept(p) ==
  \/ p >= KST /\ p < KST + 2
  \/ p >= 3 /\ p < SIG

strip_page_dir(d) ==
  LET erased == {t \in d.tables \ KernTables : \A p \in Pages : PAGE_TABLE(p) = t => ~Kept(p)}
  IN [tables |-> d.tables \ erased,
      page |-> [p \in Pages |-> IF Kept(p) THEN d.page[p] ELSE 0]]
Stripped(d) == {d.page[p] : p \in {q \in Present(d) : ~Kept(q)}}

(* One of the frames released is still in use in a directory that is left;   *)
(* what that memory holds from now on is anybody's.                          *)
InUse(frames, left) ==
  \E t \in Processes : \E p \in Present(left[t]) \ {TEMP} : left[t].page[p] \in frames

-----------------------------------------------------------------------------
(* task_init: init has a kernel stack in a copy of kerndir. *)
PagingInit ==
  /\ dir = [t \in Processes |-> IF t = init THEN alloc_page(Empty, {KST}, {}) ELSE Empty]
  /\ physical_frame = {1} /\ data = [f \in Frames |-> 0]
  /\ state = [t \in Processes |-> IF t = init THEN "kernel" ELSE "none"]
  /\ current = init /\ curdir = init /\ nsig = 0 /\ born = 0 /\ pagecpu = "ok" /\ dropped = {}

Halt == pagecpu' = "halted" /\ UNCHANGED <<physical_frame, data, dir, state, current, curdir, nsig, born, dropped>>
Stays == UNCHANGED <<current, curdir, nsig, dropped>>
Keeps == Stays /\ UNCHANGED born
Born == born < MaxBorn /\ born' = born + 1 /\ Stays

(* sys_fork and task_spawn: a copy of the directory, which is stripped at   *)
(* once for a kernel task.                                                  *)
fork(c, kern) ==
  LET d == dir[current]
      copy == copy_page_dir(d, physical_frame)
      d2 == IF kern THEN strip_page_dir(copy) ELSE copy
  IN /\ pagecpu = "ok" /\ state[c] = "none"
     /\ state[current] \in (IF kern THEN {"kernel"} ELSE {"kernel", "user"})
     /\ \/ ~Enough(Present(d), physical_frame) /\ Halt
        \/ /\ Enough(Present(d), physical_frame)
           /\ dir' = [dir EXCEPT ![c] = d2] /\ state' = [state EXCEPT ![c] = state[current]]
           /\ physical_frame' = physical_frame \cup Mapped(d2) /\ data' = Copied(copy, d)
           /\ UNCHANGED pagecpu /\ Born

(* worker_spawn: a copy of kerndir, which has no private tables. *)
worker(c) ==
  /\ pagecpu = "ok" /\ state[c] = "none" /\ state[current] = "kernel"
  /\ dir' = [dir EXCEPT ![c] = Empty] /\ state' = [state EXCEPT ![c] = "kernel"]
  /\ UNCHANGED <<physical_frame, data, pagecpu>> /\ Born

(* sys_execve: the directory is stripped, the signal stack, the user stack   *)
(* and the program's pages are allocated, and the program is read in.        *)
execve ==
  LET d == dir[current]
      left == physical_frame \ Stripped(d)
      bare == strip_page_dir(d)
      want == {SIG, STK, PROG}
      d2 == alloc_page(bare, want, left)
  IN /\ pagecpu = "ok" /\ state[current] # "exiting" /\ current # init /\ KST \in Present(d)
     /\ \/ ~Enough(want \ Present(bare), left) /\ Halt
        \/ /\ Enough(want \ Present(bare), left)
           /\ dir' = [dir EXCEPT ![current] = d2] /\ state' = [state EXCEPT ![current] = "user"]
           /\ physical_frame' = left \cup Mapped(d2) /\ data' = [data EXCEPT ![d2.page[PROG]] = 0]
           /\ pagecpu' = (IF InUse(Stripped(d), [dir EXCEPT ![current] = bare]) THEN "shared" ELSE "ok") /\ Keeps

(* sys_sbrk. *)
sbrk ==
  LET d == dir[current]
  IN /\ pagecpu = "ok" /\ state[current] = "user" /\ DATA \notin Present(d)
     /\ \/ ~Enough({DATA}, physical_frame) /\ Halt
        \/ /\ Enough({DATA}, physical_frame)
           /\ dir' = [dir EXCEPT ![current] = alloc_page(d, {DATA}, physical_frame)]
           /\ physical_frame' = physical_frame \cup Mapped(dir'[current])
           /\ UNCHANGED <<data, state, pagecpu>> /\ Keeps

(* The program writes to its memory. *)
Store ==
  /\ pagecpu = "ok" /\ state[current] = "user"
  /\ data' = [data EXCEPT ![dir[current].page[PROG]] = 1]
  /\ UNCHANGED <<physical_frame, dir, state, pagecpu>> /\ Keeps

(* page_fault, at the address in the kernel's tables: it returns, and the   *)
(* access is tried again.  At any other it reports and stops.               *)
page_fault(p) ==
  /\ pagecpu = "ok" /\ p \notin Present(dir[current])
  /\ pagecpu' = (IF PAGE_TABLE(p) \in KernTables /\ PAGE_TABLE(p) \in dir[current].tables
             THEN "faults" ELSE "halted")
  /\ UNCHANGED <<physical_frame, data, dir, state>> /\ Keeps

exit ==
  /\ pagecpu = "ok" /\ current # init /\ state[current] # "exiting"
  /\ state' = [state EXCEPT ![current] = "exiting"]
  /\ UNCHANGED <<physical_frame, data, dir, pagecpu>> /\ Keeps

(* free_page_dir. *)
Freed(tasks) == UNION {Mapped(dir[t]) : t \in tasks}

(* Variant: the frames stay reserved. *)
KeepFrames(t, frames) == physical_frame
free_frames(t, frames) == physical_frame \ frames

(* task_preempt: the tasks that have exited are freed on the way to the next *)
(* one, except the one whose directory is loaded.  Then signal_check, still  *)
(* in that directory, puts the signal number on the next task's signal stack *)
(* through temporary_map, and does not unmap it.                             *)
temporary_map(old, d) ==
  [old EXCEPT !.page = [@ EXCEPT ![TEMP] = d.page[SIG]]]
task_preempt(t, gone, signal) ==
  LET frames == Freed(gone)
      left == [x \in Processes |-> IF x \in gone THEN Empty ELSE dir[x]]
  IN /\ pagecpu = "ok" /\ state[t] \in {"user", "kernel"}
     /\ \A x \in gone : state[x] = "exiting" /\ x # curdir
     /\ signal => state[t] = "user" /\ nsig < MaxSignals /\ SIG \in Present(dir[t])
     /\ state' = [x \in Processes |-> IF x \in gone THEN "none" ELSE state[x]]
     /\ physical_frame' = free_frames(t, frames)
     /\ pagecpu' = (IF InUse(frames, left) THEN "shared"
                ELSE IF signal /\ PAGE_TABLE(TEMP) \notin dir[curdir].tables THEN "null" ELSE "ok")
     /\ dir' = (IF signal /\ pagecpu' = "ok"
                THEN [left EXCEPT ![curdir] = temporary_map(@, dir[t])] ELSE left)
     /\ dropped' = (IF signal /\ pagecpu' = "ok" THEN dropped \cup {left[curdir].page[TEMP]} ELSE dropped)
     /\ nsig' = (IF signal THEN nsig + 1 ELSE nsig)
     /\ current' = t /\ curdir' = t /\ UNCHANGED <<data, born>>

PagingStopped == pagecpu # "ok" /\ UNCHANGED pagingVars

PagingNext ==
  \/ \E c \in Processes : fork(c, FALSE) \/ fork(c, TRUE) \/ worker(c)
  \/ execve \/ sbrk \/ Store \/ exit
  \/ \E p \in {HOLE, DATA} : page_fault(p)
  \/ \E t \in Processes, gone \in SUBSET Processes, signal \in BOOLEAN : task_preempt(t, gone, signal)
  \/ PagingStopped
PagingSpec == PagingInit /\ [][PagingNext]_pagingVars

-----------------------------------------------------------------------------
PagingTypeOK ==
  /\ physical_frame \subseteq Frames /\ data \in [Frames -> {0, 1}]
  /\ \A t \in Processes : dir[t].tables \subseteq Tables /\ dir[t].page \in [Pages -> 0 .. NumFrames]
  /\ state \in [Processes -> {"none", "user", "kernel", "exiting"}]
  /\ current \in Processes /\ curdir \in Processes /\ nsig \in 0 .. MaxSignals /\ born \in 0 .. MaxBorn
  /\ pagecpu \in {"ok", "halted", "faults", "shared", "null"}

(* A frame that is mapped is reserved, and mapped once: over any sequence   *)
(* of copies, strips, exits and signals, as long as none has released a     *)
(* frame that is in use through its temporary mapping.                      *)
OneOwner ==
  pagecpu = "ok" =>
    \A t \in Processes : \A p \in Present(dir[t]) \ {TEMP} :
      /\ dir[t].page[p] \in physical_frame
      /\ \A u \in Processes, q \in Pages \ {TEMP} :
           dir[u].page[q] = dir[t].page[p] => u = t /\ q = p

(* Every reserved frame belongs to a directory, and goes when it goes: no   *)
(* life of a task leaves frames behind, except the frames that a copied     *)
(* temporary mapping had.                                                   *)
NoFrameLost ==
  pagecpu = "ok" => physical_frame \subseteq dropped \cup UNION {Mapped(dir[t]) : t \in Processes}

(* A page whose table is not there cannot be present.                       *)
PagesInTables == \A t \in Processes : \A p \in Present(dir[t]) : PAGE_TABLE(p) \in dir[t].tables

(* The frames, all of it: one owner each, none lost, and tables for the     *)
(* pages (copy_page_dir, strip_page_dir, alloc_page, free_page_dir).        *)
FramesOwned == PagingTypeOK /\ OneOwner /\ NoFrameLost /\ PagesInTables

(* paging.h: copy_page_dir returns a directory "identical in contents to    *)
(* the input directory", and later writes of one task are not seen by       *)
(* another.                                                                 *)
View(t, p) == IF dir[t].page[p] = 0 THEN -1 ELSE data[dir[t].page[p]]
Private ==
  [][ pagecpu' = "ok" =>
        /\ \A t \in Processes \ {current, current'} : \A p \in Pages \ {TEMP} :
             state[t] \in {"user", "kernel"} => View(t, p)' = View(t, p)
        /\ \A c \in Processes : \A p \in Present(dir[c])' :
             state[c] = "none" /\ state'[c] # "none" => View(c, p)' = View(current, p) ]_pagingVars

-----------------------------------------------------------------------------
(* What the source says of itself and the code does not do.                  *)

(* paging.h on temporary_map: "This is a temporary mapping".  It outlives   *)
(* the switch, and when the task that had it exits or executes a program    *)
(* the frame is released under the task whose signal stack it is.           *)
TempIsTemporary == pagecpu # "shared"

(* paging.h on temporary_map: "This function maps a given page from one     *)
(* directory into the current at address 0xFFFFF000".  The directory of a   *)
(* worker has no table there.                                               *)
TempHasTable == pagecpu # "null"

(* exec.c:173: "Create an empty page directory and free the old one".  The  *)
(* old program's memory is still there for the new one.                     *)
ExecIsEmpty ==
  [][ execve => (pagecpu' = "halted" \/ dir'[current].page[DATA] = 0) ]_pagingVars

(* paging.c:344: "this function does not return".  It returns, having       *)
(* changed nothing, when the kernel has a table for the address, and the    *)
(* access faults again for ever.                                            *)
FaultStops == pagecpu # "faults"
=============================================================================
