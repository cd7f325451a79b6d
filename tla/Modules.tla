------------------------------ MODULE Modules ------------------------------
(* Loading and removing kernel modules: sys_insmod and sys_rmmod (exec.c) with
   the two modules of the repository, vtty (the screen's tty driver, which
   listens to key events) and keyboard (atkbd, which listens to the PS/2
   port), while tasks open and close the tty.  A loaded copy of a module has a
   number; what it leaves in the kernel's tables refers to it by that number. *)
EXTENDS Naturals, Sequences, FiniteSets, SequencesExt

CONSTANTS
  Present,      \* the files insmod may be given
  MaxLoads,     \* copies of modules made in a behaviour
  MaxOpens      \* times the tty is open at once

ModulesAssumption == MaxLoads \in Nat /\ MaxOpens \in Nat

VARIABLES
  g_module_list,  \* the loaded modules, newest first: [id, name]
  loaded,         \* number of copies made
  live,           \* copies whose memory is allocated
  tty_driver,     \* 0, or the copy whose operations the driver structure holds
  refs,           \* opens of the tty device, counted in that structure
  handlers,       \* copies with an event handler in the kernel's list
  m_private,      \* copy -> its handler: "none", "linked", "freed"
  listeners,      \* copies with a listener on the PS/2 port
  files,          \* struct files insmod holds
  result,
  cpu             \* "ok", "freed" or "null" after a use of freed memory or of NULL

vars == <<g_module_list, loaded, live, tty_driver, refs, handlers, m_private, listeners,
          files, result, cpu>>

Ids == 1..MaxLoads
Kinds == {"vtty", "keyboard"}

Init ==
  /\ g_module_list = <<>> /\ loaded = 0 /\ live = {}
  /\ tty_driver = 0 /\ refs = 0 /\ handlers = {} /\ listeners = {}
  /\ m_private = [i \in Ids |-> "none"]
  /\ files = 0 /\ result = "none" /\ cpu = "ok"

tables == <<tty_driver, refs, handlers, m_private, listeners>>

-----------------------------------------------------------------------------
(* vtty_load.  The driver's structure is registered before the character
   device, and a second copy finds the major number taken: tty_alloc_driver
   frees the new structure and returns NULL, which the module uses.  A full
   heap fails the first allocation. *)
vtty_load(i, room) ==
  /\ UNCHANGED listeners
  /\ IF ~room
     THEN /\ result' = "ENOMEM" /\ UNCHANGED <<tty_driver, refs, handlers, m_private, cpu>>
     ELSE IF tty_driver # 0
     THEN /\ cpu' = "null" /\ result' = "none"
          /\ UNCHANGED <<tty_driver, refs, handlers, m_private>>
     ELSE /\ tty_driver' = i /\ refs' = 0
          /\ handlers' = handlers \cup {i}
          /\ m_private' = [m_private EXCEPT ![i] = "linked"]
          /\ result' = "ok" /\ UNCHANGED cpu

(* keyboard_load: no keyboard on either port, or a listener is added. *)
keyboard_load(i, room) ==
  /\ listeners' = IF room THEN listeners \cup {i} ELSE listeners
  /\ result' = IF room THEN "ok" ELSE "ENODEV"
  /\ UNCHANGED <<tty_driver, refs, handlers, m_private, cpu>>

m_load(i, name, room) ==
  IF name = "vtty" THEN vtty_load(i, room) ELSE keyboard_load(i, room)

(* list_add, and list_rem with kfree when m_load fails. *)
Added(i, name) ==
  IF result' \in {"ok", "none"}
  THEN /\ g_module_list' = <<[id |-> i, name |-> name]>> \o g_module_list
       /\ live' = live \cup {i}
  ELSE UNCHANGED <<g_module_list, live>>

(* sys_insmod.  Only a file that is no module is closed again. *)
sys_insmod(f, room) ==
  /\ cpu = "ok"
  /\ \/ /\ f = "missing" /\ result' = "ENOENT"
        /\ UNCHANGED <<g_module_list, loaded, live, files, cpu, tables>>
     \/ /\ f = "text" /\ result' = "ENOEXEC"
        /\ UNCHANGED <<g_module_list, loaded, live, files, cpu, tables>>
     \/ /\ f = "broken" /\ files < MaxLoads /\ files' = files + 1 /\ result' = "EINVAL"
        /\ UNCHANGED <<g_module_list, loaded, live, cpu, tables>>
     \/ /\ f \in Kinds /\ loaded < MaxLoads
        /\ loaded' = loaded + 1
        /\ files' = files + 1
        /\ m_load(loaded + 1, f, room)
        /\ Added(loaded + 1, f)

-----------------------------------------------------------------------------
(* tty_free_driver: -EBUSY while the device is open. *)
tty_free_driver ==
  IF refs > 0 THEN /\ result' = "EBUSY" /\ UNCHANGED tty_driver
  ELSE /\ result' = "ok" /\ tty_driver' = 0

(* vtty_remove: keyboard_quit comes first, whatever tty_free_driver says. *)
vtty_remove(i) ==
  /\ handlers' = handlers \ {i}
  /\ m_private' = [m_private EXCEPT ![i] = "freed"]
  /\ cpu' = IF m_private[i] = "linked" THEN cpu ELSE "freed"
  /\ tty_free_driver
  /\ UNCHANGED <<refs, listeners>>

(* Variant: the listener is left on the port. *)
RemoveListening(i) == result' = "ok" /\ UNCHANGED <<tty_driver, refs, handlers, m_private, listeners, cpu>>

keyboard_remove(i) ==
  /\ listeners' = listeners \ {i}
  /\ result' = "ok"
  /\ UNCHANGED <<tty_driver, refs, handlers, m_private, cpu>>

m_remove(m) == IF m.name = "vtty" THEN vtty_remove(m.id) ELSE keyboard_remove(m.id)

(* list_rem and kfree, unless m_remove returned an error. *)
Unlink(m) ==
  IF result' = "ok"
  THEN /\ g_module_list' = SelectSeq(g_module_list, LAMBDA x : x # m)
       /\ live' = live \ {m.id}
  ELSE UNCHANGED <<g_module_list, live>>

(* sys_rmmod: the newest module of that name.  Nothing in the kernel or in the
   modules changes m_refs, so its test never answers -EBUSY. *)
sys_rmmod(name) ==
  /\ cpu = "ok"
  /\ LET named == SelectSeq(g_module_list, LAMBDA x : x.name = name) IN
     IF named = <<>>
     THEN result' = "ENOENT" /\ UNCHANGED <<g_module_list, live, cpu, tables>>
     ELSE m_remove(named[1]) /\ Unlink(named[1])
  /\ UNCHANGED <<loaded, files>>

(* A task opens or closes the tty: tty_file_open, tty_file_close. *)
tty_file_open ==
  /\ cpu = "ok" /\ tty_driver # 0 /\ refs < MaxOpens
  /\ refs' = refs + 1 /\ result' = "none"
  /\ UNCHANGED <<g_module_list, loaded, live, tty_driver, handlers, m_private, listeners, files, cpu>>

tty_file_close ==
  /\ cpu = "ok" /\ refs > 0
  /\ refs' = refs - 1 /\ result' = "none"
  /\ UNCHANGED <<g_module_list, loaded, live, tty_driver, handlers, m_private, listeners, files, cpu>>

Stopped == cpu # "ok" /\ UNCHANGED vars

Next ==
  \/ \E f \in Present, room \in BOOLEAN : sys_insmod(f, room)
  \/ \E name \in Kinds : sys_rmmod(name)
  \/ tty_file_open
  \/ tty_file_close
  \/ Stopped

Spec == Init /\ [][Next]_vars

-----------------------------------------------------------------------------
TypeOK ==
  /\ \A k \in 1..Len(g_module_list) : g_module_list[k].id \in Ids /\ g_module_list[k].name \in Kinds
  /\ loaded \in 0..MaxLoads /\ live \subseteq 1..loaded
  /\ tty_driver \in 0..loaded /\ refs \in 0..MaxOpens
  /\ handlers \subseteq Ids /\ listeners \subseteq Ids
  /\ m_private \in [Ids -> {"none", "linked", "freed"}]
  /\ files \in 0..(2 * MaxLoads) /\ cpu \in {"ok", "freed", "null"}

(* The kernel calls into a module through the tty driver's operations, an
   event handler or a PS/2 listener.  Whatever is loaded, opened, refused and
   removed in whatever order, each of them belongs to a module that is still
   in memory, so no call lands in freed code. *)
NoCallIntoFreed ==
  handlers \cup listeners \cup ({tty_driver} \ {0}) \subseteq live

(* The list holds exactly the copies in memory, each once: a module whose
   m_load fails is neither listed nor kept, one whose m_remove fails is
   both. *)
ListedAreLive ==
  /\ {g_module_list[k].id : k \in 1..Len(g_module_list)} = live
  /\ Len(g_module_list) = Cardinality(live)

-----------------------------------------------------------------------------
(* What the source says of itself and the code does not do.                  *)

(* "It is only called when module->m_refs == 0" (atkbd/src/main.c:64), where
   m_refs is the "Number of references currently held throughout the system"
   (exec.h:42): no handler is taken from a module whose tty is open. *)
RemovedUnused == [][refs > 0 => m_private' = m_private]_vars

(* "Any non-zero return value will be passed back from rmmod"
   (atkbd/src/main.c:66): rmmod may be tried again. *)
RemoveAgain == cpu # "freed"

(* "All other values are passed back from insmod" (atkbd/src/main.c:19): a
   second copy of vtty is refused with an error. *)
SecondRefused == cpu # "null"
=============================================================================
