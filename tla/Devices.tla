-------------------------------- MODULE Devices --------------------------------
(***************************************************************************)
(* The devices a user sits at, the modules that drive them and the         *)
(* programs that are started: the PS/2 controller (Ps2), the keyboard's    *)
(* scancodes (Keyboard), the terminal (Tty) and its screen (Screen), the   *)
(* loading of modules (ElfModule, Modules), sys_execve (Exec), the program *)
(* images it maps (ElfProgram) and the service daemon (Services).          *)
(*                                                                         *)
(* The components share no variable.  A behaviour moves one of them,       *)
(* chosen at the start.  The controller is looked at twice: with devices   *)
(* that speak when they are asked ("ps2"), and with keys pressed while the *)
(* driver is at work and interrupts for every answer ("keys").             *)
(***************************************************************************)
EXTENDS Integers, Sequences, TLC

CONSTANT NULL

VARIABLES
  part,    \* the component that moves
  t_wait, pc, driver, module, handler, refs, task, queue, read, write,
  opened, left, key, typed, eols, unread, inOrder, wrapped, lapped,
  exposed, cpu,                                                     \* Tty
  owner, screen, cx, cy, paper, puts,                               \* Screen
  atkbd_state, atkbd_multibyte, keymap, wire, held, toggled, sent,
  seen, capsLost, wrong,                                            \* Keyboard
  ctl, dev, host, unasked,                                          \* Ps2
  execpc, exec, type, open, everopened, paths, heap, image, stack,
  status, was, execcpu, calls,                                      \* Exec
  prog, next, pages, mem, bssend, elfcpu,                           \* ElfProgram
  file, linkpc, section, r, block, stray, tables, linked,           \* ElfModule
  g_module_list, loaded, live, tty_driver, drefs, handlers,
  m_private, listeners, files, result, modcpu,                      \* Modules
  pidfile, proc, next_pid, todo, initpc, svc, pid, started, aimed,
  ops, boots                                                        \* Services

ttyVars == <<t_wait, pc, driver, module, handler, refs, task, queue, read, write, opened,
             left, key, typed, eols, unread, inOrder, wrapped, lapped, exposed, cpu>>
screenVars == <<owner, screen, cx, cy, paper, puts>>
keyboardVars == <<atkbd_state, atkbd_multibyte, keymap, wire, held, toggled, sent, seen,
                  capsLost, wrong>>
ps2Vars == <<ctl, dev, host, unasked>>
execVars == <<execpc, exec, type, open, everopened, paths, heap, image, stack, status, was,
              execcpu, calls>>
elfVars == <<prog, next, pages, mem, bssend, elfcpu>>
linkVars == <<file, linkpc, section, r, block, stray, tables, linked>>
moduleVars == <<g_module_list, loaded, live, tty_driver, drefs, handlers, m_private,
                listeners, files, result, modcpu>>
serviceVars == <<pidfile, proc, next_pid, todo, initpc, svc, pid, started, aimed, ops, boots>>
consoleVars == <<ttyVars, screenVars, keyboardVars, ps2Vars>>
loaderVars == <<execVars, elfVars, linkVars, moduleVars, serviceVars>>
vars == <<part, consoleVars, loaderVars>>

-----------------------------------------------------------------------------
(* The console: a ring of three characters and two readers; a screen of      *)
(* three columns and two rows.                                               *)
Readers == {"r1", "r2"}

T == INSTANCE Tty WITH
  Tasks <- Readers, Length <- 3, Canon <- TRUE, Kinds <- {"char", "eol", "erase"},
  MaxKeys <- 3, Counts <- {1, 2}

S == INSTANCE Screen WITH
  Width <- 3, Height <- 2, Tab <- 2, Printable <- {"x", "y"}, MaxPuts <- 6

K == INSTANCE Keyboard WITH MaxBytes <- 10

(* Devices that answer at once, and may have a command sent again.           *)
P == INSTANCE Ps2 WITH
  Kinds <- {"kbd", "mouse", "wheel", "none"}, Slow <- {}, ReplyIrq <- FALSE,
  Chatter <- {}, Resends <- {242, 245}, MaxResend <- 2, MaxChatter <- 0, sent <- unasked

(* A key pressed at any moment, and an interrupt for every byte.             *)
I == INSTANCE Ps2 WITH
  Kinds <- {"kbd", "none"}, Slow <- {}, ReplyIrq <- TRUE,
  Chatter <- {1, 2}, Resends <- {}, MaxResend <- 0, MaxChatter <- 1, sent <- unasked

-----------------------------------------------------------------------------
(* The files sys_execve is given: programs, data, a script for a program     *)
(* with an option, one without an interpreter, one whose interpreter is      *)
(* missing.  No interpreter is a script, and argv has a name in it.          *)
FileOf(kind, line, mode) ==
  [kind |-> kind, line |-> line, mode |-> mode, owner |-> 1, group |-> 1, mount |-> {}]
Readable == {"u", "g", "o"} \X {"R"}
AllModes == {"u", "g", "o"} \X {"R", "X"}
Disk ==
  [sh |-> FileOf("elf", <<>>, AllModes), ls |-> FileOf("elf", <<>>, Readable \cup {<<"g", "X">>}),
   text |-> FileOf("text", <<>>, Readable), bad |-> FileOf("text", <<>>, AllModes),
   run |-> FileOf("script", <<"sh", "opt">>, AllModes), none |-> FileOf("script", <<>>, AllModes),
   dark |-> FileOf("elf", <<>>, AllModes \ {<<"g", "R">>}),
   gone |-> FileOf("script", <<"missing">>, AllModes)]
Lengths == [s \in DOMAIN Disk \cup {"missing", "opt", "p", "x"} |-> IF s \in {"p", "x"} THEN 0 ELSE 2]

X == INSTANCE Exec WITH
  Content <- Disk, Length <- Lengths, Argvs <- {<<"p">>, <<"p", "x">>, <<"p", "x", "x">>},
  Env <- <<"x">>, Uid <- 2, Gid <- 1, MaxArg <- 18, MaxRounds <- 3, MaxCalls <- 2,
  pc <- execpc, opened <- everopened, result <- status, cpu <- execcpu

(* Programs of text and data in the order of their addresses and without     *)
(* overlap, or the other way round; a note before them, or a third segment   *)
(* that is read-only.                                                        *)
Segments(vaddrs, sizes, flags) ==
  {s \in [load : {TRUE}, vaddr : vaddrs, filesz : {0} \cup sizes, memsz : sizes, flags : {flags}] :
     s.filesz <= s.memsz}
Note == [load |-> FALSE, vaddr |-> 1, filesz |-> 1, memsz |-> 1, flags |-> {"R"}]
Pairs == {p \in Segments({0, 1}, {1, 3, 4}, {"R", "X"}) \X Segments({3, 4, 5, 8}, {1, 3, 4}, {"R", "W"}) :
            p[1].vaddr + p[1].memsz <= p[2].vaddr}
Images ==
  Pairs \cup {<<p[2], p[1]>> : p \in Pairs}
        \cup {<<Note>> \o p : p \in Pairs}
        \cup {p \o <<l>> : p \in Pairs, l \in {s \in Segments({12}, {1, 4}, {"R"}) : s.filesz = s.memsz}}

L == INSTANCE ElfProgram WITH PG <- 4, Programs <- Images, cpu <- elfcpu

-----------------------------------------------------------------------------
(* Module files: text, a comment, the module's description, two tables of    *)
(* relocations and cleared data at the end; and one without a description.   *)
(* No relocation is of a section without a place in memory, and the block    *)
(* for the module can be allocated.                                          *)
Section(kind, alloc, off, size, name, info) ==
  [type |-> kind, alloc |-> alloc, off |-> off, size |-> size, name |-> name, info |-> info]
Text == Section("PROGBITS", TRUE, 2, 3, ".text", 0)
Comment == Section("PROGBITS", FALSE, 5, 2, ".comment", 0)
Rel(info) == Section("REL", FALSE, 12, 0, ".rel", info)
Sections == <<Text, Comment, Section("PROGBITS", TRUE, 7, 2, ".module_info", 0), Rel(1), Rel(3),
              Section("NOBITS", TRUE, 9, 2, ".bss", 0)>>

Symbol(shndx, value, name) == [shndx |-> shndx, value |-> value, name |-> name]
SHN_UNDEF == 0
SHN_ABS == -1
SHN_COMMON == -2
Symbols ==
  <<Symbol(1, 1, "load"), Symbol(SHN_UNDEF, 0, "printk"), Symbol(SHN_ABS, 9, "abs"),
    Symbol(3, 1, "info"), Symbol(SHN_UNDEF, 0, "lost"), Symbol(SHN_COMMON, 1, "common")>>
Relocations(offs, syms) ==
  [off : offs, sym : syms, type : {"NONE", "32", "PC32", "JMP_SLOT", "OTHER"}, addend : {<<>>}]
Infos ==
  {<<x>> : x \in {y \in Relocations({0}, {1, 4}) : y.type \in {"32", "PC32"}}}
    \cup {<<[off |-> 1, sym |-> 1, type |-> "32", addend |-> <<7>>]>>}
ModuleFiles ==
  {[sec |-> Sections, sym |-> Symbols, rel |-> (4 :> <<x, y>>) @@ (5 :> i)] :
     x \in Relocations({0}, 1..6), y \in Relocations({2}, {1, 2}), i \in Infos}
    \cup {[sec |-> <<Text, Comment, Text, Rel(1), Rel(1)>>, sym |-> Symbols,
           rel |-> (4 :> <<>>) @@ (5 :> <<>>)]}

M == INSTANCE ElfModule WITH
  EH <- 2, B <- 1000, Files <- ModuleFiles, Kernel <- ("printk" :> 50) @@ ("kmalloc" :> 60),
  Failing <- {"shtab", "shstrtab", "rtab", "stab"},
  pc <- linkpc, next <- section, held <- tables, result <- linked

D == INSTANCE Modules WITH
  Present <- {"missing", "text", "broken", "vtty", "keyboard"}, MaxLoads <- 4, MaxOpens <- 2,
  refs <- drefs, cpu <- modcpu

(* A service without a manifest, and one whose binary cannot be executed.    *)
V == INSTANCE Services WITH
  Order <- <<"none", "bad", "sh">>, Good <- {"bad", "sh"}, Runs <- {"sh"},
  MaxPid <- 3, MaxOps <- 1, MaxBoots <- 2, pc <- initpc

ASSUME DevicesAssumption ==
  /\ T!TtyAssumption /\ S!ScreenAssumption /\ K!KeyboardAssumption
  /\ P!Ps2Assumption /\ I!Ps2Assumption /\ X!ExecAssumption /\ L!ElfProgramAssumption
  /\ M!ElfModuleAssumption /\ D!ModulesAssumption /\ V!ServicesAssumption

-----------------------------------------------------------------------------
(* The machine the controller is part of.  Where the controller does not     *)
(* move, any one machine will do.                                            *)
Machine ==
  \/ part = "ps2" /\ P!Init
  \/ part = "keys" /\ I!Init
  \/ /\ part \notin {"ps2", "keys"} /\ P!Init
     /\ ctl.dual /\ ctl.bad = {} /\ ctl.out = <<>> /\ "port2" \in host.flags
     /\ \A p \in P!Ports : dev[p].kind = "kbd"

Init ==
  /\ part \in {"tty", "screen", "keyboard", "ps2", "keys", "exec", "program", "link",
               "modules", "services"}
  /\ Machine
  /\ T!Init /\ S!Init /\ K!Init /\ X!Init /\ L!Init /\ M!Init /\ D!Init /\ V!Init

Console ==
  /\ \/ part = "tty" /\ T!Next /\ UNCHANGED <<screenVars, keyboardVars, ps2Vars>>
     \/ part = "screen" /\ S!Next /\ UNCHANGED <<ttyVars, keyboardVars, ps2Vars>>
     \/ part = "keyboard" /\ K!Next /\ UNCHANGED <<ttyVars, screenVars, ps2Vars>>
     \/ part = "ps2" /\ P!Next /\ UNCHANGED <<ttyVars, screenVars, keyboardVars>>
     \/ part = "keys" /\ I!Next /\ UNCHANGED <<ttyVars, screenVars, keyboardVars>>
  /\ UNCHANGED <<part, loaderVars>>

Loader ==
  /\ \/ part = "exec" /\ X!Next /\ UNCHANGED <<elfVars, linkVars, moduleVars, serviceVars>>
     \/ part = "program" /\ L!Next /\ UNCHANGED <<execVars, linkVars, moduleVars, serviceVars>>
     \/ part = "link" /\ M!Next /\ UNCHANGED <<execVars, elfVars, moduleVars, serviceVars>>
     \/ part = "modules" /\ D!Next /\ UNCHANGED <<execVars, elfVars, linkVars, serviceVars>>
     \/ part = "services" /\ V!Next /\ UNCHANGED <<execVars, elfVars, linkVars, moduleVars>>
  /\ UNCHANGED <<part, consoleVars>>

Next == Console \/ Loader

(* The monitor task and a reader that was woken run; the driver loads, and   *)
(* the controller and the devices answer; the daemon and its children run.   *)
Fairness ==
  /\ WF_ttyVars(part = "tty" /\ T!InsertAdvances)
  /\ WF_ttyVars(part = "tty" /\ T!InsertWakes)
  /\ \A t \in Readers : WF_ttyVars(part = "tty" /\ T!ReadWakes(t))
  /\ WF_ps2Vars(part = "ps2" /\ P!Driver) /\ WF_ps2Vars(part = "ps2" /\ P!Hardware)
  /\ WF_ps2Vars(part = "keys" /\ I!Driver) /\ WF_ps2Vars(part = "keys" /\ I!Hardware)
  /\ WF_serviceVars(part = "services" /\ V!Daemon)
  /\ \A p \in 1..3 : WF_serviceVars(part = "services" /\ V!Child(p))

Spec == Init /\ [][Next]_vars /\ Fairness

-----------------------------------------------------------------------------
(* The properties. Each conjunct is explained where its component states it. *)

(* The console keeps what passes through it: the ring of the terminal holds  *)
(* what was typed and not read, in order; an open terminal has a driver; no  *)
(* reader sleeps while a whole line is there for it (tty_queue_insert,       *)
(* tty_file_read); the screen is the end of what was printed, through        *)
(* scrolls, tabs and the change of driver; when the wire is silent the       *)
(* keymap holds exactly the keys that are down (atkbd, kbd_event).           *)
ConsoleRight ==
  /\ part = "tty" => /\ T!TypeOK
                     /\ T!RingHoldsUnread
                     /\ T!NoFileWithoutDriver
                     /\ T!NoSleepOverInput
  /\ part = "screen" => S!TypeOK /\ S!ScreenIsEndOfPaper
  /\ part = "keyboard" => K!TypeOK /\ K!NoStuckKey /\ K!MapIsRight

(* ps2_init finds the ports that are there and work, ps2_identify the device *)
(* that is attached; the controller's configuration is left as it was and    *)
(* the device scanning, with no answer left over; a keyboard whose port      *)
(* worked can be heard when its module is loaded.                            *)
ControllerRight ==
  /\ part \in {"ps2", "keys"} => P!TypeOK
  /\ part = "ps2" => /\ P!PortsDetected
                     /\ P!AttachedIsFound
                     /\ P!ConfigKept
                     /\ P!LeftAsFound
                     /\ P!StillHeard

(* What is loaded is what the files say: sys_execve runs the file named or   *)
(* the interpreter of its first line, with the arguments and environment on  *)
(* its stack; a program's segments are in place, writable exactly where a    *)
(* writable one lies, the break past them all (elf_load_exec); a module lies *)
(* in its one block and every relocation holds its symbol's address          *)
(* (elf_load_module).                                                        *)
ImagesRight ==
  /\ part = "exec" => X!RightProgram /\ X!ArgsAsScripted /\ X!StackIsArgs
  /\ part = "program" => /\ L!TypeOK
                         /\ L!SegmentsInPlace
                         /\ L!WritableIsWritable
                         /\ L!OthersAreNot
                         /\ L!BreakPastAll
  /\ part = "link" => M!TypeOK /\ M!InOneBlock /\ M!Linked

(* Nothing is left over, whichever step fails: a failing sys_execve leaves   *)
(* the caller its program, stack and files, and one that succeeds holds no   *)
(* file of the loading open; the tables read to link a module are freed; no  *)
(* operation of a removed module is called and the list holds the copies in  *)
(* memory; a pid file names the process of its service, and a service that   *)
(* could not be started leaves none.                                         *)
NothingLeftOver ==
  /\ part = "exec" => X!TypeOK /\ X!FailureKeepsImage /\ X!SuccessCloses
  /\ part = "link" => M!TablesFreed
  /\ part = "modules" => D!TypeOK /\ D!NoCallIntoFreed /\ D!ListedAreLive
  /\ part = "services" => V!TypeOK /\ V!FileIsService /\ V!FailedLeavesNone

(* A key gives the character of the table its modifiers choose (kbd_listen), *)
(* and a reader that waits for a line gets up when one is typed              *)
(* (tty_queue_insert).                                                       *)
KeysAreHeard ==
  /\ K!TypesRight
  /\ part = "tty" => T!LineWakesReader

(* Loading the keyboard module ends, whatever keys are pressed and whatever  *)
(* a device asks to be sent again, and every service that can run is started *)
(* at the boot (services_start).                                             *)
StartupEnds ==
  /\ part \in {"ps2", "keys"} => I!LoadEnds
  /\ part = "services" => V!AllStarted
=============================================================================
