--------------------------------- MODULE Tty ---------------------------------
(***************************************************************************)
(* A terminal, kernel/src/tty.c, with its module vtty: the input queue     *)
(* between the keyboard and the readers, open and close, and the loading   *)
(* and removal of the module.                                              *)
(*                                                                         *)
(* Characters are inserted by the event monitor, a kernel worker that does *)
(* not take the device's lock and can be preempted.  Readers are system    *)
(* calls: they hold the lock only where nothing interrupts them, so it is  *)
(* never seen taken and is left out.  A character is its number in the     *)
(* order of typing.                                                        *)
(***************************************************************************)
EXTENDS Sleep, Integers, SequencesExt

CONSTANTS
  Length,    \* TTY_QUEUELEN
  Canon,     \* is ICANON set in termios?  vtty gives no way to change it
  Kinds,     \* the keys that are typed, of "char", "eol" and "erase"
  MaxKeys,   \* bound: characters typed
  Counts,    \* the sizes of reads
  NULL

TtyAssumption ==
  /\ Length \in Nat \ {0} /\ MaxKeys \in Nat /\ Canon \in BOOLEAN
  /\ Counts \subseteq Nat \ {0} /\ Kinds \subseteq {"char", "eol", "erase"}
  /\ NULL \notin Tasks \cup Nat

VARIABLES
  driver,       \* is tty_driver[VTTY_MAJOR] set?
  module,       \* is the module loaded?
  handler,      \* is its event handler registered?
  refs, task, queue, read, write,   \* the fields of the device
  opened,       \* the tasks that have the terminal open
  left,         \* count - n of the read a task is in
  key,          \* the insertion under way: where it is, and the kind of key
  typed, eols,  \* history: characters typed, and which of them end a line
  unread,       \* history: what a queue without bound would hold
  inOrder,      \* history: has every read returned the start of unread?
  wrapped,      \* history: has a read met the end of the ring?
  lapped,       \* history: has write caught up with read?
  exposed,      \* history: has an erase made a line end the last character?
  cpu           \* "ok", or "wild" when the handler was freed twice

deviceVars == <<refs, task, queue, read, write>>
moduleVars == <<driver, module, handler>>
history == <<typed, eols, unread, inOrder, wrapped, lapped, exposed>>
ttyVars == <<moduleVars, deviceVars, opened, left, key, history, cpu>>
vars == <<t_wait, pc, ttyVars>>

NoKey == [at |-> "none", kind |-> "char"]

FreshDevice ==
  /\ refs' = 0 /\ task' = NULL /\ queue' = [i \in 0 .. Length - 1 |-> 0]
  /\ read' = 0 /\ write' = 0 /\ unread' = <<>>

Init ==
  /\ t_wait = [t \in Tasks |-> "none"] /\ pc = [t \in Tasks |-> "user"]
  /\ driver = FALSE /\ module = FALSE /\ handler = FALSE
  /\ refs = 0 /\ task = NULL /\ queue = [i \in 0 .. Length - 1 |-> 0]
  /\ read = 0 /\ write = 0
  /\ opened = {} /\ left = [t \in Tasks |-> 0] /\ key = NoKey
  /\ typed = 0 /\ eols = {} /\ unread = <<>> /\ inOrder = TRUE
  /\ wrapped = FALSE /\ lapped = FALSE /\ exposed = FALSE
  /\ cpu = "ok"

-----------------------------------------------------------------------------
(* vtty_load: the driver, with one fresh device, and the event handler. *)
vtty_load ==
  /\ cpu = "ok" /\ ~ module
  /\ module' = TRUE /\ driver' = TRUE /\ handler' = TRUE
  /\ FreshDevice
  /\ UNCHANGED <<t_wait, pc, opened, left, key, typed, eols, inOrder, wrapped,
                 lapped, exposed, cpu>>

(* A device that is open keeps the driver. *)
tty_free_driver == module' = (refs > 0) /\ driver' = (refs > 0)

(* vtty_remove: the handler goes first, whatever tty_free_driver answers.   *)
(* event_unlisten waits until no handler runs.                              *)
vtty_remove ==
  /\ cpu = "ok" /\ module /\ key = NoKey
  /\ handler' = FALSE
  /\ cpu' = IF handler THEN "ok" ELSE "wild"
  /\ tty_free_driver
  /\ UNCHANGED <<t_wait, pc, deviceVars, opened, left, key, history>>

tty_file_open(t) ==
  /\ cpu = "ok" /\ At(t, "user") /\ t \notin opened /\ driver
  /\ refs' = refs + 1
  /\ opened' = opened \cup {t}
  /\ UNCHANGED <<t_wait, pc, moduleVars, task, queue, read, write, left, key,
                 history, cpu>>

tty_file_close(t) ==
  /\ cpu = "ok" /\ At(t, "user") /\ t \in opened
  /\ refs' = refs - 1
  /\ task' = IF refs = 1 THEN NULL ELSE task
  /\ opened' = opened \ {t}
  /\ UNCHANGED <<t_wait, pc, moduleVars, queue, read, write, left, key, history,
                 cpu>>

-----------------------------------------------------------------------------
tty_queue_empty == read = write

Before(i) == IF i = 0 THEN Length - 1 ELSE i - 1

After(i) == IF i = Length - 1 THEN 0 ELSE i + 1

(* tty_queue_insert for the erase character takes back the last one. *)
Erase ==
  /\ cpu = "ok" /\ handler /\ key = NoKey /\ "erase" \in Kinds
  /\ ~ tty_queue_empty
  /\ write' = Before(write)
  /\ unread' = IF unread = <<>> THEN <<>> ELSE Front(unread)
  /\ exposed' =
       (exposed \/ (Len(unread) > 1 /\ unread[Len(unread) - 1] \in eols))
  /\ UNCHANGED <<t_wait, pc, moduleVars, refs, task, queue, read, opened, left,
                 key, typed, eols, inOrder, wrapped, lapped, cpu>>

(* For any other it stores the character, *)
InsertStores(kind) ==
  /\ cpu = "ok" /\ handler /\ key = NoKey /\ typed < MaxKeys
  /\ kind \in Kinds \ {"erase"}
  /\ queue' = [queue EXCEPT ![write] = typed + 1]
  /\ typed' = typed + 1
  /\ eols' = IF kind = "eol" THEN eols \cup {typed + 1} ELSE eols
  /\ key' = [at |-> "advance", kind |-> kind]
  /\ UNCHANGED <<t_wait, pc, moduleVars, refs, task, read, write, opened, left,
                 unread, inOrder, wrapped, lapped, exposed, cpu>>

(* moves the write pointer, *)
InsertAdvances ==
  /\ key.at = "advance"
  /\ write' = After(write)
  /\ unread' = Append(unread, typed)
  /\ lapped' = (lapped \/ After(write) = read)
  /\ key' = [key EXCEPT !.at = "wake"]
  /\ UNCHANGED <<t_wait, pc, moduleVars, refs, task, queue, read, opened, left,
                 typed, eols, inOrder, wrapped, exposed, cpu>>

(* Variant: only the first character in the queue wakes the reader. *)
InsertWakesFirst ==
  /\ key.at = "wake"
  /\ IF Len(unread) = 1 /\ task # NULL
     THEN task_wakeup(task) ELSE UNCHANGED t_wait
  /\ key' = NoKey
  /\ UNCHANGED <<pc, moduleVars, deviceVars, opened, left, history, cpu>>

(* and wakes the reader if there is something for it. *)
InsertWakes ==
  /\ key.at = "wake"
  /\ IF (Canon => key.kind = "eol") /\ task # NULL
     THEN task_wakeup(task) ELSE UNCHANGED t_wait
  /\ key' = NoKey
  /\ UNCHANGED <<pc, moduleVars, deviceVars, opened, left, history, cpu>>

-----------------------------------------------------------------------------
(* tty_end_of_line looks at the last character that was inserted. *)
tty_end_of_line == ~ tty_queue_empty /\ queue[Before(write)] \in eols

Least(m, n) == IF m < n THEN m ELSE n

(* tty_queue_read: how much it says it read, where it leaves the read       *)
(* pointer, and what is in the buffer, NULL where it wrote nothing.  Of a   *)
(* queue that goes over the end of the ring it takes the part before the    *)
(* end, but for the last place, and goes on at the start; the second copy   *)
(* overwrites the first.                                                    *)
tty_queue_read(count) ==
  LET over == write < read
      n1   == IF over THEN Least(Length - 1 - read, count) ELSE 0
      from == IF over THEN 0 ELSE read
      n2   == IF n1 = count THEN 0 ELSE Least(write - from, count - n1)
  IN [n |-> n1 + n2, read |-> from + n2, over |-> over,
      buffer |-> [i \in 1 .. n1 + n2 |->
                    IF i <= n2 THEN queue[from + i - 1]
                    ELSE IF i <= n1 THEN queue[read + i - 1] ELSE NULL]]

(* What the reader gets, against what it should get. *)
Deliver(count) ==
  LET r == tty_queue_read(count) IN
  /\ read' = r.read
  /\ wrapped' = (wrapped \/ r.over)
  /\ inOrder' = (inOrder /\ r.buffer = SubSeq(unread, 1, Least(count, Len(unread))))
  /\ unread' = SubSeq(unread, Least(r.n, Len(unread)) + 1, Len(unread))

SleepForInput(t, count) ==
  /\ task' = t
  /\ task_wait(t, "TF_WAITIO", "reading")
  /\ left' = [left EXCEPT ![t] = count]

(* tty_file_read.  With ICANON it waits once, for a line end to be the last *)
(* character; without, until it has count characters, and a pass that does  *)
(* not get that many has emptied the queue.                                 *)
tty_file_read(t, count) ==
  /\ cpu = "ok" /\ At(t, "user") /\ t \in opened
  /\ IF IF Canon THEN ~ tty_end_of_line ELSE tty_queue_empty
     THEN SleepForInput(t, count) /\ UNCHANGED <<read, wrapped, inOrder, unread>>
     ELSE /\ Deliver(count)
          /\ IF Canon \/ tty_queue_read(count).n = count
             THEN UNCHANGED <<t_wait, pc, task, left>>
             ELSE SleepForInput(t, count - tty_queue_read(count).n)
  /\ UNCHANGED <<moduleVars, refs, queue, write, opened, key, typed, eols, lapped,
                 exposed, cpu>>

ReadWakes(t) ==
  /\ cpu = "ok" /\ At(t, "reading")
  /\ Deliver(left[t])
  /\ IF Canon \/ tty_queue_read(left[t]).n = left[t]
     THEN /\ task' = NULL
          /\ pc' = [pc EXCEPT ![t] = "user"]
          /\ left' = [left EXCEPT ![t] = 0]
          /\ UNCHANGED t_wait
     ELSE SleepForInput(t, left[t] - tty_queue_read(left[t]).n)
  /\ UNCHANGED <<moduleVars, refs, queue, write, opened, key, typed, eols, lapped,
                 exposed, cpu>>

Next ==
  \/ vtty_load \/ vtty_remove
  \/ Erase \/ InsertAdvances \/ InsertWakes
  \/ \E kind \in Kinds : InsertStores(kind)
  \/ \E t \in Tasks :
       \/ tty_file_open(t) \/ tty_file_close(t) \/ ReadWakes(t)
       \/ \E count \in Counts : tty_file_read(t, count)

Spec == Init /\ [][Next]_vars

(* The monitor and the reader run when they can. *)
LiveSpec ==
  /\ Spec /\ WF_vars(InsertAdvances) /\ WF_vars(InsertWakes)
  /\ \A t \in Tasks : WF_vars(ReadWakes(t))

-----------------------------------------------------------------------------
TypeOK ==
  /\ t_wait \in [Tasks -> Flags] /\ pc \in [Tasks -> {"user", "reading"}]
  /\ driver \in BOOLEAN /\ module \in BOOLEAN /\ handler \in BOOLEAN
  /\ refs \in 0 .. Cardinality(Tasks) /\ task \in Tasks \cup {NULL}
  /\ queue \in [0 .. Length - 1 -> 0 .. MaxKeys]
  /\ read \in 0 .. Length - 1 /\ write \in 0 .. Length - 1
  /\ opened \subseteq Tasks /\ key.at \in {"none", "advance", "wake"}

(* What is between read and write, over the end of the ring. *)
Contents ==
  LET n == (write + Length - read) % Length
  IN [i \in 1 .. n |-> queue[(read + i - 1) % Length]]

(* The ring holds what was typed, not erased and not read, in that order,   *)
(* as long as it was not overrun and no read went over its end.             *)
RingHoldsUnread == ~ wrapped /\ ~ lapped => Contents = unread /\ inOrder

(* The driver is freed only when no file is open on it, through every order *)
(* of loading, opening, closing and removing.                               *)
NoFileWithoutDriver == refs = Cardinality(opened) /\ (opened # {} => driver)

(* The task the device knows does not sleep over input: when the monitor is *)
(* done with a key, there is no complete line at the end of the queue (no   *)
(* character, without ICANON).  An erase that exposes an older line end     *)
(* wakes nobody.                                                            *)
NoSleepOverInput ==
  key.at # "wake" /\ task # NULL /\ ~ exposed /\ ~ lapped =>
    (t_wait[task] # "none" =>
       IF Canon THEN ~ tty_end_of_line ELSE tty_queue_empty)

(* A reader that the device knows returns, or at least goes on, once a line *)
(* end is typed, however the monitor is preempted.                          *)
LineWakesReader ==
  \A t \in Tasks : key.at = "advance" /\ key.kind = "eol" /\ task = t
                     ~> t_wait[t] = "none" \/ task # t

-----------------------------------------------------------------------------
(* What the source says of itself and the code does not do.                  *)

(* tty.h:106, "read up to count characters, and return how many were read": *)
(* a read returns the oldest characters of the queue, in order.             *)
ReadsOldest == lapped \/ inOrder
=============================================================================
