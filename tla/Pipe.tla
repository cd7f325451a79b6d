-------------------------------- MODULE Pipe --------------------------------
(***************************************************************************)
(* Named pipes, kernel/src/pipe.c: one fifo inode, the pipe that exists    *)
(* while somebody is counted as having it open, and its ring of bytes.     *)
(*                                                                         *)
(* System calls read and write with interrupts off.  The kernel's own      *)
(* tasks write with interrupts on (syslog writes to a pipe), so a writer   *)
(* among Workers can be preempted between any two statements.              *)
(*                                                                         *)
(* A byte is its number in the order of writing.                           *)
(***************************************************************************)
EXTENDS Sleep, Integers, FiniteSetsExt

CONSTANTS
  Length,    \* KERNEL_PIPE_LENGTH
  MaxBytes,  \* bound: bytes written
  Counts,    \* the sizes of reads and writes
  Readers,   \* the tasks that open the pipe to read
  Writers,   \* the tasks that open it to write
  Workers,   \* the writers that run with interrupts on
  NULL

ASSUME PipeAssumption ==
  /\ Length \in Nat \ {0} /\ MaxBytes \in Nat /\ Counts \subseteq 1 .. Length
  /\ Readers \cup Writers \subseteq Tasks /\ Workers \subseteq Writers
  /\ NULL \notin Tasks /\ IsFiniteSet(Tasks)

VARIABLES
  exists,    \* is there a pipe_t for the inode?
  buffer, read, write, nreaders, nwriters, reader,   \* its fields
  rdlock,    \* who holds the lock, or NULL
  wrlock,
  file,      \* the file of each task: how it was opened, "closed", or
             \* "dangling" when its f_private is a pipe that was freed
  left,      \* count - n of the call a task is in
  written,   \* history: bytes written to this pipe
  taken,     \* history: bytes its readers took before it was garbled
  garbled,   \* history: has the writer lapped the reader, or was the ring
             \* read while write pointed past its end?
  cpu        \* "ok", "spins" (on a lock, with interrupts off) or "wild"
             \* (a freed pipe was used; anything may follow)

pipeVars == <<exists, buffer, read, write, nreaders, nwriters, reader, rdlock,
              wrlock, file, left, written, taken, garbled, cpu>>
pipingVars == <<t_wait, pc, pipeVars>>

Index == 0 .. Length - 1
CanRead  == {"O_RDONLY", "O_RDWR"}
CanWrite == {"O_WRONLY", "O_RDWR"}

(* mode & O_RDONLY is always zero, because O_RDONLY is 0. *)
CountsAsReader(mode) == mode = "O_RDWR"
CountsAsWriter(mode) == mode \in CanWrite

Ready(t, where) == cpu = "ok" /\ At(t, where)

PipeInit ==
  /\ t_wait = [t \in Tasks |-> "none"]
  /\ pc = [t \in Tasks |-> "user"]
  /\ exists = FALSE
  /\ buffer = [i \in Index |-> 0]
  /\ read = 0 /\ write = 0
  /\ nreaders = 0 /\ nwriters = 0
  /\ reader = NULL /\ rdlock = NULL /\ wrlock = NULL
  /\ file = [t \in Tasks |-> "closed"]
  /\ left = [t \in Tasks |-> 0]
  /\ written = 0 /\ taken = 0 /\ garbled = FALSE
  /\ cpu = "ok"

-----------------------------------------------------------------------------
(* A pipe that is not there is made, with an empty ring and no reader. *)
pipe_open(t, mode) ==
  /\ Ready(t, "user") /\ file[t] = "closed"
  /\ mode \in CanRead => t \in Readers
  /\ mode \in CanWrite => t \in Writers
  /\ exists' = TRUE
  /\ nreaders' = nreaders + (IF CountsAsReader(mode) THEN 1 ELSE 0)
  /\ nwriters' = nwriters + (IF CountsAsWriter(mode) THEN 1 ELSE 0)
  /\ file' = [file EXCEPT ![t] = mode]
  /\ UNCHANGED <<t_wait, pc, buffer, read, write, reader, rdlock, wrlock, left,
                 written, taken, garbled, cpu>>

(* The last counted close frees the pipe.  Files that were not counted keep *)
(* their pointer to it.  A new pipe starts from cleared fields.             *)
pipe_close(t) ==
  LET nr == nreaders - (IF CountsAsReader(file[t]) THEN 1 ELSE 0)
      nw == nwriters - (IF CountsAsWriter(file[t]) THEN 1 ELSE 0)
      closed == [file EXCEPT ![t] = "closed"]
  IN
  /\ Ready(t, "user") /\ file[t] \in CanRead \cup CanWrite
  /\ nreaders' = nr /\ nwriters' = nw
  /\ IF nr = 0 /\ nw = 0
     THEN /\ exists' = FALSE
          /\ file' = [u \in Tasks |->
                        IF closed[u] = "closed" THEN "closed" ELSE "dangling"]
          /\ buffer' = [i \in Index |-> 0]
          /\ read' = 0 /\ write' = 0
          /\ reader' = NULL /\ rdlock' = NULL /\ wrlock' = NULL
          /\ written' = 0 /\ taken' = 0 /\ garbled' = FALSE
     ELSE /\ file' = closed
          /\ UNCHANGED <<exists, buffer, read, write, reader, rdlock, wrlock,
                         written, taken, garbled>>
  /\ UNCHANGED <<t_wait, pc, left, cpu>>

(* Any call on a file whose pipe was freed. *)
UseFreed(t) ==
  /\ Ready(t, "user") \/ Ready(t, "read")
  /\ file[t] = "dangling"
  /\ cpu' = "wild"
  /\ UNCHANGED <<t_wait, pc, exists, buffer, read, write, nreaders, nwriters,
                 reader, rdlock, wrlock, file, left, written, taken, garbled>>

-----------------------------------------------------------------------------
(* Variant: the test for an empty ring is off by one. *)
AvailableOneMore(n) ==
  IF write = Length THEN n ELSE Min({n, (write - read + 1) % Length})

(* How many bytes the inner loop of pipe_read takes when it wants n.  With  *)
(* write past the end of the ring, read wraps before it meets write, and    *)
(* the loop stops only at n.                                                *)
Available(n) ==
  IF write = Length THEN n ELSE Min({n, (write - read) % Length})

(* Variant: read is never wrapped. *)
AdvancedUnwrapped(k) == read + k

Advanced(k) == (read + k) % Length

(* The loop of pipe_read, up to its return or the next time it sleeps.  The *)
(* return at the end of data leaves reader as it is.                        *)
ReadLoop(t, n) ==
  LET k == Available(n) IN
  /\ read' = Advanced(k)
  /\ garbled' = (garbled \/ write = Length)
  /\ taken' = IF garbled' THEN taken ELSE taken + k
  /\ IF k < n /\ nwriters > 0
     THEN /\ task_wait(t, "TF_WAITIO", "read")
          /\ left' = [left EXCEPT ![t] = n - k]
          /\ rdlock' = t /\ reader' = t
     ELSE /\ pc' = [pc EXCEPT ![t] = "user"]
          /\ left' = [left EXCEPT ![t] = 0]
          /\ rdlock' = NULL
          /\ reader' = IF k = n THEN NULL ELSE t
          /\ UNCHANGED t_wait
  /\ UNCHANGED <<exists, buffer, write, nreaders, nwriters, wrlock, file,
                 written, cpu>>

(* spin_lock in a system call: nobody can release the lock any more. *)
Spin ==
  /\ cpu' = "spins"
  /\ UNCHANGED <<t_wait, pc, exists, buffer, read, write, nreaders, nwriters,
                 reader, rdlock, wrlock, file, left, written, taken, garbled>>

(* Variant: no lock is taken. *)
ReadUnlocked(t, n) ==
  /\ Ready(t, "user") /\ file[t] \in CanRead
  /\ ReadLoop(t, n)

pipe_read(t, n) ==
  /\ Ready(t, "user") /\ file[t] \in CanRead
  /\ IF rdlock = NULL THEN ReadLoop(t, n) ELSE Spin

ReadWakes(t) ==
  /\ Ready(t, "read") /\ file[t] # "dangling"
  /\ ReadLoop(t, left[t])

-----------------------------------------------------------------------------
Unread == (write - read) % Length

(* Variant: the reader is woken only if the ring is empty, which it is no   *)
(* longer when a worker comes to look.                                      *)
WakeReaderIfFirst ==
  IF reader # NULL /\ t_wait[reader] # "none" /\ Unread = 0
  THEN task_wakeup(reader) ELSE UNCHANGED t_wait

(* The end of pipe_write. *)
WakeReader ==
  IF reader # NULL /\ t_wait[reader] # "none"
  THEN task_wakeup(reader) ELSE UNCHANGED t_wait

(* The ring after n bytes have been stored from write on. *)
Stored(n) ==
  [i \in Index |-> IF (i - write) % Length < n
                   THEN written + 1 + ((i - write) % Length) ELSE buffer[i]]

(* pipe_write in a system call.  It does not look how full the ring is. *)
pipe_write(t, n) ==
  /\ Ready(t, "user") /\ file[t] \in CanWrite /\ t \notin Workers
  /\ written + n <= MaxBytes
  /\ IF wrlock = NULL
     THEN /\ buffer' = Stored(n)
          /\ write' = (write + n) % Length
          /\ written' = written + n
          /\ garbled' = (garbled \/ Unread + n >= Length)
          /\ WakeReader
          /\ UNCHANGED <<pc, exists, read, nreaders, nwriters, reader, rdlock,
                         wrlock, file, left, taken, cpu>>
     ELSE Spin

(* pipe_write with interrupts on, statement by statement.  A worker that    *)
(* finds the lock held is preempted and tries again.                        *)
WriteLocks(t, n) ==
  /\ Ready(t, "user") /\ file[t] \in CanWrite /\ t \in Workers
  /\ written + n <= MaxBytes
  /\ wrlock = NULL
  /\ wrlock' = t
  /\ pc' = [pc EXCEPT ![t] = "write"]
  /\ left' = [left EXCEPT ![t] = n]
  /\ UNCHANGED <<t_wait, exists, buffer, read, write, nreaders, nwriters,
                 reader, rdlock, file, written, taken, garbled, cpu>>

WriteStores(t) ==
  /\ Ready(t, "write") /\ left[t] > 0 /\ write < Length
  /\ buffer' = Stored(1)
  /\ write' = write + 1
  /\ written' = written + 1
  /\ left' = [left EXCEPT ![t] = @ - 1]
  /\ garbled' = (garbled \/ Unread + 1 >= Length)
  /\ UNCHANGED <<t_wait, pc, exists, read, nreaders, nwriters, reader, rdlock,
                 wrlock, file, taken, cpu>>

WriteWraps(t) ==
  /\ Ready(t, "write") /\ write = Length
  /\ write' = 0
  /\ UNCHANGED <<t_wait, pc, exists, buffer, read, nreaders, nwriters, reader,
                 rdlock, wrlock, file, left, written, taken, garbled, cpu>>

WriteUnlocks(t) ==
  /\ Ready(t, "write") /\ left[t] = 0 /\ write < Length
  /\ wrlock' = NULL
  /\ pc' = [pc EXCEPT ![t] = "wake"]
  /\ UNCHANGED <<t_wait, exists, buffer, read, write, nreaders, nwriters,
                 reader, rdlock, file, left, written, taken, garbled, cpu>>

WriteWakes(t) ==
  /\ Ready(t, "wake")
  /\ WakeReader
  /\ pc' = [pc EXCEPT ![t] = "user"]
  /\ UNCHANGED pipeVars

WorkerStep(t) ==
  WriteStores(t) \/ WriteWraps(t) \/ WriteUnlocks(t) \/ WriteWakes(t)

PipeNext ==
  \E t \in Tasks :
    \/ \E mode \in CanRead \cup CanWrite : pipe_open(t, mode)
    \/ pipe_close(t)
    \/ UseFreed(t)
    \/ \E n \in Counts : pipe_read(t, n)
    \/ ReadWakes(t)
    \/ \E n \in Counts : pipe_write(t, n)
    \/ \E n \in Counts : WriteLocks(t, n)
    \/ WorkerStep(t)

PipeSpec == PipeInit /\ [][PipeNext]_pipingVars

(* A task that is ready runs in the end. *)
PipeFairness ==
  \A t \in Tasks : WF_pipingVars(ReadWakes(t)) /\ WF_pipingVars(WorkerStep(t))
PipeFairSpec == PipeSpec /\ PipeFairness

-----------------------------------------------------------------------------
PipeTypeOK ==
  /\ t_wait \in [Tasks -> Flags]
  /\ pc \in [Tasks -> {"user", "read", "write", "wake"}]
  /\ exists \in BOOLEAN /\ garbled \in BOOLEAN
  /\ buffer \in [Index -> 0 .. MaxBytes]
  /\ read \in Index /\ write \in 0 .. Length
  /\ {reader, rdlock, wrlock} \subseteq Tasks \cup {NULL}
  /\ file \in [Tasks -> CanRead \cup CanWrite \cup {"closed", "dangling"}]
  /\ left \in [Tasks -> 0 .. Length]
  /\ written \in 0 .. MaxBytes /\ taken \in Nat
  /\ cpu \in {"ok", "spins", "wild"}
  /\ nreaders = Cardinality({t \in Tasks : CountsAsReader(file[t])})
  /\ nwriters = Cardinality({t \in Tasks : CountsAsWriter(file[t])})

(* A pipe carries bytes in order and loses none: the ring between read and  *)
(* write holds exactly the bytes written and not yet taken.  It holds until *)
(* a writer laps the reader, which pipe_write does not prevent, or a worker *)
(* is preempted between moving write past the end and wrapping it.          *)
RingHoldsUnread ==
  ~ garbled =>
    /\ written - taken = Unread
    /\ \A k \in 1 .. written - taken :
         buffer[(read + k - 1) % Length] = taken + k

Asleep(t) == pc[t] = "read" /\ t_wait[t] = "TF_WAITIO" /\ file[t] # "dangling"

(* No wakeup is lost: when a task sleeps in pipe_read while there are bytes *)
(* in the ring, a writer is on its way to wake it.                          *)
NoSleepOverData ==
  \A t \in Tasks : Asleep(t) /\ read # write =>
    \E w \in Workers : pc[w] \in {"write", "wake"}

(* The task that sleeps in pipe_read is the one recorded as the reader, so  *)
(* that it is the one pipe_write wakes, and it holds the lock.              *)
SleeperIsReader ==
  \A t \in Tasks : Asleep(t) => reader = t /\ rdlock = t

(* Bytes that arrive wake the reader, unless the machine has hung or been   *)
(* corrupted, or the ring has wrapped to empty again.                       *)
DataWakes ==
  \A t \in Tasks :
    (Asleep(t) /\ read # write)
      ~> (t_wait[t] = "none" \/ cpu # "ok" \/ read = write)

(* pipe.c:104, "are all the writers closed? if so, there isn't going to be  *)
(* any more data": a reader asleep when the last writer closes returns.     *)
NoWriters == \A t \in Tasks : file[t] \notin CanWrite

ReadEndsWithWriters ==
  \A t \in Tasks :
    (pc[t] = "read" /\ NoWriters) ~> (pc[t] = "user" \/ ~ NoWriters \/ cpu # "ok")
=============================================================================
