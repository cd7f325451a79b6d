--------------------------------- MODULE Files ---------------------------------
(***************************************************************************)
(* Descriptors and open files: the tables of the tasks, the files they     *)
(* share after fork and dup2, and the drivers that count their users       *)
(* (kernel/src/file.c, the descriptor calls of kernel/src/fs.c,            *)
(* kernel/src/chrdev.c).                                                   *)
(*                                                                         *)
(* Where a path leads is in Vfs; here it leads to a regular file, to the   *)
(* node of a character device, to a directory, or nowhere.                 *)
(***************************************************************************)
EXTENDS Integers, FiniteSets, FiniteSetsExt

CONSTANTS
  Tasks,       \* the tasks
  NFds,        \* TASK_MAX_OPEN_FILES
  MaxSize,     \* bound: bytes in the regular file, and offsets
  MaxSteps     \* bound: system calls

FilesAssumption ==
  /\ IsFiniteSet(Tasks) /\ Tasks # {}
  /\ NFds \in Nat \ {0} /\ MaxSize \in Nat /\ MaxSteps \in Nat

Fds == 0 .. NFds - 1
FileIds == 1 .. Cardinality(Tasks) * NFds
NULL == 0

VARIABLES
  here,      \* the tasks there are
  vect,      \* v_openvect: [flags, file] of each descriptor
  file,      \* struct file: [kind, status, off, refs], refs 0 when freed
  chrdev,    \* a driver is registered for the device
  users,     \* what the driver counts: opened and not closed
  size,      \* i_size of the regular file
  ret,       \* what the last call was and returned
  steps      \* system calls so far
vars == <<here, vect, file, chrdev, users, size, ret, steps>>

Free == [flags |-> {}, file |-> NULL]
Freed == [kind |-> "none", status |-> {}, off |-> 0, refs |-> 0]
FD_VALID(t, fd) ==
  fd \in Fds /\ "occupied" \in vect[t][fd].flags /\ "invalid" \notin vect[t][fd].flags

Init ==
  /\ here = {CHOOSE t \in Tasks : TRUE}
  /\ vect = [t \in Tasks |-> [fd \in Fds |-> Free]]
  /\ file = [f \in FileIds |-> Freed]
  /\ chrdev = FALSE /\ users = 0 /\ size = 0
  /\ ret = [task |-> 0, call |-> "none", fd |-> 0, value |-> 0] /\ steps = 0

Call(t, name, fd, value) ==
  /\ steps < MaxSteps /\ steps' = steps + 1
  /\ ret' = [task |-> t, call |-> name, fd |-> fd, value |-> value]

EBADF == -9
EMFILE == -24
OtherError == -1

(* register_chrdev and unregister_chrdev. *)
Driver ==
  /\ chrdev' = ~chrdev /\ Call(0, "driver", 0, 0)
  /\ UNCHANGED <<here, vect, file, users, size>>

-----------------------------------------------------------------------------
(* file_open: no directory for writing; a device with a driver, whose open  *)
(* counts it.                                                               *)
Writes(status) == "write" \in status
Reads(status) == "read" \in status
Opens(kind, status) ==
  CASE kind = "nowhere" -> FALSE
    [] kind = "dir"     -> ~Writes(status)
    [] kind = "chr"     -> chrdev
    [] kind = "reg"     -> "trunc" \in status => Writes(status)

(* sys_open: the first free descriptor is reserved, and released on every   *)
(* error.                                                                   *)
sys_open(t, kind, status) ==
  LET free == {fd \in Fds : "occupied" \notin vect[t][fd].flags}
      fd == Min(free)
      f == Min({k \in FileIds : file[k].refs = 0})
  IN /\ t \in here
     /\ \/ /\ free = {} /\ Call(t, "open", 0, EMFILE) /\ UNCHANGED <<vect, file, users, size>>
        \/ /\ free # {} /\ ~Opens(kind, status)
           /\ Call(t, "open", fd, OtherError) /\ UNCHANGED <<vect, file, users, size>>
        \/ /\ free # {} /\ Opens(kind, status)
           /\ Call(t, "open", fd, fd)
           /\ vect' = [vect EXCEPT ![t][fd] = [flags |-> {"occupied"}, file |-> f]]
           /\ file' = [file EXCEPT ![f] = [kind |-> kind, status |-> status, off |-> 0, refs |-> 1]]
           /\ users' = users + (IF kind = "chr" THEN 1 ELSE 0)
           /\ size' = IF "trunc" \in status THEN 0 ELSE size
     /\ UNCHANGED <<here, chrdev>>

-----------------------------------------------------------------------------
(* file_close, on a state [file, users]; no driver refuses it. *)
file_close(st, f) ==
  IF f = NULL THEN st
  ELSE LET n == st.file[f].refs - 1 IN
       IF n > 0 THEN [st EXCEPT !.file[f].refs = n]
       ELSE [file |-> [st.file EXCEPT ![f] = Freed],
             users |-> st.users - (IF st.file[f].kind = "chr" THEN 1 ELSE 0)]

file_get(files, f) == IF f = NULL THEN files ELSE [files EXCEPT ![f].refs = @ + 1]
Now == [file |-> file, users |-> users]

sys_close(t, fd) ==
  LET st == file_close(Now, vect[t][fd].file) IN
  /\ t \in here
  /\ \/ ~FD_VALID(t, fd) /\ Call(t, "close", fd, EBADF) /\ UNCHANGED <<vect, file, users>>
     \/ /\ FD_VALID(t, fd) /\ Call(t, "close", fd, 0)
        /\ vect' = [vect EXCEPT ![t][fd] = Free] /\ file' = st.file /\ users' = st.users
  /\ UNCHANGED <<here, chrdev, size>>

(* sys_dup2; -1 asks for the first descriptor that is not valid.  The       *)
(* other descriptor is closed first, and fd is read after that.             *)
sys_dup2(t, fd, other) ==
  LET open == {g \in Fds : ~FD_VALID(t, g)}
      to == IF other = -1 THEN Min(open) ELSE other
      st == IF FD_VALID(t, to) THEN file_close(Now, vect[t][to].file) ELSE Now
      v == IF FD_VALID(t, to) THEN [vect EXCEPT ![t][to] = Free] ELSE vect
  IN /\ t \in here
     /\ \/ /\ ~FD_VALID(t, fd) \/ other \notin -1 .. NFds - 1
           /\ Call(t, "dup2", fd, EBADF) /\ UNCHANGED <<vect, file, users>>
        \/ /\ FD_VALID(t, fd) /\ other = -1 /\ open = {}
           /\ Call(t, "dup2", fd, EMFILE) /\ UNCHANGED <<vect, file, users>>
        \/ /\ FD_VALID(t, fd) /\ other \in -1 .. NFds - 1 /\ (other = -1 => open # {})
           /\ Call(t, "dup2", to, to)
           /\ vect' = [v EXCEPT ![t][to] = v[t][fd]]
           /\ file' = file_get(st.file, v[t][fd].file) /\ users' = st.users
     /\ UNCHANGED <<here, chrdev, size>>

(* Variant: the child's descriptors are copied without file_get. *)
CopyUncounted(t, u) ==
  /\ t \in here /\ u \notin here /\ Call(t, "fork", 0, 0)
  /\ here' = here \cup {u} /\ vect' = [vect EXCEPT ![u] = vect[t]]
  /\ UNCHANGED <<file, chrdev, users, size>>

(* copy_task_vfs for a new task u: every valid descriptor, with its file. *)
copy_task_vfs(t, u) ==
  LET valid == {fd \in Fds : FD_VALID(t, fd)}
      copies(f) == Cardinality({fd \in valid : vect[t][fd].file = f})
  IN /\ t \in here /\ u \notin here /\ Call(t, "fork", 0, 0)
     /\ here' = here \cup {u}
     /\ vect' = [vect EXCEPT ![u] = [fd \in Fds |-> IF fd \in valid THEN vect[t][fd] ELSE Free]]
     /\ file' = [f \in FileIds |-> [file[f] EXCEPT !.refs = @ + copies(f)]]
     /\ UNCHANGED <<chrdev, users, size>>

(* free_task_vfs of a task that exits while another is left: file_close for *)
(* each of its descriptors, so that a file goes when no other task has it.  *)
free_task_vfs(t) ==
  LET closes(f) == Cardinality({fd \in Fds : vect[t][fd].file = f})
      last == {f \in FileIds : closes(f) > 0 /\ file[f].refs <= closes(f)}
  IN /\ t \in here /\ here # {t} /\ Call(t, "exit", 0, 0)
     /\ here' = here \ {t} /\ vect' = [vect EXCEPT ![t] = [fd \in Fds |-> Free]]
     /\ file' = [f \in FileIds |-> IF f \in last THEN Freed
                                   ELSE [file[f] EXCEPT !.refs = @ - closes(f)]]
     /\ users' = users - Cardinality({f \in last : file[f].kind = "chr"})
     /\ UNCHANGED <<chrdev, size>>

-----------------------------------------------------------------------------
(* sys_read and sys_write of n bytes in a regular file, with file_read and  *)
(* file_write: the position is moved to the end for O_APPEND and put back.  *)
sys_read(t, fd, n) ==
  LET f == vect[t][fd].file
      got == Min({n, Max({size - file[f].off, 0})})
  IN /\ t \in here /\ FD_VALID(t, fd) /\ file[f].kind = "reg"
     /\ \/ ~Reads(file[f].status) /\ Call(t, "read", fd, OtherError) /\ UNCHANGED file
        \/ /\ Reads(file[f].status) /\ Call(t, "read", fd, got)
           /\ file' = [file EXCEPT ![f].off = @ + got]
     /\ UNCHANGED <<here, vect, chrdev, users, size>>

WriteStart(f) == IF "append" \in file[f].status THEN size ELSE file[f].off

sys_write(t, fd, n) ==
  LET f == vect[t][fd].file
      start == WriteStart(f)
  IN /\ t \in here /\ FD_VALID(t, fd) /\ file[f].kind = "reg"
     /\ \/ /\ ~Writes(file[f].status) /\ Call(t, "write", fd, OtherError)
           /\ UNCHANGED <<file, size>>
        \/ /\ Writes(file[f].status) /\ start + n <= MaxSize /\ Call(t, "write", fd, n)
           /\ size' = Max({size, start + n})
           /\ file' = IF "append" \in file[f].status THEN file
                      ELSE [file EXCEPT ![f].off = start + n]
     /\ UNCHANGED <<here, vect, chrdev, users>>

(* sys_lseek, with file_seek: no driver has its own. *)
sys_lseek(t, fd, offset, whence) ==
  LET f == vect[t][fd].file
      to == offset + (CASE whence = "SEEK_SET" -> 0 [] whence = "SEEK_CUR" -> file[f].off
                        [] whence = "SEEK_END" -> size)
  IN /\ t \in here /\ FD_VALID(t, fd) /\ to \in 0 .. MaxSize
     /\ file' = [file EXCEPT ![f].off = to] /\ Call(t, "lseek", fd, 0)
     /\ UNCHANGED <<here, vect, chrdev, users, size>>

-----------------------------------------------------------------------------
Statuses == {{"read"}, {"read", "write"}, {"write", "append"}, {"write", "trunc"}, {"read", "trunc"}}
Done == steps = MaxSteps /\ UNCHANGED vars
Next ==
  \/ Driver
  \/ \E t \in Tasks, kind \in {"reg", "chr", "dir", "nowhere"}, s \in Statuses : sys_open(t, kind, s)
  \/ \E t \in Tasks, fd \in -1 .. NFds :
       \/ sys_close(t, fd)
       \/ \E other \in -1 .. NFds : sys_dup2(t, fd, other)
       \/ \E n \in 0 .. 2 : sys_read(t, fd, n) \/ sys_write(t, fd, n)
       \/ \E w \in {"SEEK_SET", "SEEK_CUR", "SEEK_END"}, off \in -1 .. 1 : sys_lseek(t, fd, off, w)
  \/ \E t, u \in Tasks : copy_task_vfs(t, u)
  \/ \E t \in Tasks : free_task_vfs(t)
  \/ Done
Spec == Init /\ [][Next]_vars

-----------------------------------------------------------------------------
(* Between two calls a descriptor is free or valid, never reserved, and a   *)
(* valid one has a file.                                                    *)
TypeOK ==
  /\ here \subseteq Tasks /\ here # {}
  /\ \A t \in Tasks, fd \in Fds :
       \/ vect[t][fd] = Free
       \/ vect[t][fd].flags = {"occupied"} /\ vect[t][fd].file \in FileIds
  /\ \A f \in FileIds : file[f].off \in 0 .. MaxSize
  /\ size \in 0 .. MaxSize /\ users \in Nat /\ chrdev \in BOOLEAN

(* f_refs is the number of descriptors of all tasks that have the file, so  *)
(* that a file lives exactly as long as somebody can use it: no descriptor  *)
(* with a file that was freed, no file that nobody can close.               *)
RefsAreDescriptors ==
  \A f \in FileIds :
    file[f].refs = Cardinality({e \in Tasks \X Fds : vect[e[1]][e[2]].file = f})

(* The driver of a device is told of one close for each open: what          *)
(* tty_file_open counts is the number of files on the device.               *)
DriverBalanced == users = Cardinality({f \in FileIds : file[f].kind = "chr"})

(* Whatever the position of the descriptor, and whoever wrote in between, a *)
(* write with O_APPEND puts its bytes behind those that are there.          *)
AppendAppends ==
  [][\A t \in Tasks, fd \in Fds :
       (/\ ret'.call = "write" /\ ret'.task = t /\ ret'.fd = fd /\ ret'.value > 0
        /\ FD_VALID(t, fd) /\ "append" \in file[vect[t][fd].file].status /\ steps' > steps)
         => size' = size + ret'.value]_vars

-----------------------------------------------------------------------------
(* What the source says of itself and the code does not do.                  *)

(* fs.h:365 refers for sys_dup2 to "man 2 routine_name", where dup2 of a    *)
(* descriptor to itself does nothing and returns it.  The code closes it.   *)
Dup2GivesDescriptor ==
  [][\A t \in here :
       (ret'.call = "dup2" /\ ret'.task = t /\ ret'.value >= 0) =>
         vect'[t][ret'.value].file # NULL]_vars

(* fs.c:1027, of sys_lseek: "the new offset from the beginning of the       *)
(* file".  file_seek returns 0.                                             *)
SeekTellsOffset ==
  [][\A t \in here :
       (ret'.call = "lseek" /\ ret'.task = t) => ret'.value = file'[vect[t][ret'.fd].file].off]_vars
=============================================================================
