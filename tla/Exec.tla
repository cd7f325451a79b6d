-------------------------------- MODULE Exec --------------------------------
(* sys_execve (exec.c) with the two kinds of executables the kernel knows,
   ELF programs (elf32.c) and scripts that begin with "#!" (shebang.c).  A
   system call runs with interrupts off, so one call at a time is in progress;
   its parts are the actions below.  Files are never written here: Content is
   what the file system holds.  A string is a value with a length, a block of
   the kernel heap is counted, an open struct file has a number. *)
EXTENDS Integers, Sequences, FiniteSets, SequencesExt

CONSTANTS
  Content,      \* name -> [kind, line, mode, owner, group, mount]
  Length,       \* string -> number of characters
  Argvs,        \* argument lists a program may pass
  Env,          \* the environment it passes
  Uid, Gid,     \* who calls
  MaxArg,       \* TASK_MAX_ARG_SIZE, in words
  MaxRounds,    \* interpreters started before the heap is exhausted
  MaxCalls      \* bound on the calls of a behaviour

ExecAssumption ==
  /\ MaxArg \in Nat /\ MaxRounds \in Nat /\ MaxCalls \in Nat
  /\ \A f \in DOMAIN Content : Content[f].kind \in {"elf", "script", "text"}

VARIABLES
  pc,           \* "idle", or the part of sys_execve that is next
  exec,         \* exec_t: the file, its buffer, argc and argv; execve's filename
                \* and filp; the scripts seen.  Kept after a call that succeeds
  type,         \* the types still to be asked, in the order of g_exec_type
  open,         \* the struct files in use
  opened,       \* number of struct files handed out
  paths,        \* references to dentries held through a struct path
  heap,         \* blocks of the kernel heap in use
  image,        \* the program in the caller's address space
  stack,        \* position in the user stack -> cell, with where argv begins
  result,       \* what the last call returned
  was,          \* at the start of the call: image, stack, open files,
                \* heap; and the arguments given
  cpu,          \* "ok", "wild" after a use of freed memory, "exhausted"
  calls

vars == <<pc, exec, type, open, opened, paths, heap, image, stack, result, was, cpu, calls>>

Names == DOMAIN Content
NoExec == [filename |-> "", filp |-> 0, file |-> 0, buffer |-> "", argv |-> <<>>, rounds |-> 0]
NoStack == [argv |-> 0, envp |-> 0, cells |-> <<>>]

(* g_exec_type: register_exec_type puts a type in front, and kmain registers
   ELF first. *)
register_exec_type(list, t) == <<t>> \o list
g_exec_type == register_exec_type(register_exec_type(<<>>, "ELF32"), "shebang")

(* path_access: root may do anything but write where the mount forbids it and
   execute what nobody may; another user has the bits of one class. *)
path_access(f, want) ==
  LET c == Content[f]
      class == IF Uid = c.owner THEN "u" ELSE IF Gid = c.group THEN "g" ELSE "o"
  IN IF Uid = 0
     THEN /\ "W" \in want => "rdonly" \notin c.mount
          /\ "X" \in want => \E k \in {"u", "g", "o"} : <<k, "X">> \in c.mode
     ELSE /\ "W" \in want => "rdonly" \notin c.mount
          /\ "X" \in want => "noexec" \notin c.mount
          /\ \A r \in want : <<class, r>> \in c.mode

(* file_open asks for the right to read. *)
file_open(f) == path_access(f, {"R"})

Init ==
  /\ pc = "idle" /\ exec = NoExec /\ type = <<>>
  /\ open = {} /\ opened = 0 /\ paths = 0 /\ heap = 0
  /\ image = "sh" /\ stack = NoStack /\ result = "none"
  /\ was = [image |-> "sh", stack |-> NoStack, open |-> {}, heap |-> 0,
              argv |-> <<>>]
  /\ cpu = "ok" /\ calls = 0

Closes(f) ==
  /\ open' = open \ {f}
  /\ cpu' = IF f \in open THEN cpu ELSE "wild"

Returns(r) == pc' = "idle" /\ result' = r /\ exec' = NoExec /\ type' = <<>>

-----------------------------------------------------------------------------
(* The path and the rights, then the file, the executable structure and the
   copies of the arguments.  A file that may not be executed keeps the
   reference path_lookup took. *)
Begin(f, argv, opens) ==
  /\ pc = "idle" /\ cpu = "ok" /\ calls < MaxCalls
  /\ calls' = calls + 1
  /\ was' = [image |-> image, stack |-> stack, open |-> open, heap |-> heap,
              argv |-> argv]
  /\ \/ f \notin Names /\ Returns("ENOENT") /\ UNCHANGED <<open, opened, heap, paths>>
     \/ f \in Names /\ ~path_access(f, {"X"}) /\ Returns("EPERM") /\ paths' = paths + 1
        /\ UNCHANGED <<open, opened, heap>>
     \/ f \in Names /\ path_access(f, {"X"}) /\ ~(opens /\ file_open(f)) /\ Returns("EIO")
        /\ UNCHANGED <<open, opened, heap, paths>>
     \/ /\ f \in Names /\ path_access(f, {"X"}) /\ opens /\ file_open(f)
        /\ opened' = opened + 1 /\ open' = open \cup {opened + 1}
        /\ heap' = heap + 1 + (1 + Len(argv)) + (1 + Len(Env))
        /\ exec' = [filename |-> f, filp |-> opened + 1, file |-> opened + 1,
                    buffer |-> f, argv |-> argv, rounds |-> 0]
        /\ pc' = "search" /\ type' = g_exec_type /\ result' = "none"
        /\ UNCHANGED paths
  /\ UNCHANGED <<image, stack, cpu>>

(* elf_check_exec: EXEC_VALID breaks the search, EXEC_INVALID asks the next. *)
elf_check_exec ==
  /\ pc = "search" /\ type # <<>> /\ Head(type) = "ELF32"
  /\ IF Content[exec.buffer].kind = "elf"
     THEN pc' = "sizes" /\ UNCHANGED type
     ELSE type' = Tail(type) /\ UNCHANGED pc
  /\ UNCHANGED <<exec, open, opened, paths, heap, image, stack, result, was, cpu, calls>>

(* The argument list shebang_check makes: the words of the line, the name
   given to execve, then the arguments from the second on, cut at
   nargs + argc entries. *)
Interpreted(line, e) ==
  SubSeq(line \o <<e.filename>> \o (IF e.argv = <<>> THEN <<>> ELSE Tail(e.argv)),
         1, Len(line) + Len(e.argv))

(* Opening the interpreter, closing the script and filling the buffer. *)
Switch(f) ==
  /\ exec' = [exec EXCEPT !.file = opened + 1, !.buffer = f, !.rounds = @ + 1,
                          !.argv = Interpreted(Content[exec.buffer].line, exec)]
  /\ opened' = opened + 1
  /\ open' = (open \cup {opened + 1}) \ {exec.file}
  /\ cpu' = IF exec.rounds >= MaxRounds THEN "exhausted"
            ELSE IF exec.file \in open THEN cpu ELSE "wild"

(* shebang_check.  EXEC_INTERP restarts the search; any other error is
   returned by sys_execve as it is, with nothing closed or freed. *)
shebang_check(opens) ==
  /\ pc = "search" /\ type # <<>> /\ Head(type) = "shebang"
  /\ LET c == Content[exec.buffer] IN
     \/ /\ c.kind # "script" /\ type' = Tail(type)
        /\ UNCHANGED <<pc, exec, open, opened, heap, result, cpu>>
     \/ /\ c.kind = "script" /\ c.line = <<>> /\ Returns("ENOENT")
        /\ UNCHANGED <<open, opened, heap, cpu>>
     \/ /\ c.kind = "script" /\ c.line # <<>>
        /\ heap' = heap + Len(c.line) + (IF exec.argv = <<>> THEN 1 ELSE 0)
        /\ IF c.line[1] \in Names /\ opens /\ file_open(c.line[1])
           THEN Switch(c.line[1]) /\ type' = g_exec_type /\ UNCHANGED <<pc, result>>
           ELSE Returns("ENOENT") /\ UNCHANGED <<open, opened, cpu>>
  /\ UNCHANGED <<paths, image, stack, was, calls>>

(* No type accepts the file: the file execve was given is closed. *)
NoType ==
  /\ pc = "search" /\ type = <<>>
  /\ Closes(exec.filp)
  /\ heap' = heap - 1
  /\ Returns("ENOEXEC")
  /\ UNCHANGED <<opened, paths, image, stack, was, calls>>

-----------------------------------------------------------------------------
(* The strings with their final zeros, and the two arrays. *)
StringsSize(strs) == FoldLeft(LAMBDA n, s : n + Length[s] + 1, 0, strs)
total_argsz == StringsSize(exec.argv) + StringsSize(Env) + Len(exec.argv) + 1 + Len(Env) + 1

(* Too much for the stack: the value of file_close is returned, and the
   executable structure and -E2BIG are out of reach behind it. *)
Sizes ==
  /\ pc = "sizes"
  /\ IF total_argsz > MaxArg
     THEN /\ Closes(exec.filp)
          /\ Returns("file_close's")
     ELSE pc' = "load" /\ UNCHANGED <<open, exec, type, result, cpu>>
  /\ UNCHANGED <<opened, paths, heap, image, stack, was, calls>>

(* One array of pointers with its strings, as the writes it makes in order:
   each pointer, then the characters it points to, and NULL at the end. *)
StringAt(strs, k, at) == at + StringsSize(SubSeq(strs, 1, k - 1))
Writes(strs, array, at) ==
  FlattenSeq([k \in 1..Len(strs) |->
    <<<<array + k - 1, <<"ptr", StringAt(strs, k, at)>>>>>>
      \o [j \in 1..(Length[strs[k]] + 1) |->
            <<StringAt(strs, k, at) + j - 1, <<"chr", strs[k], j>>>>]])
  \o <<<<array + Len(strs), <<"ptr", 0>>>>>>

(* The arguments and the environment in the user's stack, whose last word has
   position MaxArg. *)
Copied ==
  LET argv == MaxArg + 1 - total_argsz
      envp == argv + Len(exec.argv) + 1
      str == envp + Len(Env) + 1
      all == Writes(exec.argv, argv, str) \o Writes(Env, envp, str + StringsSize(exec.argv))
  IN [argv |-> argv, envp |-> envp, cells |->
      FoldLeft(LAMBDA s, w : [s EXCEPT ![w[1]] = w[2]],
               [p \in argv..MaxArg |-> <<"none">>], all)]

(* load_exec reads the headers from the buffer. *)
Program == exec.buffer

(* The program headers load_exec allocates stay; the arguments and the
   executable structure are freed. *)
HeapAfter == heap + 1 - (1 + Len(exec.argv)) - (1 + Len(Env)) - 1

(* strip_page_dir, the stacks, the arguments, load_exec and the registers.
   When the program headers cannot be allocated the task exits. *)
Load(fits) ==
  /\ pc = "load"
  /\ IF fits
     THEN /\ image' = Program /\ stack' = Copied /\ heap' = HeapAfter
          /\ Closes(exec.file)
          /\ pc' = "idle" /\ result' = "ok" /\ type' = <<>>
          /\ UNCHANGED exec
     ELSE /\ image' = "stripped" /\ pc' = "dead"
          /\ UNCHANGED <<stack, heap, open, cpu, result, exec, type>>
  /\ UNCHANGED <<opened, paths, was, calls>>

Stopped == (cpu # "ok" \/ pc = "dead" \/ (pc = "idle" /\ calls = MaxCalls)) /\ UNCHANGED vars

Kernel ==
  /\ cpu = "ok"
  /\ \/ elf_check_exec
     \/ \E opens \in BOOLEAN : shebang_check(opens)
     \/ NoType
     \/ Sizes
     \/ \E fits \in BOOLEAN : Load(fits)

Next ==
  \/ \E f \in Names \cup {"missing"}, argv \in Argvs, opens \in BOOLEAN : Begin(f, argv, opens)
  \/ Kernel
  \/ Stopped

Spec == Init /\ [][Next]_vars

-----------------------------------------------------------------------------
TypeOK ==
  /\ pc \in {"idle", "search", "sizes", "load", "dead"}
  /\ exec.argv \in Seq(DOMAIN Length) /\ exec.file \in 0..opened
  /\ exec.buffer \in Names \cup {""}
  /\ open \subseteq 1..opened /\ paths \in Nat /\ heap \in Nat
  /\ cpu \in {"ok", "wild", "exhausted"} /\ calls \in 0..MaxCalls

(* A call that returns an error, even E2BIG's stand-in, has left the caller's
   program and stack as they were: strip_page_dir comes after every check
   ("there's no going back from here", exec.c:173). *)
FailureKeepsImage ==
  (pc = "idle" /\ result # "ok") => (image = was.image /\ stack = was.stack)

(* What runs after a call that succeeds is an ELF program: the file itself,
   or one that its "#!" line leads to, however many scripts lie between. *)
RightProgram ==
  (pc = "idle" /\ result = "ok") =>
    /\ Content[image].kind = "elf"
    /\ IF exec.rounds = 0 THEN image = exec.filename
       ELSE \E f \in Names : Content[f].kind = "script" /\ Content[f].line # <<>>
                             /\ Content[f].line[1] = image

(* The arguments an interpreter gets: the words of the script's first line,
   the script's name, and the caller's arguments from the second on
   (shebang.c:55-70); a program gets the caller's. *)
ArgsAsScripted ==
  (pc = "idle" /\ result = "ok") =>
    LET rest == IF was.argv = <<>> THEN <<>> ELSE Tail(was.argv)
        line == Content[exec.filename].line
    IN \/ exec.rounds = 0 /\ exec.argv = was.argv
       \/ exec.rounds = 1 /\ exec.argv = line \o <<exec.filename>> \o rest
       \/ exec.rounds = 2 /\ exec.argv = Content[line[1]].line \o line \o <<exec.filename>> \o rest

(* In the new program's stack each pointer of argv and envp leads to its
   string, complete with its end, and each array ends in NULL: the arrays and
   the strings lie side by side in exactly the room that was computed. *)
StackIsArgs ==
  (pc = "idle" /\ result = "ok") =>
    LET Holds(strs, array) ==
          /\ stack.cells[array + Len(strs)] = <<"ptr", 0>>
          /\ \A k \in 1..Len(strs) : \E p \in DOMAIN stack.cells :
               /\ stack.cells[array + k - 1] = <<"ptr", p>>
               /\ \A j \in 1..(Length[strs[k]] + 1) :
                    p + j - 1 \in DOMAIN stack.cells
                    /\ stack.cells[p + j - 1] = <<"chr", strs[k], j>>
    IN Holds(exec.argv, stack.argv) /\ Holds(Env, stack.envp)

(* A call that succeeds has closed every file it opened, the scripts on the
   way included, and no other. *)
SuccessCloses ==
  (pc = "idle" /\ result = "ok") => open = was.open

-----------------------------------------------------------------------------
(* What the source says of itself and the code does not do.                  *)

(* "Close the file and free the memory" (exec.c:247): the heap is as it was
   before a call that succeeds. *)
FreesTheMemory ==
  (pc = "idle" /\ result = "ok" /\ exec.argv # <<>>) => heap = was.heap

(* shebang_check closes the script ("close the script", shebang.c:95); nobody
   closes it again. *)
ClosedOnce == cpu # "wild"

(* "Check if we are requesting too much space" (exec.c:166), with
   "return -E2BIG" for an answer: a call that asks for too much does not
   return file_close's 0. *)
TooBigSays == result # "file_close's"

(* "We also can't execute non-executables..." (fs.c:1173). *)
OnlyExecutables == (pc = "idle" /\ result = "ok") => path_access(image, {"X"})

(* "Check all types. Use the first acceptable type" (exec.c:131): the search
   ends before it has used up the heap. *)
SearchEnds == cpu # "exhausted"

(* "We don't need the path reference anymore" (exec.c:85): no call keeps the
   reference path_lookup took, whatever it returns. *)
PathsReleased == (pc = "idle") => paths = 0
=============================================================================
