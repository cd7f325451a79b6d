------------------------------ MODULE Directory ------------------------------
(***************************************************************************)
(* What a directory of a file system promises: names that lead to files,   *)
(* and files that exist for as long as a name leads to them or somebody    *)
(* has them open.                                                          *)
(***************************************************************************)
CONSTANTS Names, Files, NoFile

VARIABLES
  entries,  \* the file of each name, or NoFile
  open,     \* the files that are open
  used      \* the files that exist

Taken(e, o) == ({e[n] : n \in Names} \cup o) \ {NoFile}

Init ==
  /\ entries = [n \in Names |-> NoFile]
  /\ open = {}
  /\ used = {}

Create(n, f) ==
  /\ entries[n] = NoFile /\ f \notin used
  /\ entries' = [entries EXCEPT ![n] = f]
  /\ used' = used \cup {f}
  /\ UNCHANGED open

Remove(n) ==
  /\ entries[n] # NoFile
  /\ entries' = [entries EXCEPT ![n] = NoFile]
  /\ used' = Taken(entries', open)
  /\ UNCHANGED open

Open(n) ==
  /\ entries[n] # NoFile
  /\ open' = open \cup {entries[n]}
  /\ UNCHANGED <<entries, used>>

Close(f) ==
  /\ f \in open
  /\ open' = open \ {f}
  /\ used' = Taken(entries, open')
  /\ UNCHANGED entries

Next ==
  \/ \E n \in Names, f \in Files : Create(n, f)
  \/ \E n \in Names : Remove(n) \/ Open(n)
  \/ \E f \in Files : Close(f)

Spec == Init /\ [][Next]_<<entries, open, used>>
=============================================================================
