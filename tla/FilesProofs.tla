----------------------------- MODULE FilesProofs -----------------------------
(***************************************************************************)
(* Proofs about Files: through every sequence of open, close, dup2, fork,  *)
(* exit, read, write and lseek of any number of tasks, f_refs is the       *)
(* number of descriptors that have the file, and the driver of a device is *)
(* told of one close for each open.                                        *)
(*                                                                         *)
(* RefsAreDescriptors is not inductive alone.  sys_open takes a file that  *)
(* nobody has: there must be one, which is a matter of counting, and it    *)
(* must not be one the driver still counts.  copy_task_vfs fills the table *)
(* of a task that was not there: it must be empty, or what it held would   *)
(* be lost.  IInv says both.  It is stated of a table, the files and the   *)
(* driver's count, not of the state, because sys_dup2 closes one           *)
(* descriptor before it copies the other: between the two the three have   *)
(* values that no state has.                                               *)
(***************************************************************************)
EXTENDS Files, OrderProofs

Statused == Statuses \cup {{}}
Kinds == {"none", "reg", "chr", "dir"}
Entries == {Free} \cup [flags : {{"occupied"}}, file : FileIds]
Records == [kind : Kinds, status : Statused, off : 0 .. MaxSize, refs : Nat]

(* The descriptors that have a file, and the files on the device. *)
Having(v, f) == {e \in Tasks \X Fds : v[e[1]][e[2]].file = f}
OnDevice(fl) == {f \in FileIds : fl[f].kind = "chr"}

Counted(v, fl, u) ==
  /\ v \in [Tasks -> [Fds -> Entries]]
  /\ fl \in [FileIds -> Records]
  /\ \A f \in FileIds : fl[f].refs = Cardinality(Having(v, f))
  /\ \A f \in FileIds : fl[f].refs = 0 => fl[f].kind = "none"
  /\ u = Cardinality(OnDevice(fl))

IInv ==
  /\ here \in SUBSET Tasks /\ here # {}
  /\ \A t \in Tasks \ here : vect[t] = [fd \in Fds |-> Free]
  /\ Counted(vect, file, users)
  /\ size \in 0 .. MaxSize /\ chrdev \in BOOLEAN /\ steps \in Nat

-----------------------------------------------------------------------------
LEMMA MaxOfTwo ==
  ASSUME NEW a \in Int, NEW b \in Int
  PROVE  Max({a, b}) = IF a >= b THEN a ELSE b
<1>1. \E x \in {a, b} : \A y \in {a, b} : x >= y
  OBVIOUS
<1>2. Max({a, b}) \in {a, b} /\ \A y \in {a, b} : Max({a, b}) >= y
  BY <1>1, Zenon DEF Max
<1> QED BY <1>2

LEMMA MinOfTwo ==
  ASSUME NEW a \in Int, NEW b \in Int
  PROVE  Min({a, b}) = IF a <= b THEN a ELSE b
<1>1. \E x \in {a, b} : \A y \in {a, b} : x <= y
  OBVIOUS
<1>2. Min({a, b}) \in {a, b} /\ \A y \in {a, b} : Min({a, b}) <= y
  BY <1>1, Zenon DEF Min
<1> QED BY <1>2

(* One element more, one less. *)
LEMMA OneLess ==
  ASSUME NEW S, IsFiniteSet(S), NEW x \in S
  PROVE  /\ Cardinality(S \ {x}) = Cardinality(S) - 1
         /\ Cardinality(S \ {x}) \in Nat /\ Cardinality(S) \in Nat
BY FS_RemoveElement, FS_CardinalityType, Zenon

LEMMA OneMore ==
  ASSUME NEW S, IsFiniteSet(S), NEW x, x \notin S
  PROVE  /\ Cardinality(S \cup {x}) = Cardinality(S) + 1
         /\ Cardinality(S) \in Nat
BY FS_AddElement, FS_CardinalityType, Zenon

(* What is counted is finite. *)
LEMMA Sizes ==
  ASSUME FilesAssumption
  PROVE  /\ IsFiniteSet(Fds) /\ Cardinality(Fds) = NFds
         /\ IsFiniteSet(Tasks \X Fds)
         /\ Cardinality(Tasks \X Fds) = Cardinality(Tasks) * NFds
         /\ IsFiniteSet(FileIds) /\ Cardinality(FileIds) = Cardinality(Tasks) * NFds
         /\ Cardinality(Tasks) * NFds \in Nat
<1>1. IsFiniteSet(Fds) /\ Cardinality(Fds) = NFds
  <2>1. 0 \in Int /\ NFds - 1 \in Int /\ ~ (0 > NFds - 1) /\ (NFds - 1) - 0 + 1 = NFds
    BY DEF FilesAssumption
  <2> QED BY <2>1, FS_Interval DEF Fds
<1>2. /\ IsFiniteSet(Tasks \X Fds)
      /\ Cardinality(Tasks \X Fds) = Cardinality(Tasks) * NFds
  BY <1>1, FS_Product, Zenon DEF FilesAssumption
<1>3. Cardinality(Tasks) * NFds \in Nat
  BY <1>2, FS_CardinalityType, Zenon
<1>4. IsFiniteSet(FileIds) /\ Cardinality(FileIds) = Cardinality(Tasks) * NFds
  <2> DEFINE n == Cardinality(Tasks) * NFds
  <2>1. n \in Nat
    BY <1>3
  <2> HIDE DEF n
  <2>2. IsFiniteSet(1 .. n) /\ Cardinality(1 .. n) = IF 1 > n THEN 0 ELSE n - 1 + 1
    BY <2>1, FS_Interval
  <2>3. Cardinality(1 .. n) = n
    BY <2>1, <2>2
  <2> QED BY <2>2, <2>3 DEF n, FileIds
<1> QED BY <1>1, <1>2, <1>3, <1>4

LEMMA HavingFinite ==
  ASSUME FilesAssumption, NEW v, NEW f
  PROVE  IsFiniteSet(Having(v, f)) /\ Cardinality(Having(v, f)) \in Nat
<1>1. Having(v, f) \subseteq Tasks \X Fds
  BY Zenon DEF Having
<1> QED BY <1>1, Sizes, FS_Subset, FS_CardinalityType, Zenon

LEMMA OnDeviceFinite ==
  ASSUME FilesAssumption, NEW fl
  PROVE  IsFiniteSet(OnDevice(fl)) /\ Cardinality(OnDevice(fl)) \in Nat
<1>1. OnDevice(fl) \subseteq FileIds
  BY Zenon DEF OnDevice
<1> QED BY <1>1, Sizes, FS_Subset, FS_CardinalityType, Zenon

LEMMA FileIdsAreNat == ASSUME FilesAssumption PROVE FileIds \subseteq Nat /\ NULL \notin FileIds
BY Sizes DEF FileIds, NULL

(* A descriptor is free, or taken and has a file. *)
LEMMA EntryCases ==
  ASSUME FilesAssumption, NEW e \in Entries
  PROVE  \/ e = Free /\ e.flags = {} /\ e.file = NULL
         \/ e # Free /\ e.flags = {"occupied"} /\ e.file \in FileIds
<1>1. CASE e = Free
  BY <1>1 DEF Free
<1>2. CASE e # Free
  BY <1>2 DEF Entries
<1> QED BY <1>1, <1>2

-----------------------------------------------------------------------------
(* file_close of the file of a descriptor, and the descriptor freed. *)
LEMMA CloseIsCounted ==
  ASSUME FilesAssumption, NEW v, NEW fl, NEW u, Counted(v, fl, u),
         NEW t \in Tasks, NEW fd \in Fds, NEW st,
         st = file_close([file |-> fl, users |-> u], v[t][fd].file)
  PROVE  Counted([v EXCEPT ![t][fd] = Free], st.file, st.users)
<1> DEFINE w == [v EXCEPT ![t][fd] = Free]
           g == v[t][fd].file
           n == fl[g].refs - 1
<1>0. /\ v \in [Tasks -> [Fds -> Entries]] /\ fl \in [FileIds -> Records]
      /\ v[t][fd] \in Entries /\ FileIds \subseteq Nat /\ NULL \notin FileIds
      /\ u = Cardinality(OnDevice(fl))
      /\ \A f \in FileIds : fl[f].refs = Cardinality(Having(v, f))
      /\ \A f \in FileIds : fl[f].refs = 0 => fl[f].kind = "none"
  BY FileIdsAreNat DEF Counted
<1>1. CASE g = NULL
  <2>1. v[t][fd] = Free
    BY <1>0, <1>1, Zenon DEF Entries, Free
  <2>2. w = v
    BY <1>0, <2>1
  <2>3. st.file = fl /\ st.users = u
    BY <1>1 DEF file_close
  <2> QED BY <2>2, <2>3
<1>2. CASE g # NULL
  <2>1. g \in FileIds
    BY <1>0, <1>2 DEF Entries, Free
  <2>2. w \in [Tasks -> [Fds -> Entries]]
    BY <1>0 DEF Entries
  <2>3. \A x \in Tasks, y \in Fds :
          w[x][y] = IF x = t /\ y = fd THEN Free ELSE v[x][y]
    BY <1>0
  <2>4. Having(w, g) = Having(v, g) \ {<<t, fd>>} /\ <<t, fd>> \in Having(v, g)
    BY <2>1, <2>3, <1>0 DEF Having, Free
  <2>5. \A f \in FileIds \ {g} : Having(w, f) = Having(v, f)
    BY <2>1, <2>3, <1>0 DEF Having, Free
  <2>6. Cardinality(Having(w, g)) = n /\ n \in Nat
    <3> HIDE DEF w, g
    <3>1. IsFiniteSet(Having(v, g)) /\ fl[g].refs = Cardinality(Having(v, g))
      BY <1>0, <2>1, HavingFinite, Zenon
    <3> QED BY <2>4, <3>1, OneLess, Zenon
  <2> HIDE DEF w, g, n
  <2>7. CASE n > 0
    <3>1. st.file = [fl EXCEPT ![g].refs = n] /\ st.users = u
      BY <1>2, <2>7 DEF file_close, g, n
    <3>2. fl[g] \in Records /\ [fl[g] EXCEPT !.refs = n] \in Records
      BY <1>0, <2>1, <2>6 DEF Records
    <3>3. st.file \in [FileIds -> Records]
      BY <3>1, <3>2, <1>0, <2>1, Zenon
    <3>4. /\ st.file[g] = [fl[g] EXCEPT !.refs = n]
          /\ \A f \in FileIds \ {g} : st.file[f] = fl[f]
      BY <3>1, <1>0, <2>1, Zenon
    <3>5. st.file[g].refs = n /\ st.file[g].kind = fl[g].kind
      BY <3>2, <3>4 DEF Records
    <3>6. OnDevice(st.file) = OnDevice(fl)
      BY <3>4, <3>5, Zenon DEF OnDevice
    <3>7. \A f \in FileIds : st.file[f].refs = Cardinality(Having(w, f))
      BY <3>4, <3>5, <2>5, <2>6, <1>0
    <3>8. \A f \in FileIds : st.file[f].refs = 0 => st.file[f].kind = "none"
      <4>1. st.file[g].refs # 0
        BY <3>5, <2>7
      <4> QED BY <3>4, <4>1, <1>0, Zenon
    <3> QED BY <2>2, <3>1, <3>3, <3>6, <3>7, <3>8, <1>0, Zenon DEF Counted, w
  <2>8. CASE ~ (n > 0)
    <3>0. n = 0
      BY <2>6, <2>8
    <3>1. /\ st.file = [fl EXCEPT ![g] = Freed]
          /\ st.users = u - (IF fl[g].kind = "chr" THEN 1 ELSE 0)
      BY <1>2, <2>8 DEF file_close, g, n
    <3>2. Freed \in Records
      BY DEF Freed, Records, Kinds, Statused, FilesAssumption
    <3>3. st.file \in [FileIds -> Records]
      BY <3>1, <3>2, <1>0, <2>1, Zenon
    <3>4. st.file[g] = Freed /\ \A f \in FileIds \ {g} : st.file[f] = fl[f]
      BY <3>1, <1>0, <2>1, Zenon
    <3>5. OnDevice(st.file) = OnDevice(fl) \ {g}
      BY <3>4 DEF OnDevice, Freed
    <3>6. Cardinality(OnDevice(st.file)) = st.users
      <4>1. g \in OnDevice(fl) <=> fl[g].kind = "chr"
        BY <2>1, Zenon DEF OnDevice
      <4> QED BY <3>1, <3>5, <4>1, <1>0, OnDeviceFinite, FS_RemoveElement
    <3>7. \A f \in FileIds : st.file[f].refs = Cardinality(Having(w, f))
      BY <3>0, <3>4, <2>5, <2>6, <1>0 DEF Freed
    <3>8. \A f \in FileIds : st.file[f].refs = 0 => st.file[f].kind = "none"
      BY <3>4, <1>0 DEF Freed
    <3> QED BY <2>2, <3>3, <3>6, <3>7, <3>8, Zenon DEF Counted, w
  <2> QED BY <2>7, <2>8
<1> QED BY <1>1, <1>2

(* One more descriptor for a file somebody has. *)
LEMMA GetIsCounted ==
  ASSUME FilesAssumption, NEW v, NEW fl, NEW u, Counted(v, fl, u),
         NEW t \in Tasks, NEW fd \in Fds, v[t][fd] = Free,
         NEW e \in Entries, e # Free, fl[e.file].refs > 0
  PROVE  Counted([v EXCEPT ![t][fd] = e], file_get(fl, e.file), u)
<1> DEFINE w == [v EXCEPT ![t][fd] = e]
           g == e.file
           fm == file_get(fl, g)
<1>0. /\ v \in [Tasks -> [Fds -> Entries]] /\ fl \in [FileIds -> Records]
      /\ FileIds \subseteq Nat /\ NULL \notin FileIds
      /\ u = Cardinality(OnDevice(fl))
      /\ \A f \in FileIds : fl[f].refs = Cardinality(Having(v, f))
      /\ \A f \in FileIds : fl[f].refs = 0 => fl[f].kind = "none"
  BY FileIdsAreNat DEF Counted
<1>1. g \in FileIds
  BY DEF Entries
<1>2. w \in [Tasks -> [Fds -> Entries]]
  BY <1>0
<1>3. \A x \in Tasks, y \in Fds :
        w[x][y] = IF x = t /\ y = fd THEN e ELSE v[x][y]
  BY <1>0
<1>4. Having(w, g) = Having(v, g) \cup {<<t, fd>>} /\ <<t, fd>> \notin Having(v, g)
  BY <1>0, <1>1, <1>3 DEF Having, Free
<1>5. \A f \in FileIds \ {g} : Having(w, f) = Having(v, f)
  BY <1>0, <1>1, <1>3 DEF Having, Free
<1>6. Cardinality(Having(w, g)) = fl[g].refs + 1 /\ fl[g].refs \in Nat
  <2> HIDE DEF w, g
  <2>1. IsFiniteSet(Having(v, g)) /\ fl[g].refs = Cardinality(Having(v, g))
    BY <1>0, <1>1, HavingFinite, Zenon
  <2> QED BY <1>4, <2>1, OneMore, Zenon
<1>7. fm = [fl EXCEPT ![g].refs = @ + 1]
  BY <1>0, <1>1 DEF file_get
<1> HIDE DEF w, g, fm
<1>8. fl[g] \in Records /\ [fl[g] EXCEPT !.refs = @ + 1] \in Records
  BY <1>0, <1>1, <1>6 DEF Records
<1>9. fm \in [FileIds -> Records]
  BY <1>0, <1>1, <1>7, <1>8
<1>10. /\ fm[g].refs = fl[g].refs + 1 /\ fm[g].kind = fl[g].kind
       /\ \A f \in FileIds \ {g} : fm[f] = fl[f]
  BY <1>0, <1>1, <1>7 DEF Records
<1>11. OnDevice(fm) = OnDevice(fl)
  BY <1>10, <1>1, Zenon DEF OnDevice
<1>12. \A f \in FileIds : fm[f].refs = Cardinality(Having(w, f))
  BY <1>0, <1>5, <1>6, <1>10, Zenon
<1>13. \A f \in FileIds : fm[f].refs = 0 => fm[f].kind = "none"
  <2>1. fm[g].refs # 0
    BY <1>6, <1>10
  <2> QED BY <1>0, <1>10, <2>1, Zenon
<1>14. Counted(w, fm, u)
  BY <1>0, <1>2, <1>9, <1>11, <1>12, <1>13 DEF Counted
<1> QED BY <1>14 DEF w, fm, g

(* While a descriptor is free there is a file that nobody has: there are as *)
(* many files as descriptors, and each that is had takes one.               *)
LEMMA AFileIsFree ==
  ASSUME FilesAssumption, NEW v, NEW fl, NEW u, Counted(v, fl, u),
         NEW t \in Tasks, NEW fd \in Fds, v[t][fd] = Free
  PROVE  \E f \in FileIds : fl[f].refs = 0
<1> SUFFICES ASSUME \A f \in FileIds : fl[f].refs # 0 PROVE FALSE
  OBVIOUS
<1> DEFINE Used == {e \in Tasks \X Fds : v[e[1]][e[2]].file \in FileIds}
           of == [e \in Used |-> v[e[1]][e[2]].file]
<1>1. \A f \in FileIds : \E e \in Used : of[e] = f
  <2> TAKE f \in FileIds
  <2>1. Cardinality(Having(v, f)) # 0
    BY Zenon DEF Counted
  <2>2. Having(v, f) # {}
    BY <2>1, FS_EmptySet, Zenon
  <2> QED BY <2>2, SMTT(30), ZenonT(30) DEF Having
<1>2. of \in Surjection(Used, FileIds)
  <2>1. of \in [Used -> FileIds]
    OBVIOUS
  <2> HIDE DEF of, Used
  <2> QED BY <1>1, <2>1, Zenon DEF Surjection
<1>3. Used \subseteq Tasks \X Fds
  BY Zenon
<1>4. <<t, fd>> \notin Used /\ <<t, fd>> \in Tasks \X Fds
  BY FileIdsAreNat DEF Free
<1> HIDE DEF of, Used
<1>5. /\ IsFiniteSet(Used) /\ Cardinality(Used) <= Cardinality(Tasks \X Fds)
      /\ (Cardinality(Tasks \X Fds) = Cardinality(Used) => Tasks \X Fds = Used)
      /\ Cardinality(Used) \in Nat
  BY <1>3, Sizes, FS_Subset, FS_CardinalityType, Zenon
<1>6. Cardinality(FileIds) <= Cardinality(Used)
  BY <1>2, <1>5, FS_Surjection, Zenon
<1>7. Cardinality(Tasks \X Fds) = Cardinality(Used)
  <2> DEFINE n == Cardinality(Tasks) * NFds
             m == Cardinality(Used)
  <2>1. m <= n /\ n <= m /\ m \in Nat /\ n \in Nat
    BY <1>5, <1>6, Sizes
  <2> HIDE DEF n, m
  <2>2. m = n
    BY <2>1
  <2> QED BY <2>2, Sizes DEF n, m
<1> QED BY <1>4, <1>5, <1>7, Zenon

(* A file nobody has, opened. *)
LEMMA OpenIsCounted ==
  ASSUME FilesAssumption, NEW v, NEW fl, NEW u, Counted(v, fl, u),
         NEW t \in Tasks, NEW fd \in Fds, v[t][fd] = Free,
         NEW g \in FileIds, fl[g].refs = 0,
         NEW r \in Records, r.refs = 1,
         NEW w, w = [v EXCEPT ![t][fd] = [flags |-> {"occupied"}, file |-> g]],
         NEW fm, fm = [fl EXCEPT ![g] = r]
  PROVE  Counted(w, fm, u + (IF r.kind = "chr" THEN 1 ELSE 0))
<1> DEFINE e == [flags |-> {"occupied"}, file |-> g]
<1>0. /\ v \in [Tasks -> [Fds -> Entries]] /\ fl \in [FileIds -> Records]
      /\ FileIds \subseteq Nat /\ NULL \notin FileIds
      /\ u = Cardinality(OnDevice(fl))
      /\ \A f \in FileIds : fl[f].refs = Cardinality(Having(v, f))
      /\ \A f \in FileIds : fl[f].refs = 0 => fl[f].kind = "none"
  BY FileIdsAreNat DEF Counted
<1>1. e \in Entries /\ e.file = g
  BY DEF Entries
<1>2. /\ w \in [Tasks -> [Fds -> Entries]]
      /\ \A x \in Tasks, y \in Fds : w[x][y] = IF x = t /\ y = fd THEN e ELSE v[x][y]
  <2> HIDE DEF e
  <2> QED BY <1>0, <1>1 DEF e
<1> HIDE DEF e
<1>4. Having(w, g) = Having(v, g) \cup {<<t, fd>>} /\ <<t, fd>> \notin Having(v, g)
  BY <1>0, <1>1, <1>2 DEF Having, Free
<1>5. \A f \in FileIds \ {g} : Having(w, f) = Having(v, f)
  BY <1>0, <1>1, <1>2 DEF Having, Free
<1>6. Cardinality(Having(w, g)) = 1
  <2>1. IsFiniteSet(Having(v, g)) /\ Cardinality(Having(v, g)) = 0
    BY <1>0, HavingFinite
  <2>2. Cardinality(Having(w, g)) = 0 + 1
    BY <1>4, <2>1, OneMore, Zenon
  <2> QED BY <2>2
<1>7. /\ fm \in [FileIds -> Records] /\ fm[g] = r
      /\ \A f \in FileIds \ {g} : fm[f] = fl[f]
  BY <1>0
<1>8. \A f \in FileIds : fm[f].refs = Cardinality(Having(w, f))
  BY <1>0, <1>5, <1>6, <1>7, Zenon
<1>9. \A f \in FileIds : fm[f].refs = 0 => fm[f].kind = "none"
  BY <1>0, <1>7
<1>10. g \notin OnDevice(fl)
  BY <1>0 DEF OnDevice
<1>11. CASE r.kind = "chr"
  <2>1. OnDevice(fm) = OnDevice(fl) \cup {g}
    BY <1>7, <1>11 DEF OnDevice
  <2>2. Cardinality(OnDevice(fm)) = u + 1
    BY <1>0, <1>10, <2>1, OnDeviceFinite, OneMore, Zenon
  <2> QED BY <1>2, <1>7, <1>8, <1>9, <1>11, <2>2, Zenon DEF Counted
<1>12. CASE r.kind # "chr"
  <2>1. OnDevice(fm) = OnDevice(fl)
    BY <1>7, <1>10, <1>12 DEF OnDevice
  <2>2. Cardinality(OnDevice(fm)) = u + 0
    BY <1>0, <2>1, OnDeviceFinite
  <2> QED BY <1>2, <1>7, <1>8, <1>9, <1>12, <2>2, Zenon DEF Counted
<1> QED BY <1>11, <1>12

-----------------------------------------------------------------------------
(* One row of pairs has as many elements as its second components. *)
LEMMA RowSize ==
  ASSUME NEW x, NEW C, IsFiniteSet(C)
  PROVE  /\ IsFiniteSet({x} \X C) /\ Cardinality({x} \X C) = Cardinality(C)
         /\ Cardinality(C) \in Nat
<1>1. IsFiniteSet({x}) /\ Cardinality({x}) = 1
  BY FS_Singleton, Zenon
<1>2. IsFiniteSet({x} \X C) /\ Cardinality({x} \X C) = 1 * Cardinality(C)
  BY <1>1, FS_Product, Zenon
<1>3. Cardinality(C) \in Nat
  BY FS_CardinalityType, Zenon
<1> QED BY <1>2, <1>3

LEMMA ValidIsTaken ==
  ASSUME FilesAssumption, IInv, NEW t \in Tasks, NEW fd
  PROVE  /\ FD_VALID(t, fd) => /\ fd \in Fds /\ vect[t][fd] # Free
                               /\ vect[t][fd] \in Entries /\ vect[t][fd].file \in FileIds
         /\ fd \in Fds /\ ~ FD_VALID(t, fd) => vect[t][fd] = Free
<1>1. fd \in Fds => vect[t][fd] \in Entries
  BY DEF IInv, Counted
<1>2. CASE fd \in Fds
  <2>1. CASE vect[t][fd] = Free
    BY <1>2, <2>1 DEF FD_VALID, Free
  <2>2. CASE vect[t][fd] # Free
    <3>1. vect[t][fd].flags = {"occupied"} /\ vect[t][fd].file \in FileIds
      BY <1>1, <1>2, <2>2, EntryCases
    <3> QED BY <1>1, <1>2, <2>2, <3>1 DEF FD_VALID
  <2> QED BY <2>1, <2>2
<1>3. CASE fd \notin Fds
  BY <1>3 DEF FD_VALID
<1> QED BY <1>2, <1>3

LEMMA CopyIsCounted ==
  ASSUME FilesAssumption, IInv, NEW t \in Tasks, NEW x \in Tasks, copy_task_vfs(t, x)
  PROVE  Counted(vect', file', users')
<1> DEFINE C(f) == {fd \in {y \in Fds : FD_VALID(t, y)} : vect[t][fd].file = f}
           row == [fd \in Fds |-> IF fd \in {y \in Fds : FD_VALID(t, y)} THEN vect[t][fd] ELSE Free]
<1>0. /\ vect \in [Tasks -> [Fds -> Entries]] /\ file \in [FileIds -> Records]
      /\ NULL \notin FileIds
      /\ users = Cardinality(OnDevice(file))
      /\ \A f \in FileIds : file[f].refs = Cardinality(Having(vect, f))
      /\ \A f \in FileIds : file[f].refs = 0 => file[f].kind = "none"
      /\ Free \in Entries
  BY FileIdsAreNat, Zenon DEF Counted, IInv, Entries
<1>1. /\ vect' = [vect EXCEPT ![x] = row] /\ users' = users
      /\ file' = [f \in FileIds |-> [file[f] EXCEPT !.refs = @ + Cardinality(C(f))]]
      /\ vect[x] = [fd \in Fds |-> Free]
  BY Zenon DEF copy_task_vfs, IInv
<1>2. row \in [Fds -> Entries]
  BY <1>0
<1>3. \A f \in FileIds : C(f) = {fd \in Fds : row[fd].file = f}
  BY <1>0 DEF Free
<1>4. ASSUME NEW f PROVE IsFiniteSet(C(f))
  <2>1. C(f) \subseteq Fds
    BY Zenon
  <2> HIDE DEF C
  <2> QED BY <2>1, Sizes, FS_Subset, Zenon
<1> HIDE DEF row, C
<1>5. vect' \in [Tasks -> [Fds -> Entries]]
  BY <1>0, <1>1, <1>2
<1>6. \A y \in Tasks, fd \in Fds : vect'[y][fd] = IF y = x THEN row[fd] ELSE vect[y][fd]
  BY <1>0, <1>1
<1>7. \A fd \in Fds : vect[x][fd].file = NULL
  BY <1>1 DEF Free
<1>8. \A f \in FileIds : /\ Having(vect', f) = Having(vect, f) \cup ({x} \X C(f))
                         /\ Having(vect, f) \cap ({x} \X C(f)) = {}
  <2> TAKE f \in FileIds
  <2>1. \A e \in Tasks \X Fds :
          e \in Having(vect', f) <=> e \in Having(vect, f) \/ e \in {x} \X C(f)
    <3> TAKE e \in Tasks \X Fds
    <3>1. PICK y \in Tasks, fd \in Fds : e = <<y, fd>>
      OBVIOUS
    <3>2. e \in Having(vect', f) <=> vect'[y][fd].file = f
      BY <3>1 DEF Having
    <3>3. e \in Having(vect, f) <=> vect[y][fd].file = f
      BY <3>1 DEF Having
    <3>4. e \in {x} \X C(f) <=> y = x /\ row[fd].file = f
      BY <3>1, <1>3
    <3> QED BY <3>2, <3>3, <3>4, <1>0, <1>6, <1>7
  <2>2. Having(vect', f) \subseteq Tasks \X Fds /\ Having(vect, f) \subseteq Tasks \X Fds
    BY Zenon DEF Having
  <2>3. {x} \X C(f) \subseteq Tasks \X Fds
    BY <1>3
  <2>4. \A e \in {x} \X C(f) : e \notin Having(vect, f)
    BY <1>0, <1>3, <1>7 DEF Having
  <2> QED BY <2>1, <2>2, <2>3, <2>4, Zenon
<1>9. \A f \in FileIds :
        /\ Cardinality(Having(vect', f)) = file[f].refs + Cardinality(C(f))
        /\ file[f].refs \in Nat /\ Cardinality(C(f)) \in Nat
  <2> TAKE f \in FileIds
  <2> DEFINE A == Having(vect, f)
             B == {x} \X C(f)
  <2>1. IsFiniteSet(A) /\ Cardinality(A) \in Nat /\ Cardinality(A) = file[f].refs
    BY <1>0, HavingFinite
  <2>2. IsFiniteSet(B) /\ Cardinality(B) = Cardinality(C(f)) /\ Cardinality(C(f)) \in Nat
    BY <1>4, RowSize, Zenon
  <2>3. Having(vect', f) = A \cup B /\ A \cap B = {}
    BY <1>8, Zenon
  <2> HIDE DEF A, B
  <2>4. Cardinality(A \cup B) = Cardinality(A) + Cardinality(B) - Cardinality({})
    BY <2>1, <2>2, <2>3, FS_Union
  <2> QED BY <2>1, <2>2, <2>3, <2>4, FS_EmptySet
<1>10. \A f \in FileIds :
         /\ file'[f] \in Records /\ file'[f].kind = file[f].kind
         /\ file'[f].refs = file[f].refs + Cardinality(C(f))
  BY <1>0, <1>1, <1>9 DEF Records
<1>11. file' \in [FileIds -> Records]
  BY <1>1, <1>10, Zenon
<1>12. OnDevice(file') = OnDevice(file)
  BY <1>10, Zenon DEF OnDevice
<1>13. \A f \in FileIds : file'[f].refs = 0 => file'[f].kind = "none"
  BY <1>0, <1>9, <1>10
<1> QED BY <1>0, <1>1, <1>5, <1>9, <1>10, <1>11, <1>12, <1>13, Zenon DEF Counted

LEMMA ExitIsCounted ==
  ASSUME FilesAssumption, IInv, NEW t \in Tasks, free_task_vfs(t)
  PROVE  Counted(vect', file', users')
<1> DEFINE C(f) == {fd \in Fds : vect[t][fd].file = f}
           last == {f \in FileIds : Cardinality(C(f)) > 0 /\ file[f].refs <= Cardinality(C(f))}
           told == {f \in last : file[f].kind = "chr"}
<1>0. /\ vect \in [Tasks -> [Fds -> Entries]] /\ file \in [FileIds -> Records]
      /\ NULL \notin FileIds
      /\ users = Cardinality(OnDevice(file))
      /\ \A f \in FileIds : file[f].refs = Cardinality(Having(vect, f))
      /\ \A f \in FileIds : file[f].refs = 0 => file[f].kind = "none"
      /\ Free \in Entries
  BY FileIdsAreNat, Zenon DEF Counted, IInv, Entries
<1>1. /\ vect' = [vect EXCEPT ![t] = [fd \in Fds |-> Free]]
      /\ users' = users - Cardinality(told)
      /\ file' = [f \in FileIds |-> IF f \in last THEN Freed
                                    ELSE [file[f] EXCEPT !.refs = @ - Cardinality(C(f))]]
  BY Zenon DEF free_task_vfs
<1>2. ASSUME NEW f PROVE IsFiniteSet(C(f))
  <2>1. C(f) \subseteq Fds
    BY Zenon
  <2> HIDE DEF C
  <2> QED BY <2>1, Sizes, FS_Subset, Zenon
<1>3. vect' \in [Tasks -> [Fds -> Entries]]
  BY <1>0, <1>1
<1>4. \A y \in Tasks, fd \in Fds : vect'[y][fd] = IF y = t THEN Free ELSE vect[y][fd]
  BY <1>0, <1>1
<1>5. \A f \in FileIds : /\ Having(vect', f) = Having(vect, f) \ ({t} \X C(f))
                         /\ Having(vect, f) \cap ({t} \X C(f)) = {t} \X C(f)
  <2> TAKE f \in FileIds
  <2>1. \A e \in Tasks \X Fds :
          /\ e \in Having(vect', f) <=> e \in Having(vect, f) /\ e \notin {t} \X C(f)
          /\ e \in {t} \X C(f) => e \in Having(vect, f)
    <3> TAKE e \in Tasks \X Fds
    <3>1. PICK y \in Tasks, fd \in Fds : e = <<y, fd>>
      OBVIOUS
    <3>2. e \in Having(vect', f) <=> vect'[y][fd].file = f
      BY <3>1 DEF Having
    <3>3. e \in Having(vect, f) <=> vect[y][fd].file = f
      BY <3>1 DEF Having
    <3>4. e \in {t} \X C(f) <=> y = t /\ vect[t][fd].file = f
      BY <3>1
    <3>5. Free.file # f
      BY <1>0 DEF Free
    <3> QED BY <3>2, <3>3, <3>4, <3>5, <1>4
  <2>2. Having(vect', f) \subseteq Tasks \X Fds /\ Having(vect, f) \subseteq Tasks \X Fds
    BY Zenon DEF Having
  <2>3. {t} \X C(f) \subseteq Tasks \X Fds
    OBVIOUS
  <2> QED BY <2>1, <2>2, <2>3, Zenon
<1>6. \A f \in FileIds :
        /\ Cardinality(Having(vect', f)) = file[f].refs - Cardinality(C(f))
        /\ Cardinality(Having(vect', f)) \in Nat
        /\ file[f].refs \in Nat /\ Cardinality(C(f)) \in Nat
  <2> TAKE f \in FileIds
  <2> DEFINE A == Having(vect, f)
             B == {t} \X C(f)
  <2>1. IsFiniteSet(A) /\ Cardinality(A) \in Nat /\ Cardinality(A) = file[f].refs
    BY <1>0, HavingFinite
  <2>2. Cardinality(B) = Cardinality(C(f)) /\ Cardinality(C(f)) \in Nat
    BY <1>2, RowSize, Zenon
  <2>3. Having(vect', f) = A \ B /\ A \cap B = B
    BY <1>5, Zenon
  <2>4. Cardinality(Having(vect', f)) \in Nat
    BY HavingFinite
  <2> HIDE DEF A, B
  <2>5. Cardinality(A \ B) = Cardinality(A) - Cardinality(A \cap B)
    BY <2>1, FS_Difference, Zenon
  <2> QED BY <2>1, <2>2, <2>3, <2>4, <2>5
<1> HIDE DEF C
<1>7. \A f \in FileIds :
        /\ file'[f] \in Records
        /\ file'[f].refs = Cardinality(Having(vect', f))
        /\ file'[f].kind = IF f \in last THEN "none" ELSE file[f].kind
        /\ file'[f].refs = 0 => file'[f].kind = "none"
  <2> TAKE f \in FileIds
  <2>1. CASE f \in last
    <3>1. file'[f] = Freed
      BY <1>1, <2>1
    <3>2. Cardinality(Having(vect', f)) = 0
      BY <1>6, <2>1
    <3>3. Freed \in Records
      BY DEF Freed, Records, Kinds, Statused, FilesAssumption
    <3> QED BY <2>1, <3>1, <3>2, <3>3 DEF Freed
  <2>2. CASE f \notin last
    <3> DEFINE n == file[f].refs - Cardinality(C(f))
    <3>1. file'[f] = [file[f] EXCEPT !.refs = n]
      BY <1>1, <2>2
    <3>2. n \in Nat /\ n = Cardinality(Having(vect', f))
      BY <1>6
    <3>3. n = 0 => file[f].refs = 0
      BY <1>6, <2>2
    <3> HIDE DEF n
    <3>4. file'[f] \in Records /\ file'[f].refs = n /\ file'[f].kind = file[f].kind
      BY <1>0, <3>1, <3>2 DEF Records
    <3> QED BY <1>0, <2>2, <3>2, <3>3, <3>4
  <2> QED BY <2>1, <2>2
<1>8. file' \in [FileIds -> Records]
  BY <1>1, <1>7
<1>9. OnDevice(file') = OnDevice(file) \ told /\ OnDevice(file) \cap told = told
  <2>1. told \subseteq OnDevice(file)
    BY Zenon DEF OnDevice
  <2>2. \A f \in FileIds : f \in told <=> f \in last /\ file[f].kind = "chr"
    BY Zenon
  <2> HIDE DEF last, told
  <2> QED BY <1>7, <2>1, <2>2 DEF OnDevice
<1> HIDE DEF told, last
<1>10. Cardinality(OnDevice(file')) = users - Cardinality(told)
  <2> DEFINE A == OnDevice(file)
  <2>1. IsFiniteSet(A) /\ users = Cardinality(A)
    BY <1>0, OnDeviceFinite, Zenon
  <2>2. OnDevice(file') = A \ told /\ A \cap told = told
    BY <1>9, Zenon
  <2> HIDE DEF A
  <2>3. Cardinality(A \ told) = Cardinality(A) - Cardinality(A \cap told)
    BY <2>1, FS_Difference, Zenon
  <2> QED BY <2>1, <2>2, <2>3, Zenon
<1> QED BY <1>1, <1>3, <1>7, <1>8, <1>10, Zenon DEF Counted

-----------------------------------------------------------------------------
LEMMA HadIsReferred ==
  ASSUME FilesAssumption, NEW v, NEW fl, NEW u, Counted(v, fl, u),
         NEW t \in Tasks, NEW fd \in Fds, v[t][fd] # Free
  PROVE  v[t][fd].file \in FileIds /\ fl[v[t][fd].file].refs > 0
<1> DEFINE g == v[t][fd].file
<1>1. g \in FileIds
  BY DEF Counted, Entries
<1>2. <<t, fd>> \in Having(v, g)
  BY DEF Having
<1>3. Having(v, g) # {}
  BY <1>2
<1> HIDE DEF g
<1>4. Cardinality(Having(v, g)) # 0 /\ Cardinality(Having(v, g)) \in Nat
  BY <1>3, HavingFinite, FS_EmptySet, Zenon
<1>5. fl[g].refs = Cardinality(Having(v, g))
  BY <1>1, Zenon DEF Counted
<1>6. fl[g].refs > 0
  BY <1>4, <1>5
<1> QED BY <1>1, <1>6 DEF g

(* The position of a file plays no part in the count. *)
LEMMA MoveIsCounted ==
  ASSUME NEW v, NEW fl, NEW u, Counted(v, fl, u), NEW g \in FileIds, NEW o \in 0 .. MaxSize
  PROVE  Counted(v, [fl EXCEPT ![g].off = o], u)
<1> DEFINE fm == [fl EXCEPT ![g].off = o]
<1>1. fl \in [FileIds -> Records]
  BY DEF Counted
<1>2. \A f \in FileIds : /\ fm[f] \in Records
                         /\ fm[f].refs = fl[f].refs /\ fm[f].kind = fl[f].kind
  BY <1>1 DEF Records
<1>3. fm \in [FileIds -> Records]
  BY <1>1, <1>2
<1> HIDE DEF fm
<1>4. OnDevice(fm) = OnDevice(fl)
  BY <1>2, Zenon DEF OnDevice
<1>5. Counted(v, fm, u)
  BY <1>2, <1>3, <1>4 DEF Counted
<1> QED BY <1>5 DEF fm

(* What is left to show of a call once the count is: the tables of the      *)
(* tasks that are not there stay empty.                                     *)
LEMMA TableOfOne ==
  ASSUME IInv, NEW t \in here, here' = here, Counted(vect', file', users'),
         \A x \in Tasks \ {t} : vect'[x] = vect[x],
         size' \in 0 .. MaxSize, chrdev' \in BOOLEAN, steps' \in Nat
  PROVE  IInv'
BY DEF IInv

LEMMA Calls ==
  ASSUME IInv, NEW t, NEW name, NEW fd, NEW value, Call(t, name, fd, value)
  PROVE  steps' \in Nat
BY DEF IInv, Call

LEMMA InitIInv ==
  ASSUME FilesAssumption, Init
  PROVE  IInv
<1>1. here \in SUBSET Tasks /\ here # {}
  BY Zenon DEF Init, FilesAssumption
<1>2. vect \in [Tasks -> [Fds -> Entries]]
  BY DEF Init, Entries
<1>3. Freed \in Records
  BY DEF Freed, Records, Kinds, Statused, FilesAssumption
<1>4. file \in [FileIds -> Records]
  BY <1>3, Zenon DEF Init
<1>5. \A f \in FileIds : Having(vect, f) = {}
  BY FileIdsAreNat DEF Init, Having, Free
<1>6. OnDevice(file) = {}
  BY DEF Init, OnDevice, Freed
<1>7. \A f \in FileIds : file[f].refs = 0 /\ file[f].kind = "none"
  BY DEF Init, Freed
<1>8. Counted(vect, file, users)
  BY <1>2, <1>4, <1>5, <1>6, <1>7, FS_EmptySet, Zenon DEF Counted, Init
<1>9. \A t \in Tasks \ here : vect[t] = [fd \in Fds |-> Free]
  BY Zenon DEF Init
<1>10. size \in 0 .. MaxSize /\ steps \in Nat
  BY DEF Init, FilesAssumption
<1>11. chrdev \in BOOLEAN
  BY Zenon DEF Init
<1> QED BY <1>1, <1>8, <1>9, <1>10, <1>11 DEF IInv

LEMMA OpenStep ==
  ASSUME FilesAssumption, IInv, NEW t \in Tasks, NEW kind \in {"reg", "chr", "dir", "nowhere"},
         NEW s \in Statuses, sys_open(t, kind, s)
  PROVE  IInv'
<1> DEFINE free == {fd \in Fds : "occupied" \notin vect[t][fd].flags}
           fd == Min(free)
           none == {k \in FileIds : file[k].refs = 0}
           f == Min(none)
           r == [kind |-> kind, status |-> s, off |-> 0, refs |-> 1]
<1>0. t \in here /\ here' = here /\ chrdev' = chrdev /\ chrdev \in BOOLEAN
      /\ size \in 0 .. MaxSize /\ Counted(vect, file, users)
      /\ vect \in [Tasks -> [Fds -> Entries]]
  BY DEF sys_open, IInv, Counted
<1>1. steps' \in Nat
  BY Calls, Zenon DEF sys_open
<1>2. CASE UNCHANGED <<vect, file, users, size>>
  BY <1>0, <1>1, <1>2, TableOfOne
<1>3. CASE /\ free # {} /\ Opens(kind, s)
           /\ vect' = [vect EXCEPT ![t][fd] = [flags |-> {"occupied"}, file |-> f]]
           /\ file' = [file EXCEPT ![f] = r]
           /\ users' = users + (IF kind = "chr" THEN 1 ELSE 0)
           /\ size' = IF "trunc" \in s THEN 0 ELSE size
  <2>1. fd \in free
    <3>1. free \in SUBSET Nat
      BY DEF Fds, FilesAssumption
    <3> HIDE DEF free
    <3> QED BY <1>3, <3>1, MinProperty
  <2>2. fd \in Fds /\ vect[t][fd] = Free
    <3> HIDE DEF fd
    <3>1. fd \in Fds /\ "occupied" \notin vect[t][fd].flags /\ vect[t][fd] \in Entries
      BY <1>0, <2>1
    <3> QED BY <3>1, EntryCases
  <2> HIDE DEF fd, free
  <2>3. f \in none
    <3>1. none # {}
      BY <1>0, <2>2, AFileIsFree
    <3>2. none \in SUBSET Nat
      BY FileIdsAreNat, Zenon
    <3> HIDE DEF none
    <3> QED BY <3>1, <3>2, MinProperty
  <2>4. f \in FileIds /\ file[f].refs = 0
    <3> HIDE DEF f
    <3> QED BY <2>3
  <2> HIDE DEF f, none
  <2>5. kind # "nowhere"
    BY <1>3, Zenon DEF Opens
  <2>6. r \in Records /\ r.refs = 1 /\ r.kind = kind
    BY <2>5 DEF Records, Kinds, Statused, FilesAssumption
  <2>7. Counted(vect', file', users + (IF r.kind = "chr" THEN 1 ELSE 0))
    <3> HIDE DEF r
    <3> QED BY <1>0, <1>3, <2>2, <2>4, <2>6, OpenIsCounted, Zenon
  <2>8. \A x \in Tasks \ {t} : vect'[x] = vect[x]
    BY <1>0, <1>3
  <2>9. size' \in 0 .. MaxSize
    BY <1>0, <1>3 DEF FilesAssumption
  <2>10. Counted(vect', file', users')
    BY <1>3, <2>6, <2>7
  <2> QED BY <1>0, <1>1, <2>8, <2>9, <2>10, TableOfOne
<1> QED BY <1>2, <1>3, Zenon DEF sys_open

LEMMA CloseStep ==
  ASSUME FilesAssumption, IInv, NEW t \in Tasks, NEW fd, sys_close(t, fd)
  PROVE  IInv'
<1> DEFINE st == file_close(Now, vect[t][fd].file)
<1>0. t \in here /\ here' = here /\ chrdev' = chrdev /\ chrdev \in BOOLEAN
      /\ size' = size /\ size \in 0 .. MaxSize /\ Counted(vect, file, users)
      /\ vect \in [Tasks -> [Fds -> Entries]]
  BY DEF sys_close, IInv, Counted
<1>1. steps' \in Nat
  BY Calls, Zenon DEF sys_close
<1>2. CASE UNCHANGED <<vect, file, users>>
  BY <1>0, <1>1, <1>2, TableOfOne
<1>3. CASE /\ FD_VALID(t, fd) /\ vect' = [vect EXCEPT ![t][fd] = Free]
           /\ file' = st.file /\ users' = st.users
  <2>1. fd \in Fds
    BY <1>3 DEF FD_VALID
  <2>2. st = file_close([file |-> file, users |-> users], vect[t][fd].file)
    BY Zenon DEF Now
  <2> HIDE DEF st
  <2>3. Counted(vect', file', users')
    BY <1>0, <1>3, <2>1, <2>2, CloseIsCounted, Zenon
  <2>4. \A x \in Tasks \ {t} : vect'[x] = vect[x]
    BY <1>0, <1>3
  <2> QED BY <1>0, <1>1, <2>3, <2>4, TableOfOne
<1> QED BY <1>2, <1>3, Zenon DEF sys_close

LEMMA Dup2Step ==
  ASSUME FilesAssumption, IInv, NEW t \in Tasks, NEW fd, NEW other \in Int, sys_dup2(t, fd, other)
  PROVE  IInv'
<1> DEFINE open == {g \in Fds : ~FD_VALID(t, g)}
           to == IF other = -1 THEN Min(open) ELSE other
           st == IF FD_VALID(t, to) THEN file_close(Now, vect[t][to].file) ELSE Now
           v == IF FD_VALID(t, to) THEN [vect EXCEPT ![t][to] = Free] ELSE vect
<1>0. t \in here /\ here' = here /\ chrdev' = chrdev /\ chrdev \in BOOLEAN
      /\ size' = size /\ size \in 0 .. MaxSize /\ Counted(vect, file, users)
      /\ vect \in [Tasks -> [Fds -> Entries]]
  BY DEF sys_dup2, IInv, Counted
<1>1. steps' \in Nat
  BY Calls, Zenon DEF sys_dup2
<1>2. CASE UNCHANGED <<vect, file, users>>
  BY <1>0, <1>1, <1>2, TableOfOne
<1>3. CASE /\ FD_VALID(t, fd) /\ other \in -1 .. NFds - 1 /\ (other = -1 => open # {})
           /\ vect' = [v EXCEPT ![t][to] = v[t][fd]]
           /\ file' = file_get(st.file, v[t][fd].file) /\ users' = st.users
  <2>1. fd \in Fds
    BY <1>3, Zenon DEF FD_VALID
  <2>2. to \in Fds
    <3>1. CASE other = -1
      <4>1. open \in SUBSET Nat /\ open # {} /\ open \subseteq Fds
        BY <1>3, <3>1 DEF Fds, FilesAssumption
      <4> HIDE DEF open
      <4> QED BY <3>1, <4>1, MinProperty, Zenon
    <3>2. CASE other # -1
      BY <1>3, <3>2 DEF Fds, FilesAssumption
    <3> QED BY <3>1, <3>2
  <2> HIDE DEF to, open
  <2>3. Counted(v, st.file, st.users) /\ v[t][to] = Free
    <3>1. CASE FD_VALID(t, to)
      <4> DEFINE cl == file_close(Now, vect[t][to].file)
      <4>1. cl = file_close([file |-> file, users |-> users], vect[t][to].file)
        BY Zenon DEF Now
      <4>2. st = cl /\ v = [vect EXCEPT ![t][to] = Free]
        BY <3>1, Zenon
      <4> HIDE DEF cl, st, v
      <4>3. Counted([vect EXCEPT ![t][to] = Free], cl.file, cl.users)
        BY <1>0, <2>2, <4>1, CloseIsCounted, Zenon
      <4>4. v[t][to] = Free
        BY <1>0, <2>2, <4>2
      <4> QED BY <4>2, <4>3, <4>4
    <3>2. CASE ~ FD_VALID(t, to)
      <4>1. st.file = file /\ st.users = users /\ v = vect
        BY <3>2 DEF Now
      <4>2. vect[t][to] = Free
        BY <2>2, <3>2, ValidIsTaken
      <4> QED BY <1>0, <4>1, <4>2, Zenon
    <3> QED BY <3>1, <3>2
  <2>4. v \in [Tasks -> [Fds -> Entries]] /\ \A x \in Tasks \ {t} : v[x] = vect[x]
    <3>1. v \in [Tasks -> [Fds -> Entries]]
      BY <2>3, Zenon DEF Counted
    <3>2. \A x \in Tasks \ {t} : v[x] = vect[x]
      BY <1>0
    <3> QED BY <3>1, <3>2
  <2> HIDE DEF v, st
  <2>5. \A x \in Tasks \ {t} : vect'[x] = vect[x]
    BY <1>3, <2>4
  <2>6. Counted(vect', file', users')
    <3>1. CASE v[t][fd] = Free
      <4>1. vect' = v
        BY <1>3, <2>2, <2>3, <2>4, <3>1
      <4>2. file' = st.file
        BY <1>3, <3>1 DEF file_get, Free
      <4> QED BY <1>3, <2>3, <4>1, <4>2
    <3>2. CASE v[t][fd] # Free
      <4> DEFINE e == v[t][fd]
      <4>1. e \in Entries /\ e # Free
        BY <2>1, <2>4, <3>2
      <4>2. st.file[e.file].refs > 0
        BY <2>1, <2>3, <3>2, HadIsReferred
      <4>3. /\ vect' = [v EXCEPT ![t][to] = e] /\ file' = file_get(st.file, e.file)
            /\ users' = st.users
        BY <1>3
      <4> HIDE DEF e
      <4>4. Counted([v EXCEPT ![t][to] = e], file_get(st.file, e.file), st.users)
        BY <2>2, <2>3, <4>1, <4>2, GetIsCounted
      <4> QED BY <4>3, <4>4
    <3> QED BY <3>1, <3>2
  <2> QED BY <1>0, <1>1, <2>5, <2>6, TableOfOne, SMTT(30), ZenonT(30)
<1> QED BY <1>2, <1>3, Zenon DEF sys_dup2

LEMMA ReadStep ==
  ASSUME FilesAssumption, IInv, NEW t \in Tasks, NEW fd, NEW n \in 0 .. 2, sys_read(t, fd, n)
  PROVE  IInv'
<1> DEFINE f == vect[t][fd].file
           got == Min({n, Max({size - file[f].off, 0})})
<1>0. t \in here /\ here' = here /\ chrdev' = chrdev /\ chrdev \in BOOLEAN
      /\ vect' = vect /\ users' = users /\ size' = size /\ size \in 0 .. MaxSize
      /\ Counted(vect, file, users) /\ file \in [FileIds -> Records] /\ FD_VALID(t, fd)
  BY DEF sys_read, IInv, Counted
<1>1. steps' \in Nat
  BY Calls, Zenon DEF sys_read
<1>2. CASE UNCHANGED file
  BY <1>0, <1>1, <1>2, TableOfOne
<1>3. CASE file' = [file EXCEPT ![f].off = @ + got]
  <2>1. f \in FileIds
    BY <1>0, ValidIsTaken
  <2>2. file[f].off \in 0 .. MaxSize
    BY <1>0, <2>1 DEF Records
  <2>3. file[f].off + got \in 0 .. MaxSize
    <3> DEFINE o == file[f].off
               left == Max({size - o, 0})
    <3>1. o \in Int /\ size \in Int /\ n \in Int /\ MaxSize \in Int
      BY <1>0, <2>2 DEF FilesAssumption
    <3>2. left = IF size - o >= 0 THEN size - o ELSE 0
      <4> HIDE DEF o
      <4> QED BY <3>1, MaxOfTwo
    <3>3. left \in Int
      <4> HIDE DEF o, left
      <4> QED BY <3>1, <3>2
    <3>4. got = IF n <= left THEN n ELSE left
      <4> HIDE DEF left
      <4> QED BY <3>1, <3>3, MinOfTwo, Zenon DEF left
    <3>5. o \in 0 .. MaxSize
      BY <2>2
    <3> HIDE DEF left, got, o
    <3>6. o + got \in 0 .. MaxSize
      BY <1>0, <3>1, <3>2, <3>4, <3>5
    <3> QED BY <3>6 DEF o
  <2> HIDE DEF f, got
  <2>4. Counted(vect, [file EXCEPT ![f].off = file[f].off + got], users)
    BY <1>0, <2>1, <2>3, MoveIsCounted, Zenon
  <2>5. Counted(vect', file', users')
    BY <1>0, <1>3, <2>4
  <2> QED BY <1>0, <1>1, <2>5, TableOfOne
<1> QED BY <1>2, <1>3, Zenon DEF sys_read

LEMMA WriteStep ==
  ASSUME FilesAssumption, IInv, NEW t \in Tasks, NEW fd, NEW n \in 0 .. 2, sys_write(t, fd, n)
  PROVE  IInv'
<1> DEFINE f == vect[t][fd].file
           start == WriteStart(f)
<1>0. t \in here /\ here' = here /\ chrdev' = chrdev /\ chrdev \in BOOLEAN
      /\ vect' = vect /\ users' = users /\ size \in 0 .. MaxSize
      /\ Counted(vect, file, users) /\ file \in [FileIds -> Records] /\ FD_VALID(t, fd)
  BY DEF sys_write, IInv, Counted
<1>1. steps' \in Nat
  BY Calls, Zenon DEF sys_write
<1>2. CASE UNCHANGED <<file, size>>
  BY <1>0, <1>1, <1>2, TableOfOne
<1>3. CASE /\ start + n <= MaxSize
           /\ size' = Max({size, start + n})
           /\ file' = IF "append" \in file[f].status THEN file
                      ELSE [file EXCEPT ![f].off = start + n]
  <2>1. f \in FileIds
    BY <1>0, ValidIsTaken
  <2>2. file[f].off \in 0 .. MaxSize
    BY <1>0, <2>1 DEF Records
  <2>3. start \in 0 .. MaxSize
    BY <1>0, <2>2 DEF WriteStart
  <2> HIDE DEF f, start
  <2>4. start + n \in 0 .. MaxSize
    BY <1>3, <2>3
  <2>5. size' = IF size >= start + n THEN size ELSE start + n
    BY <1>0, <1>3, <2>4, MaxOfTwo
  <2>6. size' \in 0 .. MaxSize
    BY <1>0, <2>4, <2>5
  <2>7. Counted(vect, [file EXCEPT ![f].off = start + n], users)
    BY <1>0, <2>1, <2>4, MoveIsCounted, Zenon
  <2>8. Counted(vect', file', users')
    BY <1>0, <1>3, <2>7
  <2> QED BY <1>0, <1>1, <2>6, <2>8, TableOfOne
<1> QED BY <1>2, <1>3, Zenon DEF sys_write

LEMMA SeekStep ==
  ASSUME FilesAssumption, IInv, NEW t \in Tasks, NEW fd, NEW off, NEW w, sys_lseek(t, fd, off, w)
  PROVE  IInv'
<1> DEFINE f == vect[t][fd].file
<1>0. t \in here /\ here' = here /\ chrdev' = chrdev /\ chrdev \in BOOLEAN
      /\ vect' = vect /\ users' = users /\ size' = size /\ size \in 0 .. MaxSize
      /\ Counted(vect, file, users) /\ FD_VALID(t, fd)
  BY DEF sys_lseek, IInv
<1>1. steps' \in Nat
  BY Calls, Zenon DEF sys_lseek
<1>2. PICK to \in 0 .. MaxSize : file' = [file EXCEPT ![f].off = to]
  BY Zenon DEF sys_lseek
<1>3. f \in FileIds
  BY <1>0, ValidIsTaken
<1> HIDE DEF f
<1>4. Counted(vect', file', users')
  BY <1>0, <1>2, <1>3, MoveIsCounted, Zenon
<1> QED BY <1>0, <1>1, <1>4, TableOfOne

LEMMA CopyStep ==
  ASSUME FilesAssumption, IInv, NEW t \in Tasks, NEW x \in Tasks, copy_task_vfs(t, x)
  PROVE  IInv'
<1>1. Counted(vect', file', users')
  BY CopyIsCounted
<1>2. steps' \in Nat
  BY Calls, Zenon DEF copy_task_vfs
<1>3. \A y \in Tasks \ {x} : vect'[y] = vect[y]
  BY DEF copy_task_vfs, IInv, Counted
<1>4. here' = here \cup {x} /\ UNCHANGED <<chrdev, size>>
  BY DEF copy_task_vfs
<1> QED BY <1>1, <1>2, <1>3, <1>4 DEF IInv

LEMMA ExitStep ==
  ASSUME FilesAssumption, IInv, NEW t \in Tasks, free_task_vfs(t)
  PROVE  IInv'
<1>1. Counted(vect', file', users')
  BY ExitIsCounted
<1>2. steps' \in Nat
  BY Calls, Zenon DEF free_task_vfs
<1>3. vect'[t] = [fd \in Fds |-> Free] /\ \A y \in Tasks \ {t} : vect'[y] = vect[y]
  BY DEF free_task_vfs, IInv, Counted
<1>4. t \in here /\ here # {t} /\ here' = here \ {t} /\ UNCHANGED <<chrdev, size>>
  BY DEF free_task_vfs
<1> QED BY <1>1, <1>2, <1>3, <1>4 DEF IInv

LEMMA StepIInv ==
  ASSUME FilesAssumption, IInv, [Next]_vars
  PROVE  IInv'
<1>1. CASE UNCHANGED vars
  BY <1>1 DEF IInv, Counted, Having, OnDevice, vars
<1>2. CASE Driver
  <2>1. steps' \in Nat
    BY <1>2, Calls, Zenon DEF Driver
  <2>2. UNCHANGED <<here, vect, file, users, size>> /\ chrdev' \in BOOLEAN
    BY <1>2 DEF Driver
  <2> QED BY <2>1, <2>2 DEF IInv, Counted, Having, OnDevice
<1>3. ASSUME NEW t \in Tasks, NEW kind \in {"reg", "chr", "dir", "nowhere"}, NEW s \in Statuses,
             sys_open(t, kind, s)
      PROVE  IInv'
  BY <1>3, OpenStep, Zenon
<1>4. ASSUME NEW t \in Tasks, NEW fd \in -1 .. NFds, sys_close(t, fd) PROVE IInv'
  BY <1>4, CloseStep, Zenon
<1>5. ASSUME NEW t \in Tasks, NEW fd \in -1 .. NFds, NEW other \in -1 .. NFds,
             sys_dup2(t, fd, other)
      PROVE  IInv'
  <2>1. other \in Int
    BY DEF FilesAssumption
  <2> QED BY <1>5, <2>1, Dup2Step, Zenon
<1>6. ASSUME NEW t \in Tasks, NEW fd \in -1 .. NFds, NEW n \in 0 .. 2,
             sys_read(t, fd, n) \/ sys_write(t, fd, n)
      PROVE  IInv'
  BY <1>6, ReadStep, WriteStep, Zenon
<1>7. ASSUME NEW t \in Tasks, NEW fd \in -1 .. NFds,
             NEW w \in {"SEEK_SET", "SEEK_CUR", "SEEK_END"}, NEW off \in -1 .. 1,
             sys_lseek(t, fd, off, w)
      PROVE  IInv'
  BY <1>7, SeekStep, Zenon
<1>8. ASSUME NEW t \in Tasks, NEW x \in Tasks, copy_task_vfs(t, x) PROVE IInv'
  BY <1>8, CopyStep, Zenon
<1>9. ASSUME NEW t \in Tasks, free_task_vfs(t) PROVE IInv'
  BY <1>9, ExitStep, Zenon
<1>10. CASE Done
  BY <1>1, <1>10 DEF Done
<1> QED BY <1>1, <1>2, <1>3, <1>4, <1>5, <1>6, <1>7, <1>8, <1>9, <1>10, Zenon DEF Next

LEMMA IInvAlways ==
  ASSUME FilesAssumption
  PROVE  Spec => []IInv
BY InitIInv, StepIInv, PTL DEF Spec

-----------------------------------------------------------------------------
(* However tasks open, copy, share and close their files, for any number of *)
(* tasks and descriptors: f_refs of a file is the number of descriptors     *)
(* that have it, so that file_close frees it when and only when the last of *)
(* them goes, and the driver has been told of one close for each open.      *)
THEOREM FilesCounted ==
  ASSUME FilesAssumption
  PROVE  Spec => [](TypeOK /\ RefsAreDescriptors /\ DriverBalanced)
<1>1. IInv => TypeOK /\ RefsAreDescriptors /\ DriverBalanced
  <2> SUFFICES ASSUME IInv PROVE TypeOK /\ RefsAreDescriptors /\ DriverBalanced
    OBVIOUS
  <2>1. users \in Nat
    BY OnDeviceFinite DEF IInv, Counted
  <2>2. TypeOK
    BY <2>1 DEF IInv, Counted, TypeOK, Entries, Records
  <2>3. RefsAreDescriptors
    BY Zenon DEF IInv, Counted, RefsAreDescriptors, Having
  <2>4. DriverBalanced
    BY Zenon DEF IInv, Counted, DriverBalanced, OnDevice
  <2> QED BY <2>2, <2>3, <2>4
<1> QED BY <1>1, IInvAlways, PTL

(* A write with O_APPEND puts its bytes behind the ones that are there,     *)
(* whatever the position of the descriptor and whoever wrote in between.    *)
THEOREM AppendAppendsAlways ==
  ASSUME FilesAssumption
  PROVE  Spec => AppendAppends
<1> DEFINE Appended ==
      \A t \in Tasks, fd \in Fds :
        (/\ ret'.call = "write" /\ ret'.task = t /\ ret'.fd = fd /\ ret'.value > 0
         /\ FD_VALID(t, fd) /\ "append" \in file[vect[t][fd].file].status /\ steps' > steps)
          => size' = size + ret'.value
<1>1. ASSUME IInv, [Next]_vars PROVE [Appended]_vars
  <2> SUFFICES ASSUME Next, NEW t \in Tasks, NEW fd \in Fds,
                      ret'.call = "write", ret'.task = t, ret'.fd = fd, ret'.value > 0,
                      "append" \in file[vect[t][fd].file].status, steps' > steps
               PROVE  size' = size + ret'.value
    BY <1>1
  <2>0. steps \in Nat /\ size \in 0 .. MaxSize
    BY <1>1 DEF IInv
  <2>1. PICK x \in Tasks, y \in -1 .. NFds, n \in 0 .. 2 : sys_write(x, y, n)
    <3>1. ~ Done
      BY <2>0 DEF Done, vars
    <3>2. ~ Driver
      BY DEF Driver, Call
    <3>3. \A a, k, s : ~ sys_open(a, k, s)
      BY DEF sys_open, Call
    <3>4. \A a, y : ~ sys_close(a, y)
      BY DEF sys_close, Call
    <3>5. \A a, y, o : ~ sys_dup2(a, y, o)
      BY SMTT(30), ZenonT(30) DEF sys_dup2, Call
    <3>6. \A a, y, n : ~ sys_read(a, y, n)
      BY DEF sys_read, Call
    <3>7. \A a, y, o, w : ~ sys_lseek(a, y, o, w)
      BY DEF sys_lseek, Call
    <3>8. \A a, y : ~ copy_task_vfs(a, y)
      BY DEF copy_task_vfs, Call
    <3>9. \A a : ~ free_task_vfs(a)
      BY DEF free_task_vfs, Call
    <3> QED BY <3>1, <3>2, <3>3, <3>4, <3>5, <3>6, <3>7, <3>8, <3>9, Zenon DEF Next
  <2>2. ret'.task = x /\ ret'.fd = y /\ ret'.value \in {n, OtherError}
    BY <2>1 DEF sys_write, Call
  <2>3. x = t /\ y = fd /\ ret'.value = n
    BY <2>2 DEF OtherError
  <2>4. size' = Max({size, WriteStart(vect[t][fd].file) + n})
    BY <2>1, <2>3 DEF sys_write, Call, OtherError
  <2>5. WriteStart(vect[t][fd].file) = size
    BY DEF WriteStart
  <2>6. size \in Int /\ size + n \in Int /\ n > 0
    BY <2>0, <2>3 DEF FilesAssumption
  <2>7. Max({size, size + n}) = IF size >= size + n THEN size ELSE size + n
    BY <2>6, MaxOfTwo
  <2>8. size' = size + n
    BY <2>4, <2>5, <2>6, <2>7
  <2> QED BY <2>3, <2>8
<1>2. IInv /\ [Next]_vars => [Appended]_vars
  BY <1>1
<1> QED BY <1>2, IInvAlways, PTL DEF Spec, AppendAppends
=============================================================================
