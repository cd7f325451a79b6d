---------------------------------- MODULE Vfs ----------------------------------
(***************************************************************************)
(* The name space of the kernel: walking a path name, mounting and         *)
(* unmounting, the working directory and the open file of each task, and   *)
(* the references all of them hold (kernel/src/fs.c, the path of a file in *)
(* kernel/src/file.c).                                                     *)
(*                                                                         *)
(* A system call runs to its end before another one begins: nothing in it  *)
(* sleeps.  The disks do not change here, only what the kernel keeps.      *)
(***************************************************************************)
EXTENDS Dentry, FiniteSets

CONSTANTS
  Tasks,      \* the tasks; a task has one file open at most
  Device,     \* Device[n]: the file system on device node n
  Boot,       \* the file systems mounted on "/" when the tasks begin, in order
  Queries,    \* the path names: [abs, names], a name after a last slash is ""
  Targets,    \* those given to mount and umount
  Sources,    \* those given to mount as devices
  MaxSteps    \* bound: system calls

VfsAssumption ==
  /\ IsFiniteSet(Tasks) /\ MaxSteps \in Nat
  /\ Targets \cup Sources \subseteq Queries
  /\ \A q \in Queries : Len(q.names) > 0

VARIABLES
  c,       \* the counts
  points,  \* the mountpoints: [point, mounts], the last mount in front
  cwd,     \* v_cwd of each task, NoPath of one that is not there
  file,    \* the open files: [path, f_refs]
  fd,      \* the file of each task, or 0
  cpu,     \* "wild" after a read through NULL or a freed structure
  steps    \* system calls so far
vars == <<c, points, cwd, file, fd, cpu, steps>>

NoPath == Path(<<>>, None)
NoFile == [path |-> NoPath, f_refs |-> 0]

d_mountpoint(x) ==
  {mp \in points : mp.point.dentry = x \/ \E k \in DOMAIN mp.mounts : <<mp.mounts[k]>> = x}
Mounted == UNION {ToSet(mp.mounts) : mp \in points}

-----------------------------------------------------------------------------
(* path_lookup.  A walk is a count and a path. *)
At(cc, p) == [ok |-> TRUE, c |-> cc, path |-> p]
Failed(cc) == [ok |-> FALSE, c |-> cc]

(* Variant: on to the mount at the other end of the list. *)
CrossedToFirst(w) ==
  LET mps == d_mountpoint(w.path.dentry)
      f == Last((CHOOSE mp \in mps : TRUE).mounts)
  IN IF mps = {} \/ <<f>> = w.path.dentry THEN w
     ELSE At(path_copy(path_put(w.c, w.path), Path(<<f>>, f)), Path(<<f>>, f))

(* The head of each pass: on to what is mounted on top of this place. *)
Crossed(w) ==
  LET mps == d_mountpoint(w.path.dentry)
      f == Head((CHOOSE mp \in mps : TRUE).mounts)
  IN IF mps = {} \/ <<f>> = w.path.dentry THEN w
     ELSE At(path_copy(path_put(w.c, w.path), Path(<<f>>, f)), Path(<<f>>, f))

(* path_get_parent: from the root of a mount to the directory under it. *)
path_get_parent(w) ==
  LET x == w.path.dentry
      up == IF Len(x) > 1 THEN Path(SubSeq(x, 1, Len(x) - 1), w.path.mount)
            ELSE (CHOOSE mp \in d_mountpoint(x) : TRUE).point
  IN At(path_put(path_copy(w.c, up), w.path), up)

(* One name looked up; the mount stays the same. *)
Into(w, name) ==
  LET found == d_lookup(w.c, w.path.dentry, name)
  IN IF found.ok THEN At(d_put(found.c, w.path.dentry), Path(found.dentry, w.path.mount))
     ELSE Failed(path_put(found.c, w.path))

(* One pass for each name.  After ".." the name is still there, and is      *)
(* looked up in the parent.  The last name is looked up and not crossed.    *)
End(w, parent) == IF parent THEN path_get_parent(w) ELSE w

RECURSIVE Walk(_, _, _)
WalkOn(next, rest, parent) ==
  IF ~next.ok THEN next
  ELSE IF Len(rest) = 1 THEN End(next, parent)
  ELSE Walk(next, Tail(rest), parent)

Pass(w, names, parent) ==
  LET rest == IF Head(names) = "." THEN Tail(names) ELSE names
      from == IF Head(names) = ".." THEN path_get_parent(w) ELSE w
  IN IF names \in {<<"">>, <<".">>} THEN End(w, parent)
     ELSE IF names = <<"..">> THEN End(from, parent)
     ELSE IF rest = <<"">> THEN End(w, parent)
     ELSE IF Len(rest) = 1 /\ parent THEN from
     ELSE WalkOn(Into(from, Head(rest)), rest, parent)

Walk(start, names, parent) == Pass(Crossed(start), names, parent)

WP_DEFAULT == FALSE
WP_PARENT == TRUE
path_lookup(cc, t, q, flags) ==
  LET from == IF q.abs THEN Path(vfs_root, None) ELSE cwd[t]
  IN Walk(At(path_copy(cc, from), from), q.names, flags)

(* vfs_root is the one entry without an inode. *)
HasInode(p) == p.dentry # vfs_root

-----------------------------------------------------------------------------
(* sys_mount from where the superblock is read. *)
MountOn(cc, mps, target, f) ==
  LET here == {mp \in mps : \/ mp.point.dentry = target.dentry
                            \/ \E k \in DOMAIN mp.mounts : <<mp.mounts[k]>> = target.dentry}
      mp == IF here = {} THEN [point |-> target, mounts |-> <<>>]
            ELSE CHOOSE old \in here : TRUE
      read == mnt_get(d_alloc_root(cc, f), f)
  IN [c |-> IF here = {} THEN path_copy(read, target) ELSE read,
      points |-> (mps \ here) \cup {[mp EXCEPT !.mounts = <<f>> \o @]}]

(* initialize_filesystem, then the mounts of initfs_install and of kmain,   *)
(* each with the reference of its walk to "/", which it keeps.              *)
Booted ==
  LET on(k) == IF k = 1 THEN Path(vfs_root, None) ELSE Path(<<Boot[k - 1]>>, Boot[k - 1])
      after[k \in 0 .. Len(Boot)] ==
        IF k = 0 THEN [c |-> d_get(NoCounts, vfs_root), points |-> {}]
        ELSE MountOn(path_copy(after[k - 1].c, on(k)), after[k - 1].points, on(k), Boot[k])
  IN after[Len(Boot)]

(* init_task_vfs for the first task. *)
Init ==
  LET root == Path(vfs_root, None)
      first == CHOOSE t \in Tasks : TRUE
  IN /\ c = path_copy(Booted.c, root) /\ points = Booted.points
     /\ cwd = [t \in Tasks |-> IF t = first THEN root ELSE NoPath]
     /\ file = [n \in 1 .. Cardinality(Tasks) |-> NoFile]
     /\ fd = [t \in Tasks |-> 0]
     /\ cpu = "ok" /\ steps = 0

Running == {t \in Tasks : cwd[t] # NoPath}
Call == cpu = "ok" /\ steps < MaxSteps /\ steps' = steps + 1

(* The calls that look a path up, use its inode and put it: chmod, chown,   *)
(* unlink and an open that fails; access does without the inode.            *)
Look(t, q, inode) == \E w \in {path_lookup(c, t, q, WP_DEFAULT)} :
  /\ Call
  /\ c' = IF w.ok THEN path_put(w.c, w.path) ELSE w.c
  /\ cpu' = IF w.ok /\ inode /\ ~HasInode(w.path) THEN "wild" ELSE "ok"
  /\ UNCHANGED <<points, cwd, file, fd>>

(* sys_mknod up to the call of the file system. *)
sys_mknod(t, q) == \E w \in {path_lookup(c, t, q, WP_DEFAULT)} :
  /\ Call
  /\ \/ /\ w.ok /\ c' = path_put(w.c, w.path) /\ UNCHANGED cpu
     \/ /\ ~w.ok
        /\ \E dir \in {path_lookup(w.c, t, q, WP_PARENT)} :
             \/ /\ ~dir.ok /\ c' = dir.c /\ UNCHANGED cpu
             \/ /\ dir.ok /\ c' = path_put(dir.c, dir.path)
                /\ cpu' = IF HasInode(dir.path) THEN "ok" ELSE "wild"
  /\ UNCHANGED <<points, cwd, file, fd>>

(* sys_link: neither ext2 nor initfs has the operation.  The first path is  *)
(* kept when the second is not found.                                       *)
sys_link(t, old, dir) == \E oldp \in {path_lookup(c, t, old, WP_DEFAULT)} :
  /\ Call
  /\ \/ /\ ~oldp.ok /\ c' = oldp.c /\ UNCHANGED cpu
     \/ /\ oldp.ok
        /\ \E newp \in {path_lookup(oldp.c, t, dir, WP_DEFAULT)} :
             \/ /\ ~newp.ok /\ c' = newp.c /\ UNCHANGED cpu
             \/ /\ newp.ok
                /\ c' = path_put(path_put(newp.c, oldp.path), newp.path)
                /\ cpu' = IF oldp.path.mount = None /\ newp.path.mount = None THEN "wild" ELSE "ok"
  /\ UNCHANGED <<points, cwd, file, fd>>

(* sys_chdir: the new directory is copied, and the path looked up not put. *)
sys_chdir(t, q) == \E w \in {path_lookup(c, t, q, WP_DEFAULT)} :
  /\ Call
  /\ \/ /\ ~w.ok /\ c' = w.c /\ UNCHANGED <<cwd, cpu>>
     \/ /\ w.ok /\ ~HasInode(w.path) /\ cpu' = "wild" /\ c' = w.c /\ UNCHANGED cwd
     \/ /\ w.ok /\ HasInode(w.path) /\ ~IsDir(InodeOf(w.path.dentry))
        /\ c' = path_put(w.c, w.path) /\ UNCHANGED <<cwd, cpu>>
     \/ /\ w.ok /\ HasInode(w.path) /\ IsDir(InodeOf(w.path.dentry))
        /\ c' = path_copy(path_put(w.c, cwd[t]), w.path)
        /\ cwd' = [cwd EXCEPT ![t] = w.path] /\ UNCHANGED cpu
  /\ UNCHANGED <<points, file, fd>>

(* sys_open of what is there, with file_open: the file copies the path. *)
sys_open(t, q) == \E w \in {path_lookup(c, t, q, WP_DEFAULT)} :
  LET n == CHOOSE k \in DOMAIN file : file[k] = NoFile
  IN /\ Call /\ fd[t] = 0
     /\ w.ok /\ HasInode(w.path)
     /\ c' = path_put(path_copy(w.c, w.path), w.path)
     /\ file' = [file EXCEPT ![n] = [path |-> w.path, f_refs |-> 1]]
     /\ fd' = [fd EXCEPT ![t] = n]
     /\ UNCHANGED <<points, cwd, cpu>>

(* file_close of the task's file, if it has one: the last one puts the path. *)
Closed(t, cc) ==
  LET f == file[fd[t]] IN
  IF fd[t] = 0 THEN [c |-> cc, file |-> file]
  ELSE IF f.f_refs > 1 THEN [c |-> cc, file |-> [file EXCEPT ![fd[t]].f_refs = @ - 1]]
  ELSE [c |-> path_put(cc, f.path), file |-> [file EXCEPT ![fd[t]] = NoFile]]

sys_close(t) ==
  /\ Call /\ fd[t] # 0
  /\ c' = Closed(t, c).c /\ file' = Closed(t, c).file
  /\ fd' = [fd EXCEPT ![t] = 0]
  /\ UNCHANGED <<points, cwd, cpu>>

(* copy_task_vfs, for a new task u. *)
copy_task_vfs(t, u) ==
  /\ Call /\ cwd[u] = NoPath
  /\ c' = path_copy(c, cwd[t]) /\ cwd' = [cwd EXCEPT ![u] = cwd[t]]
  /\ fd' = [fd EXCEPT ![u] = fd[t]]
  /\ file' = IF fd[t] = 0 THEN file ELSE [file EXCEPT ![fd[t]].f_refs = @ + 1]
  /\ UNCHANGED <<points, cpu>>

(* free_task_vfs. *)
free_task_vfs(t) ==
  LET closed == Closed(t, path_put(c, cwd[t])) IN
  /\ Call /\ Cardinality(Running) > 1
  /\ c' = closed.c /\ file' = closed.file
  /\ fd' = [fd EXCEPT ![t] = 0] /\ cwd' = [cwd EXCEPT ![t] = NoPath]
  /\ UNCHANGED <<points, cpu>>

(* sys_mount of a device, with a file system type the kernel has or not.    *)
(* Without it the source is put when it was not found, and kept when it     *)
(* was.  The target is kept in the end.                                     *)
MountFails(on, dev, known) ==
  \/ /\ ~known /\ UNCHANGED points
     /\ c' = path_put(dev.c, on.path) /\ cpu' = IF dev.ok THEN "ok" ELSE "wild"
  \/ /\ known /\ ~dev.ok /\ c' = path_put(dev.c, on.path) /\ UNCHANGED <<points, cpu>>
  \/ /\ known /\ dev.ok /\ ~HasInode(dev.path) /\ cpu' = "wild" /\ UNCHANGED <<c, points>>

MountDevice(put, target, n) ==
  IF n \in DOMAIN Device /\ Device[n] \notin Mounted
  THEN LET done == MountOn(put, points, target, Device[n])
       IN c' = done.c /\ points' = done.points
  ELSE c' = path_put(put, target) /\ UNCHANGED points

sys_mount(t, source, target, known) ==
  /\ Call
  /\ \E on \in {path_lookup(c, t, target, WP_DEFAULT)} :
       \/ /\ ~on.ok /\ c' = on.c /\ UNCHANGED <<points, cpu>>
       \/ /\ on.ok
          /\ \E dev \in {path_lookup(on.c, t, source, WP_DEFAULT)} :
               \/ MountFails(on, dev, known)
               \/ /\ known /\ dev.ok /\ HasInode(dev.path)
                  /\ MountDevice(path_put(dev.c, dev.path), on.path, InodeOf(dev.path.dentry))
                  /\ UNCHANGED cpu
  /\ UNCHANGED <<cwd, file, fd>>

(* What a file system leaves behind: its root is in no list any more. *)
Without(cc, f) ==
  [d |-> [x \in DOMAIN cc.d \ {<<f>>} |-> cc.d[x]],
   i |-> [n \in DOMAIN cc.i \ {<<f, RootIno>>} |-> cc.i[n]],
   s |-> [g \in DOMAIN cc.s \ {f} |-> cc.s[g]],
   m |-> [g \in DOMAIN cc.m \ {f} |-> cc.m[g]]]

IsRootOfMount(p) == p.dentry = <<p.mount>>
EmptyPoint(mp) == mp.mounts = <<>>

Unused(cc, f) == CopiesIn(f, cc.m) = 1 /\ CopiesIn(f, cc.s) = 1

(* sys_umount: the path is put before the counts are read. *)
sys_umount(t, target) == \E w \in {path_lookup(c, t, target, WP_DEFAULT)} :
  LET f == w.path.mount
      put == path_put(w.c, w.path)
      old == CHOOSE mp \in points : f \in ToSet(mp.mounts)
      new == [old EXCEPT !.mounts = SelectSeq(@, LAMBDA g : g # f)]
  IN /\ Call
     /\ \/ /\ ~w.ok /\ c' = w.c /\ UNCHANGED <<points, cpu>>
        \/ /\ w.ok /\ f = None /\ cpu' = "wild" /\ UNCHANGED <<c, points>>
        \/ /\ w.ok /\ f # None /\ (~IsRootOfMount(w.path) \/ ~Unused(put, f))
           /\ c' = put /\ UNCHANGED <<points, cpu>>
        \/ /\ w.ok /\ f # None /\ IsRootOfMount(w.path) /\ Unused(put, f)
           /\ points' = (points \ {old}) \cup (IF EmptyPoint(new) THEN {} ELSE {new})
           /\ c' = IF EmptyPoint(new) THEN path_put(Without(put, f), old.point)
                   ELSE Without(put, f)
           /\ UNCHANGED cpu
     /\ UNCHANGED <<cwd, file, fd>>

(* No more calls, or none that can be told. *)
Done == (cpu = "wild" \/ steps = MaxSteps) /\ UNCHANGED vars

Next ==
  \/ \E t \in Running :
       \/ \E q \in Queries : \/ \E inode \in BOOLEAN : Look(t, q, inode)
                             \/ sys_mknod(t, q) \/ sys_chdir(t, q) \/ sys_open(t, q)
       \/ \E old \in Queries, dir \in Targets : sys_link(t, old, dir)
       \/ sys_close(t)
       \/ \E u \in Tasks : copy_task_vfs(t, u)
       \/ free_task_vfs(t)
       \/ \E src \in Sources, target \in Targets, known \in BOOLEAN :
            sys_mount(t, src, target, known)
       \/ \E target \in Targets : sys_umount(t, target)
  \/ Done

Spec == Init /\ [][Next]_vars

-----------------------------------------------------------------------------
(* _build_path and sys_getcwd: the names up to the root of the file system. *)
(* A name before a ".." is left out with it.                                *)
getcwd(x) ==
  LET keep == {k \in 2 .. Len(x) :
                 x[k] \notin {".", ".."} /\ ~(k < Len(x) /\ x[k + 1] = "..")}
  IN [abs |-> TRUE,
      names |-> [k \in 1 .. Cardinality(keep) |->
                   x[CHOOSE j \in keep : Cardinality({i \in keep : i <= j}) = k]] \o <<"">>]

-----------------------------------------------------------------------------
(* All that holds a path. *)
OpenFiles == {n \in DOMAIN file : file[n] # NoFile}
Holders ==
  {<<"cwd", t, cwd[t]>> : t \in Running}
    \cup {<<"file", n, file[n].path>> : n \in OpenFiles}
    \cup {<<"point", mp.point.dentry, mp.point>> : mp \in points}
Inside(f) == {h \in Holders : h[3].mount = f}
Children(x) == {y \in DOMAIN c.d : Len(y) = Len(x) + 1 /\ SubSeq(y, 1, Len(x)) = x}

(* Every count covers what is known to hold the entry, the superblock and   *)
(* the mount: the working directories, files and mountpoints, the children  *)
(* in memory, the list of mounts.  So nothing that path_put, d_free or      *)
(* sys_umount frees is still used by a task.                                *)
HeldIsCounted ==
  cpu = "ok" =>
    /\ \A x \in DOMAIN c.d \cup {h[3].dentry : h \in Holders} :
         CopiesIn(x, c.d) >= Cardinality({h \in Holders : h[3].dentry = x})
                             + Cardinality(Children(x))
                             + (IF Len(x) = 1 THEN 1 ELSE 0)
    /\ \A f \in (Mounted \cup {h[3].mount : h \in Holders}) \ {None} :
         CopiesIn(f, c.m) >= 1 + Cardinality(Inside(f))

(* The inodes in memory are those of the entries in memory, with a          *)
(* reference from each (d_free and i_get agree), and the superblock counts  *)
(* them all: what i_free finds in i_super is there.                         *)
InodesOfEntries ==
  /\ BagToSet(c.i) = {InodeOf(x) : x \in DOMAIN c.d \ {vfs_root}}
  /\ \A n \in BagToSet(c.i) :
       /\ CopiesIn(n, c.i) = Cardinality({x \in DOMAIN c.d \ {vfs_root} : InodeOf(x) = n})
       /\ CopiesIn(n[1], c.s) >= Cardinality({k \in BagToSet(c.i) : k[1] = n[1]})

(* A path goes through the mount of the file system its entry is in: the    *)
(* flags path_access reads and the count sys_umount reads are its own, also *)
(* after ".." has left the mount.                                           *)
MountOfEntry ==
  \A h \in Holders : h[3].mount = IF h[3].dentry = vfs_root THEN None ELSE h[3].dentry[1]

(* A walk that counts nothing, over the disks and the mounts: a place is an *)
(* inode, and what is mounted on an inode is seen through all its names.    *)
Top(n) ==
  LET mps == {mp \in points : \/ InodeOf(mp.point.dentry) = n
                              \/ \E k \in DOMAIN mp.mounts : <<mp.mounts[k], RootIno>> = n}
  IN IF mps = {} THEN n ELSE <<Head((CHOOSE mp \in mps : TRUE).mounts), RootIno>>
NoPlace == <<None, RootIno>>
Up(n) == IF n[2] = RootIno
         THEN LET under == InodeOf((CHOOSE mp \in points : n[1] \in ToSet(mp.mounts)).point.dentry)
              IN IF under = <<"vfs", RootIno>> THEN n ELSE <<under[1], Disk[under[1]][under[2]][".."]>>
         ELSE <<n[1], Disk[n[1]][n[2]][".."]>>
Step(n, name) ==
  LET m == Top(n) IN
  IF n = NoPlace \/ (name = ".." /\ ~IsDir(m)) THEN NoPlace
  ELSE IF name \in {".", ""} THEN m
  ELSE IF name = ".." THEN Up(m)
  ELSE IF name \notin Names(m) \/ <<m[1], Disk[m[1]][m[2]][name]>> \in Broken THEN NoPlace
  ELSE <<m[1], Disk[m[1]][m[2]][name]>>
Place(t, q) ==
  FoldLeft(Step, InodeOf(IF q.abs THEN vfs_root ELSE cwd[t].dentry), q.names)

Leads(t, q) ==
  LET w == path_lookup(c, t, q, WP_DEFAULT)
  IN IF w.ok THEN Top(InodeOf(w.path.dentry)) ELSE NoPlace
Plain(names) == \A k \in DOMAIN names : names[k] \notin {".", ".."}
PlainWorld == \A h \in Holders : Plain(h[3].dentry)

(* path_lookup of a name without dots leads where the disks and the mounts  *)
(* say, whatever is in memory: through the last of several mounts, from a   *)
(* directory that was covered later, not to an inode that cannot be read.   *)
WalkIsRight ==
  (cpu = "ok" /\ PlainWorld) =>
    \A t \in Running, q \in Queries : Plain(q.names) => Leads(t, q) = Top(Place(t, q))

(* sys_getcwd on the file system of "/", as long as nothing else is mounted *)
(* and no ".." follows a dot: its name leads back to the directory.         *)
CwdLeadsBack ==
  \A t \in Running :
    LET x == cwd[t].dentry IN
    (/\ cpu = "ok" /\ Mounted = ToSet(Boot)
     /\ \A k \in 2 .. Len(x) : x[k] = ".." => x[k - 1] \notin {".", ".."})
       => Leads(t, getcwd(x)) = Top(InodeOf(x))

TypeOK ==
  /\ IsABag(c.d) /\ IsABag(c.i) /\ IsABag(c.s) /\ IsABag(c.m)
  /\ \A mp \in points : mp.mounts # <<>> /\ IsInjective(mp.mounts)
  /\ \A t \in Tasks : fd[t] # 0 =>
       file[fd[t]].f_refs = Cardinality({u \in Tasks : fd[u] = fd[t]})
  /\ cpu \in {"ok", "wild"} /\ steps \in 0 .. MaxSteps

-----------------------------------------------------------------------------
(* What the comments say and the code does not do. *)

-----------------------------------------------------------------------------
(* What the source says of itself and the code does not do.                  *)

(* fs.c:663: "If it is not in use, m_refs should be 1 (the filesystem's     *)
(* reference)".  sys_chdir keeps the path it looked up.                     *)
UnusedMountIsOne ==
  \A f \in Mounted \ ToSet(Boot) : Inside(f) = {} => CopiesIn(f, c.m) = 1

(* fs.c:670: "The superblock still has the root node open, so there should  *)
(* be one reference".  i_get keeps one for an inode it could not read.      *)
UnusedSuperIsOne ==
  \A f \in Mounted : CopiesIn(f, c.m) = 1 => CopiesIn(f, c.s) = 1

(* fs.c:286, of ".." and a slash: "This will make path reference its        *)
(* parent".  The name is looked up a second time.                           *)
DotsLeadUp ==
  \A t \in Running, q \in Queries :
    (Head(q.names) = ".." /\ Len(q.names) = 2 /\ PlainWorld /\ Len(cwd[t].dentry) > 1)
      => Leads(t, q) = Top(Place(t, q))

(* fs.h:346: "the path now points to its parent directory (event through    *)
(* mount points)".  From the root it is the entry without an inode, which   *)
(* sys_chdir reads.                                                         *)
ParentIsThere == cpu = "ok"

(* fs.c:623: "target_name: name of the directory where something is         *)
(* mounted".  The name leads to the directory under the mount.              *)
MountedIsTarget ==
  \A t \in Running, q \in Targets :
    LET w == path_lookup(c, t, q, WP_DEFAULT) IN
    (w.ok /\ Plain(q.names) /\ \E mp \in points : mp.point = w.path) => IsRootOfMount(w.path)
=============================================================================
