-------------------------------- MODULE Dentry --------------------------------
(***************************************************************************)
(* What the kernel has of its file systems in memory: directory entries,   *)
(* inodes, superblocks and mounts, each kept only by its count of          *)
(* references (kernel/src/dentry.c and the two ends of kernel/src/fs.c).   *)
(*                                                                         *)
(* The counts are bags.  A directory entry is the list of names that leads *)
(* to it from the root of its file system, an inode its file system and    *)
(* number; what is not in a bag is not in memory.                          *)
(***************************************************************************)
EXTENDS Integers, Sequences, SequencesExt, Bags, BagsExt

CONSTANTS
  Disk,     \* Disk[f][n]: from the names in directory n of f to inodes;
            \* what is not a directory has no names
  Broken    \* the inodes that cannot be read, as pairs <<f, n>>

None == "none"
vfs_root == <<"vfs">>
RootIno == 0

(* The inode of a directory entry that was found. *)
InodeOf(x) ==
  LET ino[k \in 1 .. Len(x)] ==
        IF k = 1 THEN RootIno ELSE Disk[x[1]][ino[k - 1]][x[k]]
  IN <<x[1], ino[Len(x)]>>
Names(n) == DOMAIN Disk[n[1]][n[2]]
IsDir(n) == Names(n) # {}

(* d_ref, i_ref, s_refs and m_refs.  A mount is named by what is mounted:   *)
(* nothing is mounted twice.                                                *)
NoCounts == [d |-> EmptyBag, i |-> EmptyBag, s |-> EmptyBag, m |-> EmptyBag]

d_get(c, x) == [c EXCEPT !.d = BagAdd(@, x)]
super_get(c, f) == [c EXCEPT !.s = BagAdd(@, f)]
super_put(c, f) == [c EXCEPT !.s = BagRemove(@, f)]
mnt_get(c, f) == IF f = None THEN c ELSE [c EXCEPT !.m = BagAdd(@, f)]
mnt_put(c, f) == IF f = None THEN c ELSE [c EXCEPT !.m = BagRemove(@, f)]
i_getref(c, n) == [c EXCEPT !.i = BagAdd(@, n)]

(* i_put, and i_free with the last reference. *)
i_put(c, n) ==
  LET put == [c EXCEPT !.i = BagRemove(@, n)]
  IN IF CopiesIn(n, c.i) = 1 THEN super_put(put, n[1]) ELSE put

(* i_get: the reference to the superblock is taken before the inode is      *)
(* read, and kept when that fails.                                          *)
i_get(c, n) ==
  IF BagIn(n, c.i) THEN i_getref(c, n)
  ELSE LET held == super_get(c, n[1])
       IN IF n \in Broken THEN held ELSE i_getref(held, n)

(* d_put, and d_free with the last reference, which puts the inode and then *)
(* the parent.                                                              *)
RECURSIVE d_put(_, _)
d_put(c, x) ==
  LET less == [c EXCEPT !.d = BagRemove(@, x)]
  IN IF CopiesIn(x, c.d) = 1
     THEN d_put(i_put(less, InodeOf(x)), SubSeq(x, 1, Len(x) - 1))
     ELSE less

(* d_lookup: the entry in memory, or a new one (d_alloc) with a reference   *)
(* to its parent and to its inode.                                          *)
d_lookup(c, dir, name) ==
  LET child == Append(dir, name)
      n == InodeOf(child)
      got == i_get(c, n)
  IN IF BagIn(child, c.d) THEN [ok |-> TRUE, c |-> d_get(c, child), dentry |-> child]
     ELSE IF dir = vfs_root \/ name \notin Names(InodeOf(dir))
     THEN [ok |-> FALSE, c |-> c]
     ELSE IF ~BagIn(n, got.i) THEN [ok |-> FALSE, c |-> got]
     ELSE [ok |-> TRUE, c |-> d_get(d_get(got, dir), child), dentry |-> child]

(* The root of a file system just read: its inode and d_alloc_root. *)
d_alloc_root(c, f) == d_get(i_get(c, <<f, RootIno>>), <<f>>)

(* A path: an entry, and the mount it was reached through. *)
Path(x, f) == [dentry |-> x, mount |-> f]
path_copy(c, p) == mnt_get(d_get(c, p.dentry), p.mount)
path_put(c, p) == mnt_put(d_put(c, p.dentry), p.mount)
=============================================================================
