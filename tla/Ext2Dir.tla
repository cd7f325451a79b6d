-------------------------------- MODULE Ext2Dir --------------------------------
(***************************************************************************)
(* A directory of the ext2 driver, kernel/src/ext2fs/inode.c: making,      *)
(* finding, listing and unlinking names, and allocating and freeing their  *)
(* inodes, together with what the VFS keeps in memory of an open file      *)
(* (kernel/src/fs.c, dentry.c).  A block of the directory is a sequence of *)
(* entries that cover it; lengths are in bytes.  System calls run with     *)
(* interrupts off, so each is one step.                                    *)
(***************************************************************************)
EXTENDS Integers, Sequences, FiniteSets, FiniteSetsExt, SequencesExt

CONSTANTS
  Names, NameLen,  \* the names and how long they are
  BlockSize,       \* s_blocksize
  NDirect,         \* direct pointers of an inode; twelve
  NumInodes,
  Reserved,        \* the inodes in use from the start
  Modes            \* Modes[n]: the modes a name may be made with

VARIABLES
  dir,     \* the blocks of the directory
  bits,    \* the inode bitmap
  dinode,  \* the inodes on the disk: mode and links
  mem,     \* the inodes in memory
  held,    \* the dentry of each name that is open: its inode, or 0
  asked,   \* history: the mode each name was made with
  reader,  \* an open directory: how far it is, and what it has listed
  cpu
vars == <<dir, bits, dinode, mem, held, asked, reader, cpu>>

Inodes == 1 .. NumInodes
BAD_INO == 1
NoInode == [mode |-> "none", links |-> 0]
Entry(rec, ino, name) == [rec |-> rec, inode |-> ino, name |-> name]
Hole(rec) == Entry(rec, 0, "none")
Fill(e) == ((8 + NameLen[e] + 3) \div 4) * 4      \* needed_size
Places(d) == {<<b, k>> \in (1 .. Len(d)) \X (1 .. BlockSize \div 8) : k <= Len(d[b])}
Before(p, q) == p[1] < q[1] \/ (p[1] = q[1] /\ p[2] < q[2])
FirstOf(S) == CHOOSE p \in S : \A q \in S : q = p \/ Before(p, q)
At(d, p) == d[p[1]][p[2]]

-----------------------------------------------------------------------------
(* e2_inode_lookup: the inode of the first entry with the name, or zero. *)
Named(d, n) == {p \in Places(d) : At(d, p).inode # 0 /\ At(d, p).name = n}
e2_inode_lookup(d, n) == IF Named(d, n) = {} THEN 0 ELSE At(d, FirstOf(Named(d, n))).inode

(* e2_alloc_inode: the first clear bit. *)
Free == Inodes \ bits
e2_alloc_inode == IF Free = {} THEN BAD_INO ELSE Min(Free)

(* The unused entry e taken for a name, and split if more than eight bytes   *)
(* are left.                                                                 *)
Split(e, n, ino) ==
  IF e.rec - Fill(n) > 8 THEN <<Entry(Fill(n), ino, n), Hole(e.rec - Fill(n))>>
  ELSE <<Entry(e.rec, ino, n)>>

(* strcpy writes a zero after the name.  When the name fills its entry that  *)
(* is the lowest byte of the next entry's inode, or the byte after the       *)
(* buffer.  Inode numbers here fit in a byte.                                *)
Filled(n, block, k) == block[k].rec = 8 + NameLen[n]
Terminated(n, block, k) ==
  IF Filled(n, block, k) /\ k < Len(block) THEN [block EXCEPT ![k + 1].inode = 0] ELSE block

Fits(d, n) == {p \in Places(d) : At(d, p).inode = 0 /\ At(d, p).rec - 8 >= NameLen[n]}

(* e2_inode_link: with a place p, or a new block at the end. *)
PutName(d, p, n, ino) ==
  LET block == d[p[1]]
      put == SubSeq(block, 1, p[2] - 1) \o Split(block[p[2]], n, ino)
             \o SubSeq(block, p[2] + 1, Len(block))
  IN [d EXCEPT ![p[1]] = Terminated(n, put, p[2])]

(* The map of a directory that grows past its direct blocks is written with  *)
(* rw_lock, which e2_inode_link holds.                                       *)
e2_inode_link(n, ino) ==
  LET room == Fits(dir, n) # {}
      d == IF room THEN dir ELSE Append(dir, <<Hole(BlockSize)>>)
      p == FirstOf(Fits(d, n))
      put == PutName(d, p, n, ino)
  IN IF ~room /\ Len(d) > NDirect THEN [dir |-> dir, cpu |-> "spins"]
     ELSE [dir |-> put,
           cpu |-> IF Filled(n, put[p[1]], p[2]) /\ p[2] = Len(put[p[1]]) THEN "overrun" ELSE "ok"]

(* i_get: an inode that is in memory is not read again. *)
i_get(ino, disk) == IF mem[ino] # NoInode THEN mem[ino] ELSE disk[ino]

(* Variant: freed as soon as it has no name, open or not. *)
UnlinkFrees(ino, inode, still) ==
  /\ dinode' = [dinode EXCEPT ![ino] = IF inode.links = 0 THEN NoInode ELSE inode]
  /\ bits' = IF inode.links = 0 THEN bits \ {ino} ELSE bits
  /\ mem' = [mem EXCEPT ![ino] = IF still THEN inode ELSE NoInode]

(* i_put, e2_put_inode, e2_free_inode: with the last reference an inode      *)
(* without names is freed.  What a free inode holds is written before it is  *)
(* used again, and is left out.                                              *)
i_put(ino, inode, still) ==
  /\ dinode' = [dinode EXCEPT ![ino] = IF inode.links = 0 /\ ~still THEN NoInode ELSE inode]
  /\ bits' = IF inode.links = 0 /\ ~still THEN bits \ {ino} ELSE bits
  /\ mem' = [mem EXCEPT ![ino] = IF still THEN inode ELSE NoInode]

-----------------------------------------------------------------------------
(* path_lookup: a dentry that is in memory is found before the directory is  *)
(* searched.                                                                 *)
path_lookup(n) == IF held[n] # 0 THEN held[n] ELSE e2_inode_lookup(dir, n)

(* sys_mknod, e2_inode_mknod. *)
NoSpace(n) ==
  /\ cpu = "ok" /\ path_lookup(n) = 0 /\ e2_alloc_inode = BAD_INO
  /\ UNCHANGED vars

Mknod(n, mode) ==
  LET ino == e2_alloc_inode
      disk == [dinode EXCEPT ![ino] = [mode |-> mode, links |-> 0]]
      inode == i_get(ino, disk)
      named == [inode EXCEPT !.links = @ + 1]
      r == e2_inode_link(n, ino)
  IN /\ cpu = "ok" /\ path_lookup(n) = 0 /\ ino # BAD_INO
     /\ bits' = bits \cup {ino}
     /\ dir' = r.dir
     /\ cpu' = r.cpu
     /\ dinode' = [dinode EXCEPT ![ino] = IF r.cpu = "spins" THEN disk[ino] ELSE named]
     /\ mem' = [mem EXCEPT ![ino] = IF mem[ino] = NoInode THEN NoInode ELSE named]
     /\ asked' = [asked EXCEPT ![n] = mode]
     /\ reader' = [reader EXCEPT !.steady = @ \ {n}]
     /\ UNCHANGED held

(* The name cannot be made for want of memory: the inode is freed, and the   *)
(* reference to it is kept.  Of what follows nothing is claimed.             *)
MknodFails(n, mode) ==
  LET ino == e2_alloc_inode
      inode == i_get(ino, [dinode EXCEPT ![ino] = [mode |-> mode, links |-> 0]])
  IN /\ cpu = "ok" /\ path_lookup(n) = 0 /\ ino # BAD_INO
     /\ Fits(dir, n) = {}
     /\ dinode' = [dinode EXCEPT ![ino] = inode]
     /\ mem' = [mem EXCEPT ![ino] = inode]
     /\ cpu' = "leaked"
     /\ UNCHANGED <<dir, bits, held, asked, reader>>

(* sys_unlink, e2_inode_unlink. *)
Unlink(n) ==
  LET ino == e2_inode_lookup(dir, n)
      p == FirstOf(Named(dir, n))
      inode == [i_get(ino, dinode) EXCEPT !.links = @ - 1]
  IN /\ cpu = "ok" /\ ino # 0 /\ path_lookup(n) = ino
     /\ dir' = [dir EXCEPT ![p[1]][p[2]] = Hole(@.rec)]
     /\ asked' = [asked EXCEPT ![n] = "none"]
     /\ i_put(ino, inode, held[n] # 0)
     /\ reader' = [reader EXCEPT !.steady = @ \ {n}]
     /\ UNCHANGED <<held, cpu>>

Open(n) ==
  LET ino == path_lookup(n)
  IN /\ cpu = "ok" /\ ino # 0
     /\ held' = [held EXCEPT ![n] = ino]
     /\ mem' = [mem EXCEPT ![ino] = i_get(ino, dinode)]
     /\ UNCHANGED <<dir, bits, dinode, asked, reader, cpu>>

Close(n) ==
  /\ cpu = "ok" /\ held[n] # 0
  /\ held' = [held EXCEPT ![n] = 0]
  /\ i_put(held[n], mem[held[n]], FALSE)
  /\ UNCHANGED <<dir, asked, reader, cpu>>

(* e2_file_readdir for one entry: unused entries are passed over. *)
Offset(d, p) ==
  ((p[1] - 1) * BlockSize) + FoldLeft(+, 0, [k \in 1 .. p[2] - 1 |-> d[p[1]][k].rec])

(* The entries from position off on that are in use. *)
Rest(d, off) == {p \in Places(d) : Offset(d, p) >= off /\ At(d, p).inode # 0}

Readdir ==
  /\ cpu = "ok"
  /\ IF Rest(dir, reader.off) = {}
     THEN reader' = [reader EXCEPT !.off = BlockSize * Len(dir), !.ended = TRUE]
     ELSE LET p == FirstOf(Rest(dir, reader.off))
          IN reader' = [reader EXCEPT !.off = Offset(dir, p) + At(dir, p).rec,
                                      !.seen = Append(@, At(dir, p).name)]
  /\ ~reader.ended
  /\ UNCHANGED <<dir, bits, dinode, mem, held, asked, cpu>>

Present(d) == {n \in Names : e2_inode_lookup(d, n) # 0}
Rewind ==
  /\ cpu = "ok" /\ reader.ended
  /\ reader' = [off |-> 0, seen |-> <<>>, steady |-> Present(dir), ended |-> FALSE]
  /\ UNCHANGED <<dir, bits, dinode, mem, held, asked, cpu>>

Stopped == cpu # "ok" /\ UNCHANGED vars

Init ==
  /\ dir = <<>>
  /\ bits = Reserved
  /\ dinode = [i \in Inodes |-> NoInode]
  /\ mem = [i \in Inodes |-> NoInode]
  /\ held = [n \in Names |-> 0]
  /\ asked = [n \in Names |-> "none"]
  /\ reader = [off |-> 0, seen |-> <<>>, steady |-> {}, ended |-> FALSE]
  /\ cpu = "ok"

Next ==
  \/ \E n \in Names : \E mode \in Modes[n] : Mknod(n, mode) \/ MknodFails(n, mode)
  \/ \E n \in Names : NoSpace(n) \/ Unlink(n) \/ Open(n) \/ Close(n)
  \/ Readdir
  \/ Rewind
  \/ Stopped

Spec == Init /\ [][Next]_vars

-----------------------------------------------------------------------------
Inode == [mode : UNION {Modes[n] : n \in Names} \cup {"none"}, links : 0 .. 1]
TypeOK ==
  /\ \A p \in Places(dir) : At(dir, p) \in [rec : 8 .. BlockSize, inode : 0 .. NumInodes,
                                             name : Names \cup {"none"}]
  /\ bits \subseteq Inodes
  /\ dinode \in [Inodes -> Inode] /\ mem \in [Inodes -> Inode]
  /\ held \in [Names -> 0 .. NumInodes]
  /\ \A n \in Names : asked[n] \in Modes[n] \cup {"none"}
  /\ reader.off \in 0 .. BlockSize * Len(dir) /\ reader.steady \subseteq Names
  /\ cpu \in {"ok", "spins", "overrun", "leaked"}

(* The entries of every block cover it without gap or overlap, and each has  *)
(* room for its name.                                                        *)
Tiles ==
  /\ \A b \in 1 .. Len(dir) :
       FoldLeft(+, 0, [k \in 1 .. Len(dir[b]) |-> dir[b][k].rec]) = BlockSize
  /\ \A p \in Places(dir) : At(dir, p).inode # 0 => At(dir, p).rec >= 8 + NameLen[At(dir, p).name]

(* A listing that is read while names are made and unlinked goes from entry  *)
(* to entry, and has, when it ends, each name that was there all the time    *)
(* exactly once.                                                             *)
ListedOnce ==
  /\ reader.off \in {Offset(dir, p) : p \in Places(dir)} \cup {BlockSize * b : b \in 0 .. Len(dir)}
  /\ reader.ended => \A n \in reader.steady : Cardinality({k \in DOMAIN reader.seen : reader.seen[k] = n}) = 1

(* The inode a name leads to is the one that was made for it: an inode that  *)
(* was freed and given out again has nothing of its former life.             *)
ModeIsAsked ==
  \A n \in Names : LET ino == e2_inode_lookup(dir, n)
                   IN ino # 0 => dinode[ino].mode = asked[n] /\ dinode[ino].links = 1

(* e2_inode_link, e2_inode_unlink, e2_put_inode and the inode bitmap do what *)
(* a directory promises: a name leads to its file from when it is made until *)
(* it is removed, whatever is done to the other names, and a file is freed   *)
(* when neither a name nor an open file leads to it.                         *)
Promised == INSTANCE Directory WITH
  Files <- Inodes \ Reserved, NoFile <- 0,
  entries <- [n \in Names |-> e2_inode_lookup(dir, n)],
  open <- {held[n] : n \in Names} \ {0},
  used <- bits \ Reserved

ImplementsDirectory == Promised!Spec

-----------------------------------------------------------------------------
(* What the source says of itself and the code does not do.                  *)

(* "search every dirent in every block for an unused one that can fit our    *)
(* name" (inode.c:1011): making a name takes nothing from the other names.   *)
OthersStay ==
  [][\A n \in Names : e2_inode_lookup(dir, n) # 0 /\ e2_inode_lookup(dir', n) = 0
       => \E p \in Places(dir) : At(dir, p).name = n /\ At(dir', p).inode = 0
                                 /\ \A q \in Places(dir) : q # p => At(dir', q) = At(dir, q)]_vars

(* "no space in already allocated blocks, allocate a new block!"             *)
(* (inode.c:1027): the call returns.                                         *)
LinkReturns == cpu # "spins"

(* "the directory entry referred to by 'name'" (dentry.c:156): what a lookup *)
(* gives for a name is what the directory has under it.                      *)
LookupIsDirectory ==
  \A n \in Names : path_lookup(n) # 0 => e2_inode_lookup(dir, n) = path_lookup(n)

(* "we couldn't create the name, so cleanup after ourselves" (inode.c:179):  *)
(* no reference to the inode stays behind.                                   *)
CleanedUp == cpu # "leaked"
=============================================================================
