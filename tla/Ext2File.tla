------------------------------- MODULE Ext2File -------------------------------
(***************************************************************************)
(* A file of the ext2 driver, kernel/src/ext2fs: block allocation          *)
(* (block.c), the block map with its three levels of indirection, growing  *)
(* and truncating, and reading and writing (inode.c).  Everything is       *)
(* counted in words of four bytes, the size of a block number, so a block  *)
(* holds W words of data or W block numbers.                               *)
(***************************************************************************)
EXTENDS Integers, Sequences, FiniteSets, FiniteSetsExt, SequencesExt

CONSTANTS
  W,              \* words in a block: s_blocksize / 4
  NDirect,        \* direct pointers of an inode; twelve
  NumBlocks,      \* s_blocks_count
  BlocksPerGroup, \* s_blocks_per_group
  FirstData,      \* s_first_data_block: the block the first bit stands for
  Meta,           \* the blocks of superblock, group table, bitmaps and inodes
  Offsets, Lens,  \* the writes that are tried
  MaxWrites       \* bound: writes

Geometry ==
  /\ W >= 1 /\ NDirect >= 1 /\ BlocksPerGroup >= 1 /\ FirstData \in {0, 1}
  /\ 0 \in Meta /\ Meta \subseteq 0 .. NumBlocks - 1

VARIABLES
  fs,      \* the disk, the driver's superblock and the inode in memory
  shadow,  \* history: the word last written at each position
  writes   \* bound
vars == <<fs, shadow, writes>>

Word == 0 .. W - 1
Blocks == 0 .. NumBlocks - 1
Ptr == 0 .. NDirect + 2       \* i_block
Junk == -1                    \* memory that was never set
Dev == 7                      \* the device number of a device inode
MaxEnd == Max(Offsets) + Max(Lens)
None == 0

(* EXT2_BGCOUNT. *)
BGCOUNT == NumBlocks \div BlocksPerGroup
Group(g) == (g * BlocksPerGroup) .. ((g + 1) * BlocksPerGroup - 1)
NumGroups == ((NumBlocks - FirstData - 1) \div BlocksPerGroup) + 1
BitsOf(blocks) == {b - FirstData : b \in {x \in blocks : x >= FirstData}}
Ceil(n) == (n + W - 1) \div W

-----------------------------------------------------------------------------
(* The disk.  Every write goes through Wrote, which notes whether the inode  *)
(* on the disk names only blocks the bitmap on the disk holds: what a crash  *)
(* at this point would leave.                                                *)
e2_read_block(f, b) == IF b \in Blocks THEN f.disk[b] ELSE [w \in Word |-> Junk]

Single == NDirect
Double == NDirect + 1
Triple == NDirect + 2
FromDouble == NDirect + W
FromTriple == FromDouble + W * W

(* e2_inode_read_block_map: entry k of the map.  Below the triply indirect   *)
(* block the code looks the indirect block up in the triply indirect block.  *)
BlockAt(f, d, k) ==
  LET s == k - NDirect
      o == k - FromDouble
      t == k - FromTriple
  IN IF k < NDirect THEN d.i_block[k]
     ELSE IF k < FromDouble THEN e2_read_block(f, d.i_block[Single])[s]
     ELSE IF k < FromTriple
     THEN e2_read_block(f, e2_read_block(f, d.i_block[Double])[o \div W])[o % W]
     ELSE e2_read_block(f, e2_read_block(f, d.i_block[Triple])[(t \div W) % W])[t % W]

ReadMap(f, d) == [k \in 1 .. d.blocks |-> BlockAt(f, d, k - 1)]

(* The pointer blocks the inode d leads to on the disk, and all its blocks. *)
PointerBlocks(f, d) ==
  LET roots == {d.i_block[p] : p \in {Single, Double, Triple}}
      lists == {d.i_block[p] : p \in {Double, Triple}} \ {0}
  IN IF d.mode = "dev" THEN {}
     ELSE (roots \cup UNION {Range(e2_read_block(f, b)) : b \in lists}) \ {0}

Named(f, d) == Range(ReadMap(f, d)) \cup PointerBlocks(f, d)

Wrote(f) == [f EXCEPT !.calm = @ /\ Named(f, f.dinode) \subseteq f.bits \ BitsOf(Meta)]

e2_write_block(f, b, words) ==
  IF f.cpu # "ok" THEN f
  ELSE IF b = 0 THEN [f EXCEPT !.cpu = "block0"]
  ELSE IF b \notin Blocks THEN [f EXCEPT !.cpu = "wild"]
  ELSE Wrote([f EXCEPT !.disk[b] = words])

(* e2_alloc_block: got is the block, zero for none.  The number of a block   *)
(* is taken to be the number of its bit.                                     *)
e2_alloc_block(f) ==
  LET open == {g \in 0 .. BGCOUNT - 1 : f.bgfree[g] # 0 /\ ~(Group(g) \subseteq f.bits)}
  IN IF f.sfree = 0 \/ open = {} THEN [f EXCEPT !.got = 0]
     ELSE LET g == Min(open)
              b == Min(Group(g) \ f.bits)
          IN Wrote([f EXCEPT !.got = b, !.bits = @ \cup {b},
                             !.bgfree[g] = @ - 1, !.sfree = @ - 1])

e2_free_block(f, b) ==
  IF b \notin Blocks THEN [f EXCEPT !.cpu = "wild"]
  ELSE Wrote([f EXCEPT !.bits = @ \ {b}, !.sfree = @ + 1,
                       !.bgfree[b \div BlocksPerGroup] = @ + 1])

-----------------------------------------------------------------------------
(* e2_inode_write_block_map.  Chunk is what lies at &map[idx]: the words     *)
(* past the end of the map are whatever the heap holds.                      *)
Chunk(map, idx) == [w \in Word |-> IF idx + w < Len(map) THEN map[idx + w + 1] ELSE Junk]

PointTo(a, p) == [a EXCEPT !.ino.i_block[p] = a.got]

WithPtr(f, p) ==
  IF f.ino.i_block[p] # 0 THEN [f EXCEPT !.got = f.ino.i_block[p]]
  ELSE PointTo(e2_alloc_block(f), p)

(* The block named by an entry of buffer, or a new one. *)
BlockFor(f, buffer, e) ==
  IF buffer[e] = 0 THEN e2_alloc_block(f) ELSE [f EXCEPT !.got = buffer[e]]

(* The indirect blocks named by buffer, from entry d on; a holds the block   *)
(* of entry d.                                                               *)
RECURSIVE Indirects(_, _, _, _)
Indirect(a, buffer, d, idx) ==
  IF a.got = 0 THEN [fs |-> a, buffer |-> buffer, idx |-> idx, full |-> TRUE]
  ELSE Indirects(e2_write_block(a, a.got, Chunk(a.ino.map, idx)),
                 [buffer EXCEPT ![d] = a.got], d + 1, idx + W)

Indirects(f, buffer, d, idx) ==
  IF d = W \/ idx >= f.ino.blocks
  THEN [fs |-> f, buffer |-> buffer, idx |-> idx, full |-> FALSE]
  ELSE Indirect(BlockFor(f, buffer, d), buffer, d, idx)

(* The doubly indirect blocks.  Each is allocated or read, the indirect      *)
(* blocks are taken from the same buffer as the doubly indirect ones, and    *)
(* the doubly indirect block is written as it was.                           *)
RECURSIVE Doublies(_, _, _, _)
DoublyDone(r, t, doubly) ==
  IF r.full THEN r.fs
  ELSE Doublies(e2_write_block(r.fs, r.buffer[t], doubly), r.buffer, t + 1, r.idx)

Doubly(a, buffer, t, idx) ==
  IF a.got = 0 THEN a
  ELSE DoublyDone(Indirects(a, [buffer EXCEPT ![t] = a.got], 0, idx), t,
                  IF buffer[t] = 0 THEN [w \in Word |-> 0] ELSE e2_read_block(a, buffer[t]))

Doublies(f, buffer, t, idx) ==
  IF t = W \/ idx >= f.ino.blocks
  THEN e2_write_block(f, f.ino.i_block[Triple], buffer)
  ELSE Doubly(BlockFor(f, buffer, t), buffer, t, idx)

Root(f, p) ==
  IF f.ino.i_block[p] = 0 THEN [w \in Word |-> 0] ELSE e2_read_block(f, f.ino.i_block[p])

BelowTriple(a, buffer, idx) == IF a.got = 0 THEN a ELSE Doublies(a, buffer, 0, idx)

TripleLevel(f, idx) == BelowTriple(WithPtr(f, Triple), Root(f, Triple), idx)

DoubleDone(r, b) ==
  IF r.full THEN r.fs
  ELSE LET w == e2_write_block(r.fs, b, r.buffer)
       IN IF r.idx = r.fs.ino.blocks THEN w ELSE TripleLevel(w, r.idx)

BelowDouble(a, buffer) ==
  IF a.got = 0 THEN a ELSE DoubleDone(Indirects(a, buffer, 0, FromDouble), a.got)

DoubleLevel(f) == BelowDouble(WithPtr(f, Double), Root(f, Double))

BelowSingle(a) == e2_write_block(a, a.got, Chunk(a.ino.map, NDirect))

WriteMap(f) ==
  LET n == f.ino.blocks
      direct == [f EXCEPT !.ino.i_block =
                   [p \in Ptr |-> IF p < NDirect /\ p < n THEN f.ino.map[p + 1]
                                  ELSE IF n <= NDirect /\ p >= NDirect THEN 0 ELSE @[p]]]
      below == BelowSingle(WithPtr(direct, Single))
  IN IF f.ino.mode = "dev" THEN f
     ELSE IF n = 0 THEN [f EXCEPT !.ino.i_block = [p \in Ptr |-> 0]]
     ELSE IF n <= NDirect THEN direct
     ELSE IF n <= FromDouble THEN below
     ELSE DoubleLevel(below)

(* e2_super_flush and e2_inode_flush. *)
e2_super_flush(f) == [f EXCEPT !.saved = [sfree |-> f.sfree, bgfree |-> f.bgfree]]

OnDisk(ino) == [mode |-> ino.mode, size |-> ino.size, blocks |-> ino.blocks, i_block |-> ino.i_block]

InodeOut(f) == Wrote([f EXCEPT !.ino.dirty = FALSE, !.dinode = OnDisk(f.ino)])

(* Variant: the inode is written before its map. *)
FlushInodeFirst(f) ==
  IF ~f.ino.dirty \/ f.cpu # "ok" THEN f
  ELSE LET m == e2_super_flush(WriteMap(Wrote([f EXCEPT !.dinode = OnDisk(f.ino)])))
       IN [m EXCEPT !.ino.dirty = FALSE]

e2_inode_flush(f) ==
  IF ~f.ino.dirty \/ f.cpu # "ok" THEN f
  ELSE InodeOut(e2_super_flush(WriteMap(f)))

-----------------------------------------------------------------------------
AtEnd(a) == [a EXCEPT !.ino.map = Append(@, a.got)]

(* e2_inode_resize.  An allocation that fails leaves a zero at the end of    *)
(* the map, and the size where it is.                                        *)
RECURSIVE GrowBy(_, _, _)
GrowBy(f, extra, newsize) ==
  IF extra = 0 THEN [f EXCEPT !.ino.size = newsize]
  ELSE LET m == AtEnd(e2_alloc_block(f))
       IN IF m.got = 0 THEN m
          ELSE GrowBy([m EXCEPT !.ino.blocks = @ + 1, !.ino.size = @ + W], extra - 1, newsize)

Shrink(f, newsize) ==
  LET n == Ceil(newsize)
      cut == SubSeq(f.ino.map, n + 1, f.ino.blocks)
      freed == FoldLeft(e2_free_block, f, cut)
  IN IF n = f.ino.blocks THEN [f EXCEPT !.ino.size = newsize]
     ELSE [freed EXCEPT !.ino.map = SubSeq(@, 1, n), !.ino.size = newsize, !.ino.blocks = n]

Resized(f, newsize) ==
  LET old == f.ino.size
  IN IF newsize < old THEN Shrink(f, newsize)
     ELSE IF old \div W = newsize \div W /\ old # 0 THEN [f EXCEPT !.ino.size = newsize]
     ELSE GrowBy([f EXCEPT !.ino.map = SubSeq(@, 1, f.ino.blocks)], Ceil(newsize - old), newsize)

e2_inode_resize(f, newsize) ==
  IF newsize = f.ino.size THEN f
  ELSE e2_inode_flush(Resized([f EXCEPT !.ino.dirty = TRUE], newsize))

(* e2_inode_io.  A block that is written in part is read first; an entry     *)
(* past the end of the map is whatever lies there.                           *)
Entry(f, k) == IF k < Len(f.ino.map) THEN f.ino.map[k + 1] ELSE Junk

IoRead(f, off, len) ==
  LET end == Min({off + len, f.ino.size})
  IN [i \in 1 .. Max({end - off, 0}) |->
        e2_read_block(f, Entry(f, (off + i - 1) \div W))[(off + i - 1) % W]]

PutPart(f, k, off, len, value) ==
  e2_write_block(f, Entry(f, k),
    [w \in Word |-> IF (k * W) + w \in off .. off + len - 1 THEN value
                    ELSE e2_read_block(f, Entry(f, k))[w]])

(* An empty write in the middle of a block still writes the block. *)
IoWrite(f, off, len, value) ==
  LET g == IF off + len > f.ino.size THEN e2_inode_resize(f, off + len) ELSE f
      first == off \div W
      count == IF len = 0 THEN (IF off % W = 0 THEN 0 ELSE 1) ELSE ((off + len - 1) \div W) - first + 1
      put(h, k) == PutPart(h, k, off, len, value)
  IN FoldLeft(put, g, [i \in 1 .. count |-> first + i - 1])

(* e2_alloc_inode, e2_read_inode, and the flush after the name is linked. *)
Fresh(mode) ==
  [mode |-> mode, size |-> 0, blocks |-> 0,
   i_block |-> [p \in Ptr |-> IF mode = "dev" /\ p = 0 THEN Dev ELSE 0]]

e2_read_inode(f) ==
  [f EXCEPT !.ino = [mode |-> f.dinode.mode, size |-> f.dinode.size, blocks |-> f.dinode.blocks,
                     i_block |-> f.dinode.i_block, map |-> ReadMap(f, f.dinode), dirty |-> FALSE]]

Made(f, mode) ==
  LET g == e2_read_inode([f EXCEPT !.dinode = Fresh(mode), !.live = TRUE])
  IN e2_inode_flush([g EXCEPT !.ino.dirty = TRUE])

NoShadow == [p \in 0 .. MaxEnd |-> None]

Formatted ==
  [disk |-> [b \in Blocks |-> [w \in Word |-> 0]],
   bits |-> BitsOf(Meta) \cup (Group(NumGroups - 1) \ BitsOf(Blocks)),
   bgfree |-> [g \in 0 .. NumGroups - 1 |-> Cardinality((Group(g) \cap BitsOf(Blocks)) \ BitsOf(Meta))],
   sfree |-> NumBlocks - Cardinality(Meta), saved |-> <<>>,
   ino |-> [mode |-> "reg", size |-> 0, blocks |-> 0, i_block |-> [p \in Ptr |-> 0],
            map |-> <<>>, dirty |-> FALSE],
   dinode |-> Fresh("reg"), live |-> FALSE, got |-> 0, cpu |-> "ok", calm |-> TRUE]

Init ==
  /\ fs = e2_super_flush(Formatted)
  /\ shadow = NoShadow
  /\ writes = 0

Ready == fs.cpu = "ok" /\ fs.live
Begin == [fs EXCEPT !.calm = TRUE]

Write(off, len) ==
  /\ Ready /\ fs.ino.mode = "reg" /\ writes < MaxWrites
  /\ fs' = IoWrite(Begin, off, len, -(writes + 2))
  /\ writes' = writes + 1
  /\ shadow' = [p \in 0 .. MaxEnd |-> IF p \in off .. off + len - 1 THEN -(writes + 2) ELSE shadow[p]]

(* e2_inode_truncate: the branch that releases block by block is never       *)
(* taken.                                                                    *)
e2_inode_truncate(f) ==
  LET g == e2_inode_resize(f, 0) IN e2_inode_flush([g EXCEPT !.ino.dirty = TRUE])

Truncate ==
  /\ Ready /\ fs.ino.mode = "reg"
  /\ fs' = [e2_inode_truncate(Begin) EXCEPT !.calm = TRUE]
  /\ shadow' = NoShadow
  /\ UNCHANGED writes

(* The last reference goes, and the inode is read again: e2_put_inode,       *)
(* e2_read_inode.                                                            *)
Reload ==
  /\ Ready
  /\ fs' = e2_read_inode(e2_inode_flush(Begin))
  /\ UNCHANGED <<shadow, writes>>

(* The last reference to an inode without a name: e2_put_inode,              *)
(* e2_free_inode.                                                            *)
Drop ==
  /\ Ready
  /\ fs' = [e2_super_flush(e2_inode_resize(Begin, 0)) EXCEPT !.live = FALSE, !.calm = TRUE]
  /\ shadow' = NoShadow
  /\ UNCHANGED writes

Make ==
  /\ fs.cpu = "ok" /\ ~fs.live
  /\ \E mode \in {"reg", "dev"} : fs' = Made(Begin, mode)
  /\ UNCHANGED <<shadow, writes>>

Stopped == fs.cpu # "ok" /\ UNCHANGED vars

Next ==
  \/ \E off \in Offsets, len \in Lens : Write(off, len)
  \/ Truncate
  \/ Reload
  \/ Drop
  \/ Make
  \/ Stopped

Spec == Init /\ [][Next]_vars

-----------------------------------------------------------------------------
Fine == fs.cpu = "ok"
AllBits == UNION {Group(g) : g \in 0 .. NumGroups - 1}

TypeOK ==
  /\ fs.disk \in [Blocks -> [Word -> Junk - MaxWrites .. NumBlocks]]
  /\ fs.bits \subseteq AllBits /\ fs.sfree \in 0 .. NumBlocks
  /\ fs.ino.size \in 0 .. MaxEnd /\ fs.ino.blocks \in 0 .. NumBlocks
  /\ fs.ino.i_block \in [Ptr -> 0 .. NumBlocks]
  /\ fs.cpu \in {"ok", "block0", "wild"} /\ fs.calm \in BOOLEAN /\ fs.live \in BOOLEAN
  /\ shadow \in [0 .. MaxEnd -> Junk - MaxWrites .. None] /\ writes \in 0 .. MaxWrites

(* What has been written is what e2_inode_io reads: no write, truncation or  *)
(* reload of the inode moves, loses or mixes up words of the file.           *)
ReadIsWritten ==
  Fine /\ fs.live => \A p \in 0 .. MaxEnd :
    shadow[p] # None => p < fs.ino.size /\ IoRead(fs, p, 1) = <<shadow[p]>>

AgreesWithDisk ==
  /\ ReadMap(fs, fs.dinode) = fs.ino.map
  /\ fs.dinode.size = fs.ino.size
  /\ fs.ino.mode = "dev" => fs.dinode.i_block[0] = Dev

(* Between operations the disk has all there is to know of a file of at most *)
(* a doubly indirect block: reading the inode and its map back gives the     *)
(* size, the blocks and, for a device, the device number held in memory.     *)
Durable ==
  Fine /\ fs.live /\ fs.ino.blocks <= FromTriple => AgreesWithDisk

(* The blocks of a file, those of its data and those of its map, are         *)
(* different from one another, are marked as used, and none is a block of    *)
(* the file system's own tables.                                             *)
OwnBlocks ==
  Fine /\ fs.live =>
    /\ IsInjective(fs.ino.map)
    /\ Range(fs.ino.map) \cap PointerBlocks(fs, fs.ino) = {}
    /\ Named(fs, fs.ino) \subseteq fs.bits \ BitsOf(Meta)

(* The counters of free blocks on the disk, of the file system and of each   *)
(* group, agree with the bitmap.                                             *)
CountsAgree ==
  Fine => /\ fs.saved.sfree = Cardinality(AllBits \ fs.bits)
          /\ \A g \in 0 .. NumGroups - 1 : fs.saved.bgfree[g] = Cardinality(Group(g) \ fs.bits)

(* A crash after any single disk write of an operation that makes the file   *)
(* longer finds an inode that names only blocks marked as used.              *)
CrashKeeps == Fine => fs.calm

-----------------------------------------------------------------------------
(* What the source says of itself and the code does not do.                  *)

(* "we can write past the end. Just resize" (inode.c:909): a write uses no   *)
(* entry past the end of the block map.                                      *)
WritePastEnd == fs.cpu # "wild"

(* "No more inodes or no more free blocks" (inode.c:168): without free       *)
(* blocks nothing is written to block 0, where the superblock is.            *)
FullIsSafe == fs.cpu # "block0"

(* "Check if there are any free blocks" (block.c:25): block 0 stands for     *)
(* "none" only when every block is in use.                                   *)
FullMeansNone == fs.cpu = "block0" => Blocks \subseteq fs.bits

(* "read the entire block map (direct, indirect, doubly, and triply)"        *)
(* (ext2.h:363): the map read back is the map written.                       *)
WholeMap == Fine /\ fs.live => AgreesWithDisk

(* "free all the inode data blocks" (inode.c:347): when the file is gone,    *)
(* its blocks are free.                                                      *)
AllFreed == Fine /\ ~fs.live => fs.bits \cap BitsOf(Blocks) = BitsOf(Meta)

(* "are we done?" (inode.c:579): a map that fits the doubly indirect block   *)
(* has no triply indirect one.                                               *)
NoTriple == Fine /\ fs.ino.blocks <= FromTriple => fs.ino.i_block[Triple] = 0

(* "Allocate a new block of data on the disk and return its index"           *)
(* (block.c:19): the block was free, so it is none of the tables.            *)
FreshBlocks == Fine /\ fs.live => Range(fs.ino.map) \cap Meta = {}
=============================================================================
