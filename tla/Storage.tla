-------------------------------- MODULE Storage --------------------------------
(***************************************************************************)
(* The way of a file through the kernel, from its name to the disk: the    *)
(* name space (Vfs), descriptors (Files), ext2's files (Ext2File) and      *)
(* directories (Ext2Dir), block devices (Block) and the IDE driver (Ata).  *)
(*                                                                         *)
(* The components share no variable: what lies below one is part of its    *)
(* own state.  A behaviour therefore moves one of them, chosen at the      *)
(* start; an interleaving of two would be, for each, one of these          *)
(* behaviours with steps between that leave it alone.                      *)
(***************************************************************************)
EXTENDS Integers, Sequences, TLC

VARIABLES
  part,    \* the component that moves
  c, points, cwd, file, fd, wild, steps,                        \* Vfs
  here, vect, openfile, chrdev, users, size, result, calls,     \* Files
  fs, shadow, writes,                                           \* Ext2File
  dir, bits, dinode, mem, held, asked, reader, dircpu,          \* Ext2Dir
  vfs_dev, disk, block, transfer, before, blockret, transfers,  \* Block
  partition, req, pc, count, drive, moved, polls, ideret        \* Ata

vfsVars == <<c, points, cwd, file, fd, wild, steps>>
filesVars == <<here, vect, openfile, chrdev, users, size, result, calls>>
fileVars == <<fs, shadow, writes>>
dirVars == <<dir, bits, dinode, mem, held, asked, reader, dircpu>>
blockVars == <<vfs_dev, disk, block, transfer, before, blockret, transfers>>
ataVars == <<partition, req, pc, count, drive, moved, polls, ideret>>
vars == <<part, vfsVars, filesVars, fileVars, dirVars, blockVars, ataVars>>

-----------------------------------------------------------------------------
(* The name space as the kernel boots: initfs on "/", an ext2 disk over it,  *)
(* and a second disk whose device node is on the first.                      *)
Entries(n, up, more) == more @@ ("." :> n) @@ (".." :> up)

Disks ==
  "ini" :> (0 :> ("hda" :> 1) @@ 1 :> <<>>)
  @@ "hda" :> (0 :> Entries(0, 0, "a" :> 1 @@ "mnt" :> 2 @@ "hdb" :> 3)
               @@ 1 :> Entries(1, 0, "a" :> 4)
               @@ 2 :> Entries(2, 0, <<>>)
               @@ 3 :> <<>>
               @@ 4 :> Entries(4, 1, <<>>))
  @@ "hdb" :> (0 :> Entries(0, 0, "a" :> 1 @@ "bad" :> 2) @@ 1 :> Entries(1, 0, <<>>) @@ 2 :> <<>>)
Nodes == <<"ini", 1>> :> "hda" @@ <<"hda", 3>> :> "hdb"

Abs(names) == [abs |-> TRUE, names |-> names]
Rel(names) == [abs |-> FALSE, names |-> names]
Directories == {Abs(<<"mnt">>), Abs(<<"mnt", "">>), Rel(<<"..">>)}
Devices == {Abs(<<"hdb">>), Abs(<<"nodev">>), Rel(<<"..">>)}
Names == Directories \cup Devices \cup
  {Abs(<<"">>), Rel(<<"a">>), Rel(<<".", "a", "a">>), Rel(<<"..", "a">>),
   Rel(<<"a", ".">>), Rel(<<"a", "..">>), Abs(<<"mnt", "bad">>), Abs(<<"mnt", "a">>)}

V == INSTANCE Vfs WITH
  Tasks <- {"t1", "t2"}, Disk <- Disks, Broken <- {<<"hdb", 2>>}, Device <- Nodes,
  Boot <- <<"ini", "hda">>, Queries <- Names, Targets <- Directories, Sources <- Devices,
  MaxSteps <- 3, cpu <- wild

F == INSTANCE Files WITH
  Tasks <- {"t1", "t2"}, NFds <- 2, MaxSize <- 2, MaxSteps <- 4,
  file <- openfile, ret <- result, steps <- calls

(* Blocks of two words, one direct pointer, two groups of blocks, and more   *)
(* blocks than three writes fill.                                            *)
E == INSTANCE Ext2File WITH
  W <- 2, NDirect <- 1, NumBlocks <- 26, BlocksPerGroup <- 13, FirstData <- 0,
  Meta <- {0, 1, 13}, Offsets <- {0, 1, 2, 3, 5, 6}, Lens <- {0, 1, 3, 5}, MaxWrites <- 3

(* A directory whose blocks have room for two names and a half.  No name     *)
(* fills its entry to the last byte, and the direct pointers suffice.        *)
D == INSTANCE Ext2Dir WITH
  Names <- {"a", "short", "longer"}, NameLen <- [a |-> 1, short |-> 5, longer |-> 6],
  BlockSize <- 32, NDirect <- 12,
  NumInodes <- 4, Reserved <- {1, 2},
  Modes <- [a |-> {"m1"}, short |-> {"m2"}, longer |-> {"m1"}], cpu <- dircpu

(* One transfer at a time: nothing keeps two apart. *)
B == INSTANCE Block WITH
  Tasks <- {"t1"}, blksz <- 2, NumBlocks <- 4, MaxCalls <- 2,
  call <- transfer, ret <- blockret, calls <- transfers

(* Registers of two bits: a count of four sectors does not fit, and numbers  *)
(* from 64 on need the bits of the device register.                          *)
A == INSTANCE Ata WITH
  ByteBits <- 2, DriveSize <- 200, Sectors <- {0, 1, 2, 3, 5, 6, 62, 70, 130},
  Counts <- 1 .. 5, Entry <- [start |-> 3, len |-> 4], MaxPolls <- 2,
  part <- partition, ret <- ideret

ASSUME StorageAssumption ==
  V!VfsAssumption /\ F!FilesAssumption /\ E!Geometry /\ A!AtaAssumption

Init ==
  /\ part \in {"vfs", "files", "file", "dir", "block", "ata"}
  /\ V!Init /\ F!Init /\ E!Init /\ D!Init /\ B!Init /\ A!Init

Next ==
  \/ /\ part = "vfs" /\ V!Next
     /\ UNCHANGED <<part, filesVars, fileVars, dirVars, blockVars, ataVars>>
  \/ /\ part = "files" /\ F!Next
     /\ UNCHANGED <<part, vfsVars, fileVars, dirVars, blockVars, ataVars>>
  \/ /\ part = "file" /\ E!Next
     /\ UNCHANGED <<part, vfsVars, filesVars, dirVars, blockVars, ataVars>>
  \/ /\ part = "dir" /\ D!Next
     /\ UNCHANGED <<part, vfsVars, filesVars, fileVars, blockVars, ataVars>>
  \/ /\ part = "block" /\ B!Next
     /\ UNCHANGED <<part, vfsVars, filesVars, fileVars, dirVars, ataVars>>
  \/ /\ part = "ata" /\ A!Next
     /\ UNCHANGED <<part, vfsVars, filesVars, fileVars, dirVars, blockVars>>

(* The drive is never busy for ever, and the driver polls on. *)
Fairness ==
  /\ WF_ataVars(part = "ata" /\ A!DriveReady)
  /\ WF_ataVars(part = "ata" /\ A!Check)
  /\ WF_ataVars(part = "ata" /\ A!Transfer)

Spec == Init /\ [][Next]_vars /\ Fairness

-----------------------------------------------------------------------------
(* The properties. Each conjunct is explained where its component states it. *)

(* Whatever holds an object of the file layer is counted by it, through      *)
(* every order of lookups, mounts, forks and closes, so that path_put,       *)
(* d_free, sys_umount and file_close free nothing in use and leave nothing   *)
(* behind: entries, superblocks and mounts in Vfs; f_refs, one for each      *)
(* descriptor of every task, and one close told to the driver for each open  *)
(* in Files.                                                                 *)
ReferencesCounted ==
  /\ part = "vfs" => /\ V!TypeOK
                     /\ V!HeldIsCounted
                     /\ V!InodesOfEntries
                     /\ V!MountOfEntry
  /\ part = "files" => /\ F!TypeOK
                       /\ F!RefsAreDescriptors
                       /\ F!DriverBalanced

(* path_lookup leads where the disks and the mounts say, whatever is cached  *)
(* in memory and however mounts and unmounts came between, and the name      *)
(* sys_getcwd gives leads back to the directory it was asked for.            *)
NamesLeadThere == part = "vfs" => V!WalkIsRight /\ V!CwdLeadsBack

(* What is read is what was written, at each of the three layers: the bytes  *)
(* of a file in e2_inode_io, also after the inode is read back from the      *)
(* disk; the bytes of a device in block_read and block_write, however the    *)
(* range lies across blocks and whenever the driver fails; the sectors in    *)
(* ata_pio_transfer, a short transfer being reported as an error.            *)
DataIsRight ==
  /\ part = "file" => E!ReadIsWritten /\ E!Durable
  /\ part = "block" => B!TypeOK /\ B!ReadIsRight /\ B!WriteIsRight
  /\ part = "ata" => A!TypeOK /\ A!SectorsAreThose /\ A!FailedReadSays

(* The structures of ext2 are sound after every operation: blocks of data    *)
(* and of the map have one owner and are marked, the counters agree with the *)
(* bitmap, the entries of a directory cover its block, a listing read while  *)
(* names come and go has each name that stays exactly once, and an inode     *)
(* given out again is a fresh one. A crash after any disk write of an        *)
(* operation that makes a file longer finds no inode that names a free       *)
(* block.                                                                    *)
DiskIsSound ==
  /\ part = "file" => /\ E!TypeOK
                      /\ E!OwnBlocks
                      /\ E!CountsAgree
                      /\ E!CrashKeeps
  /\ part = "dir" => /\ D!TypeOK
                     /\ D!Tiles
                     /\ D!ListedOnce
                     /\ D!ModeIsAsked

(* Ext2Dir implements Directory: a name leads to its file from when it is    *)
(* made until it is removed, and a file is freed when nothing leads to it.   *)
ImplementsDirectory == D!ImplementsDirectory

(* A write with O_APPEND goes behind the bytes that are there when it is     *)
(* made, whoever else moved the end of the file since the open (file_write), *)
(* and the transfer loop of the drive ends, whatever the drive answers       *)
(* (ata_pio_transfer).                                                       *)
WritesLand == F!AppendAppends /\ A!TransferEnds
=============================================================================
