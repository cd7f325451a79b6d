--------------------------------- MODULE Block ---------------------------------
(***************************************************************************)
(* Block devices, kernel/src/block.c: reads and writes of any bytes over a *)
(* driver that reads and writes whole blocks, with one bounce buffer for   *)
(* each device.  Every call of the driver is a step of its own and may     *)
(* fail; kernel tasks run with interrupts on and can be switched between   *)
(* the steps.                                                              *)
(***************************************************************************)
EXTENDS Integers, Sequences, FiniteSetsExt

CONSTANTS
  Tasks,
  blksz, NumBlocks,
  MaxCalls     \* bound: transfers

Size == blksz * NumBlocks
Byte == {0, 1}

VARIABLES
  vfs_dev,   \* the device is registered
  disk,      \* its bytes
  block,     \* dev->block, the bounce buffer
  call,      \* the transfer each task is in
  before,    \* history: the disk when the transfer began
  ret,       \* what the last call that returned gave: [what, value]
  calls      \* bound
vars == <<vfs_dev, disk, block, call, before, ret, calls>>

Idle == [op |-> "none", off |-> 0, count |-> 0, pos |-> 0, pc |-> "idle", buffer |-> <<>>]

-----------------------------------------------------------------------------
(* The piece of the transfer that comes next.  In the middle of a block, or  *)
(* with less than a block to go, it goes through the bounce buffer.          *)
At(c) == c.off + c.pos
Remaining(c) == c.count - c.pos
Whole(c) == At(c) % blksz = 0 /\ Remaining(c) >= blksz

Piece(c) ==
  IF Whole(c) THEN (Remaining(c) \div blksz) * blksz
  ELSE Min({blksz - (At(c) % blksz), Remaining(c)})

Lba(c) == At(c) \div blksz

Advance(c) ==
  [c EXCEPT !.pos = @ + Piece(c), !.pc = IF Remaining(c) = Piece(c) THEN "done" ELSE "next"]

(* Variant: only the bytes of the transfer, the rest of the block cleared. *)
FillClear(c) ==
  [i \in 0 .. blksz - 1 |->
     IF i \in (At(c) % blksz) .. ((At(c) % blksz) + Piece(c) - 1)
     THEN c.buffer[c.pos + i - (At(c) % blksz) + 1] ELSE 0]

(* memcpy into the bounce buffer. *)
Fill(c) ==
  [i \in 0 .. blksz - 1 |->
     IF i \in (At(c) % blksz) .. ((At(c) % blksz) + Piece(c) - 1)
     THEN c.buffer[c.pos + i - (At(c) % blksz) + 1] ELSE block[i]]

-----------------------------------------------------------------------------
Init ==
  /\ vfs_dev = FALSE
  /\ disk = [i \in 0 .. Size - 1 |-> IF i % 3 = 0 THEN 1 ELSE 0]
  /\ block = [i \in 0 .. blksz - 1 |-> 0]
  /\ call = [t \in Tasks |-> Idle] /\ before = [t \in Tasks |-> disk]
  /\ ret = [what |-> "none", value |-> 0] /\ calls = 0

Returns(w, v) == ret' = [what |-> w, value |-> v]
Quiet == \A t \in Tasks : call[t] = Idle

(* register_block_device, and the driver's attach may fail. *)
register_block_device(attach) ==
  /\ Quiet
  /\ \/ vfs_dev /\ Returns("register", -1) /\ UNCHANGED vfs_dev
     \/ ~vfs_dev /\ vfs_dev' = attach /\ Returns("register", IF attach THEN 0 ELSE -1)
  /\ UNCHANGED <<disk, block, call, before, calls>>

(* unregister_block_device: the entry is cleared, block_detach does not find *)
(* the device, and the entry is put back.                                    *)
unregister_block_device ==
  /\ Quiet
  /\ \/ ~vfs_dev /\ Returns("unregister", 0)
     \/ vfs_dev /\ Returns("unregister", -1)
  /\ UNCHANGED <<vfs_dev, disk, block, call, before, calls>>

(* Nothing to do; a read in the middle of a block looks at the block first. *)
Nothing(op, off, buffer) == buffer = <<>> /\ (op = "write" \/ off % blksz = 0)

(* block_read and block_write up to the first call of the driver. *)
Begin(t, op, off, buffer) ==
  /\ call[t] = Idle /\ calls < MaxCalls /\ calls' = calls + 1
  /\ \/ ~vfs_dev /\ Returns(op, -1) /\ UNCHANGED <<call, before>>
     \/ vfs_dev /\ Nothing(op, off, buffer) /\ Returns(op, 0) /\ UNCHANGED <<call, before>>
     \/ /\ vfs_dev /\ ~Nothing(op, off, buffer) /\ before' = [before EXCEPT ![t] = disk]
        /\ call' = [call EXCEPT ![t] = [op |-> op, off |-> off, count |-> Len(buffer),
                                        pos |-> 0, pc |-> "next", buffer |-> buffer]]
        /\ UNCHANGED ret
  /\ UNCHANGED <<vfs_dev, disk, block>>

(* The driver reads or writes the whole blocks of a transfer. *)
Direct(t) ==
  LET c == call[t] IN
  /\ c.pc = "next" /\ Whole(c)
  /\ \/ /\ c.op = "read"
        /\ call' = [call EXCEPT ![t] = [Advance(c) EXCEPT !.buffer =
             [i \in 1 .. c.count |-> IF i \in c.pos + 1 .. c.pos + Piece(c)
                                     THEN disk[c.off + i - 1] ELSE @[i]]]]
        /\ UNCHANGED disk
     \/ /\ c.op = "write" /\ call' = [call EXCEPT ![t] = Advance(c)]
        /\ disk' = [i \in 0 .. Size - 1 |-> IF i \in At(c) .. At(c) + Piece(c) - 1
                                            THEN c.buffer[i - c.off + 1] ELSE disk[i]]
  /\ UNCHANGED <<vfs_dev, block, before, ret, calls>>

(* The driver reads one block into the bounce buffer. *)
Fetch(t) ==
  LET c == call[t] IN
  /\ c.pc = "next" /\ ~Whole(c)
  /\ block' = [i \in 0 .. blksz - 1 |-> disk[Lba(c) * blksz + i]]
  /\ call' = [call EXCEPT ![t].pc = "fetched"]
  /\ UNCHANGED <<vfs_dev, disk, before, ret, calls>>

(* memcpy out of the bounce buffer, or into it. *)
Copy(t) ==
  LET c == call[t] IN
  /\ c.pc = "fetched"
  /\ \/ /\ c.op = "read"
        /\ call' = [call EXCEPT ![t] = [Advance(c) EXCEPT !.buffer =
             [i \in 1 .. c.count |-> IF i \in c.pos + 1 .. c.pos + Piece(c)
                                     THEN block[(c.off + i - 1) % blksz] ELSE @[i]]]]
        /\ UNCHANGED block
     \/ /\ c.op = "write" /\ block' = Fill(c)
        /\ call' = [call EXCEPT ![t].pc = "merged"]
  /\ UNCHANGED <<vfs_dev, disk, before, ret, calls>>

(* The driver writes the bounce buffer. *)
WriteBack(t) ==
  LET c == call[t] IN
  /\ c.pc = "merged" /\ call' = [call EXCEPT ![t] = Advance(c)]
  /\ disk' = [i \in 0 .. Size - 1 |-> IF i \div blksz = Lba(c) THEN block[i % blksz] ELSE disk[i]]
  /\ UNCHANGED <<vfs_dev, block, before, ret, calls>>

(* A call of the driver fails: the transfer ends there. *)
Fails(t) ==
  /\ call[t].pc \in {"next", "merged"}
  /\ call' = [call EXCEPT ![t].pc = "failed"]
  /\ UNCHANGED <<vfs_dev, disk, block, before, ret, calls>>

Ends(t) ==
  /\ call[t].pc \in {"done", "failed"}
  /\ Returns(call[t].op, IF call[t].pc = "done" THEN call[t].count ELSE -1)
  /\ call' = [call EXCEPT ![t] = Idle]
  /\ UNCHANGED <<vfs_dev, disk, block, before, calls>>

Next ==
  \/ \E attach \in BOOLEAN : register_block_device(attach)
  \/ unregister_block_device
  \/ \E t \in Tasks :
       \/ \E op \in {"read", "write"}, off \in 0 .. Size - 1 : \E n \in 0 .. Size - off :
            Begin(t, op, off, [i \in 1 .. n |-> (off + i) % 2])
       \/ Direct(t) \/ Fetch(t) \/ Copy(t) \/ WriteBack(t) \/ Fails(t) \/ Ends(t)
Spec == Init /\ [][Next]_vars

-----------------------------------------------------------------------------
TypeOK ==
  /\ vfs_dev \in BOOLEAN /\ disk \in [0 .. Size - 1 -> Byte] /\ block \in [0 .. blksz - 1 -> Byte]
  /\ \A t \in Tasks : call[t].pos <= call[t].count /\ At(call[t]) <= Size

(* A read that returns has the bytes that are on the disk, however the       *)
(* range lies across the blocks.                                             *)
ReadIsRight ==
  \A t \in Tasks : call[t].op = "read" /\ call[t].pc = "done" =>
    \A i \in 1 .. call[t].count : call[t].buffer[i] = before[t][call[t].off + i - 1]

(* A write changes the bytes of its range and nothing else: at every moment, *)
(* and after the driver has failed, the disk is the old one but for a        *)
(* beginning of the range; in the end the range holds the buffer.            *)
WriteIsRight ==
  \A t \in Tasks : call[t].op = "write" =>
    \A i \in 0 .. Size - 1 :
      disk[i] = IF i \in call[t].off .. At(call[t]) - 1
                THEN call[t].buffer[i - call[t].off + 1] ELSE before[t][i]

-----------------------------------------------------------------------------
(* What the source says of itself and the code does not do.                  *)

(* block.h: the lock is "Data lock, should be locked during transfers".  It *)
(* is not, and two transfers use the one bounce buffer: a task reads what   *)
(* another has fetched.                                                     *)
TransfersApart ==
  \A t \in Tasks : call[t].op = "read" /\ call[t].pc = "done" /\ disk = before[t] =>
    \A i \in 1 .. call[t].count : call[t].buffer[i] = disk[call[t].off + i - 1]

(* block.h on unregistering: it "removes the major device from memory".     *)
UnregisterRemoves == ret.what = "unregister" => ~vfs_dev
=============================================================================
