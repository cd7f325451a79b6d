---------------------------------- MODULE Ata ----------------------------------
(***************************************************************************)
(* The IDE driver, kernel/src/ata.c: the partition table, the bounds of a  *)
(* transfer, the registers a sector's number is put into, and the loop of  *)
(* a programmed transfer against a drive that may be slow and may fail.    *)
(*                                                                         *)
(* A register holds ByteBits bits, so that the numbers are small; the      *)
(* device register has four bits of the sector's number, as the real one.  *)
(***************************************************************************)
EXTENDS Integers, Sequences

CONSTANTS
  ByteBits, DriveSize,
  Sectors,      \* the sector numbers, relative to a partition, that are tried
  Counts,       \* the numbers of sectors that are tried
  Entry,        \* the one partition of the table: [start, len]
  MaxPolls      \* bound: times the drive says that it is busy

AtaAssumption ==
  /\ {ByteBits, DriveSize} \subseteq Nat \ {0}
  /\ Sectors \subseteq Nat /\ Counts \subseteq Nat
  /\ Entry.start + Entry.len <= DriveSize

Byte == 2 ^ ByteBits
VARIABLES
  part,     \* ide_device.part: [valid, lba_start, lba_end] of 0 (the drive) and 1
  req,      \* the transfer: [op, p, lba, count]
  pc,       \* "boot", "absent", "idle", "check", "transfer", "returned"
  count,    \* ata_pio_transfer's count, one register wide
  drive,    \* the drive: [lba, left, state]
  moved,    \* history: the sectors moved, by their number on the drive
  polls,    \* bound
  ret
vars == <<part, req, pc, count, drive, moved, polls, ret>>

NoReq == [op |-> "none", p |-> 0, lba |-> 0, count |-> 0]
Unset == [valid |-> FALSE, lba_start |-> 0, lba_end |-> 0]

-----------------------------------------------------------------------------
Init ==
  /\ part = [p \in {0, 1} |-> Unset] /\ req = NoReq /\ pc = "boot" /\ count = 0
  /\ drive = [lba |-> 0, left |-> 0, state |-> "idle"] /\ moved = <<>> /\ polls = 0 /\ ret = 0

(* ata_identify_device: -1 for no drive, for one that stays busy until the  *)
(* timeout, and for one that is neither a disk nor a packet device.         *)
ata_identify_device(kind) == IF kind \in {"ata", "atapi"} THEN kind ELSE "-1"

(* ide_initialize for one drive.  The boot sector of a disk may be invalid, *)
(* or impossible to read.                                                   *)
ide_initialize(kind, mbr) ==
  LET all == [valid |-> TRUE, lba_start |-> 0, lba_end |-> DriveSize]
      one == [valid |-> TRUE, lba_start |-> Entry.start, lba_end |-> Entry.start + Entry.len]
      type == ata_identify_device(kind)
  IN /\ pc = "boot" /\ pc' = (IF type = "-1" THEN "absent" ELSE "idle")
     /\ part' = [p \in {0, 1} |->
          IF type = "-1" \/ (type = "ata" /\ mbr = "invalid") THEN Unset
          ELSE IF p = 0 THEN all ELSE IF type = "ata" /\ mbr = "valid" THEN one ELSE Unset]
     /\ UNCHANGED <<req, count, drive, moved, polls, ret>>

(* ide_block_exist. *)
Exists(p) == part[p].valid

(* The test in ide_block_read and ide_block_write.  The sector's number is  *)
(* relative to the partition, lba_end is not.                               *)
InBounds(p, lba, n) == ~(lba + n >= part[p].lba_end)

(* The registers ata_pio_transfer writes, and the sector the drive finds.   *)
HDDEVSEL(lba) == (lba \div 2 ^ (3 * ByteBits + 3)) % 16

LbaRegs(lba) == <<lba % Byte, (lba \div Byte) % Byte, (lba \div (Byte * Byte)) % Byte>>
Seen(regs, sel) == regs[1] + Byte * (regs[2] + Byte * (regs[3] + Byte * sel))

(* ide_block_read or ide_block_write as block.c calls it, and the command:  *)
(* zero in the count's register means all of its values.                    *)
Command(op, p, lba, n) ==
  /\ pc = "idle" /\ Exists(p)
  /\ req' = [op |-> op, p |-> p, lba |-> lba, count |-> n] /\ moved' = <<>> /\ polls' = 0
  /\ \/ /\ ~InBounds(p, lba, n) /\ pc' = "returned" /\ ret' = -1 /\ UNCHANGED <<count, drive>>
     \/ /\ InBounds(p, lba, n) /\ pc' = "check" /\ ret' = 0 /\ count' = n % Byte
        /\ LET at == lba + part[p].lba_start
           IN drive' = [lba |-> Seen(LbaRegs(at), HDDEVSEL(at)),
                        left |-> IF n % Byte = 0 THEN Byte ELSE n % Byte, state |-> "busy"]
  /\ UNCHANGED part

(* The drive, as the driver sees it: busy for a while, then asking for the  *)
(* next sector or done; or it stops with an error.                          *)
DriveReady ==
  /\ drive.state = "busy"
  /\ drive' = [drive EXCEPT !.state = IF drive.left > 0 THEN "drq" ELSE "idle"]
  /\ UNCHANGED <<part, req, pc, count, moved, polls, ret>>
DriveFails ==
  /\ drive.state = "busy" /\ drive' = [drive EXCEPT !.state = "error"]
  /\ UNCHANGED <<part, req, pc, count, moved, polls, ret>>

(* Variant: only an error ends the transfer here. *)
CheckError ==
  /\ pc = "check"
  /\ \/ drive.state = "error" /\ pc' = "returned" /\ ret' = -1 /\ UNCHANGED polls
     \/ drive.state = "busy" /\ polls < MaxPolls /\ polls' = polls + 1 /\ UNCHANGED <<pc, ret>>
     \/ drive.state = "drq" /\ pc' = "transfer" /\ UNCHANGED <<polls, ret>>
     \/ drive.state = "idle" /\ UNCHANGED <<pc, polls, ret>>
  /\ UNCHANGED <<part, req, count, drive, moved>>

(* Check_Status. *)
Check ==
  /\ pc = "check"
  /\ \/ /\ drive.state \in {"idle", "error"} /\ pc' = "returned"
        /\ ret' = (IF req.op = "read" THEN -1 ELSE 0) /\ UNCHANGED polls
     \/ /\ drive.state = "busy" /\ polls < MaxPolls /\ polls' = polls + 1 /\ UNCHANGED <<pc, ret>>
     \/ /\ drive.state = "drq" /\ pc' = "transfer" /\ UNCHANGED <<polls, ret>>
  /\ UNCHANGED <<part, req, count, drive, moved>>

(* Transfer_Data: a sector is moved; a read is over when all have been.     *)
Transfer ==
  /\ pc = "transfer" /\ moved' = Append(moved, drive.lba) /\ count' = (count - 1) % Byte
  /\ drive' = [lba |-> drive.lba + 1, left |-> drive.left - 1, state |-> "busy"]
  /\ \/ count' = 0 /\ req.op = "read" /\ pc' = "returned" /\ ret' = 0
     \/ ~(count' = 0 /\ req.op = "read") /\ pc' = "check" /\ UNCHANGED ret
  /\ UNCHANGED <<part, req, polls>>

Return ==
  /\ pc = "returned" /\ pc' = "idle" /\ req' = NoReq /\ moved' = <<>> /\ polls' = 0
  /\ ret' = 0 /\ count' = 0 /\ drive' = [lba |-> 0, left |-> 0, state |-> "idle"]
  /\ UNCHANGED part

Nobody == pc \in {"idle", "absent"} /\ ~part[0].valid /\ UNCHANGED vars

Next ==
  \/ \E kind \in {"ata", "atapi", "none", "stuck", "other"},
        mbr \in {"valid", "invalid", "unreadable"} : ide_initialize(kind, mbr)
  \/ \E op \in {"read", "write"}, p \in {0, 1}, lba \in Sectors, n \in Counts : Command(op, p, lba, n)
  \/ DriveReady \/ DriveFails \/ Check \/ Transfer \/ Return \/ Nobody
(* The drive is never busy for ever, and the driver polls on. *)
Spec == Init /\ [][Next]_vars /\ WF_vars(DriveReady) /\ WF_vars(Check) /\ WF_vars(Transfer)

-----------------------------------------------------------------------------
Wanted == [i \in 1 .. req.count |-> part[req.p].lba_start + req.lba + i - 1]
Small == req.count < Byte /\ part[req.p].lba_start + req.lba + req.count <= Byte ^ 3

TypeOK == count \in 0 .. Byte - 1 /\ drive.left >= 0 /\ polls \in 0 .. MaxPolls

(* A transfer that succeeds has moved the sectors asked for, in order, and  *)
(* nothing else has been touched on the way: for reads, and for writes that *)
(* the drive did not give up, of sectors whose numbers fit three registers. *)
SectorsAreThose ==
  req.op # "none" /\ Small =>
    /\ \A i \in DOMAIN moved : i <= req.count /\ moved[i] = Wanted[i]
    /\ (pc = "returned" /\ ret = 0 /\ drive.state # "error") => moved = Wanted

(* A read that has returned without an error has moved every sector, even   *)
(* if the drive failed while it ran.                                        *)
FailedReadSays == pc = "returned" /\ req.op = "read" /\ Small /\ ret = 0 => moved = Wanted

(* The loop ends: the drive never waits for the driver to move a sector it  *)
(* does not count on, nor the driver for one the drive does not have.       *)
TransferEnds == (pc = "check") ~> (pc = "returned")

-----------------------------------------------------------------------------
(* What the source says of itself and the code does not do.                  *)

(* block.c:400 on writing: "The number of bytes successfully written or an  *)
(* error value".  When the drive stops with an error, zero is returned, and *)
(* block_write reports all bytes.                                           *)
FailedWriteSays == pc = "returned" /\ req.op = "write" /\ Small /\ ret = 0 => moved = Wanted

(* ata.h: lba_end is the "end of partition on disk (in sectors)".           *)
InPartition ==
  pc = "returned" /\ Small => \A i \in DOMAIN moved : moved[i] < part[req.p].lba_end

(* ata.c:477: the device register has "the last 4 bits of the LBA".         *)
LastBits ==
  req.op # "none" /\ req.count < Byte => \A i \in DOMAIN moved : i <= req.count /\ moved[i] = Wanted[i]

(* block.c:142 passes the number of sectors on, and takes them for read:    *)
(* "The number of bytes successfully read or an error value", block.c:376.  *)
AllSectors == pc = "returned" /\ req.op = "read" /\ ret = 0 => Len(moved) = req.count

(* ata.c:239: ""partition 0" is the entire device".  A drive without a      *)
(* partition table is as good as absent.                                    *)
WholeDrive == pc \notin {"boot", "absent"} => part[0].valid
=============================================================================
