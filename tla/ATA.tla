-------------------------------- MODULE ATA --------------------------------
(***************************************************************************)
(* The disk driver of drivers/ata.c and the drives on its two buses.       *)
(* Everything is polled: a command is written, then the status register is *)
(* read until its bits say that the drive is ready, has data, or failed.   *)
(* A status is the set of its bits; the data of a sector is one value.     *)
(*                                                                         *)
(* A drive is busy after a command and answers on its own account.  One    *)
(* that takes a sector to write stores it, or fails, afterwards, and takes *)
(* no other command before that.                                           *)
(***************************************************************************)
EXTENDS Integers, Sequences, FiniteSets, SequencesExt

CONSTANTS
    Boards,         \* what may be attached: functions 0 .. 3 -> Kinds
    DiskSize,       \* sectors of a drive
    LbaSpan,        \* sector numbers that 28 bits can hold
    Lbas, Counts,   \* arguments of the callers
    NoTransfer      \* no transfer has been made

Kinds == {"disk", "packet", "failing", "absent", "floating"}

ASSUME ATAAssumption ==
    /\ Boards \subseteq [0 .. 3 -> Kinds]
    /\ DiskSize \in Nat /\ LbaSpan \in Nat \ {0} /\ DiskSize <= LbaSpan
    /\ Lbas \subseteq Nat /\ Counts \subseteq Nat

VARIABLES
    board,          \* external: the drives
    disk,           \* external: the sectors of a drive, old or written
    pending,        \* external: the sector the drive has yet to store
    status,         \* external: the status register of the selected drive
    ata_pc,         \* "start", "select", "probe", "data", "ready", "sector", "returned"
    idx,            \* the drive that ata_init looks at
    exists,         \* drives[i].exists
    active_drive_count,
    xfer            \* the transfer: [op, lba, count, i, buf, ret] and
                    \* (history) the sectors before it

external == <<board, disk, pending>>
probing == <<ata_pc, idx, exists, active_drive_count>>
ata_vars == <<external, status, probing, xfer>>

Old(s) == <<"old", s>>
New(k) == <<"new", k>>

ata_init_state ==
    /\ board \in Boards
    /\ disk = [s \in 0 .. DiskSize - 1 |-> Old(s)]
    /\ pending = <<>>
    /\ status = {}
    /\ ata_pc = "start"
    /\ idx = 0
    /\ exists = {}
    /\ active_drive_count = 0
    /\ xfer = NoTransfer

(***************************************************************************)
(* ata_identify: select the drive, send the command, read the status.      *)
(***************************************************************************)
NextDrive ==
    /\ idx' = idx + 1
    /\ ata_pc' = IF idx = 3 THEN "ready" ELSE "select"

ata_select ==
    /\ ata_pc = "select"
    /\ status' = CASE board[idx] = "absent" -> {}
                   [] board[idx] = "floating" -> {"BSY", "DRQ", "ERR"}
                   [] OTHER -> {"BSY"}
    /\ IF board[idx] = "absent"
       THEN NextDrive
       ELSE ata_pc' = "probe" /\ UNCHANGED idx
    /\ UNCHANGED <<external, exists, active_drive_count, xfer>>

\* mid != 0 || high != 0
NotDisk == board[idx] = "packet"

\* The drive is no longer busy.
ata_signature ==
    /\ ata_pc = "probe"
    /\ "BSY" \notin status
    /\ IF NotDisk THEN NextDrive ELSE ata_pc' = "data" /\ UNCHANGED idx
    /\ UNCHANGED <<external, status, exists, active_drive_count, xfer>>

\* Mutant: the polling loops wait for data only.
SettledByData == "DRQ" \in status

Settled == "DRQ" \in status \/ "ERR" \in status

IdentifyError == "ERR" \in status

\* Data or an error: the drive exists if it sends its 256 words.
ata_found ==
    /\ ata_pc = "data"
    /\ Settled
    /\ IF IdentifyError
       THEN UNCHANGED <<exists, active_drive_count>>
       ELSE /\ exists' = exists \cup {idx}
            /\ active_drive_count' = active_drive_count + 1
    /\ NextDrive
    /\ status' = {}
    /\ UNCHANGED <<external, xfer>>

\* ata_init: counters to zero, then the four drives in turn.
ata_init ==
    /\ ata_pc = "start"
    /\ ata_pc' = "select"
    /\ idx' = 0
    /\ exists' = {} /\ active_drive_count' = 0
    /\ UNCHANGED <<external, status, xfer>>

ata_identify == ata_select \/ ata_signature \/ ata_found

DriveIdentifies ==
    /\ ata_pc \in {"probe", "data"}
    /\ \/ /\ status = {"BSY"}
          /\ status' = IF board[idx] = "failing" THEN {"ERR"} ELSE {"DRDY"}
       \/ /\ status = {"DRDY"} /\ board[idx] = "disk"
          /\ status' = {"DRDY", "DRQ"}
    /\ UNCHANGED <<external, probing, xfer>>

(***************************************************************************)
(* ata_read_sectors and ata_write_sectors, called for a drive that exists. *)
(***************************************************************************)
ata_get_drive == exists # {}

ata_transfer(op, lba, count) ==
    /\ ata_pc = "ready"
    /\ ata_get_drive
    /\ pending = <<>>
    /\ IF count = 0
       THEN ata_pc' = "returned" /\ UNCHANGED status
       ELSE ata_pc' = "sector" /\ status' = {"BSY"}
    /\ xfer' = [op |-> op, lba |-> lba, count |-> count, i |-> 0,
                buf |-> <<>>, ret |-> 0, before |-> disk]
    /\ UNCHANGED <<external, idx, exists, active_drive_count>>

Sector(i) == (xfer.lba % LbaSpan) + i

\* The drive stores what it was given, if there is something to store.
Stores ==
    /\ disk' = IF pending = <<>> THEN disk
               ELSE [disk EXCEPT ![pending[1]] = pending[2]]
    /\ pending' = <<>>

\* The drive is ready for the next sector or reports an error; beyond its
\* last sector it always does.
DriveAnswers ==
    /\ ata_pc = "sector"
    /\ status = {"BSY"}
    /\ \/ Stores /\ Sector(xfer.i) < DiskSize /\ status' = {"DRDY", "DRQ"}
       \/ pending' = <<>> /\ status' = {"ERR"} /\ UNCHANGED disk
    /\ UNCHANGED <<board, probing, xfer>>

\* After the last sector and the flush command nobody waits for the drive.
DriveSettles ==
    /\ ata_pc \in {"returned", "ready"}
    /\ pending # <<>>
    /\ \/ Stores
       \/ pending' = <<>> /\ UNCHANGED disk
    /\ UNCHANGED <<board, status, probing, xfer>>

\* Mutant: an error is not looked at.
TransferErrorMissed == FALSE

TransferError == "ERR" \in status

LastSector == xfer.i + 1 = xfer.count

\* One round of the loop over the sectors, once the polls are through.
ata_sector ==
    /\ ata_pc = "sector"
    /\ Settled
    /\ IF TransferError
       THEN /\ xfer' = [xfer EXCEPT !.ret = -1]
            /\ ata_pc' = "returned"
            /\ UNCHANGED <<status, pending>>
       ELSE /\ IF xfer.op = "read"
               THEN /\ xfer' = [xfer EXCEPT !.i = @ + 1,
                                            !.buf = Append(@, disk[Sector(xfer.i)])]
                    /\ UNCHANGED pending
               ELSE /\ xfer' = [xfer EXCEPT !.i = @ + 1]
                    /\ pending' = <<Sector(xfer.i), New(xfer.i)>>
            /\ IF LastSector
               THEN ata_pc' = "returned" /\ status' = {}
               ELSE ata_pc' = "sector" /\ status' = {"BSY"}
    /\ UNCHANGED <<board, disk, idx, exists, active_drive_count>>

ata_return ==
    /\ ata_pc = "returned"
    /\ ata_pc' = "ready"
    /\ xfer' = NoTransfer
    /\ UNCHANGED <<external, status, idx, exists, active_drive_count>>

DriveSteps == DriveIdentifies \/ DriveAnswers \/ DriveSettles

----------------------------------------------------------------------------
\* Exactly the drives that answer IDENTIFY with their data.
DrivesFound ==
    /\ exists = {i \in 0 .. 3 : board[i] = "disk"}
    /\ active_drive_count = Cardinality(exists)

Addressed == {(xfer.lba % LbaSpan) + k : k \in 0 .. xfer.count - 1}

(***************************************************************************)
(* A transfer that returns 0 has moved all its sectors, in their order; one*)
(* that returns -1 in the middle has moved the sectors before, and no      *)
(* sector outside of the request is touched.  A write answers for all      *)
(* sectors but the last: nobody reads the status after it (ata.c:186).     *)
(***************************************************************************)
TransferExact ==
    (ata_pc = "returned" /\ xfer.lba < LbaSpan) =>
        /\ xfer.op = "read" =>
              /\ \A k \in 1 .. Len(xfer.buf) : xfer.buf[k] = disk[xfer.lba + k - 1]
              /\ xfer.ret = 0 => Len(xfer.buf) = xfer.count
        /\ xfer.op = "write" =>
              /\ \A s \in DOMAIN disk \ Addressed : disk[s] = xfer.before[s]
              /\ xfer.ret = 0 => \A k \in 0 .. xfer.count - 2 :
                                    disk[xfer.lba + k] = New(k)
=============================================================================
