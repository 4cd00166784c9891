--------------------------- MODULE NvmePartitions ---------------------------
(***************************************************************************)
(* The partition commands of the NVMe command server: the mkpart, rmpart,  *)
(* write, read and performance branches of repsondingThread (aesdsocket.c) *)
(* and the nvmeInterface.c functions they call.  Every connected client    *)
(* has a thread; the threads share one disk and take no lock around it.    *)
(*                                                                         *)
(* Each nvmeInterface.c function opens the device and calls ped_disk_new,  *)
(* which reads the partition table into a private PedDisk; what it decides *)
(* afterwards it decides on that copy.  So one call is one step that scans *)
(* the table, followed, where the function touches the disk again, by one  *)
(* step per commit or I/O.  Other threads run in between.                  *)
(*                                                                         *)
(* libparted is external and modelled by its contract: which calls may     *)
(* fail is the constant Faults; where a new partition really lands is a    *)
(* free range chosen by its alignment constraints.  The disk is labelled   *)
(* GPT (partitions have names) and only this server changes it.            *)
(***************************************************************************)
EXTENDS Integers

CONSTANTS
    Threads,      \* the responding threads, one per connected client
    DiskLength,   \* dev->length: number of sectors
    MaxPartNum,   \* number of entries of the partition table
    InitTable,    \* the partition table when the server starts
    NoPart,       \* a NULL PedPartition pointer: no entry with this number
    Commands,     \* the parsed commands the clients may send
    LbaModulus,   \* 2^32: lbaRange_t holds two uint32_t
    SectorSize,   \* dev->sector_size in bytes
    Faults        \* the libparted calls that may fail

Sectors  == 0 .. DiskLength - 1
PartNums == 1 .. MaxPartNum

Partition == [start : Sectors, end : Sectors, name : {"AESD", "other"}]
Table     == [PartNums -> Partition \cup {NoPart}]

(* A parsed line.  a is the size of mkpart, the offset of write and read   *)
(* and the first sector of a performance job; b is the number of sectors   *)
(* of read and the last sector of a performance job.  perf_write stands    *)
(* for seq_write/sw and rand_write/rw, perf_read for seq_read/sr and       *)
(* rand_read/rr: the branches differ only in the function they call last.  *)
Command == [op : {"mkpart", "rmpart", "write", "read", "perf_write", "perf_read"},
            part : Nat, a : Nat, b : Nat]
NoCmd   == [op |-> "none", part |-> 0, a |-> 0, b |-> 0]

Covers(p)     == p.start .. p.end
Overlap(p, q) == p.start <= q.end /\ q.start <= p.end

(* No two entries of a table share a sector and none ends before it starts. *)
WellFormed(d) ==
    /\ \A n \in PartNums : d[n] # NoPart => d[n].start <= d[n].end
    /\ \A n, m \in PartNums :
          n # m /\ d[n] # NoPart /\ d[m] # NoPart => ~Overlap(d[n], d[m])

ASSUME SizesAssumption == DiskLength \in Nat \ {0} /\ MaxPartNum \in 1 .. 255
ASSUME WidthAssumption == LbaModulus \in Nat \ {0} /\ SectorSize \in Nat \ {0}
ASSUME TableAssumption == InitTable \in Table /\ WellFormed(InitTable)
ASSUME NoPartAssumption == NoPart \notin Partition
ASSUME CommandAssumption == Commands \subseteq Command
ASSUME FaultAssumption ==
    Faults \subseteq {"get", "open", "add", "name", "delete", "dev", "os", "io"}

VARIABLES
    table,    \* the partition table on the device
    pc,       \* pc[t]: where thread t is, "recv" between two commands
    cmd,      \* cmd[t]: the command thread t executes
    disk,     \* disk[t]: the PedDisk of the call in progress
    geom,     \* geom[t]: the PedPartition the command in progress acts on
    num,      \* num[t]: the number mkpart creates or rmpart deletes
    job,      \* job[t]: perfJob.lbaRange of thread t
    io,       \* the access to the disk's sectors made by the last step
    told      \* told[n]: what a client was last told of partition n

vars == <<table, pc, cmd, disk, geom, num, job, io, told>>

NoDisk == [n \in PartNums |-> NoPart]
NoJob  == [startlba |-> 0, endlba |-> 0]
NoIo   == [op |-> "none", first |-> 0, last |-> 0]

TypeOK ==
    /\ table \in Table
    /\ pc \in [Threads -> {"recv", "mk_dev", "mk_os", "rm_commit", "wr_io", "rd_io",
                           "pf_range", "pf_start", "pf_end", "pf_run"}]
    /\ cmd \in [Threads -> Command \cup {NoCmd}]
    /\ disk \in [Threads -> Table]
    /\ geom \in [Threads -> Partition \cup {NoPart}]
    /\ num \in [Threads -> 0 .. MaxPartNum]
    /\ job \in [Threads -> [startlba : 0 .. LbaModulus - 1, endlba : 0 .. LbaModulus - 1]]
    /\ io \in [op : {"none", "write", "read", "perf"}, first : Sectors, last : Sectors \cup {-1}]
    /\ told \in [PartNums -> {"unknown", "created", "deleted"}]

Init ==
    /\ table = InitTable
    /\ pc = [t \in Threads |-> "recv"]
    /\ cmd = [t \in Threads |-> NoCmd]
    /\ disk = [t \in Threads |-> NoDisk]
    /\ geom = [t \in Threads |-> NoPart]
    /\ num = [t \in Threads |-> 0]
    /\ job = [t \in Threads |-> NoJob]
    /\ io = NoIo
    /\ told = [n \in PartNums |-> "unknown"]

-----------------------------------------------------------------------------
(* Steps shared by all commands                                            *)

Goto(t, label) == pc' = [pc EXCEPT ![t] = label]

(* The client gets its reply and the thread goes back to recv; the locals   *)
(* of the command are gone.                                                 *)
Reply(t) ==
    /\ Goto(t, "recv")
    /\ cmd' = [cmd EXCEPT ![t] = NoCmd]
    /\ disk' = [disk EXCEPT ![t] = NoDisk]
    /\ geom' = [geom EXCEPT ![t] = NoPart]
    /\ num' = [num EXCEPT ![t] = 0]
    /\ job' = [job EXCEPT ![t] = NoJob]

(* A reply that leaves the disk and what clients know of it alone.         *)
ReplyOnly(t) == Reply(t) /\ io' = NoIo /\ UNCHANGED <<table, told>>

(* Thread t is between two commands and parses the line c.                 *)
Receives(t, c, op) == pc[t] = "recv" /\ c.op = op

(* What opening the device can return besides success: ped_device_get found *)
(* no device, or ped_device_open or ped_disk_new failed.                    *)
OpenFailures ==
    (IF "get" \in Faults THEN {"NOT_FOUND"} ELSE {})
    \cup (IF "open" \in Faults THEN {"ERROR"} ELSE {})

(* ped_disk_get_partition(d, n): NULL when there is no entry n.            *)
ped_disk_get_partition(d, n) == IF n \in PartNums THEN d[n] ELSE NoPart

(* Mutant: every name is accepted, as without NVME_SAFE_MODE.               *)
SafeModeOff(p) == TRUE

(* The name of the partition starts with AESD.                             *)
nvmeCheckNameSafety(p) == p.name = "AESD"

IsWritable(p) == p # NoPart /\ nvmeCheckNameSafety(p)

-----------------------------------------------------------------------------
(* mkpart <size>                                                           *)

(* ped_disk_get_last_partition_num(d) = n, the highest number in use.      *)
IsLastPartitionNum(d, n) ==
    /\ d[n] # NoPart
    /\ \A m \in PartNums : d[m] # NoPart => m <= n

(* The number libparted gives a new partition: the lowest that is free.    *)
IsNewPartitionNum(d, n) ==
    /\ d[n] = NoPart
    /\ \A m \in PartNums : d[m] = NoPart => n <= m

IsFree(d, s) == \A n \in PartNums : d[n] # NoPart => s \notin Covers(d[n])

(* ped_disk_add_partition asked for a partition that starts at s: libparted *)
(* takes the first gap at or behind s and solves the alignment constraint,  *)
(* so that the partition becomes some range first .. last of that gap.      *)
ped_disk_add_partition(d, s, first, last) ==
    /\ first <= last
    /\ \E gap \in Sectors :
          /\ s <= gap
          /\ \A x \in s .. gap - 1 : ~IsFree(d, x)
          /\ \A x \in Sectors : (first <= x \/ gap <= x) /\ (x <= last \/ x <= gap)
                => IsFree(d, x)

(* There is a last partition and room for size sectors behind it.           *)
HasRoom(d, n, size) == IsLastPartitionNum(d, n) /\ d[n].end + size <= DiskLength - 1

(* nvmeCreatePartition up to the commit.  Either nothing is created: the    *)
(* size is not positive, the device cannot be opened, the table is empty    *)
(* (lastPartNum = -1) or there is no room behind the last partition, or     *)
(* libparted refuses to add one.  Or the new partition is placed behind the *)
(* one with the highest number and named; the result of                     *)
(* ped_partition_set_name is not looked at.                                 *)
nvmeCreatePartition(t) ==
    \E c \in Commands :
        /\ Receives(t, c, "mkpart")
        /\ \/ /\ \/ c.a = 0 \/ OpenFailures # {} \/ "add" \in Faults
                 \/ \A n \in PartNums : ~HasRoom(table, n, c.a)
                 \/ \A n \in PartNums : table[n] # NoPart
              /\ ReplyOnly(t)
           \/ \E n, new \in PartNums, first, last \in Sectors, name \in {"AESD", "other"} :
                 /\ c.a > 0
                 /\ HasRoom(table, n, c.a)
                 /\ IsNewPartitionNum(table, new)
                 /\ ped_disk_add_partition(table, table[n].end + 1, first, last)
                 /\ name = "AESD" \/ "name" \in Faults
                 /\ disk' = [disk EXCEPT ![t] =
                       [table EXCEPT ![new] = [start |-> first, end |-> last, name |-> name]]]
                 /\ num' = [num EXCEPT ![t] = new]
                 /\ cmd' = [cmd EXCEPT ![t] = c]
                 /\ Goto(t, "mk_dev")
                 /\ io' = NoIo
                 /\ UNCHANGED <<table, geom, job, told>>

(* Mutant: only the new entry is written, into the table as it is now.      *)
CommitNewEntryOnly(t) ==
    /\ pc[t] = "mk_dev"
    /\ table' = [table EXCEPT ![num[t]] = disk[t][num[t]]]
    /\ told' = [told EXCEPT ![num[t]] = "unknown"]
    /\ Goto(t, "mk_os")
    /\ io' = NoIo
    /\ UNCHANGED <<cmd, disk, geom, num, job>>

(* ped_disk_commit_to_dev writes the thread's whole copy of the table.      *)
CreateCommitToDev(t) ==
    /\ pc[t] = "mk_dev"
    /\ \/ "dev" \in Faults /\ ReplyOnly(t)
       \/ /\ table' = disk[t]
          /\ told' = [told EXCEPT ![num[t]] = "unknown"]
          /\ Goto(t, "mk_os")
          /\ io' = NoIo
          /\ UNCHANGED <<cmd, disk, geom, num, job>>

(* ped_disk_commit_to_os; when it fails the client is told that the         *)
(* partition was not created, though the device holds it.                   *)
CreateCommitToOs(t) ==
    /\ pc[t] = "mk_os"
    /\ \/ "os" \in Faults /\ ReplyOnly(t)
       \/ /\ told' = [told EXCEPT ![num[t]] = "created"]
          /\ Reply(t)
          /\ io' = NoIo
          /\ UNCHANGED table

-----------------------------------------------------------------------------
(* rmpart <part>                                                           *)

(* nvmeDeletePartition up to the commit: refused when the device cannot be  *)
(* opened, the partition does not exist or SAFE_MODE objects to its name.   *)
(* When ped_disk_delete_partition fails the function goes on regardless.    *)
nvmeDeletePartition(t) ==
    \E c \in Commands :
        LET part == ped_disk_get_partition(table, c.part) IN
        /\ Receives(t, c, "rmpart")
        /\ \/ /\ OpenFailures # {} \/ ~IsWritable(part)
              /\ ReplyOnly(t)
           \/ /\ IsWritable(part)
              /\ \/ disk' = [disk EXCEPT ![t] = [table EXCEPT ![c.part] = NoPart]]
                 \/ "delete" \in Faults /\ disk' = [disk EXCEPT ![t] = table]
              /\ num' = [num EXCEPT ![t] = c.part]
              /\ cmd' = [cmd EXCEPT ![t] = c]
              /\ Goto(t, "rm_commit")
              /\ io' = NoIo
              /\ UNCHANGED <<table, geom, job, told>>

(* Mutant: the result of ped_disk_commit is not looked at.                  *)
DeleteCommitUnchecked(t) ==
    /\ pc[t] = "rm_commit"
    /\ table' = disk[t] \/ ("dev" \in Faults /\ table' = table)
    /\ told' = [told EXCEPT ![num[t]] = "deleted"]
    /\ Reply(t)
    /\ io' = NoIo

(* ped_disk_commit: to the device, then to the OS; either half may fail.    *)
DeleteCommit(t) ==
    /\ pc[t] = "rm_commit"
    /\ \/ /\ "dev" \in Faults
          /\ told' = [told EXCEPT ![num[t]] = "unknown"]
          /\ UNCHANGED table
       \/ /\ table' = disk[t]
          /\ \/ told' = [told EXCEPT ![num[t]] = "deleted"]
             \/ "os" \in Faults /\ told' = [told EXCEPT ![num[t]] = "unknown"]
    /\ Reply(t)
    /\ io' = NoIo

-----------------------------------------------------------------------------
(* write <part> <data> <offset> and read <part> <offset> <num_sectors>     *)

(* nvmeWritePartitionSector up to the write: the partition must exist and   *)
(* pass SAFE_MODE in the copy of the table this call has read.              *)
nvmeWritePartitionSector(t) ==
    \E c \in Commands :
        LET part == ped_disk_get_partition(table, c.part) IN
        /\ Receives(t, c, "write")
        /\ \/ /\ OpenFailures # {} \/ ~IsWritable(part)
              /\ ReplyOnly(t)
           \/ /\ IsWritable(part)
              /\ geom' = [geom EXCEPT ![t] = part]
              /\ cmd' = [cmd EXCEPT ![t] = c]
              /\ Goto(t, "wr_io")
              /\ io' = NoIo
              /\ UNCHANGED <<table, disk, num, job, told>>

(* ped_geometry_write of one sector at offset 0 of the geometry, whatever   *)
(* sectorNumber says; then ped_geometry_sync.  Either may fail.             *)
WriteSector(t) ==
    /\ pc[t] = "wr_io"
    /\ \/ "io" \in Faults /\ io' = NoIo
       \/ io' = [op |-> "write", first |-> geom[t].start, last |-> geom[t].start]
    /\ Reply(t)
    /\ UNCHANGED <<table, told>>

(* The number of device sectors that num_sectors 512-byte sectors make.     *)
SectorCount(c) == (c.b * 512) \div SectorSize

(* nvmeReadPartitionSector up to the read; reading needs no AESD name.      *)
nvmeReadPartitionSector(t) ==
    \E c \in Commands :
        LET part == ped_disk_get_partition(table, c.part) IN
        /\ Receives(t, c, "read")
        /\ \/ /\ c.b = 0 \/ OpenFailures # {} \/ part = NoPart
              /\ ReplyOnly(t)
           \/ /\ c.b > 0
              /\ part # NoPart
              /\ geom' = [geom EXCEPT ![t] = part]
              /\ cmd' = [cmd EXCEPT ![t] = c]
              /\ Goto(t, "rd_io")
              /\ io' = NoIo
              /\ UNCHANGED <<table, disk, num, job, told>>

(* libparted refuses to read past the end of the partition.                 *)
InGeometry(g, last) == last <= g.end

(* Mutant: the sectors are read from the device, not from the geometry.     *)
ReadSectorsUnbounded(t) ==
    /\ pc[t] = "rd_io"
    /\ io' = [op |-> "read", first |-> geom[t].start,
              last |-> geom[t].start + SectorCount(cmd[t]) - 1]
    /\ Reply(t)
    /\ UNCHANGED <<table, told>>

(* ped_geometry_read at offset 0 of the geometry, whatever sectorNumber is. *)
ReadSectors(t) ==
    LET last == geom[t].start + SectorCount(cmd[t]) - 1 IN
    /\ pc[t] = "rd_io"
    /\ \/ ("io" \in Faults \/ ~InGeometry(geom[t], last)) /\ io' = NoIo
       \/ /\ InGeometry(geom[t], last)
          /\ io' = [op |-> "read", first |-> geom[t].start, last |-> last]
    /\ Reply(t)
    /\ UNCHANGED <<table, told>>

-----------------------------------------------------------------------------
(* seq_write, rand_write, seq_read, rand_read <part> <start> <end> <ms>    *)

(* The entry the performance helpers look at: their parameter is a uint8_t. *)
PerfPart(c) == ped_disk_get_partition(table, c.part % 256)

(* Mutant: any partition that exists is accepted.                           *)
NameUnchecked(c) ==
    OpenFailures \cup {IF PerfPart(c) = NoPart THEN "PART_DNE" ELSE "OK"}

nvmeCheckNameSafetyPartNumber(c) ==
    OpenFailures \cup
    {CASE PerfPart(c) = NoPart -> "PART_DNE"
       [] IsWritable(PerfPart(c)) -> "OK"
       [] OTHER -> "BAD_NAME"}

(* Mutant: only the first sector of the range is compared with the end.     *)
OnlyStartInPart(c) ==
    LET part == PerfPart(c) IN
    OpenFailures \cup
    {CASE part = NoPart -> "PART_DNE"
       [] part # NoPart /\ c.a + part.start <= part.end -> "OK"
       [] OTHER -> "ERROR"}

(* Both ends of the range, taken relative to the start of the partition,    *)
(* must lie in it.                                                          *)
nvmeCheckLbaRangeInPart(c) ==
    LET part == PerfPart(c) IN
    OpenFailures \cup
    {CASE part = NoPart -> "PART_DNE"
       [] part # NoPart /\ c.a + part.start <= part.end
                        /\ c.b + part.start <= part.end -> "OK"
       [] OTHER -> "ERROR"}

(* nvmeGetStartLbaInPart and nvmeGetEndLbaInPart have the same outcomes.    *)
nvmeGetLbaInPart(c) ==
    OpenFailures \cup {IF PerfPart(c) = NoPart THEN "PART_DNE" ELSE "OK"}

(* perf_write begins with the name check; perf_read has none.  Both refuse  *)
(* startlba > endlba (and a negative duration).                             *)
PerfAccept(t) ==
    \E c \in Commands :
        /\ Receives(t, c, "perf_write") \/ Receives(t, c, "perf_read")
        /\ \E rc \in IF c.op = "perf_write" THEN nvmeCheckNameSafetyPartNumber(c) ELSE {"OK"} :
              \/ (rc # "OK" \/ c.a > c.b) /\ ReplyOnly(t)
              \/ /\ rc = "OK" /\ c.a <= c.b
                 /\ cmd' = [cmd EXCEPT ![t] = c]
                 /\ Goto(t, "pf_range")
                 /\ io' = NoIo
                 /\ UNCHANGED <<table, disk, geom, num, job, told>>

(* Only NVME_STATUS_ERROR ends the command here: a partition that is gone   *)
(* or a device that was not found is left for the next call to notice.      *)
PerfCheckRange(t) ==
    /\ pc[t] = "pf_range"
    /\ \E rc \in nvmeCheckLbaRangeInPart(cmd[t]) :
          \/ rc = "ERROR" /\ ReplyOnly(t)
          \/ /\ rc # "ERROR"
             /\ Goto(t, "pf_start")
             /\ io' = NoIo
             /\ UNCHANGED <<table, cmd, disk, geom, num, job, told>>

PerfGetStart(t) ==
    /\ pc[t] = "pf_start"
    /\ \E rc \in nvmeGetLbaInPart(cmd[t]) :
          \/ rc # "OK" /\ ReplyOnly(t)
          \/ /\ rc = "OK"
             /\ geom' = [geom EXCEPT ![t] = PerfPart(cmd[t])]
             /\ Goto(t, "pf_end")
             /\ io' = NoIo
             /\ UNCHANGED <<table, cmd, disk, num, job, told>>

(* partEndAddr is fetched and not used.  The range becomes absolute in      *)
(* uint32_t arithmetic and the job starts.                                  *)
PerfGetEnd(t) ==
    /\ pc[t] = "pf_end"
    /\ \E rc \in nvmeGetLbaInPart(cmd[t]) :
          \/ rc # "OK" /\ ReplyOnly(t)
          \/ /\ rc = "OK"
             /\ job' = [job EXCEPT ![t] =
                   [startlba |-> (cmd[t].a + geom[t].start) % LbaModulus,
                    endlba   |-> (cmd[t].b + geom[t].start) % LbaModulus]]
             /\ Goto(t, "pf_run")
             /\ io' = NoIo
             /\ UNCHANGED <<table, cmd, disk, geom, num, told>>

(* perfStartSeqWrite, perfStartRandWrite: for the duration of the job some  *)
(* sector of lbaRange is written, over and over.                            *)
PerfWriteSector(t) ==
    /\ pc[t] = "pf_run"
    /\ cmd[t].op = "perf_write"
    /\ \E s \in Sectors :
          /\ job[t].startlba <= s /\ s <= job[t].endlba
          /\ io' = [op |-> "perf", first |-> s, last |-> s]
    /\ UNCHANGED <<table, pc, cmd, disk, geom, num, job, told>>

PerfDone(t) == pc[t] = "pf_run" /\ ReplyOnly(t)

-----------------------------------------------------------------------------
Next ==
    \E t \in Threads :
        \/ nvmeCreatePartition(t) \/ CreateCommitToDev(t) \/ CreateCommitToOs(t)
        \/ nvmeDeletePartition(t) \/ DeleteCommit(t)
        \/ nvmeWritePartitionSector(t) \/ WriteSector(t)
        \/ nvmeReadPartitionSector(t) \/ ReadSectors(t)
        \/ PerfAccept(t) \/ PerfCheckRange(t) \/ PerfGetStart(t) \/ PerfGetEnd(t)
        \/ PerfWriteSector(t) \/ PerfDone(t)

Spec == Init /\ [][Next]_vars

-----------------------------------------------------------------------------
(* Properties                                                              *)

(* The partitions SAFE_MODE is there for: those on the drive at the start   *)
(* whose name does not begin with AESD, and the sectors they cover.         *)
Protected        == {n \in PartNums : InitTable[n] # NoPart /\ InitTable[n].name # "AESD"}
ProtectedSectors == {s \in Sectors : \E n \in Protected : s \in Covers(InitTable[n])}

KeepsProtected(d) == \A n \in Protected : d[n] = InitTable[n]

(* However the scans and commits of the threads interleave, and although    *)
(* every commit writes back a whole table that may be out of date, no       *)
(* protected partition is ever removed, moved or renamed.                   *)
ProtectedEntriesKept == KeepsProtected(table)

(* The table on the device never holds two partitions that share a sector,  *)
(* although two threads can both have placed a partition in the same gap.   *)
TableWellFormed == WellFormed(table)

(* The write command never overwrites a sector of a protected partition,    *)
(* although it writes where the partition was when it read the table.       *)
UserWritesSpareProtected == io.op = "write" => io.first \notin ProtectedSectors

(* SAFE_MODE as the readme states it: nothing the server does overwrites a  *)
(* sector of a protected partition, performance jobs included.              *)
SafeModeHolds == io.op \in {"write", "perf"} => io.first \notin ProtectedSectors

(* A running performance job stays inside the partition it was started for. *)
PerfStaysInside ==
    \A t \in Threads : pc[t] = "pf_run" =>
        /\ PerfPart(cmd[t]) # NoPart
        /\ PerfPart(cmd[t]).start <= job[t].startlba
        /\ job[t].endlba <= PerfPart(cmd[t]).end

(* What clients were told last of a partition is what the device holds: one *)
(* reported as created is there, one reported as deleted is not.            *)
ToldTheTruth ==
    \A n \in PartNums :
        /\ told[n] = "created" => table[n] # NoPart
        /\ told[n] = "deleted" => table[n] = NoPart
=============================================================================
