------------------------ MODULE NvmePartitionsProofs ------------------------
(***************************************************************************)
(* Proofs about NvmePartitions, for every number of threads, every drive,  *)
(* every set of commands and every combination of failing libparted calls. *)
(*                                                                         *)
(* The three safety invariants are not inductive: a commit writes the copy *)
(* of the table a thread took earlier, and a write goes to the geometry it *)
(* found earlier.  IInv adds what holds of those copies while they wait.   *)
(***************************************************************************)
EXTENDS NvmePartitions, TLAPS

(* A table that may be written to the device.                               *)
GoodTable(d) == WellFormed(d) /\ KeepsProtected(d)

(* What a thread's locals satisfy at each of its labels.                    *)
ThreadOK(t) ==
    /\ pc[t] # "recv" => cmd[t] \in Command
    /\ pc[t] \in {"mk_dev", "mk_os", "rm_commit"} => num[t] \in PartNums
    /\ pc[t] \in {"mk_dev", "rm_commit"} => GoodTable(disk[t])
    /\ pc[t] \in {"wr_io", "rd_io", "pf_end"} => geom[t] \in Partition
    /\ pc[t] = "wr_io" => geom[t].start \notin ProtectedSectors

(* The types of the threads' locals and of the last access, as in TypeOK.   *)
LocalsOK ==
    /\ pc \in [Threads -> {"recv", "mk_dev", "mk_os", "rm_commit", "wr_io", "rd_io",
                           "pf_range", "pf_start", "pf_end", "pf_run"}]
    /\ cmd \in [Threads -> Command \cup {NoCmd}]
    /\ disk \in [Threads -> Table]
    /\ geom \in [Threads -> Partition \cup {NoPart}]
    /\ num \in [Threads -> 0 .. MaxPartNum]
    /\ job \in [Threads -> [startlba : 0 .. LbaModulus - 1, endlba : 0 .. LbaModulus - 1]]
IoOK ==
    /\ io \in [op : {"none", "write", "read", "perf"}, first : Sectors, last : Sectors \cup {-1}]
    /\ UserWritesSpareProtected

IInv ==
    /\ TypeOK
    /\ GoodTable(table)
    /\ \A t \in Threads : ThreadOK(t)
    /\ UserWritesSpareProtected

-----------------------------------------------------------------------------
(* Facts about the operators the model is built from                       *)

(* The range ped_disk_add_partition picks is free: it meets no entry.       *)
LEMMA AddedIsDisjoint ==
    ASSUME NEW d \in Table, WellFormed(d), NEW s \in Sectors \cup {DiskLength},
           NEW first \in Sectors, NEW last \in Sectors, NEW n \in PartNums, d[n] # NoPart,
           ped_disk_add_partition(d, s, first, last)
    PROVE  first <= last /\ (d[n].end < first \/ last < d[n].start)
<1>1. d[n] \in Partition /\ d[n].start <= d[n].end
  BY DEF Table, WellFormed
<1>2. d[n].start \in Sectors /\ d[n].end \in Sectors
  BY <1>1 DEF Partition
<1>3. first <= last
  BY DEF ped_disk_add_partition
<1>4. ASSUME NEW x \in Sectors, first <= x, x <= last
      PROVE  ~(d[n].start <= x /\ x <= d[n].end)
  <2>1. IsFree(d, x)
    BY <1>4 DEF ped_disk_add_partition
  <2>2. x \notin d[n].start .. d[n].end
    BY <2>1 DEF IsFree, Covers
  <2> QED
    BY <2>2, <1>2, SizesAssumption DEF Sectors
<1>5. CASE d[n].start <= first
  BY <1>2, <1>3, <1>4, <1>5, SizesAssumption DEF Sectors
<1>6. CASE first < d[n].start
  BY <1>1, <1>2, <1>3, <1>4, <1>6, SizesAssumption DEF Sectors
<1> QED
  BY <1>2, <1>5, <1>6, SizesAssumption DEF Sectors

(* Adding such a partition under a free number gives a good table again.    *)
LEMMA AddKeepsGood ==
    ASSUME NEW d \in Table, GoodTable(d), NEW s \in Sectors \cup {DiskLength},
           NEW first \in Sectors, NEW last \in Sectors, NEW new \in PartNums,
           NEW name \in {"AESD", "other"},
           IsNewPartitionNum(d, new), ped_disk_add_partition(d, s, first, last)
    PROVE  LET e == [d EXCEPT ![new] = [start |-> first, end |-> last, name |-> name]]
           IN  e \in Table /\ GoodTable(e)
<1> DEFINE p == [start |-> first, end |-> last, name |-> name]
<1> DEFINE e == [d EXCEPT ![new] = p]
<1>1. p \in Partition /\ p # NoPart
  BY NoPartAssumption DEF Partition
<1>2. e \in Table /\ e[new] = p /\ \A n \in PartNums : n # new => e[n] = d[n]
  BY <1>1 DEF Table
<1>3. first <= last
  BY DEF ped_disk_add_partition
<1>4. \A n \in PartNums : d[n] # NoPart => d[n].end < first \/ last < d[n].start
  BY AddedIsDisjoint DEF GoodTable
<1>5. ASSUME NEW n \in PartNums, e[n] # NoPart PROVE e[n].start <= e[n].end
  BY <1>2, <1>3, <1>5 DEF GoodTable, WellFormed
<1>6. ASSUME NEW n \in PartNums, n # new, d[n] # NoPart
      PROVE  ~Overlap(p, d[n]) /\ ~Overlap(d[n], p)
  <2>1. d[n].start \in Sectors /\ d[n].end \in Sectors
    BY <1>6 DEF Table, Partition
  <2>2. d[n].end < first \/ last < d[n].start
    BY <1>4, <1>6
  <2> QED
    BY <2>1, <2>2, SizesAssumption DEF Overlap, Sectors
<1>7. ASSUME NEW n \in PartNums, NEW m \in PartNums, n # m, e[n] # NoPart, e[m] # NoPart
      PROVE  ~Overlap(e[n], e[m])
  <2>1. CASE n # new /\ m # new
    BY <1>2, <1>7, <2>1 DEF GoodTable, WellFormed
  <2>2. CASE n = new
    BY <1>2, <1>6, <1>7, <2>2
  <2>3. CASE m = new
    BY <1>2, <1>6, <1>7, <2>3
  <2> QED
    BY <2>1, <2>2, <2>3
<1>8. WellFormed(e)
  BY <1>5, <1>7 DEF WellFormed
<1>9. KeepsProtected(e)
  <2>1. new \notin Protected
    BY DEF Protected, IsNewPartitionNum, GoodTable, KeepsProtected
  <2> QED
    BY <2>1, <1>2 DEF GoodTable, KeepsProtected, Protected
<1> QED
  BY <1>2, <1>8, <1>9 DEF GoodTable

(* Deleting an entry that SAFE_MODE lets pass gives a good table again.     *)
LEMMA DeleteKeepsGood ==
    ASSUME NEW d \in Table, GoodTable(d), NEW k \in PartNums, IsWritable(d[k])
    PROVE  LET e == [d EXCEPT ![k] = NoPart] IN e \in Table /\ GoodTable(e)
<1> DEFINE e == [d EXCEPT ![k] = NoPart]
<1>1. e \in Table /\ e[k] = NoPart /\ \A n \in PartNums : n # k => e[n] = d[n]
  BY DEF Table
<1>2. WellFormed(e)
  <2>1. ASSUME NEW n \in PartNums, e[n] # NoPart PROVE e[n].start <= e[n].end
    BY <1>1, <2>1 DEF GoodTable, WellFormed
  <2>2. ASSUME NEW n \in PartNums, NEW m \in PartNums, n # m, e[n] # NoPart, e[m] # NoPart
        PROVE  ~Overlap(e[n], e[m])
    BY <1>1, <2>2 DEF GoodTable, WellFormed
  <2> QED
    BY <2>1, <2>2 DEF WellFormed
<1>3. k \notin Protected
  BY DEF Protected, IsWritable, nvmeCheckNameSafety, GoodTable, KeepsProtected
<1>4. KeepsProtected(e)
  BY <1>1, <1>3 DEF GoodTable, KeepsProtected, Protected
<1> QED
  BY <1>1, <1>2, <1>4 DEF GoodTable

(* In a good table no partition of this server begins in a protected one.   *)
LEMMA WritableIsUnprotected ==
    ASSUME NEW d \in Table, GoodTable(d), NEW k \in PartNums, IsWritable(d[k])
    PROVE  d[k] \in Partition /\ d[k].start \notin ProtectedSectors
<1>1. d[k] \in Partition /\ d[k].name = "AESD" /\ d[k].start <= d[k].end
  BY DEF Table, IsWritable, nvmeCheckNameSafety, GoodTable, WellFormed
<1>2. SUFFICES ASSUME NEW n \in Protected, d[k].start \in Covers(InitTable[n]) PROVE FALSE
  BY <1>1 DEF ProtectedSectors
<1>3. n \in PartNums /\ d[n] = InitTable[n] /\ d[n] # NoPart /\ d[n].name # "AESD"
  BY DEF GoodTable, KeepsProtected, Protected
<1>4. n # k
  BY <1>1, <1>3
<1>5. ~Overlap(d[k], d[n])
  BY <1>1, <1>3, <1>4, NoPartAssumption DEF GoodTable, WellFormed
<1>6. d[n] \in Partition
  BY <1>3 DEF Table
<1> QED
  BY <1>1, <1>2, <1>3, <1>5, <1>6, SizesAssumption DEF Overlap, Covers, Partition, Sectors

(* The number of device sectors a read asks for is a natural number.        *)
LEMMA SectorCountType ==
    ASSUME NEW c \in Command PROVE SectorCount(c) \in Nat
<1>1. c.b * 512 \in Nat
  BY DEF Command
<1> QED
  BY <1>1, WidthAssumption DEF SectorCount

-----------------------------------------------------------------------------
(* The inductive invariant                                                  *)

LEMMA InitIInv == Init => IInv
<1> SUFFICES ASSUME Init PROVE IInv
  OBVIOUS
<1>1. NoDisk \in Table
  BY DEF NoDisk, Table
<1>2. TypeOK
  <2>1. NoJob \in [startlba : 0 .. LbaModulus - 1, endlba : 0 .. LbaModulus - 1]
    BY WidthAssumption DEF NoJob
  <2>2. io \in [op : {"none", "write", "read", "perf"}, first : Sectors, last : Sectors \cup {-1}]
    BY SizesAssumption DEF Init, NoIo, Sectors
  <2> QED
    BY <1>1, <2>1, <2>2, SizesAssumption, TableAssumption DEF Init, TypeOK, PartNums
<1>3. GoodTable(table)
  BY TableAssumption DEF Init, GoodTable, KeepsProtected
<1>4. \A t \in Threads : ThreadOK(t)
  BY DEF Init, ThreadOK
<1>5. UserWritesSpareProtected
  BY DEF Init, NoIo, UserWritesSpareProtected
<1> QED
  BY <1>2, <1>3, <1>4, <1>5 DEF IInv

(* A reply leaves every thread's locals as the invariant wants them.        *)
LEMMA ReplyKeeps ==
    ASSUME IInv, NEW t \in Threads, Reply(t)
    PROVE  LocalsOK' /\ \A u \in Threads : ThreadOK(u)'
<1>1. NoDisk \in Table
  BY DEF NoDisk, Table
<1>2. NoJob \in [startlba : 0 .. LbaModulus - 1, endlba : 0 .. LbaModulus - 1]
  BY WidthAssumption DEF NoJob
<1>3. 0 \in 0 .. MaxPartNum
  BY SizesAssumption
<1>4. LocalsOK'
  BY <1>1, <1>2, <1>3 DEF IInv, TypeOK, LocalsOK, Reply, Goto
<1>5. ASSUME NEW u \in Threads PROVE ThreadOK(u)'
  <2>1. CASE u = t
    <3>1. pc'[t] = "recv"
      BY DEF IInv, TypeOK, Reply, Goto
    <3> QED
      BY <2>1, <3>1 DEF ThreadOK
  <2>2. CASE u # t
    <3>1. /\ pc'[u] = pc[u] /\ cmd'[u] = cmd[u] /\ disk'[u] = disk[u]
          /\ geom'[u] = geom[u] /\ num'[u] = num[u]
      BY <2>2 DEF IInv, TypeOK, Reply, Goto
    <3>2. ThreadOK(u)
      BY DEF IInv
    <3> QED
      BY <3>1, <3>2 DEF ThreadOK
  <2> QED
    BY <2>1, <2>2
<1> QED
  BY <1>4, <1>5

(* The step that made no access to the disk's sectors.                      *)
LEMMA NoIoKeeps ==
    ASSUME io' = NoIo PROVE IoOK'
<1>1. NoIo \in [op : {"none", "write", "read", "perf"}, first : Sectors, last : Sectors \cup {-1}]
  BY SizesAssumption DEF NoIo, Sectors
<1> QED
  BY <1>1 DEF IoOK, UserWritesSpareProtected, NoIo

(* A reply that changed nothing on the disk keeps the invariant.            *)
LEMMA ReplyOnlyKeeps ==
    ASSUME IInv, NEW t \in Threads, ReplyOnly(t) PROVE IInv'
<1>1. LocalsOK' /\ \A u \in Threads : ThreadOK(u)'
  BY ReplyKeeps DEF ReplyOnly
<1>2. IoOK'
  BY NoIoKeeps DEF ReplyOnly
<1>3. table' = table /\ told' = told
  BY DEF ReplyOnly
<1>4. GoodTable(table)'
  BY <1>3 DEF IInv, GoodTable, WellFormed, KeepsProtected
<1>5. TypeOK'
  BY <1>1, <1>2, <1>3 DEF IInv, TypeOK, LocalsOK, IoOK
<1> QED
  BY <1>1, <1>2, <1>4, <1>5 DEF IInv, IoOK

(* Every other thread's locals are untouched.                               *)
OthersUntouched(t) ==
    \A u \in Threads \ {t} :
        /\ pc'[u] = pc[u] /\ cmd'[u] = cmd[u] /\ disk'[u] = disk[u]
        /\ geom'[u] = geom[u] /\ num'[u] = num[u]

(* A step of thread t that leaves the disk alone keeps the invariant when   *)
(* it leaves t's own locals in order.                                       *)
LEMMA MoveKeeps ==
    ASSUME IInv, NEW t \in Threads, LocalsOK', ThreadOK(t)', OthersUntouched(t), IoOK',
           table' = table, told' = told
    PROVE  IInv'
<1>1. ASSUME NEW u \in Threads PROVE ThreadOK(u)'
  <2>1. CASE u # t
    <3>1. /\ pc'[u] = pc[u] /\ cmd'[u] = cmd[u] /\ disk'[u] = disk[u]
          /\ geom'[u] = geom[u] /\ num'[u] = num[u]
      BY <2>1 DEF OthersUntouched
    <3>2. ThreadOK(u)
      BY DEF IInv
    <3> QED
      BY <3>1, <3>2 DEF ThreadOK
  <2> QED
    BY <2>1
<1>2. GoodTable(table)'
  BY DEF IInv, GoodTable, WellFormed, KeepsProtected
<1>3. TypeOK'
  BY DEF IInv, TypeOK, LocalsOK, IoOK
<1> QED
  BY <1>1, <1>2, <1>3 DEF IInv, IoOK

LEMMA CreateKeeps ==
    ASSUME IInv, NEW t \in Threads, nvmeCreatePartition(t) PROVE IInv'
<1>1. PICK c \in Commands :
        /\ Receives(t, c, "mkpart")
        /\ \/ ReplyOnly(t)
           \/ \E n, new \in PartNums, first, last \in Sectors, name \in {"AESD", "other"} :
                 /\ HasRoom(table, n, c.a)
                 /\ IsNewPartitionNum(table, new)
                 /\ ped_disk_add_partition(table, table[n].end + 1, first, last)
                 /\ disk' = [disk EXCEPT ![t] =
                       [table EXCEPT ![new] = [start |-> first, end |-> last, name |-> name]]]
                 /\ num' = [num EXCEPT ![t] = new]
                 /\ cmd' = [cmd EXCEPT ![t] = c]
                 /\ Goto(t, "mk_dev")
                 /\ io' = NoIo
                 /\ UNCHANGED <<table, geom, job, told>>
  BY DEF nvmeCreatePartition
<1>2. CASE ReplyOnly(t)
  BY <1>2, ReplyOnlyKeeps
<1>3. CASE ~ReplyOnly(t)
  <2>1. PICK n \in PartNums, new \in PartNums, first \in Sectors, last \in Sectors,
             name \in {"AESD", "other"} :
           /\ HasRoom(table, n, c.a)
           /\ IsNewPartitionNum(table, new)
           /\ ped_disk_add_partition(table, table[n].end + 1, first, last)
           /\ disk' = [disk EXCEPT ![t] =
                 [table EXCEPT ![new] = [start |-> first, end |-> last, name |-> name]]]
           /\ num' = [num EXCEPT ![t] = new]
           /\ cmd' = [cmd EXCEPT ![t] = c]
           /\ Goto(t, "mk_dev")
           /\ io' = NoIo
           /\ UNCHANGED <<table, geom, job, told>>
    BY <1>1, <1>3
  <2> DEFINE e == [table EXCEPT ![new] = [start |-> first, end |-> last, name |-> name]]
  <2>2. table \in Table /\ GoodTable(table)
    BY DEF IInv, TypeOK
  <2>3. table[n].end + 1 \in Sectors \cup {DiskLength}
    <3>1. table[n] \in Partition
      BY <2>1, <2>2 DEF HasRoom, IsLastPartitionNum, Table
    <3>2. table[n].end \in Sectors
      BY <3>1 DEF Partition
    <3> QED
      BY <3>2, SizesAssumption DEF Sectors
  <2>4. e \in Table /\ GoodTable(e)
    BY <2>1, <2>2, <2>3, AddKeepsGood
  <2>5. c \in Command
    BY CommandAssumption
  <2>6. new \in 0 .. MaxPartNum
    BY SizesAssumption DEF PartNums
  <2> HIDE DEF e
  <2>7. /\ disk' = [disk EXCEPT ![t] = e]
        /\ num' = [num EXCEPT ![t] = new]
        /\ cmd' = [cmd EXCEPT ![t] = c]
        /\ Goto(t, "mk_dev")
        /\ UNCHANGED <<table, geom, job, told>>
    BY <2>1 DEF e
  <2>8. LocalsOK'
    BY <2>4, <2>5, <2>6, <2>7 DEF IInv, TypeOK, LocalsOK, Goto
  <2>9. pc'[t] = "mk_dev" /\ disk'[t] = e /\ num'[t] = new /\ cmd'[t] = c
    BY <2>7 DEF IInv, TypeOK, Goto
  <2>10. ThreadOK(t)'
    BY <2>4, <2>5, <2>9 DEF ThreadOK, GoodTable, WellFormed, KeepsProtected
  <2>11. OthersUntouched(t)
    BY <2>7 DEF IInv, TypeOK, Goto, OthersUntouched
  <2>12. IoOK'
    BY <2>1, NoIoKeeps
  <2> QED
    BY <2>1, <2>8, <2>10, <2>11, <2>12, MoveKeeps
<1> QED
  BY <1>2, <1>3

LEMMA DeleteKeeps ==
    ASSUME IInv, NEW t \in Threads, nvmeDeletePartition(t) PROVE IInv'
<1>1. PICK c \in Commands :
        \/ ReplyOnly(t)
        \/ /\ IsWritable(ped_disk_get_partition(table, c.part))
           /\ \/ disk' = [disk EXCEPT ![t] = [table EXCEPT ![c.part] = NoPart]]
              \/ disk' = [disk EXCEPT ![t] = table]
           /\ num' = [num EXCEPT ![t] = c.part]
           /\ cmd' = [cmd EXCEPT ![t] = c]
           /\ Goto(t, "rm_commit")
           /\ io' = NoIo
           /\ UNCHANGED <<table, geom, job, told>>
  BY DEF nvmeDeletePartition
<1>2. CASE ReplyOnly(t)
  BY <1>2, ReplyOnlyKeeps
<1>3. CASE ~ReplyOnly(t)
  <2>1. /\ IsWritable(ped_disk_get_partition(table, c.part))
        /\ \/ disk' = [disk EXCEPT ![t] = [table EXCEPT ![c.part] = NoPart]]
           \/ disk' = [disk EXCEPT ![t] = table]
        /\ num' = [num EXCEPT ![t] = c.part]
        /\ cmd' = [cmd EXCEPT ![t] = c]
        /\ Goto(t, "rm_commit")
        /\ io' = NoIo
        /\ UNCHANGED <<table, geom, job, told>>
    BY <1>1, <1>3
  <2>2. c.part \in PartNums /\ IsWritable(table[c.part])
    BY <2>1 DEF ped_disk_get_partition, IsWritable
  <2>3. table \in Table /\ GoodTable(table)
    BY DEF IInv, TypeOK
  <2>4. PICK e \in Table : GoodTable(e) /\ disk' = [disk EXCEPT ![t] = e]
    BY <2>1, <2>2, <2>3, DeleteKeepsGood
  <2>5. c \in Command
    BY CommandAssumption
  <2>6. c.part \in 0 .. MaxPartNum
    BY <2>2, SizesAssumption DEF PartNums
  <2>7. LocalsOK'
    BY <2>1, <2>4, <2>5, <2>6 DEF IInv, TypeOK, LocalsOK, Goto
  <2>8. pc'[t] = "rm_commit" /\ disk'[t] = e /\ num'[t] = c.part /\ cmd'[t] = c
    BY <2>1, <2>4 DEF IInv, TypeOK, Goto
  <2>9. ThreadOK(t)'
    BY <2>2, <2>4, <2>5, <2>8 DEF ThreadOK, GoodTable, WellFormed, KeepsProtected
  <2>10. OthersUntouched(t)
    BY <2>1, <2>4 DEF IInv, TypeOK, Goto, OthersUntouched
  <2>11. IoOK'
    BY <2>1, NoIoKeeps
  <2> QED
    BY <2>1, <2>7, <2>9, <2>10, <2>11, MoveKeeps
<1> QED
  BY <1>2, <1>3

(* A commit puts the thread's copy on the device: a good table, whatever    *)
(* other threads have committed since the copy was taken.                   *)
LEMMA CommitKeeps ==
    ASSUME IInv, NEW t \in Threads, pc[t] \in {"mk_dev", "rm_commit"}, table' = disk[t]
    PROVE  table' \in Table /\ GoodTable(table)'
<1>1. disk[t] \in Table /\ GoodTable(disk[t])
  BY DEF IInv, TypeOK, ThreadOK
<1> QED
  BY <1>1 DEF GoodTable, WellFormed, KeepsProtected

LEMMA CreateCommitKeeps ==
    ASSUME IInv, NEW t \in Threads, CreateCommitToDev(t) PROVE IInv'
<1>1. CASE ReplyOnly(t)
  BY <1>1, ReplyOnlyKeeps
<1>2. CASE ~ReplyOnly(t)
  <2>1. /\ pc[t] = "mk_dev" /\ table' = disk[t] /\ io' = NoIo
        /\ told' = [told EXCEPT ![num[t]] = "unknown"]
        /\ Goto(t, "mk_os")
        /\ UNCHANGED <<cmd, disk, geom, num, job>>
    BY <1>2 DEF CreateCommitToDev
  <2>2. table' \in Table /\ GoodTable(table)'
    BY <2>1, CommitKeeps
  <2>3. LocalsOK' /\ told' \in [PartNums -> {"unknown", "created", "deleted"}]
    BY <2>1 DEF IInv, TypeOK, LocalsOK, Goto
  <2>4. IoOK'
    BY <2>1, NoIoKeeps
  <2>5. ASSUME NEW u \in Threads PROVE ThreadOK(u)'
    <3>1. ThreadOK(u)
      BY DEF IInv
    <3>2. CASE u = t
      <4>1. pc'[t] = "mk_os"
        BY <2>1 DEF IInv, TypeOK, Goto
      <4> QED
        BY <2>1, <3>1, <3>2, <4>1 DEF ThreadOK
    <3>3. CASE u # t
      <4>1. pc'[u] = pc[u]
        BY <2>1, <3>3 DEF IInv, TypeOK, Goto
      <4> QED
        BY <2>1, <3>1, <4>1 DEF ThreadOK
    <3> QED
      BY <3>2, <3>3
  <2>6. TypeOK'
    BY <2>2, <2>3, <2>4 DEF TypeOK, LocalsOK, IoOK
  <2> QED
    BY <2>2, <2>4, <2>5, <2>6 DEF IInv, IoOK
<1> QED
  BY <1>1, <1>2

LEMMA CreateOsKeeps ==
    ASSUME IInv, NEW t \in Threads, CreateCommitToOs(t) PROVE IInv'
<1>1. CASE ReplyOnly(t)
  BY <1>1, ReplyOnlyKeeps
<1>2. CASE ~ReplyOnly(t)
  <2>1. /\ Reply(t) /\ io' = NoIo /\ table' = table
        /\ told' = [told EXCEPT ![num[t]] = "created"]
    BY <1>2 DEF CreateCommitToOs
  <2>2. LocalsOK' /\ \A u \in Threads : ThreadOK(u)'
    BY <2>1, ReplyKeeps
  <2>3. IoOK'
    BY <2>1, NoIoKeeps
  <2>4. GoodTable(table)'
    BY <2>1 DEF IInv, GoodTable, WellFormed, KeepsProtected
  <2>5. told' \in [PartNums -> {"unknown", "created", "deleted"}]
    BY <2>1 DEF IInv, TypeOK
  <2>6. TypeOK'
    BY <2>1, <2>2, <2>3, <2>5 DEF IInv, TypeOK, LocalsOK, IoOK
  <2> QED
    BY <2>2, <2>3, <2>4, <2>6 DEF IInv, IoOK
<1> QED
  BY <1>1, <1>2

LEMMA DeleteCommitKeeps ==
    ASSUME IInv, NEW t \in Threads, DeleteCommit(t) PROVE IInv'
<1>1. Reply(t) /\ io' = NoIo /\ pc[t] = "rm_commit"
  BY DEF DeleteCommit
<1>2. told' \in [PartNums -> {"unknown", "created", "deleted"}]
  BY DEF IInv, TypeOK, DeleteCommit
<1>3. LocalsOK' /\ \A u \in Threads : ThreadOK(u)'
  BY <1>1, ReplyKeeps
<1>4. IoOK'
  BY <1>1, NoIoKeeps
<1>5. table' \in Table /\ GoodTable(table)'
  <2>1. CASE table' = table
    BY <2>1 DEF IInv, TypeOK, GoodTable, WellFormed, KeepsProtected
  <2>2. CASE table' = disk[t]
    BY <1>1, <2>2, CommitKeeps
  <2> QED
    BY <2>1, <2>2 DEF DeleteCommit
<1>6. TypeOK'
  BY <1>2, <1>3, <1>4, <1>5 DEF TypeOK, LocalsOK, IoOK
<1> QED
  BY <1>3, <1>4, <1>5, <1>6 DEF IInv, IoOK

(* A step that only replies and touches sectors of the disk.                *)
LEMMA AccessKeeps ==
    ASSUME IInv, NEW t \in Threads, Reply(t), IoOK', table' = table, told' = told
    PROVE  IInv'
<1>1. LocalsOK' /\ \A u \in Threads : ThreadOK(u)'
  BY ReplyKeeps
<1>2. GoodTable(table)'
  BY DEF IInv, GoodTable, WellFormed, KeepsProtected
<1>3. TypeOK'
  BY <1>1 DEF IInv, TypeOK, LocalsOK, IoOK
<1> QED
  BY <1>1, <1>2, <1>3 DEF IInv, IoOK

LEMMA WriteScanKeeps ==
    ASSUME IInv, NEW t \in Threads, nvmeWritePartitionSector(t) PROVE IInv'
<1>1. PICK c \in Commands :
        \/ ReplyOnly(t)
        \/ /\ IsWritable(ped_disk_get_partition(table, c.part))
           /\ geom' = [geom EXCEPT ![t] = ped_disk_get_partition(table, c.part)]
           /\ cmd' = [cmd EXCEPT ![t] = c]
           /\ Goto(t, "wr_io")
           /\ io' = NoIo
           /\ UNCHANGED <<table, disk, num, job, told>>
  BY DEF nvmeWritePartitionSector
<1>2. CASE ReplyOnly(t)
  BY <1>2, ReplyOnlyKeeps
<1>3. CASE ~ReplyOnly(t)
  <2> DEFINE part == table[c.part]
  <2>1. /\ c.part \in PartNums /\ IsWritable(part)
        /\ geom' = [geom EXCEPT ![t] = part]
        /\ cmd' = [cmd EXCEPT ![t] = c]
        /\ Goto(t, "wr_io")
        /\ io' = NoIo
        /\ UNCHANGED <<table, disk, num, job, told>>
    BY <1>1, <1>3 DEF ped_disk_get_partition, IsWritable
  <2>2. table \in Table /\ GoodTable(table)
    BY DEF IInv, TypeOK
  <2>3. part \in Partition /\ part.start \notin ProtectedSectors
    BY <2>1, <2>2, WritableIsUnprotected
  <2>4. c \in Command
    BY CommandAssumption
  <2>5. LocalsOK'
    BY <2>1, <2>3, <2>4 DEF IInv, TypeOK, LocalsOK, Goto
  <2>6. pc'[t] = "wr_io" /\ geom'[t] = part /\ cmd'[t] = c
    BY <2>1 DEF IInv, TypeOK, Goto
  <2>7. ThreadOK(t)'
    BY <2>3, <2>4, <2>6 DEF ThreadOK
  <2>8. OthersUntouched(t)
    BY <2>1 DEF IInv, TypeOK, Goto, OthersUntouched
  <2>9. IoOK'
    BY <2>1, NoIoKeeps
  <2> QED
    BY <2>1, <2>5, <2>7, <2>8, <2>9, MoveKeeps
<1> QED
  BY <1>2, <1>3

LEMMA WriteKeeps ==
    ASSUME IInv, NEW t \in Threads, WriteSector(t) PROVE IInv'
<1>1. pc[t] = "wr_io" /\ Reply(t) /\ table' = table /\ told' = told
  BY DEF WriteSector
<1>2. IoOK'
  <2>1. CASE io' = NoIo
    BY <2>1, NoIoKeeps
  <2>2. CASE io' # NoIo
    <3>1. io' = [op |-> "write", first |-> geom[t].start, last |-> geom[t].start]
      BY <2>2 DEF WriteSector
    <3>2. geom[t] \in Partition /\ geom[t].start \notin ProtectedSectors /\ cmd[t] \in Command
      BY <1>1 DEF IInv, ThreadOK
    <3>3. geom[t].start \in Sectors /\ cmd[t].a \in Nat
      BY <3>2 DEF Partition, Command
    <3>4. geom[t].start + cmd[t].a \in Nat
      BY <3>3, SizesAssumption DEF Sectors
    <3> QED
      BY <3>1, <3>2, <3>3, <3>4 DEF IoOK, UserWritesSpareProtected
  <2> QED
    BY <2>1, <2>2
<1> QED
  BY <1>1, <1>2, AccessKeeps

LEMMA ReadScanKeeps ==
    ASSUME IInv, NEW t \in Threads, nvmeReadPartitionSector(t) PROVE IInv'
<1>1. PICK c \in Commands :
        \/ ReplyOnly(t)
        \/ /\ ped_disk_get_partition(table, c.part) # NoPart
           /\ geom' = [geom EXCEPT ![t] = ped_disk_get_partition(table, c.part)]
           /\ cmd' = [cmd EXCEPT ![t] = c]
           /\ Goto(t, "rd_io")
           /\ io' = NoIo
           /\ UNCHANGED <<table, disk, num, job, told>>
  BY DEF nvmeReadPartitionSector
<1>2. CASE ReplyOnly(t)
  BY <1>2, ReplyOnlyKeeps
<1>3. CASE ~ReplyOnly(t)
  <2> DEFINE part == table[c.part]
  <2>1. /\ c.part \in PartNums /\ part # NoPart
        /\ geom' = [geom EXCEPT ![t] = part]
        /\ cmd' = [cmd EXCEPT ![t] = c]
        /\ Goto(t, "rd_io")
        /\ io' = NoIo
        /\ UNCHANGED <<table, disk, num, job, told>>
    BY <1>1, <1>3 DEF ped_disk_get_partition
  <2>2. part \in Partition
    BY <2>1 DEF IInv, TypeOK, Table
  <2>3. c \in Command
    BY CommandAssumption
  <2>4. LocalsOK'
    BY <2>1, <2>2, <2>3 DEF IInv, TypeOK, LocalsOK, Goto
  <2>5. pc'[t] = "rd_io" /\ geom'[t] = part /\ cmd'[t] = c
    BY <2>1 DEF IInv, TypeOK, Goto
  <2>6. ThreadOK(t)'
    BY <2>2, <2>3, <2>5 DEF ThreadOK
  <2>7. OthersUntouched(t)
    BY <2>1 DEF IInv, TypeOK, Goto, OthersUntouched
  <2>8. IoOK'
    BY <2>1, NoIoKeeps
  <2> QED
    BY <2>1, <2>4, <2>6, <2>7, <2>8, MoveKeeps
<1> QED
  BY <1>2, <1>3

LEMMA ReadKeeps ==
    ASSUME IInv, NEW t \in Threads, ReadSectors(t) PROVE IInv'
<1> DEFINE last == geom[t].start + SectorCount(cmd[t]) - 1
<1>1. pc[t] = "rd_io" /\ Reply(t) /\ table' = table /\ told' = told
  BY DEF ReadSectors
<1>2. IoOK'
  <2>1. CASE io' = NoIo
    BY <2>1, NoIoKeeps
  <2>2. CASE io' # NoIo
    <3>1. /\ last <= geom[t].end
          /\ io' = [op |-> "read", first |-> geom[t].start, last |-> last]
      BY <2>2 DEF ReadSectors, InGeometry
    <3>2. geom[t] \in Partition /\ cmd[t] \in Command
      BY <1>1 DEF IInv, ThreadOK
    <3>3. geom[t].start \in Sectors /\ geom[t].end \in Sectors /\ cmd[t].a \in Nat
      BY <3>2 DEF Partition, Command
    <3>4. SectorCount(cmd[t]) \in Nat
      BY <3>2, SectorCountType
    <3>5. last \in Sectors \cup {-1} /\ geom[t].start + cmd[t].a \in Nat
      BY <3>1, <3>3, <3>4, SizesAssumption DEF Sectors
    <3> QED
      BY <3>1, <3>3, <3>5 DEF IoOK, UserWritesSpareProtected
  <2> QED
    BY <2>1, <2>2
<1> QED
  BY <1>1, <1>2, AccessKeeps

(* The steps of a performance command.                                      *)
LEMMA PerfKeeps ==
    ASSUME IInv, NEW t \in Threads,
           PerfAccept(t) \/ PerfCheckRange(t) \/ PerfGetStart(t) \/ PerfGetEnd(t)
              \/ PerfWriteSector(t) \/ PerfDone(t)
    PROVE  IInv'
<1>1. CASE ReplyOnly(t)
  BY <1>1, ReplyOnlyKeeps
<1>2. CASE PerfAccept(t) /\ ~ReplyOnly(t)
  <2>1. PICK c \in Commands :
           /\ cmd' = [cmd EXCEPT ![t] = c]
           /\ Goto(t, "pf_range")
           /\ io' = NoIo
           /\ UNCHANGED <<table, disk, geom, num, job, told>>
    BY <1>2 DEF PerfAccept
  <2>2. c \in Command
    BY CommandAssumption
  <2>3. LocalsOK' /\ OthersUntouched(t) /\ pc'[t] = "pf_range" /\ cmd'[t] = c
    BY <2>1, <2>2 DEF IInv, TypeOK, LocalsOK, Goto, OthersUntouched
  <2>4. ThreadOK(t)'
    BY <2>2, <2>3 DEF ThreadOK
  <2> QED
    BY <2>1, <2>3, <2>4, NoIoKeeps, MoveKeeps
<1>3. CASE PerfCheckRange(t) /\ ~ReplyOnly(t)
  <2>1. /\ pc[t] = "pf_range"
        /\ Goto(t, "pf_start")
        /\ io' = NoIo
        /\ UNCHANGED <<table, cmd, disk, geom, num, job, told>>
    BY <1>3 DEF PerfCheckRange
  <2>2. LocalsOK' /\ OthersUntouched(t) /\ pc'[t] = "pf_start"
    BY <2>1 DEF IInv, TypeOK, LocalsOK, Goto, OthersUntouched
  <2>3. ThreadOK(t)'
    BY <2>1, <2>2 DEF IInv, ThreadOK
  <2> QED
    BY <2>1, <2>2, <2>3, NoIoKeeps, MoveKeeps
<1>4. CASE PerfGetStart(t) /\ ~ReplyOnly(t)
  <2>1. /\ pc[t] = "pf_start" /\ "OK" \in nvmeGetLbaInPart(cmd[t])
        /\ geom' = [geom EXCEPT ![t] = PerfPart(cmd[t])]
        /\ Goto(t, "pf_end")
        /\ io' = NoIo
        /\ UNCHANGED <<table, cmd, disk, num, job, told>>
    BY <1>4 DEF PerfGetStart
  <2>2. PerfPart(cmd[t]) \in Partition
    <3>1. PerfPart(cmd[t]) # NoPart
      BY <2>1 DEF nvmeGetLbaInPart, OpenFailures
    <3> QED
      BY <3>1 DEF PerfPart, ped_disk_get_partition, IInv, TypeOK, Table
  <2>3. LocalsOK' /\ OthersUntouched(t) /\ pc'[t] = "pf_end" /\ geom'[t] = PerfPart(cmd[t])
    BY <2>1, <2>2 DEF IInv, TypeOK, LocalsOK, Goto, OthersUntouched
  <2>4. ThreadOK(t)'
    BY <2>1, <2>2, <2>3 DEF IInv, ThreadOK
  <2> QED
    BY <2>1, <2>3, <2>4, NoIoKeeps, MoveKeeps
<1>5. CASE PerfGetEnd(t) /\ ~ReplyOnly(t)
  <2> DEFINE range == [startlba |-> (cmd[t].a + geom[t].start) % LbaModulus,
                       endlba   |-> (cmd[t].b + geom[t].start) % LbaModulus]
  <2>1. /\ pc[t] = "pf_end"
        /\ job' = [job EXCEPT ![t] = range]
        /\ Goto(t, "pf_run")
        /\ io' = NoIo
        /\ UNCHANGED <<table, cmd, disk, geom, num, told>>
    BY <1>5 DEF PerfGetEnd
  <2>2. range \in [startlba : 0 .. LbaModulus - 1, endlba : 0 .. LbaModulus - 1]
    <3>1. cmd[t] \in Command /\ geom[t] \in Partition
      BY <2>1 DEF IInv, ThreadOK
    <3>2. cmd[t].a \in Nat /\ cmd[t].b \in Nat /\ geom[t].start \in Nat
      BY <3>1, SizesAssumption DEF Command, Partition, Sectors
    <3> QED
      BY <3>2, WidthAssumption
  <2> HIDE DEF range
  <2>3. LocalsOK' /\ OthersUntouched(t) /\ pc'[t] = "pf_run"
    BY <2>1, <2>2 DEF IInv, TypeOK, LocalsOK, Goto, OthersUntouched
  <2>4. ThreadOK(t)'
    BY <2>1, <2>3 DEF IInv, ThreadOK
  <2> QED
    BY <2>1, <2>3, <2>4, NoIoKeeps, MoveKeeps
<1>6. CASE PerfWriteSector(t)
  <2>1. PICK s \in Sectors : io' = [op |-> "perf", first |-> s, last |-> s]
    BY <1>6 DEF PerfWriteSector
  <2>2. s \in Nat
    BY SizesAssumption DEF Sectors
  <2>3. IoOK'
    BY <2>1, <2>2 DEF IoOK, UserWritesSpareProtected
  <2>4. UNCHANGED <<table, pc, cmd, disk, geom, num, job, told>>
    BY <1>6 DEF PerfWriteSector
  <2>5. LocalsOK' /\ OthersUntouched(t) /\ ThreadOK(t)'
    BY <2>4 DEF IInv, TypeOK, LocalsOK, OthersUntouched, ThreadOK
  <2> QED
    BY <2>3, <2>4, <2>5, MoveKeeps
<1>7. CASE PerfDone(t)
  BY <1>1, <1>7 DEF PerfDone
<1> QED
  BY <1>1, <1>2, <1>3, <1>4, <1>5, <1>6, <1>7

LEMMA StepIInv == IInv /\ [Next]_vars => IInv'
<1> SUFFICES ASSUME IInv, [Next]_vars PROVE IInv'
  OBVIOUS
<1>1. CASE Next
  BY <1>1, CreateKeeps, CreateCommitKeeps, CreateOsKeeps, DeleteKeeps, DeleteCommitKeeps,
     WriteScanKeeps, WriteKeeps, ReadScanKeeps, ReadKeeps, PerfKeeps
     DEF Next
<1>2. CASE UNCHANGED vars
  BY <1>2 DEF vars, IInv, TypeOK, GoodTable, WellFormed, KeepsProtected, ThreadOK,
              UserWritesSpareProtected
<1> QED
  BY <1>1, <1>2

LEMMA SpecIInv == Spec => []IInv
  BY InitIInv, StepIInv, PTL DEF Spec

-----------------------------------------------------------------------------
(* Every variable of the server keeps its type; in particular no read of    *)
(* nvmeReadPartitionSector leaves the drive and no range overflows uint32.  *)
THEOREM TypeCorrect == Spec => []TypeOK
<1>1. IInv => TypeOK
  BY DEF IInv
<1> QED
  BY SpecIInv, <1>1, PTL

(* However many clients create and delete partitions at once, and whichever *)
(* libparted call fails, no partition SAFE_MODE protects is removed, moved  *)
(* or renamed by a commit of a stale copy of the table.                     *)
THEOREM ProtectedSurvive == Spec => []ProtectedEntriesKept
<1>1. IInv => ProtectedEntriesKept
  BY DEF IInv, GoodTable, ProtectedEntriesKept
<1> QED
  BY SpecIInv, <1>1, PTL

(* The table on the device never holds overlapping partitions.              *)
THEOREM NoOverlap == Spec => []TableWellFormed
<1>1. IInv => TableWellFormed
  BY DEF IInv, GoodTable, TableWellFormed
<1> QED
  BY SpecIInv, <1>1, PTL

(* The write command spares protected partitions although the table may     *)
(* have changed between its name check and its write.                       *)
THEOREM WriteIsSafe == Spec => []UserWritesSpareProtected
<1>1. IInv => UserWritesSpareProtected
  BY DEF IInv
<1> QED
  BY SpecIInv, <1>1, PTL

-----------------------------------------------------------------------------
(* One client at a time.  The calls of a performance command each read the  *)
(* table anew, and a commit writes back what was read before it: what they  *)
(* have found stays true only if no other thread commits in between.  The   *)
(* theorems below say so, and take from libparted only what they must: a    *)
(* performance command goes on when the device was not found while it       *)
(* checked its range, and a deletion that failed is reported as done.       *)

OneClient == \A t, u \in Threads : t = u

PerfLabels == {"pf_range", "pf_start", "pf_end", "pf_run"}

(* Every sector of a partition SAFE_MODE lets pass is unprotected.          *)
LEMMA CoveredIsUnprotected ==
    ASSUME NEW d \in Table, GoodTable(d), NEW k \in PartNums, IsWritable(d[k]),
           NEW s \in Covers(d[k])
    PROVE  s \notin ProtectedSectors
<1>1. d[k] \in Partition /\ d[k].name = "AESD"
  BY DEF Table, IsWritable, nvmeCheckNameSafety
<1>2. SUFFICES ASSUME NEW n \in Protected, s \in Covers(InitTable[n]) PROVE FALSE
  BY DEF ProtectedSectors
<1>3. n \in PartNums /\ d[n] = InitTable[n] /\ d[n] # NoPart /\ d[n].name # "AESD"
  BY DEF GoodTable, KeepsProtected, Protected
<1>4. n # k
  BY <1>1, <1>3
<1>5. ~Overlap(d[k], d[n])
  BY <1>1, <1>3, <1>4, NoPartAssumption DEF GoodTable, WellFormed
<1>6. d[n] \in Partition
  BY <1>3 DEF Table
<1>7. /\ d[k].start \in Sectors /\ d[k].end \in Sectors
      /\ d[n].start \in Sectors /\ d[n].end \in Sectors
  BY <1>1, <1>6 DEF Partition
<1>8. s \in d[k].start .. d[k].end /\ s \in d[n].start .. d[n].end
  BY <1>2, <1>3 DEF Covers
<1> QED
  BY <1>5, <1>7, <1>8, SizesAssumption DEF Overlap, Sectors

(* Both ends of the job's range, relative to p, lie in p.                   *)
InRange(c, p) == c.a <= c.b /\ c.a + p.start <= p.end /\ c.b + p.start <= p.end

(* What the calls of a performance command have established so far.         *)
PerfPlace(t) ==
    /\ pc[t] \in PerfLabels =>
          /\ cmd[t].a <= cmd[t].b
          /\ cmd[t].op = "perf_write" => IsWritable(PerfPart(cmd[t]))
    /\ pc[t] = "pf_start" =>
          PerfPart(cmd[t]) = NoPart \/ InRange(cmd[t], PerfPart(cmd[t]))
    /\ pc[t] \in {"pf_end", "pf_run"} =>
          /\ PerfPart(cmd[t]) # NoPart /\ geom[t] = PerfPart(cmd[t])
          /\ InRange(cmd[t], PerfPart(cmd[t]))
    /\ pc[t] = "pf_run" =>
          /\ job[t].startlba = cmd[t].a + PerfPart(cmd[t]).start
          /\ job[t].endlba = cmd[t].b + PerfPart(cmd[t]).start

PInv == (\A t \in Threads : PerfPlace(t)) /\ SafeModeHolds

LEMMA PInvInit == Init => PInv
BY DEF Init, PInv, PerfPlace, PerfLabels, SafeModeHolds, NoIo

(* An entry of the table that is there is a partition of the drive.         *)
LEMMA PerfPartType ==
    ASSUME TypeOK, NEW c, PerfPart(c) # NoPart
    PROVE  /\ PerfPart(c) \in Partition /\ c.part % 256 \in PartNums
           /\ PerfPart(c) = table[c.part % 256]
           /\ PerfPart(c).start \in Nat /\ PerfPart(c).end \in 0 .. DiskLength - 1
<1>1. c.part % 256 \in PartNums /\ PerfPart(c) = table[c.part % 256]
  BY DEF PerfPart, ped_disk_get_partition
<1>2. PerfPart(c) \in Partition
  BY <1>1 DEF TypeOK, Table
<1> QED
  BY <1>1, <1>2, SizesAssumption DEF Partition, Sectors

(* Steps that leave the thread outside the performance commands.            *)
LEMMA PerfOther ==
    ASSUME IInv, IInv', PInv, OneClient, NEW t \in Threads,
           pc'[t] \notin PerfLabels, io'.op # "perf"
    PROVE  PInv'
<1>1. \A u \in Threads : u = t
  BY DEF OneClient
<1>2. PerfPlace(t)'
  BY DEF PerfPlace, PerfLabels
<1>3. SafeModeHolds'
  BY DEF IInv, UserWritesSpareProtected, SafeModeHolds
<1> QED
  BY <1>1, <1>2, <1>3 DEF PInv

LEMMA PcAt ==
    ASSUME TypeOK, NEW t \in Threads, NEW l, Goto(t, l) PROVE pc'[t] = l
BY DEF TypeOK, Goto

LEMMA PerfReplies ==
    ASSUME IInv, IInv', PInv, OneClient, NEW t \in Threads, Reply(t), io'.op # "perf"
    PROVE  PInv'
<1>1. pc'[t] = "recv"
  BY PcAt DEF Reply, IInv
<1> QED
  BY <1>1, PerfOther DEF PerfLabels

LEMMA PerfElsewhere ==
    ASSUME IInv, IInv', PInv, OneClient, NEW t \in Threads,
           \/ nvmeCreatePartition(t) \/ CreateCommitToDev(t) \/ CreateCommitToOs(t)
           \/ nvmeDeletePartition(t) \/ DeleteCommit(t)
           \/ nvmeWritePartitionSector(t) \/ WriteSector(t)
           \/ nvmeReadPartitionSector(t) \/ ReadSectors(t)
    PROVE  PInv'
<1>1. NoIo.op = "none"
  BY DEF NoIo
<1>2. CASE Reply(t)
  <2>1. io'.op # "perf"
    BY <1>1 DEF nvmeCreatePartition, CreateCommitToDev, CreateCommitToOs, nvmeDeletePartition,
           DeleteCommit, nvmeWritePartitionSector, WriteSector, nvmeReadPartitionSector,
           ReadSectors, ReplyOnly
  <2> QED
    BY <1>2, <2>1, PerfReplies
<1>3. CASE ~Reply(t)
  <2>1. io' = NoIo /\ \E l \in {"mk_dev", "mk_os", "rm_commit", "wr_io", "rd_io"} : Goto(t, l)
    BY <1>3 DEF nvmeCreatePartition, CreateCommitToDev, CreateCommitToOs, nvmeDeletePartition,
           DeleteCommit, nvmeWritePartitionSector, WriteSector, nvmeReadPartitionSector,
           ReadSectors, ReplyOnly
  <2>2. PICK l \in {"mk_dev", "mk_os", "rm_commit", "wr_io", "rd_io"} : Goto(t, l)
    BY <2>1
  <2>3. pc'[t] = l
    BY <2>2, PcAt DEF IInv
  <2> QED
    BY <1>1, <2>1, <2>2, <2>3, PerfOther DEF PerfLabels
<1> QED
  BY <1>2, <1>3

(* Steps of a performance command that do not touch the disk.               *)
LEMMA PerfQuiet ==
    ASSUME IInv, PInv, OneClient, NEW t \in Threads, PerfPlace(t)', io' = NoIo
    PROVE  PInv'
<1>1. \A u \in Threads : u = t
  BY DEF OneClient
<1>2. SafeModeHolds'
  BY DEF SafeModeHolds, NoIo
<1> QED
  BY <1>1, <1>2 DEF PInv

LEMMA PerfAcceptPlaces ==
    ASSUME IInv, IInv', PInv, OneClient, "get" \notin Faults, NEW t \in Threads, PerfAccept(t)
    PROVE  PInv'
<1>1. CASE ReplyOnly(t)
  <2>1. Reply(t) /\ io'.op # "perf"
    BY <1>1 DEF ReplyOnly, NoIo
  <2> QED
    BY <2>1, PerfReplies
<1>2. CASE ~ReplyOnly(t)
  <2>1. PICK c \in Commands :
           /\ \E rc \in IF c.op = "perf_write" THEN nvmeCheckNameSafetyPartNumber(c) ELSE {"OK"} :
                 rc = "OK" /\ c.a <= c.b
           /\ cmd' = [cmd EXCEPT ![t] = c]
           /\ Goto(t, "pf_range")
           /\ io' = NoIo
           /\ UNCHANGED <<table, disk, geom, num, job, told>>
    BY <1>2 DEF PerfAccept
  <2>2. c.a <= c.b
    BY <2>1
  <2>3. c.op = "perf_write" => IsWritable(PerfPart(c))
    <3>1. ASSUME c.op = "perf_write" PROVE "OK" \in nvmeCheckNameSafetyPartNumber(c)
      BY <2>1, <3>1
    <3>2. "OK" \notin OpenFailures
      BY DEF OpenFailures
    <3>3. "OK" \in nvmeCheckNameSafetyPartNumber(c) => IsWritable(PerfPart(c))
      BY <3>2 DEF nvmeCheckNameSafetyPartNumber, IsWritable
    <3> QED
      BY <3>1, <3>3
  <2>4. cmd'[t] = c /\ pc'[t] = "pf_range"
    BY <2>1, PcAt DEF IInv, TypeOK
  <2>5. PerfPart(cmd[t])' = PerfPart(c)
    BY <2>1, <2>4 DEF PerfPart, ped_disk_get_partition
  <2>6. IsWritable(PerfPart(cmd[t]))' <=> IsWritable(PerfPart(c))
    BY <2>5 DEF IsWritable, nvmeCheckNameSafety
  <2>7. PerfPlace(t)'
    BY <2>2, <2>3, <2>4, <2>6 DEF PerfPlace
  <2> QED
    BY <2>1, <2>7, PerfQuiet
<1> QED
  BY <1>1, <1>2

(* A later call of the command sees the entry that the earlier ones saw.    *)
LEMMA PartKept ==
    ASSUME NEW t \in Threads, table' = table, cmd' = cmd
    PROVE  /\ PerfPart(cmd[t])' = PerfPart(cmd[t])
           /\ IsWritable(PerfPart(cmd[t]))' <=> IsWritable(PerfPart(cmd[t]))
           /\ InRange(cmd[t], PerfPart(cmd[t]))' <=> InRange(cmd[t], PerfPart(cmd[t]))
<1>1. PerfPart(cmd[t])' = PerfPart(cmd[t])
  BY DEF PerfPart, ped_disk_get_partition
<1> QED
  BY <1>1 DEF IsWritable, nvmeCheckNameSafety, InRange

LEMMA PerfRangePlaces ==
    ASSUME IInv, IInv', PInv, OneClient, "get" \notin Faults, NEW t \in Threads, PerfCheckRange(t)
    PROVE  PInv'
<1>1. CASE ReplyOnly(t)
  <2>1. Reply(t) /\ io'.op # "perf"
    BY <1>1 DEF ReplyOnly, NoIo
  <2> QED
    BY <2>1, PerfReplies
<1>2. CASE ~ReplyOnly(t)
  <2>1. /\ pc[t] = "pf_range"
        /\ \E rc \in nvmeCheckLbaRangeInPart(cmd[t]) : rc # "ERROR"
        /\ Goto(t, "pf_start")
        /\ io' = NoIo
        /\ UNCHANGED <<table, cmd, disk, geom, num, job, told>>
    BY <1>2 DEF PerfCheckRange
  <2>2. cmd[t].a <= cmd[t].b /\ (cmd[t].op = "perf_write" => IsWritable(PerfPart(cmd[t])))
    BY <2>1 DEF PInv, PerfPlace, PerfLabels
  <2>3. PerfPart(cmd[t]) = NoPart \/ InRange(cmd[t], PerfPart(cmd[t]))
    <3>1. \A rc \in OpenFailures : rc = "ERROR"
      BY DEF OpenFailures
    <3>2. PICK rc \in nvmeCheckLbaRangeInPart(cmd[t]) : rc # "ERROR"
      BY <2>1
    <3>3. PerfPart(cmd[t]) # NoPart =>
             /\ cmd[t].a + PerfPart(cmd[t]).start <= PerfPart(cmd[t]).end
             /\ cmd[t].b + PerfPart(cmd[t]).start <= PerfPart(cmd[t]).end
      BY <3>1, <3>2 DEF nvmeCheckLbaRangeInPart
    <3> QED
      BY <2>2, <3>3 DEF InRange
  <2>4. pc'[t] = "pf_start" /\ cmd' = cmd /\ table' = table
    BY <2>1, PcAt DEF IInv
  <2>5. PerfPlace(t)'
    BY <2>2, <2>3, <2>4, PartKept DEF PerfPlace
  <2> QED
    BY <2>1, <2>5, PerfQuiet
<1> QED
  BY <1>1, <1>2

LEMMA PerfStartPlaces ==
    ASSUME IInv, IInv', PInv, OneClient, NEW t \in Threads, PerfGetStart(t)
    PROVE  PInv'
<1>1. CASE ReplyOnly(t)
  <2>1. Reply(t) /\ io'.op # "perf"
    BY <1>1 DEF ReplyOnly, NoIo
  <2> QED
    BY <2>1, PerfReplies
<1>2. CASE ~ReplyOnly(t)
  <2>1. /\ pc[t] = "pf_start" /\ "OK" \in nvmeGetLbaInPart(cmd[t])
        /\ geom' = [geom EXCEPT ![t] = PerfPart(cmd[t])]
        /\ Goto(t, "pf_end")
        /\ io' = NoIo
        /\ UNCHANGED <<table, cmd, disk, num, job, told>>
    BY <1>2 DEF PerfGetStart
  <2>2. cmd[t].a <= cmd[t].b /\ (cmd[t].op = "perf_write" => IsWritable(PerfPart(cmd[t])))
        /\ (PerfPart(cmd[t]) = NoPart \/ InRange(cmd[t], PerfPart(cmd[t])))
    BY <2>1 DEF PInv, PerfPlace, PerfLabels
  <2>3. PerfPart(cmd[t]) # NoPart
    BY <2>1 DEF nvmeGetLbaInPart, OpenFailures
  <2>4. pc'[t] = "pf_end" /\ cmd' = cmd /\ table' = table /\ geom'[t] = PerfPart(cmd[t])
    BY <2>1, PcAt DEF IInv, TypeOK
  <2>5. PerfPlace(t)'
    BY <2>2, <2>3, <2>4, PartKept DEF PerfPlace
  <2> QED
    BY <2>1, <2>5, PerfQuiet
<1> QED
  BY <1>1, <1>2

(* The sum stays on the drive, so it does not wrap as a uint32_t.           *)
LEMMA PerfEndPlaces ==
    ASSUME IInv, IInv', PInv, OneClient, DiskLength <= LbaModulus,
           NEW t \in Threads, PerfGetEnd(t)
    PROVE  PInv'
<1>1. CASE ReplyOnly(t)
  <2>1. Reply(t) /\ io'.op # "perf"
    BY <1>1 DEF ReplyOnly, NoIo
  <2> QED
    BY <2>1, PerfReplies
<1>2. CASE ~ReplyOnly(t)
  <2>1. /\ pc[t] = "pf_end"
        /\ job' = [job EXCEPT ![t] =
              [startlba |-> (cmd[t].a + geom[t].start) % LbaModulus,
               endlba   |-> (cmd[t].b + geom[t].start) % LbaModulus]]
        /\ Goto(t, "pf_run")
        /\ io' = NoIo
        /\ UNCHANGED <<table, cmd, disk, geom, num, told>>
    BY <1>2 DEF PerfGetEnd
  <2>2. /\ cmd[t].a <= cmd[t].b
        /\ cmd[t].op = "perf_write" => IsWritable(PerfPart(cmd[t]))
        /\ PerfPart(cmd[t]) # NoPart /\ geom[t] = PerfPart(cmd[t])
        /\ InRange(cmd[t], PerfPart(cmd[t]))
    BY <2>1 DEF PInv, PerfPlace, PerfLabels
  <2>3. cmd[t] \in Command
    BY <2>1 DEF IInv, ThreadOK
  <2>4. PICK a \in Nat, b \in Nat : a = cmd[t].a /\ b = cmd[t].b
    BY <2>3 DEF Command
  <2>5. PICK s \in Nat, e \in 0 .. DiskLength - 1 :
            s = PerfPart(cmd[t]).start /\ e = PerfPart(cmd[t]).end
    BY <2>2, PerfPartType DEF IInv
  <2>6. a + s <= e /\ b + s <= e
    BY <2>2, <2>4, <2>5 DEF InRange
  <2>7. a + s \in 0 .. LbaModulus - 1 /\ b + s \in 0 .. LbaModulus - 1
    BY <2>6, SizesAssumption, WidthAssumption
  <2>8. (a + s) % LbaModulus = a + s /\ (b + s) % LbaModulus = b + s
    BY <2>7, WidthAssumption
  <2>9. job'[t].startlba = a + s /\ job'[t].endlba = b + s
    BY <2>1, <2>2, <2>4, <2>5, <2>8 DEF IInv, TypeOK
  <2>10. pc'[t] = "pf_run" /\ cmd' = cmd /\ table' = table /\ geom' = geom
    BY <2>1, PcAt DEF IInv
  <2>11. PerfPlace(t)'
    BY <2>2, <2>4, <2>5, <2>9, <2>10, PartKept DEF PerfPlace
  <2> QED
    BY <2>1, <2>11, PerfQuiet
<1> QED
  BY <1>1, <1>2

LEMMA PerfWritePlaces ==
    ASSUME IInv, PInv, OneClient, NEW t \in Threads, PerfWriteSector(t)
    PROVE  PInv'
<1>1. PICK x \in Sectors :
          /\ job[t].startlba <= x /\ x <= job[t].endlba
          /\ io' = [op |-> "perf", first |-> x, last |-> x]
  BY DEF PerfWriteSector
<1>2. /\ pc[t] = "pf_run" /\ cmd[t].op = "perf_write"
      /\ UNCHANGED <<table, pc, cmd, disk, geom, num, job, told>>
  BY DEF PerfWriteSector
<1>3. /\ IsWritable(PerfPart(cmd[t])) /\ PerfPart(cmd[t]) # NoPart
      /\ InRange(cmd[t], PerfPart(cmd[t]))
      /\ job[t].startlba = cmd[t].a + PerfPart(cmd[t]).start
      /\ job[t].endlba = cmd[t].b + PerfPart(cmd[t]).start
  BY <1>2 DEF PInv, PerfPlace, PerfLabels
<1>4. PICK k \in PartNums : PerfPart(cmd[t]) = table[k]
  BY <1>3, PerfPartType DEF IInv
<1>5. cmd[t] \in Command
  BY <1>2 DEF IInv, ThreadOK
<1>6. PICK a \in Nat, b \in Nat : a = cmd[t].a /\ b = cmd[t].b
  BY <1>5 DEF Command
<1>7. PICK s \in Nat, e \in Int : s = table[k].start /\ e = table[k].end
  BY <1>3, <1>4, PerfPartType, SizesAssumption DEF IInv
<1>8. b + s <= e /\ a + s <= x /\ x <= b + s /\ x \in Int
  BY <1>1, <1>3, <1>4, <1>6, <1>7, SizesAssumption DEF InRange, Sectors
<1>9. x \in Covers(table[k])
  BY <1>7, <1>8 DEF Covers
<1>10. x \notin ProtectedSectors
  BY <1>3, <1>4, <1>9, CoveredIsUnprotected DEF IInv, TypeOK
<1>11. SafeModeHolds'
  BY <1>1, <1>10 DEF SafeModeHolds, ProtectedSectors
<1>12. \A u \in Threads : PerfPlace(u)'
  <2>1. \A u \in Threads : PerfPlace(u)
    BY DEF PInv
  <2> QED
    BY <1>2, <2>1, PartKept DEF PerfPlace
<1> QED
  BY <1>11, <1>12 DEF PInv

LEMMA PInvStep ==
    ASSUME OneClient, DiskLength <= LbaModulus, "get" \notin Faults
    PROVE  IInv /\ IInv' /\ PInv /\ [Next]_vars => PInv'
<1> SUFFICES ASSUME IInv, IInv', PInv, [Next]_vars PROVE PInv'
  OBVIOUS
<1>1. ASSUME NEW t \in Threads, PerfDone(t) PROVE PInv'
  <2>1. Reply(t) /\ io'.op # "perf"
    BY <1>1 DEF PerfDone, ReplyOnly, NoIo
  <2> QED
    BY <2>1, PerfReplies
<1>2. CASE Next
  BY <1>1, <1>2, PerfElsewhere, PerfAcceptPlaces, PerfRangePlaces, PerfStartPlaces, PerfEndPlaces,
     PerfWritePlaces DEF Next
<1>3. CASE UNCHANGED vars
  <2>1. UNCHANGED <<table, cmd, pc, geom, job, io>>
    BY <1>3 DEF vars
  <2>2. SafeModeHolds'
    BY <2>1 DEF PInv, SafeModeHolds
  <2>3. \A u \in Threads : PerfPlace(u)
    BY DEF PInv
  <2>4. \A u \in Threads : PerfPlace(u)'
    BY <2>1, <2>3, PartKept DEF PerfPlace
  <2> QED
    BY <2>2, <2>4 DEF PInv
<1> QED
  BY <1>2, <1>3

LEMMA SpecPInv ==
    ASSUME OneClient, DiskLength <= LbaModulus, "get" \notin Faults
    PROVE  Spec => []PInv
<1>1. IInv /\ IInv' /\ PInv /\ [Next]_vars => PInv'
  BY PInvStep
<1> QED
  BY SpecIInv, PInvInit, <1>1, PTL DEF Spec

(* SAFE_MODE holds, the sectors that perfStartSeqWrite and its siblings     *)
(* overwrite included, if one client is connected at a time, the drive has  *)
(* no more sectors than a uint32_t can number and its device is found.      *)
THEOREM SafeModeForOneClient ==
    ASSUME OneClient, DiskLength <= LbaModulus, "get" \notin Faults
    PROVE  Spec => []SafeModeHolds
<1>1. PInv => SafeModeHolds
  BY DEF PInv
<1> QED
  BY SpecPInv, <1>1, PTL

(* Under the same conditions a performance job, which works on absolute     *)
(* sector numbers, stays inside the partition it was started for.           *)
THEOREM JobStaysInside ==
    ASSUME OneClient, DiskLength <= LbaModulus, "get" \notin Faults
    PROVE  Spec => []PerfStaysInside
<1>1. IInv /\ PInv => PerfStaysInside
  <2> SUFFICES ASSUME IInv, PInv, NEW t \in Threads, pc[t] = "pf_run"
               PROVE  /\ PerfPart(cmd[t]) # NoPart
                      /\ PerfPart(cmd[t]).start <= job[t].startlba
                      /\ job[t].endlba <= PerfPart(cmd[t]).end
    BY DEF PerfStaysInside
  <2>1. /\ PerfPart(cmd[t]) # NoPart
        /\ InRange(cmd[t], PerfPart(cmd[t]))
        /\ job[t].startlba = cmd[t].a + PerfPart(cmd[t]).start
        /\ job[t].endlba = cmd[t].b + PerfPart(cmd[t]).start
    BY DEF PInv, PerfPlace
  <2>2. cmd[t] \in Command
    BY DEF IInv, ThreadOK
  <2>3. cmd[t].a \in Nat /\ PerfPart(cmd[t]).start \in Nat
    BY <2>1, <2>2, PerfPartType DEF IInv, Command
  <2> QED
    BY <2>1, <2>3 DEF InRange
<1> QED
  BY SpecIInv, SpecPInv, <1>1, PTL

(* What is waiting to be committed: the table as it is on the device with   *)
(* one entry created or deleted.                                            *)
Pending(t) ==
    /\ pc[t] \in {"mk_dev", "rm_commit"} =>
          \A n \in PartNums \ {num[t]} : disk[t][n] = table[n]
    /\ pc[t] = "mk_dev" => disk[t][num[t]] # NoPart
    /\ pc[t] = "mk_os" => table[num[t]] # NoPart
    /\ pc[t] = "rm_commit" => disk[t][num[t]] = NoPart

RInv == (\A t \in Threads : Pending(t)) /\ ToldTheTruth

LEMMA RInvInit == Init => RInv
BY DEF Init, RInv, Pending, ToldTheTruth

LEMMA ToldStays ==
    ASSUME ToldTheTruth, table' = table, told' = told PROVE ToldTheTruth'
BY DEF ToldTheTruth

(* A thread that has nothing to commit after the step.                      *)
LEMMA NothingPending ==
    ASSUME OneClient, NEW t \in Threads, ToldTheTruth',
           pc'[t] \notin {"mk_dev", "mk_os", "rm_commit"}
    PROVE  RInv'
<1>1. \A u \in Threads : u = t
  BY DEF OneClient
<1>2. Pending(t)'
  BY DEF Pending
<1> QED
  BY <1>1, <1>2 DEF RInv

LEMMA ReplyTells ==
    ASSUME IInv, OneClient, NEW t \in Threads, ToldTheTruth', Reply(t)
    PROVE  RInv'
<1>1. pc'[t] = "recv"
  BY PcAt DEF Reply, IInv
<1> QED
  BY <1>1, NothingPending

(* The steps that leave the table and what clients know of it alone.        *)
LEMMA QuietTells ==
    ASSUME IInv, RInv, OneClient, NEW t \in Threads,
           \/ ReplyOnly(t)
           \/ nvmeWritePartitionSector(t) \/ WriteSector(t)
           \/ nvmeReadPartitionSector(t) \/ ReadSectors(t)
           \/ PerfAccept(t) \/ PerfCheckRange(t) \/ PerfGetStart(t) \/ PerfGetEnd(t)
           \/ PerfWriteSector(t) \/ PerfDone(t)
    PROVE  RInv'
<1>1. table' = table /\ told' = told
  BY DEF nvmeWritePartitionSector, WriteSector, nvmeReadPartitionSector, ReadSectors, PerfAccept,
         PerfCheckRange, PerfGetStart, PerfGetEnd, PerfWriteSector, PerfDone, ReplyOnly
<1>2. ToldTheTruth'
  BY <1>1, ToldStays DEF RInv
<1>3. CASE Reply(t)
  BY <1>2, <1>3, ReplyTells
<1>4. CASE ~Reply(t)
  <2>1. \/ pc' = pc /\ pc[t] = "pf_run"
        \/ \E l \in {"wr_io", "rd_io", "pf_range", "pf_start", "pf_end", "pf_run"} : Goto(t, l)
    BY <1>4 DEF nvmeWritePartitionSector, WriteSector, nvmeReadPartitionSector, ReadSectors,
       PerfAccept, PerfCheckRange, PerfGetStart, PerfGetEnd, PerfWriteSector, PerfDone, ReplyOnly
  <2>2. pc'[t] \in {"wr_io", "rd_io", "pf_range", "pf_start", "pf_end", "pf_run"}
    BY <2>1, PcAt DEF IInv
  <2>3. pc'[t] \notin {"mk_dev", "mk_os", "rm_commit"}
    BY <2>2
  <2> QED
    BY <1>2, <2>3, NothingPending
<1> QED
  BY <1>3, <1>4

LEMMA CreateTells ==
    ASSUME IInv, RInv, OneClient, NEW t \in Threads, nvmeCreatePartition(t)
    PROVE  RInv'
<1>1. CASE ReplyOnly(t)
  BY <1>1, QuietTells
<1>2. CASE ~ReplyOnly(t)
  <2>1. PICK new \in PartNums, first \in Sectors, last \in Sectors, name \in {"AESD", "other"} :
           /\ disk' = [disk EXCEPT ![t] =
                 [table EXCEPT ![new] = [start |-> first, end |-> last, name |-> name]]]
           /\ num' = [num EXCEPT ![t] = new]
           /\ Goto(t, "mk_dev")
           /\ UNCHANGED <<table, told>>
    BY <1>2 DEF nvmeCreatePartition
  <2>2. PICK p : p = [start |-> first, end |-> last, name |-> name]
    OBVIOUS
  <2>3. p \in Partition /\ p # NoPart
    BY <2>2, NoPartAssumption DEF Partition
  <2>4. disk'[t] = [table EXCEPT ![new] = p] /\ num'[t] = new /\ table \in Table
    BY <2>1, <2>2 DEF IInv, TypeOK
  <2>5. disk'[t][new] = p /\ \A n \in PartNums \ {new} : disk'[t][n] = table[n]
    BY <2>4 DEF Table
  <2>6. pc'[t] = "mk_dev"
    BY <2>1, PcAt DEF IInv
  <2>7. Pending(t)'
    BY <2>1, <2>3, <2>4, <2>5, <2>6 DEF Pending
  <2>8. ToldTheTruth'
    BY <2>1, ToldStays DEF RInv
  <2> QED
    BY <2>7, <2>8 DEF RInv, OneClient
<1> QED
  BY <1>1, <1>2

LEMMA CreateCommitTells ==
    ASSUME IInv, RInv, OneClient, NEW t \in Threads, CreateCommitToDev(t)
    PROVE  RInv'
<1>1. CASE ReplyOnly(t)
  BY <1>1, QuietTells
<1>2. CASE ~ReplyOnly(t)
  <2>1. /\ pc[t] = "mk_dev" /\ table' = disk[t]
        /\ told' = [told EXCEPT ![num[t]] = "unknown"]
        /\ Goto(t, "mk_os") /\ num' = num
    BY <1>2 DEF CreateCommitToDev
  <2>2. PICK k \in PartNums : k = num[t]
    BY <2>1 DEF IInv, ThreadOK
  <2>3. table'[k] # NoPart /\ \A n \in PartNums \ {k} : table'[n] = table[n]
    BY <2>1, <2>2 DEF RInv, Pending
  <2>4. told'[k] = "unknown" /\ \A n \in PartNums \ {k} : told'[n] = told[n]
    BY <2>1, <2>2 DEF IInv, TypeOK
  <2>5. ToldTheTruth'
    BY <2>3, <2>4 DEF RInv, ToldTheTruth
  <2>6. pc'[t] = "mk_os"
    BY <2>1, PcAt DEF IInv
  <2>7. Pending(t)'
    BY <2>1, <2>2, <2>3, <2>6 DEF Pending
  <2> QED
    BY <2>5, <2>7 DEF RInv, OneClient
<1> QED
  BY <1>1, <1>2

LEMMA CreateOsTells ==
    ASSUME IInv, RInv, OneClient, NEW t \in Threads, CreateCommitToOs(t)
    PROVE  RInv'
<1>1. CASE ReplyOnly(t)
  BY <1>1, QuietTells
<1>2. CASE ~ReplyOnly(t)
  <2>1. /\ pc[t] = "mk_os" /\ table' = table /\ Reply(t)
        /\ told' = [told EXCEPT ![num[t]] = "created"]
    BY <1>2 DEF CreateCommitToOs
  <2>2. PICK k \in PartNums : k = num[t]
    BY <2>1 DEF IInv, ThreadOK
  <2>3. table[k] # NoPart
    BY <2>1, <2>2 DEF RInv, Pending
  <2>4. told'[k] = "created" /\ \A n \in PartNums \ {k} : told'[n] = told[n]
    BY <2>1, <2>2 DEF IInv, TypeOK
  <2>5. ToldTheTruth'
    BY <2>1, <2>3, <2>4 DEF RInv, ToldTheTruth
  <2> QED
    BY <2>1, <2>5, ReplyTells
<1> QED
  BY <1>1, <1>2

LEMMA DeleteTells ==
    ASSUME IInv, RInv, OneClient, "delete" \notin Faults, NEW t \in Threads, nvmeDeletePartition(t)
    PROVE  RInv'
<1>1. CASE ReplyOnly(t)
  BY <1>1, QuietTells
<1>2. CASE ~ReplyOnly(t)
  <2>1. PICK c \in Commands :
           /\ IsWritable(ped_disk_get_partition(table, c.part))
           /\ disk' = [disk EXCEPT ![t] = [table EXCEPT ![c.part] = NoPart]]
           /\ num' = [num EXCEPT ![t] = c.part]
           /\ Goto(t, "rm_commit")
           /\ UNCHANGED <<table, told>>
    BY <1>2 DEF nvmeDeletePartition
  <2>2. PICK k \in PartNums : k = c.part
    BY <2>1 DEF ped_disk_get_partition, IsWritable
  <2>3. disk'[t] = [table EXCEPT ![k] = NoPart] /\ num'[t] = k /\ table \in Table
    BY <2>1, <2>2 DEF IInv, TypeOK
  <2>4. disk'[t][k] = NoPart /\ \A n \in PartNums \ {k} : disk'[t][n] = table[n]
    BY <2>3 DEF Table
  <2>5. pc'[t] = "rm_commit"
    BY <2>1, PcAt DEF IInv
  <2>6. Pending(t)'
    BY <2>1, <2>3, <2>4, <2>5 DEF Pending
  <2>7. ToldTheTruth'
    BY <2>1, ToldStays DEF RInv
  <2> QED
    BY <2>6, <2>7 DEF RInv, OneClient
<1> QED
  BY <1>1, <1>2

LEMMA DeleteCommitTells ==
    ASSUME IInv, RInv, OneClient, NEW t \in Threads, DeleteCommit(t)
    PROVE  RInv'
<1>1. pc[t] = "rm_commit" /\ Reply(t)
  BY DEF DeleteCommit
<1>2. PICK k \in PartNums : k = num[t]
  BY <1>1 DEF IInv, ThreadOK
<1>3. disk[t][k] = NoPart /\ \A n \in PartNums \ {k} : disk[t][n] = table[n]
  BY <1>1, <1>2 DEF RInv, Pending
<1>4. CASE table' = table /\ told' = [told EXCEPT ![num[t]] = "unknown"]
  <2>1. told'[k] = "unknown" /\ \A n \in PartNums \ {k} : told'[n] = told[n]
    BY <1>2, <1>4 DEF IInv, TypeOK
  <2>2. ToldTheTruth'
    BY <1>4, <2>1 DEF RInv, ToldTheTruth
  <2> QED
    BY <1>1, <2>2, ReplyTells
<1>5. CASE /\ table' = disk[t]
           /\ \/ told' = [told EXCEPT ![num[t]] = "deleted"]
              \/ told' = [told EXCEPT ![num[t]] = "unknown"]
  <2>1. told'[k] \in {"deleted", "unknown"} /\ \A n \in PartNums \ {k} : told'[n] = told[n]
    BY <1>2, <1>5 DEF IInv, TypeOK
  <2>2. ToldTheTruth'
    BY <1>3, <1>5, <2>1 DEF RInv, ToldTheTruth
  <2> QED
    BY <1>1, <2>2, ReplyTells
<1> QED
  BY <1>4, <1>5 DEF DeleteCommit

LEMMA RInvStep ==
    ASSUME OneClient, "delete" \notin Faults
    PROVE  IInv /\ RInv /\ [Next]_vars => RInv'
<1> SUFFICES ASSUME IInv, RInv, [Next]_vars PROVE RInv'
  OBVIOUS
<1>1. CASE Next
  BY <1>1, QuietTells, CreateTells, CreateCommitTells, CreateOsTells, DeleteTells,
     DeleteCommitTells DEF Next
<1>2. CASE UNCHANGED vars
  BY <1>2 DEF vars, RInv, Pending, ToldTheTruth
<1> QED
  BY <1>1, <1>2

(* A client that is alone is told the truth: a partition reported as        *)
(* created is on the device, one reported as deleted is not, whichever call *)
(* fails except ped_disk_delete_partition, whose result is not looked at.   *)
THEOREM RepliesAreTrue ==
    ASSUME OneClient, "delete" \notin Faults
    PROVE  Spec => []ToldTheTruth
<1>1. IInv /\ RInv /\ [Next]_vars => RInv'
  BY RInvStep
<1>2. RInv => ToldTheTruth
  BY DEF RInv
<1> QED
  BY SpecIInv, RInvInit, <1>1, <1>2, PTL DEF Spec
=============================================================================
