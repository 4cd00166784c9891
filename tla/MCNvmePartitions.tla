-------------------------- MODULE MCNvmePartitions --------------------------
(***************************************************************************)
(* Small drives and command sets for NvmePartitions.                       *)
(***************************************************************************)
EXTENDS NvmePartitions, TLC

(* Threads are interchangeable: every property quantifies over all of them. *)
ThreadSymmetry == Permutations(Threads)

(* Sector 0 and sector 3 are protected; partition 3 lies in the gap between *)
(* them and one sector is free at the end.  The highest number (3) belongs  *)
(* to a partition in the middle, so new partitions compete for the gap.     *)
SmallDrive ==
    [n \in 1 .. 4 |->
        CASE n = 1 -> [start |-> 3, end |-> 3, name |-> "other"]
          [] n = 2 -> [start |-> 0, end |-> 0, name |-> "other"]
          [] n = 3 -> [start |-> 1, end |-> 2, name |-> "AESD"]
          [] OTHER -> NoPart]

(* A drive with a gap between two partitions of this server.                *)
LargerDrive ==
    [n \in 1 .. 5 |->
        CASE n = 1 -> [start |-> 0, end |-> 1, name |-> "other"]
          [] n = 2 -> [start |-> 5, end |-> 6, name |-> "other"]
          [] n = 3 -> [start |-> 2, end |-> 3, name |-> "AESD"]
          [] OTHER -> NoPart]

Cmd(o, p, x, y) == [op |-> o, part |-> p, a |-> x, b |-> y]

PartitionCommands ==
    {Cmd("mkpart", 0, 1, 0)} \cup {Cmd("rmpart", p, 0, 0) : p \in {1, 3, 4}}
IoCommands ==
    {Cmd("write", p, 0, 0) : p \in {1, 3, 4}} \cup {Cmd("read", 3, 0, 2)}
PerfCommands ==
    {Cmd("perf_write", p, 0, 1) : p \in {1, 3}} \cup {Cmd("perf_read", 1, 0, 0)}

RaceCommands == PartitionCommands \cup IoCommands \cup PerfCommands

(* Sizes zero to three, a number that wraps to 3 as a uint8_t, offsets and  *)
(* ranges inside, at and beyond the ends of the partitions.                 *)
SingleCommands ==
    {Cmd("mkpart", 0, s, 0) : s \in 0 .. 3}
    \cup {Cmd("rmpart", p, 0, 0) : p \in 0 .. 6}
    \cup {Cmd("write", p, o, 0) : p \in 1 .. 5, o \in 0 .. 1}
    \cup {Cmd("read", p, 0, c) : p \in 1 .. 5, c \in 0 .. 3}
    \cup {Cmd(o, p, x, y) : o \in {"perf_write", "perf_read"}, p \in {1, 2, 3, 4, 259},
                            x \in 0 .. 2, y \in 0 .. 3}

(* A drive with more sectors than a uint32_t can number (LbaModulus = 8):   *)
(* the partition of this server lies wholly beyond sector 7.                *)
HugeDrive ==
    [n \in 1 .. 3 |->
        CASE n = 1 -> [start |-> 0, end |-> 3, name |-> "other"]
          [] n = 2 -> [start |-> 8, end |-> 11, name |-> "AESD"]
          [] OTHER -> NoPart]

(* A client that benchmarks partition 3 while another one replaces it.      *)
ReplaceCommands ==
    {Cmd("mkpart", 0, 1, 0), Cmd("rmpart", 3, 0, 0), Cmd("perf_write", 3, 0, 1)}
=============================================================================
