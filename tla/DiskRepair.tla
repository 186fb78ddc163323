----------------------------- MODULE DiskRepair -----------------------------
(***************************************************************************)
(* disk_fix of src/disk.c: the partition of the root file system is grown  *)
(* into the free space behind it, or, on a disk that is longer than its    *)
(* partition table says, the partition with the highest number is grown to *)
(* the end of the disk; resize2fs is then started for a file system.       *)
(*                                                                         *)
(* Nobody else writes the table meanwhile, so disk_fix is one step, whose  *)
(* disjuncts are its exits: each call of libparted may fail.  libparted is *)
(* modelled from how the code uses it.                                     *)
(***************************************************************************)
EXTENDS Integers

CONSTANTS
    Disks,      \* disks that may be found, see DiskOK
    Megabyte,   \* sectors of PED_MEGABYTE_SIZE bytes
    Tail,       \* sectors at the end of a disk that its table needs
    Other,      \* the device of a root file system that is on no partition
    Nothing     \* no file system

(* Sectors first..last. *)
Extent == [first : Nat, last : Nat]
Overlap(p, q) == p.first <= q.last /\ q.first <= p.last

Disjoint(partitions) ==
    \A i, j \in DOMAIN partitions : i # j => ~Overlap(partitions[i], partitions[j])

(* length: sectors of the disk.  known: its length when the table was
   written.  table: its partitions by their numbers.  root: the number of the
   one with the root file system. *)
DiskOK(d) ==
    /\ d.length \in Nat /\ d.known \in 0..d.length
    /\ d.table \in [DOMAIN d.table -> Extent] /\ DOMAIN d.table \subseteq Nat
    /\ \A i \in DOMAIN d.table :
          d.table[i].first <= d.table[i].last /\ d.table[i].last < d.known - Tail
    /\ Disjoint(d.table)
    /\ d.root \in DOMAIN d.table \cup {Other}

ASSUME DiskAssumption ==
    /\ Megabyte \in Nat /\ Tail \in Nat /\ Tail < Megabyte
    /\ Other \notin Nat /\ Nothing \notin Nat \cup {Other}
    /\ \A d \in Disks : DiskOK(d)

VARIABLES
    disk,       \* the disk as it was found
    table,      \* the partition table on the disk
    resize      \* the file system that resize2fs is started for

repairVars == <<disk, table, resize>>

RepairTypeOK ==
    /\ disk \in Disks
    /\ table \in [DOMAIN disk.table -> Extent]
    /\ resize \in DOMAIN disk.table \cup {Other, Nothing}

RepairInit == disk \in Disks /\ table = disk.table /\ resize = Nothing

-----------------------------------------------------------------------------
(* libparted: the free space that begins behind partition i reaches to sector
   e, a table on the disk included. *)
FreeBehind(i, e) ==
    LET space == [first |-> table[i].last + 1, last |-> e]
    IN  /\ space.first <= e /\ e < disk.length - Tail
        /\ \A j \in DOMAIN table : ~Overlap(space, table[j])
        /\ e + 1 = disk.length - Tail \/ \E j \in DOMAIN table : table[j].first = e + 1

(* libparted: ped_disk_set_partition_geom refuses to overlap partitions, to
   leave the disk and to turn a partition round. *)
MayBecome(i, x) ==
    /\ x.first <= x.last /\ x.last < disk.length - Tail
    /\ \A j \in DOMAIN table \ {i} : ~Overlap(x, table[j])

IsLast(i) == i \in DOMAIN table /\ \A j \in DOMAIN table : j <= i

(* 81-119: the root file system's partition; where it is on none, the last
   one that was looked at. *)
get_rootfs_partition(i) == IF disk.root = Other THEN IsLast(i) ELSE i = disk.root

(* Fault: whatever lies behind the partition is taken. *)
resize_rootfs_blk_device_greedy ==
    \E i \in DOMAIN table :
        /\ get_rootfs_partition(i)
        /\ table' = [table EXCEPT ![i].last = disk.length - Tail - 1]
        /\ resize' = disk.root

(* 139-191: the partition grows to the end of the free space behind it.  A
   table that cannot be written (177) stays as it was, and the file system is
   resized all the same, unless its device is not found. *)
resize_rootfs_blk_device ==
    \E i \in DOMAIN table, e \in 0..disk.length :
        /\ get_rootfs_partition(i) /\ FreeBehind(i, e)
        /\ table' \in {[table EXCEPT ![i].last = e], table}
        /\ resize' \in {disk.root, Nothing}

(* 286-287. *)
WholeDisk(i) == [table[i] EXCEPT !.last = disk.length - Megabyte]

(* Fault: the command names the device of the root file system. *)
resize_last_rootfs ==
    \E i \in DOMAIN table :
        /\ IsLast(i) /\ MayBecome(i, WholeDisk(i))
        /\ table' = [table EXCEPT ![i] = WholeDisk(i)]
        /\ resize' = disk.root

(* 278-328: the last partition ends a megabyte before the end of the disk, in
   the table and then, if its path is found, in its file system. *)
resize_last ==
    \E i \in DOMAIN table :
        /\ IsLast(i) /\ MayBecome(i, WholeDisk(i))
        /\ table' = [table EXCEPT ![i] = WholeDisk(i)]
        /\ resize' \in {i, Nothing}

(* 52-64, 221-274: libparted warns of a disk longer than its table, and the
   handler of the warning chooses the branch; there are early returns before
   any change in both. *)
disk_fix ==
    /\ \/ disk.known < disk.length /\ resize_last
       \/ disk.known = disk.length /\ resize_rootfs_blk_device
       \/ UNCHANGED <<table, resize>>
    /\ UNCHANGED disk

-----------------------------------------------------------------------------
GrownEnough == disk.known = disk.length \/ disk.length - disk.known >= Megabyte - Tail

(* No partition is gone, begins elsewhere, overlaps another, leaves the disk
   or is shorter than it was, the last provided that a disk that is longer
   than its table says is longer by a megabyte ("maintain the cloud instance
   in a right state (resize/fix partitions and filesystem)"). *)
PartitionsKept ==
    /\ DOMAIN table = DOMAIN disk.table
    /\ Disjoint(table)
    /\ \A i \in DOMAIN table :
          /\ table[i].first = disk.table[i].first
          /\ table[i].last < disk.length - Tail
          /\ GrownEnough => table[i].last >= disk.table[i].last

(* resize2fs is started for the file system of the partition that has
   changed, if any has, whichever branch has changed it; a root file system
   on no partition is an exception, for the last partition is taken for its
   own. *)
FileSystemFollows ==
    resize # Nothing /\ disk.root # Other =>
        \A i \in DOMAIN table : table[i] # disk.table[i] => resize = i
=============================================================================
