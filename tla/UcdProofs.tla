----------------------------- MODULE UcdProofs -----------------------------
(***************************************************************************)
(* The invariants of Ucd hold in every reachable state, for any set of     *)
(* command lines, loop devices and disks.                                  *)
(***************************************************************************)
EXTENDS Ucd, TLAPS

-----------------------------------------------------------------------------
(* disk_fix, called once for a disk as it was found, keeps its partitions  *)
(* and resizes the right file system, whatever the disk and whichever call *)
(* of libparted fails.                                                     *)

(* What is known of a disk that was found, in terms of its table. *)
LEMMA DiskFacts ==
    ASSUME RepairTypeOK
    PROVE  /\ disk.length \in Nat /\ disk.known \in Nat /\ disk.known <= disk.length
           /\ disk.table \in [DOMAIN disk.table -> Extent]
           /\ DOMAIN disk.table \subseteq Nat
           /\ \A i \in DOMAIN disk.table :
                 /\ disk.table[i].first \in Nat /\ disk.table[i].last \in Nat
                 /\ disk.table[i].first <= disk.table[i].last
                 /\ disk.table[i].last < disk.known - Tail
           /\ Disjoint(disk.table)
<1>1. DiskOK(disk)
  BY DiskAssumption DEF RepairTypeOK
<1>2. \A i \in DOMAIN disk.table : disk.table[i] \in Extent
  BY <1>1 DEF DiskOK
<1>3. \A i \in DOMAIN disk.table : disk.table[i].first \in Nat /\ disk.table[i].last \in Nat
  BY <1>2 DEF Extent
<1> QED
  BY <1>1, <1>3 DEF DiskOK

(* Partitions are kept by a table that gives one partition another end: not
   beyond what the disk holds, nor over another partition, nor, on a disk that
   has grown by enough, before the old end. *)
LEMMA OneEndMoved ==
    ASSUME RepairTypeOK, table = disk.table,
           NEW i \in DOMAIN table, NEW e \in Nat,
           table[i].first <= e, e < disk.length - Tail,
           GrownEnough => table[i].last <= e,
           \A j \in DOMAIN table \ {i} : ~Overlap([first |-> table[i].first, last |-> e], table[j]),
           disk' = disk, table' = [table EXCEPT ![i].last = e]
    PROVE  table' \in [DOMAIN disk.table -> Extent] /\ PartitionsKept'
<1> DEFINE new == [first |-> table[i].first, last |-> e]
<1>1. /\ DOMAIN table' = DOMAIN disk.table
      /\ table'[i] = new
      /\ \A j \in DOMAIN table \ {i} : table'[j] = table[j]
  <2>1. table[i] \in Extent
    BY DiskFacts
  <2>2. [table[i] EXCEPT !.last = e] = new
    BY <2>1 DEF Extent
  <2>3. table' = [table EXCEPT ![i] = new]
    BY <2>2
  <2> QED
    BY <2>3, DiskFacts
<1>2. new \in Extent
  BY DiskFacts DEF Extent
<1>3. table' \in [DOMAIN disk.table -> Extent]
  <2>1. table' = [table EXCEPT ![i] = new]
    BY <1>1, DiskFacts
  <2> QED
    BY <2>1, <1>2, DiskFacts
<1>4. Disjoint(table')
  <2> SUFFICES ASSUME NEW k \in DOMAIN table, NEW j \in DOMAIN table, k # j
               PROVE  ~Overlap(table'[k], table'[j])
    BY <1>1 DEF Disjoint
  <2>1. CASE k = i
    BY <2>1, <1>1
  <2>2. CASE j = i
    BY <2>2, <1>1 DEF Overlap
  <2>3. CASE k # i /\ j # i
    BY <2>3, <1>1, DiskFacts DEF Disjoint
  <2> QED
    BY <2>1, <2>2, <2>3
<1>5. ASSUME NEW j \in DOMAIN disk.table
      PROVE  /\ table'[j].first = disk.table[j].first
             /\ table'[j].last < disk.length - Tail
             /\ GrownEnough => table'[j].last >= disk.table[j].last
  <2>1. CASE j = i
    BY <2>1, <1>1, DiskFacts, DiskAssumption
  <2>2. CASE j # i
    BY <2>2, <1>1, DiskFacts, DiskAssumption
  <2> QED
    BY <2>1, <2>2
<1> QED
  BY <1>1, <1>3, <1>4, <1>5 DEF PartitionsKept, GrownEnough

(* A table as it was found keeps its partitions. *)
LEMMA FoundTableKept ==
    ASSUME RepairTypeOK, table = disk.table
    PROVE  PartitionsKept
BY DiskFacts, DiskAssumption DEF PartitionsKept

(* The first branch: partition i takes the free space behind it. *)
LEMMA GrownIntoFreeSpace ==
    ASSUME RepairTypeOK, table = disk.table, disk' = disk,
           NEW i \in DOMAIN table, NEW e \in 0..disk.length, FreeBehind(i, e),
           table' = [table EXCEPT ![i].last = e]
    PROVE  table' \in [DOMAIN disk.table -> Extent] /\ PartitionsKept'
<1>1. e \in Nat /\ table[i].first <= e /\ table[i].last <= e /\ e < disk.length - Tail
  BY DiskFacts DEF FreeBehind
<1>2. ASSUME NEW j \in DOMAIN table \ {i}
      PROVE  ~Overlap([first |-> table[i].first, last |-> e], table[j])
  <2>1. ~Overlap(table[i], table[j])
    BY DiskFacts DEF Disjoint
  <2>2. ~Overlap([first |-> table[i].last + 1, last |-> e], table[j])
    BY DEF FreeBehind
  <2>3. /\ table[i].first \in Nat /\ table[i].last \in Nat
        /\ table[j].first \in Nat /\ table[j].last \in Nat
        /\ table[j].first <= table[j].last
    BY DiskFacts
  <2> QED
    BY <1>1, <2>1, <2>2, <2>3 DEF Overlap
<1> QED
  BY <1>1, <1>2, OneEndMoved

(* The second branch: the last partition takes the disk but a megabyte. *)
LEMMA GrownToWholeDisk ==
    ASSUME RepairTypeOK, table = disk.table, disk' = disk, disk.known < disk.length,
           NEW i \in DOMAIN table, MayBecome(i, WholeDisk(i)),
           table' = [table EXCEPT ![i] = WholeDisk(i)]
    PROVE  table' \in [DOMAIN disk.table -> Extent] /\ PartitionsKept'
<1> DEFINE e == disk.length - Megabyte
<1>1. table[i] \in Extent /\ table[i].first \in Nat /\ table[i].last \in Nat
  BY DiskFacts
<1>2. WholeDisk(i) = [first |-> table[i].first, last |-> e]
  BY <1>1 DEF WholeDisk, Extent
<1>3. table[i].first <= e /\ e < disk.length - Tail /\ e \in Nat
  BY <1>1, <1>2, DiskFacts, DiskAssumption DEF MayBecome
<1>4. GrownEnough => table[i].last <= e
  BY DiskFacts, DiskAssumption DEF GrownEnough
<1>5. \A j \in DOMAIN table \ {i} : ~Overlap([first |-> table[i].first, last |-> e], table[j])
  BY <1>2 DEF MayBecome
<1>6. table' = [table EXCEPT ![i].last = e]
  BY DEF WholeDisk
<1> QED
  BY <1>3, <1>4, <1>5, <1>6, OneEndMoved

(* disk_fix leaves a table, whatever it finds. *)
LEMMA DiskFixType ==
    ASSUME RepairTypeOK, disk_fix
    PROVE  RepairTypeOK'
<1>1. /\ disk' = disk /\ disk.length \in Nat
      /\ disk.root \in DOMAIN disk.table \cup {Other}
      /\ \A i \in DOMAIN table : table[i] \in Extent /\ table[i].first \in Nat
      /\ DOMAIN table = DOMAIN disk.table
  BY DiskAssumption DEF disk_fix, RepairTypeOK, DiskOK, Extent
<1>2. CASE resize_rootfs_blk_device
  <2>1. PICK i \in DOMAIN table, e \in 0..disk.length :
           table' \in {[table EXCEPT ![i].last = e], table} /\ resize' \in {disk.root, Nothing}
    BY <1>2 DEF resize_rootfs_blk_device
  <2>2. [table[i] EXCEPT !.last = e] \in Extent
    BY <1>1 DEF Extent
  <2>3. table' \in {[table EXCEPT ![i] = [table[i] EXCEPT !.last = e]], table}
    BY <2>1
  <2> QED
    BY <1>1, <2>1, <2>2, <2>3 DEF RepairTypeOK
<1>3. CASE resize_last
  <2>1. PICK i \in DOMAIN table :
           /\ MayBecome(i, WholeDisk(i))
           /\ table' = [table EXCEPT ![i] = WholeDisk(i)]
           /\ resize' \in {i, Nothing}
    BY <1>3 DEF resize_last
  <2>2. WholeDisk(i) = [first |-> table[i].first, last |-> disk.length - Megabyte]
    BY <1>1 DEF WholeDisk, Extent
  <2>3. WholeDisk(i) \in Extent
    BY <1>1, <2>1, <2>2, DiskAssumption DEF MayBecome, Extent
  <2> QED
    BY <1>1, <2>1, <2>3 DEF RepairTypeOK
<1>4. CASE UNCHANGED <<table, resize>>
  BY <1>1, <1>4 DEF RepairTypeOK
<1> QED
  BY <1>2, <1>3, <1>4 DEF disk_fix

(* disk_fix keeps the partitions and has the right file system resized. *)
LEMMA DiskFixKeeps ==
    ASSUME RepairTypeOK, table = disk.table, resize = Nothing, disk_fix
    PROVE  RepairTypeOK' /\ PartitionsKept' /\ FileSystemFollows'
<1>1. disk' = disk
  BY DEF disk_fix
<1>2. disk.root \in DOMAIN disk.table \cup {Other} /\ DOMAIN disk.table \subseteq Nat
  BY DiskAssumption DEF RepairTypeOK, DiskOK
<1>3. CASE resize_rootfs_blk_device
  <2>1. PICK i \in DOMAIN table, e \in 0..disk.length :
           /\ get_rootfs_partition(i) /\ FreeBehind(i, e)
           /\ table' \in {[table EXCEPT ![i].last = e], table}
           /\ resize' \in {disk.root, Nothing}
    BY <1>3 DEF resize_rootfs_blk_device
  <2>2. table' \in [DOMAIN disk.table -> Extent] /\ PartitionsKept'
    <3>1. CASE table' = [table EXCEPT ![i].last = e]
      BY <1>1, <2>1, <3>1, GrownIntoFreeSpace
    <3>2. CASE table' = table
      <4>1. PartitionsKept
        BY FoundTableKept
      <4> QED
        BY <1>1, <3>2, <4>1, DiskFacts DEF PartitionsKept, GrownEnough
    <3> QED
      BY <2>1, <3>1, <3>2
  <2>3. resize' # Nothing /\ disk.root # Other => i = resize'
    BY <2>1 DEF get_rootfs_partition
  <2>4. \A j \in DOMAIN table \ {i} : table'[j] = table[j]
    BY <2>1, DiskFacts
  <2> QED
    BY <1>1, <1>2, <2>1, <2>2, <2>3, <2>4 DEF RepairTypeOK, FileSystemFollows
<1>4. CASE resize_last /\ disk.known < disk.length
  <2>1. PICK i \in DOMAIN table :
           /\ MayBecome(i, WholeDisk(i))
           /\ table' = [table EXCEPT ![i] = WholeDisk(i)]
           /\ resize' \in {i, Nothing}
    BY <1>4 DEF resize_last
  <2>2. table' \in [DOMAIN disk.table -> Extent] /\ PartitionsKept'
    BY <1>1, <1>4, <2>1, GrownToWholeDisk
  <2>3. \A j \in DOMAIN table \ {i} : table'[j] = table[j]
    BY <2>1, DiskFacts
  <2> QED
    BY <1>1, <2>1, <2>2, <2>3 DEF RepairTypeOK, FileSystemFollows
<1>5. CASE UNCHANGED <<table, resize>>
  <2>1. PartitionsKept
    BY FoundTableKept
  <2> QED
    BY <1>1, <1>5, <2>1 DEF RepairTypeOK, PartitionsKept, GrownEnough, FileSystemFollows
<1> QED
  BY <1>3, <1>4, <1>5 DEF disk_fix

-----------------------------------------------------------------------------
(* Type correctness of Ucd.                                                *)

(* The parts of a tuple of variables. *)
USE DEF pool, drive, tree, main, history, repairVars, driveVars, devices, mount

LEMMA LaunchType ==
    ASSUME J!TypeOK, NEW j \in Jobs, J!Launch(j)
    PROVE  J!TypeOK'
BY DEF J!TypeOK, J!JobStates, J!Launch

LEMMA CompleteType ==
    ASSUME J!TypeOK, NEW j \in Jobs, J!Complete(j)
    PROVE  J!TypeOK'
BY DEF J!TypeOK, J!JobStates, J!Complete

(* Everything but the stage, the pool and the disk. *)
ResourceTypes ==
    /\ arg \in [Jobs -> Trees \cup {None}]
    /\ node \in Trees \cup {None} /\ live \subseteq Trees
    /\ template \in {"fresh", "used"} /\ DriveTypeOK
    /\ failures \subseteq {"start", "umount"}

LEMMA MountTypes ==
    ASSUME DriveTypeOK, NEW image \in BOOLEAN
    PROVE  /\ mount_filesystem(image) /\ mountDir' \in BOOLEAN => DriveTypeOK'
           /\ mount_filesystem_fails(image) /\ UNCHANGED mountDir => DriveTypeOK'
BY DEF DriveTypeOK, mount_filesystem, mount_filesystem_fails, FreeLoop

LEMMA StartTypes ==
    ASSUME ResourceTypes, UNCHANGED arg, NEW image \in BOOLEAN,
           openstack_start_succeeds(image) \/ openstack_start_fails(image)
    PROVE  ResourceTypes'
<1>1. CASE openstack_start_succeeds(image)
  <2>1. mount_filesystem(image) /\ mountDir' \in BOOLEAN /\ UNCHANGED failures
    BY <1>1 DEF openstack_start_succeeds
  <2>2. DriveTypeOK'
    BY <2>1, MountTypes DEF ResourceTypes
  <2> QED
    BY <1>1, <2>1, <2>2
    DEF ResourceTypes, openstack_start_succeeds, openstack_load_metadata_file, Trees
<1>2. CASE openstack_start_fails(image)
  <2>1. failures' \subseteq {"start", "umount"} /\ UNCHANGED tree
    BY <1>2 DEF openstack_start_fails, Record, ResourceTypes
  <2>2. DriveTypeOK' /\ template' \in {"fresh", "used"}
    <3>1. CASE UNCHANGED drive
      BY <3>1 DEF ResourceTypes, DriveTypeOK
    <3>2. CASE template' = "used" /\ mount_filesystem_fails(image) /\ UNCHANGED mountDir
      BY <3>2, MountTypes DEF ResourceTypes
    <3>3. CASE template' = "used" /\ mount_filesystem(image) /\ mountDir' = TRUE
      BY <3>3, MountTypes DEF ResourceTypes
    <3> QED
      BY <1>2, <3>1, <3>2, <3>3 DEF openstack_start_fails
  <2> QED
    BY <2>1, <2>2 DEF ResourceTypes
<1> QED
  BY <1>1, <1>2

LEMMA FinishTypes ==
    ASSUME ResourceTypes, UNCHANGED arg, openstack_finish
    PROVE  ResourceTypes' /\ userdataFile' = FALSE
<1>1. DriveTypeOK'
  <2>1. CASE dataSource = "drive"
    <3>1. PICK b \in Busy, s \in Stuck : umount_filesystem(b, s)
      BY <2>1 DEF openstack_finish
    <3> QED
      BY <2>1, <3>1 DEF openstack_finish, umount_filesystem, ResourceTypes, DriveTypeOK
  <2>2. CASE dataSource # "drive"
    BY <2>2 DEF openstack_finish, ResourceTypes, DriveTypeOK
  <2> QED
    BY <2>1, <2>2
<1>2. failures' \subseteq {"start", "umount"}
  BY DEF openstack_finish, Record, ResourceTypes
<1> QED
  BY <1>1, <1>2 DEF openstack_finish, ResourceTypes

(* Initially every variable has its type. *)
LEMMA InitType == Init => TypeOK
<1> SUFFICES ASSUME Init PROVE TypeOK
  OBVIOUS
<1>1. J!TypeOK
  BY DEF Init, J!Init, J!TypeOK, J!JobStates
<1>2. RepairTypeOK
  BY DiskAssumption DEF Init, RepairInit, RepairTypeOK, DiskOK
<1>3. DriveTypeOK
  BY DEF Init, NotMounted, DriveTypeOK
<1> QED
  BY <1>1, <1>2, <1>3 DEF Init, TypeOK, Stages, Trees, DriveTypeOK

(* Every step keeps the types. *)
LEMMA NextType == TypeOK /\ [Next]_vars => TypeOK'
<1> SUFFICES ASSUME TypeOK, [Next]_vars PROVE TypeOK'
  OBVIOUS
<1>1. /\ options \in CommandLines /\ stage \in Stages /\ J!TypeOK /\ ResourceTypes
      /\ userdataFile \in BOOLEAN /\ dataSource \in {"drive", "none"}
      /\ handlerSet \in BOOLEAN /\ firstBoot \in BOOLEAN /\ userReady \in BOOLEAN
      /\ RepairTypeOK /\ found \in [devFile : SUBSET Loops, attached : SUBSET Loops]
  BY DEF TypeOK, ResourceTypes
<1>2. ASSUME UNCHANGED <<job, joined>> PROVE J!TypeOK'
  BY <1>1, <1>2 DEF J!TypeOK
<1>3. ASSUME UNCHANGED repairVars PROVE RepairTypeOK'
  BY <1>1, <1>3 DEF RepairTypeOK
<1>4. ASSUME UNCHANGED <<arg, tree, drive, failures>> PROVE ResourceTypes'
  BY <1>1, <1>4 DEF ResourceTypes, DriveTypeOK
<1>5. SUFFICES /\ options' \in CommandLines /\ stage' \in Stages /\ J!TypeOK' /\ ResourceTypes'
               /\ userdataFile' \in BOOLEAN /\ dataSource' \in {"drive", "none"}
               /\ handlerSet' \in BOOLEAN /\ firstBoot' \in BOOLEAN /\ userReady' \in BOOLEAN
               /\ RepairTypeOK' /\ found' \in [devFile : SUBSET Loops, attached : SUBSET Loops]
  BY DEF TypeOK, ResourceTypes
<1>a. CASE main_metadata_file
  <2>1. ResourceTypes'
    BY <1>1, <1>a DEF main_metadata_file, openstack_load_metadata_file, ResourceTypes, DriveTypeOK, Trees
  <2> QED
    BY <1>1, <1>2, <1>3, <1>a, <2>1 DEF main_metadata_file, Stages
<1>b. ASSUME NEW from, NEW to \in Stages, NEW reason \in Reasons, dispatch(from, to, reason)
      PROVE  TypeOK'
  <2>1. J!TypeOK' /\ arg' \in [Jobs -> Trees \cup {None}] /\ stage' \in Stages
    <3>1. CASE UNCHANGED <<pool, arg>> /\ stage' = to
      BY <1>1, <1>2, <3>1 DEF ResourceTypes
    <3>2. CASE UNCHANGED stage /\ \E key \in Keys : openstack_run_handler(reason, key)
      <4>1. PICK key \in Keys : openstack_run_handler(reason, key)
        BY <3>2
      <4>2. <<reason, key>> \in Jobs
        BY DEF Jobs
      <4>3. J!TypeOK'
        BY <1>1, <4>1, <4>2, LaunchType DEF openstack_run_handler
      <4> QED
        BY <1>1, <3>2, <4>1, <4>3 DEF openstack_run_handler, ResourceTypes
    <3> QED
      BY <1>b, <3>1, <3>2 DEF dispatch
  <2>2. ResourceTypes'
    BY <1>1, <1>b, <2>1 DEF dispatch, ResourceTypes, DriveTypeOK
  <2> QED
    BY <1>1, <1>3, <1>b, <2>1, <2>2 DEF dispatch, TypeOK, ResourceTypes
<1>c. CASE main_config_drive
  <2>1. ResourceTypes'
    <3>1. CASE UNCHANGED <<drive, tree, failures>>
      BY <1>4, <1>c, <3>1 DEF main_config_drive
    <3>2. CASE openstack_start_succeeds(Image) \/ openstack_start_fails(Image)
      <4>1. Image \in BOOLEAN
        BY DEF Image
      <4> QED
        BY <1>1, <1>c, <3>2, <4>1, StartTypes DEF main_config_drive
    <3> QED
      BY <1>c, <3>1, <3>2 DEF main_config_drive
  <2> QED
    BY <1>1, <1>2, <1>3, <1>c, <2>1 DEF main_config_drive, Stages
<1>d. CASE config_drive_userdata
  BY <1>1, <1>2, <1>3, <1>4, <1>d
  DEF config_drive_userdata, openstack_process_config_drive_userdata, Stages
<1>e. CASE config_drive_finish
  <2>1. ResourceTypes' /\ userdataFile' = FALSE
    BY <1>1, <1>e, FinishTypes DEF config_drive_finish
  <2> QED
    BY <1>1, <1>2, <1>3, <1>e, <2>1 DEF config_drive_finish, Stages
<1>f. CASE openstack_init
  BY <1>1, <1>2, <1>3, <1>4, <1>f DEF openstack_init, Stages
<1>g. CASE main_datasource
  <2>1. ResourceTypes'
    <3>1. CASE UNCHANGED <<drive, tree, failures>>
      BY <1>4, <1>g, <3>1 DEF main_datasource
    <3>2. CASE openstack_start_succeeds(FALSE) \/ openstack_start_fails(FALSE)
      BY <1>1, <1>g, <3>2, StartTypes DEF main_datasource
    <3> QED
      BY <1>g, <3>1, <3>2 DEF main_datasource
  <2> QED
    BY <1>1, <1>2, <1>3, <1>g, <2>1 DEF main_datasource, Stages
<1>h. CASE main_fix_disk
  <2>1. J!TypeOK'
    BY <1>1, <1>2, <1>h, LaunchType DEF main_fix_disk, Jobs
  <2> QED
    BY <1>1, <1>3, <1>4, <1>h, <2>1 DEF main_fix_disk, Stages
<1>i. CASE main_setup
  BY <1>1, <1>2, <1>3, <1>4, <1>i DEF main_setup, Stages
<1>j. CASE main_metadata
  <2>1. ResourceTypes'
    BY <1>1, <1>j DEF main_metadata, openstack_load_metadata_file, ResourceTypes, DriveTypeOK, Trees
  <2> QED
    BY <1>1, <1>2, <1>3, <1>j, <2>1 DEF main_metadata, Stages
<1>k. CASE main_userdata
  BY <1>1, <1>2, <1>3, <1>4, <1>k
  DEF main_userdata, openstack_process_config_drive_userdata, Stages
<1>l. CASE main_join
  BY <1>1, <1>3, <1>4, <1>l DEF main_join, J!Join, J!TypeOK, Stages
<1>m. CASE main_finish
  <2>1. ResourceTypes' /\ userdataFile' \in BOOLEAN
    <3>1. CASE handlerSet
      BY <1>1, <1>m, <3>1, FinishTypes DEF main_finish
    <3>2. CASE ~handlerSet
      BY <1>1, <1>4, <1>m, <3>2 DEF main_finish
    <3> QED
      BY <3>1, <3>2
  <2> QED
    BY <1>1, <1>2, <1>3, <1>m, <2>1 DEF main_finish, Stages
<1>n. CASE async_fixdisk
  <2>1. J!TypeOK'
    BY <1>1, <1>n, LaunchType, CompleteType DEF async_fixdisk, Jobs
  <2>2. RepairTypeOK'
    BY <1>1, <1>n, DiskFixType DEF async_fixdisk
  <2> QED
    BY <1>1, <1>4, <1>n, <2>1, <2>2 DEF async_fixdisk
<1>o. ASSUME NEW j \in Jobs, job_done(j) PROVE TypeOK'
  <2>1. J!TypeOK'
    BY <1>1, <1>o, CompleteType DEF job_done
  <2> QED
    BY <1>1, <1>3, <1>4, <1>o, <2>1 DEF job_done, TypeOK, ResourceTypes
<1>p. CASE UNCHANGED vars
  BY <1>1, <1>2, <1>3, <1>4, <1>p DEF vars
<1> QED
  BY <1>5, <1>a, <1>b, <1>c, <1>d, <1>e, <1>f, <1>g, <1>h, <1>i, <1>j, <1>k, <1>l, <1>m,
     <1>n, <1>o, <1>p DEF Next, Exited, Stages, Reasons, TypeOK, ResourceTypes

(* Every variable of Ucd always has a value of its type. *)
THEOREM TypeCorrect == Spec => []TypeOK
BY InitType, NextType, PTL DEF Spec

-----------------------------------------------------------------------------
(* What a step may do to the pool and to the disk.                         *)

(* A job that is done stays done, one that is active was so or was idle, and
   nothing starts after the join. *)
LEMMA PoolStep ==
    ASSUME TypeOK, [Next]_vars
    PROVE  /\ \A j \in Jobs :
                 /\ job[j] = "done" => job'[j] = "done"
                 /\ job'[j] = "active" => job[j] = "active" \/ (job[j] = "idle" /\ ~joined)
           /\ joined' # joined => stage = "join" /\ joined' = TRUE
<1>0. job \in [Jobs -> J!JobStates]
  BY DEF TypeOK, J!TypeOK
<1>1. CASE UNCHANGED pool
  BY <1>1
<1>2. ASSUME NEW j \in Jobs, J!Launch(j) \/ J!Complete(j)
      PROVE  /\ \A k \in Jobs :
                    /\ job[k] = "done" => job'[k] = "done"
                    /\ job'[k] = "active" => job[k] = "active" \/ (job[k] = "idle" /\ ~joined)
             /\ joined' = joined
  BY <1>0, <1>2 DEF J!Launch, J!Complete
<1>3. ASSUME NEW reason \in Reasons, NEW from, NEW to, dispatch(from, to, reason)
      PROVE  UNCHANGED pool \/ \E key \in Keys : J!Launch(<<reason, key>>)
  BY <1>3 DEF dispatch, openstack_run_handler
<1>4. \A reason \in Reasons, key \in Keys : <<reason, key>> \in Jobs
  BY DEF Jobs
<1>5. FixDisk \in Jobs /\ Resize \in Jobs
  BY DEF Jobs
<1>6. CASE main_join
  BY <1>6 DEF main_join, J!Join
<1>7. CASE main_fix_disk \/ async_fixdisk \/ \E j \in Jobs : job_done(j)
  BY <1>1, <1>2, <1>5, <1>7 DEF main_fix_disk, async_fixdisk, job_done
<1>8. CASE \/ dispatch("mf_dispatch", "config_drive", "metadata_file")
           \/ dispatch("cd_dispatch", "cd_userdata", "config_drive")
           \/ dispatch("md_dispatch", "userdata", "datasource")
  BY <1>1, <1>2, <1>3, <1>4, <1>8 DEF Reasons
<1>9. CASE \/ main_metadata_file \/ main_config_drive \/ config_drive_userdata
           \/ config_drive_finish \/ openstack_init \/ main_datasource \/ main_setup
           \/ main_metadata \/ main_userdata \/ main_finish \/ UNCHANGED vars
  BY <1>1, <1>9
  DEF main_metadata_file, main_config_drive, config_drive_userdata, config_drive_finish,
      openstack_init, main_datasource, main_setup, main_metadata, main_userdata, main_finish, vars
<1> QED
  BY <1>6, <1>7, <1>8, <1>9 DEF Next, Exited

LEMMA OnlyFixDiskRepairs ==
    ASSUME [Next]_vars
    PROVE  UNCHANGED repairVars \/ async_fixdisk
BY DEF Next, Exited, vars, main_metadata_file, dispatch, main_config_drive, config_drive_userdata,
       config_drive_finish, openstack_init, main_datasource, main_fix_disk, main_setup,
       main_metadata, main_userdata, main_join, main_finish, job_done

-----------------------------------------------------------------------------
(* The disk.                                                               *)

(* It is repaired once, from the table that was found. *)
RepairedOnce ==
    /\ job[FixDisk] # "done" /\ resize = Nothing => table = disk.table
    /\ PartitionsKept /\ FileSystemFollows

LEMMA RepairedOnceInit == Init => RepairedOnce
<1> SUFFICES ASSUME Init PROVE RepairedOnce
  OBVIOUS
<1>1. TypeOK
  BY InitType
<1>2. table = disk.table /\ resize = Nothing
  BY DEF Init, RepairInit
<1>3. PartitionsKept
  BY <1>1, <1>2, FoundTableKept DEF TypeOK
<1> QED
  BY <1>2, <1>3 DEF RepairedOnce, FileSystemFollows

LEMMA RepairedOnceStep == TypeOK /\ RepairedOnce /\ [Next]_vars => RepairedOnce'
<1> SUFFICES ASSUME TypeOK, RepairedOnce, [Next]_vars PROVE RepairedOnce'
  OBVIOUS
<1>1. FixDisk \in Jobs
  BY DEF Jobs
<1>2. CASE UNCHANGED repairVars
  <2>1. PartitionsKept' /\ FileSystemFollows'
    BY <1>2 DEF RepairedOnce, PartitionsKept, FileSystemFollows, GrownEnough
  <2> QED
    BY <1>1, <1>2, <2>1, PoolStep DEF RepairedOnce
<1>3. CASE async_fixdisk
  <2>1. table = disk.table /\ resize = Nothing /\ disk_fix
    BY <1>3 DEF async_fixdisk, RepairedOnce
  <2>2. PartitionsKept' /\ FileSystemFollows'
    BY <2>1, DiskFixKeeps DEF TypeOK
  <2>3. resize' = Nothing => job'[FixDisk] = "done"
    BY <1>1, <1>3 DEF async_fixdisk, J!Complete, TypeOK, J!TypeOK
  <2> QED
    BY <2>2, <2>3 DEF RepairedOnce
<1> QED
  BY <1>2, <1>3, OnlyFixDiskRepairs

THEOREM RepairedOnceAlways == Spec => []RepairedOnce
BY RepairedOnceInit, RepairedOnceStep, TypeCorrect, PTL DEF Spec

(* No partition is lost, moved, overlapped or, but for the case that
   GrownEnough leaves out, cut short. *)
THEOREM PartitionsSafe == Spec => []PartitionsKept
<1>1. RepairedOnce => PartitionsKept
  BY DEF RepairedOnce
<1> QED
  BY <1>1, RepairedOnceAlways, PTL

(* resize2fs gets the file system whose partition has changed. *)
THEOREM RightFileSystem == Spec => []FileSystemFollows
<1>1. RepairedOnce => FileSystemFollows
  BY DEF RepairedOnce
<1> QED
  BY <1>1, RepairedOnceAlways, PTL

-----------------------------------------------------------------------------
(* Loop devices.                                                           *)

(* The loop device of the drive is none of those that there were before. *)
OwnLoop ==
    /\ OthersLoopsKept
    /\ loopDevice # None => loopDevice \notin found.devFile \cup found.attached
    /\ cleared # None => cleared \notin found.attached

LEMMA OwnLoopInit == Init => OwnLoop
BY DEF Init, NotMounted, OwnLoop, OthersLoopsKept

(* Starting and finishing the datasource keep it so. *)
LEMMA StartOwnLoop ==
    ASSUME OwnLoop, TypeOK, UNCHANGED found, NEW image \in BOOLEAN,
           openstack_start_succeeds(image) \/ openstack_start_fails(image)
    PROVE  OwnLoop'
<1>1. mount_filesystem(image) => OwnLoop'
  BY DEF mount_filesystem, FreeLoop, OwnLoop, OthersLoopsKept
<1>2. mount_filesystem_fails(image) => OwnLoop'
  BY DEF mount_filesystem_fails, OwnLoop, OthersLoopsKept
<1>3. UNCHANGED drive => OwnLoop'
  BY DEF OwnLoop, OthersLoopsKept
<1> QED
  BY <1>1, <1>2, <1>3 DEF openstack_start_succeeds, openstack_start_fails

LEMMA FinishOwnLoop ==
    ASSUME OwnLoop, TypeOK, UNCHANGED found, openstack_finish
    PROVE  OwnLoop'
<1>1. None \notin found.devFile /\ None \notin found.attached
  BY LoopsAssumption DEF TypeOK
<1>2. ASSUME NEW busy \in Busy, NEW stuck \in Stuck, umount_filesystem(busy, stuck), loopDevice' = None
      PROVE  OwnLoop'
  BY <1>1, <1>2 DEF umount_filesystem, OwnLoop, OthersLoopsKept
<1> QED
  BY <1>2 DEF openstack_finish, OwnLoop, OthersLoopsKept

LEMMA OwnLoopStep == TypeOK /\ OwnLoop /\ [Next]_vars => OwnLoop'
<1> SUFFICES ASSUME TypeOK, OwnLoop, [Next]_vars PROVE OwnLoop'
  OBVIOUS
<1>1. CASE UNCHANGED <<drive, found>>
  BY <1>1 DEF OwnLoop, OthersLoopsKept
<1>2. CASE main_config_drive
  <2>1. Image \in BOOLEAN
    BY DEF Image
  <2> QED
    BY <1>1, <1>2, <2>1, StartOwnLoop DEF main_config_drive
<1>3. CASE main_datasource
  BY <1>1, <1>3, StartOwnLoop DEF main_datasource
<1>4. CASE config_drive_finish
  BY <1>4, FinishOwnLoop DEF config_drive_finish
<1>5. CASE main_finish
  BY <1>1, <1>5, FinishOwnLoop DEF main_finish
<1> QED
  BY <1>1, <1>2, <1>3, <1>4, <1>5
  DEF Next, Exited, vars, main_metadata_file, dispatch, config_drive_userdata, openstack_init,
      main_fix_disk, main_setup, main_metadata, main_userdata, main_join, async_fixdisk, job_done

(* No loop device of somebody else is detached, nor its file removed. *)
THEOREM LoopsSafe == Spec => []OthersLoopsKept
<1>1. OwnLoop => OthersLoopsKept
  BY DEF OwnLoop
<1> QED
  BY <1>1, OwnLoopInit, OwnLoopStep, TypeCorrect, PTL DEF Spec

-----------------------------------------------------------------------------
(* The default user.                                                       *)

(* The account comes before the dispatch of the datasource's metadata. *)
LateStages == {"md_dispatch", "userdata", "join", "finish", "exit"}
SetUpFirst ==
    /\ stage \in LateStages \/ \A key \in Keys : job[<<"datasource", key>>] = "idle"
    /\ firstBoot /\ "first_boot_setup" \in options /\ stage \in LateStages \cup {"metadata"} =>
          userReady

LEMMA SetUpFirstInit == Init => SetUpFirst
BY DEF Init, J!Init, SetUpFirst, LateStages, Jobs, Reasons

LEMMA SetUpFirstStep == TypeOK /\ SetUpFirst /\ [Next]_vars => SetUpFirst'
<1> SUFFICES ASSUME TypeOK, SetUpFirst, [Next]_vars PROVE SetUpFirst'
  OBVIOUS
<1>0. /\ job \in [Jobs -> J!JobStates]
      /\ \A key \in Keys : <<"datasource", key>> \in Jobs
  BY DEF TypeOK, J!TypeOK, Jobs, Reasons
<1>1. ASSUME UNCHANGED <<options, firstBoot, userReady, job>>,
             stage \notin LateStages \cup {"metadata"} => stage' \notin LateStages \cup {"metadata"},
             stage \in LateStages => stage' \in LateStages
      PROVE  SetUpFirst'
  BY <1>1 DEF SetUpFirst, LateStages
<1>a. CASE \/ main_metadata_file \/ main_config_drive \/ config_drive_userdata
           \/ config_drive_finish \/ openstack_init \/ main_metadata \/ main_userdata
           \/ main_join \/ main_finish
  BY <1>1, <1>a
  DEF main_metadata_file, main_config_drive, config_drive_userdata, config_drive_finish,
      openstack_init, main_metadata, main_userdata, main_join, J!Join, main_finish, LateStages
<1>b. CASE main_setup
  <2>1. firstBoot' = firstBoot /\ options' = options /\ job' = job /\ stage' = "metadata"
        /\ stage = "setup" /\ (firstBoot /\ "first_boot_setup" \in options => userReady')
    BY <1>b DEF main_setup
  <2>2. \A key \in Keys : job'[<<"datasource", key>>] = "idle"
    BY <2>1 DEF SetUpFirst, LateStages
  <2> QED
    BY <2>1, <2>2 DEF SetUpFirst
<1>c. CASE main_datasource
  <2>1. stage' = "fix_disk" /\ stage = "start" /\ job' = job
    BY <1>c DEF main_datasource
  <2> QED
    BY <2>1 DEF SetUpFirst, LateStages
<1>2. CASE UNCHANGED vars
  BY <1>2 DEF vars, SetUpFirst
<1>3. ASSUME NEW from, NEW to, NEW reason \in {"metadata_file", "config_drive"},
             from \notin LateStages, to \notin LateStages \cup {"metadata"},
             dispatch(from, to, reason)
      PROVE  SetUpFirst'
  BY <1>0, <1>3 DEF dispatch, openstack_run_handler, J!Launch, SetUpFirst, LateStages, Jobs
<1>4. CASE dispatch("md_dispatch", "userdata", "datasource")
  BY <1>4 DEF dispatch, SetUpFirst, LateStages
<1>5. CASE main_fix_disk \/ async_fixdisk
  <2>1. \A key \in Keys : <<"datasource", key>> # FixDisk /\ <<"datasource", key>> # Resize
    BY DEF FixDisk, Resize
  <2>2. \A key \in Keys : job'[<<"datasource", key>>] = job[<<"datasource", key>>]
    BY <1>0, <1>5, <2>1 DEF main_fix_disk, async_fixdisk, J!Launch, J!Complete
  <2> QED
    BY <1>5, <2>2 DEF main_fix_disk, async_fixdisk, SetUpFirst, LateStages
<1>6. ASSUME NEW j \in Jobs, job_done(j) PROVE SetUpFirst'
  BY <1>0, <1>6 DEF job_done, J!Complete, SetUpFirst
<1> QED
  BY <1>a, <1>b, <1>c, <1>2, <1>3, <1>4, <1>5, <1>6 DEF Next, Exited, LateStages

(* No handler of the datasource's metadata is pushed before the account. *)
THEOREM UserFirst == Spec => []UserBeforeHandlers
<1>1. SetUpFirst => UserBeforeHandlers
  BY DEF SetUpFirst, UserBeforeHandlers
<1> QED
  BY <1>1, SetUpFirstInit, SetUpFirstStep, TypeCorrect, PTL DEF Spec

-----------------------------------------------------------------------------
(* Where main() is, and what it knows there.                               *)

EarlyStages == {"metadata_file", "mf_dispatch", "config_drive", "cd_dispatch", "cd_userdata",
                "cd_finish", "datasource", "start"}
CdStages == {"cd_dispatch", "cd_userdata", "cd_finish"}

Phases ==
    /\ handlerSet => stage \notin EarlyStages /\ dataSource = "drive" /\ DataSource
    /\ stage = "start" => DataSource
    /\ stage \in CdStages => ConfigDrive /\ dataSource = "drive"
    /\ stage \in {"finish", "exit"} => joined
    /\ joined => \A j \in Jobs : job[j] # "active"

LEMMA PhasesInit == Init => Phases
BY DEF Init, J!Init, Phases, EarlyStages, CdStages

LEMMA PhasesStep == TypeOK /\ Phases /\ [Next]_vars => Phases'
<1> SUFFICES ASSUME TypeOK, Phases, [Next]_vars PROVE Phases'
  OBVIOUS
<1>1. joined' => \A j \in Jobs : job'[j] # "active"
  <2>1. CASE joined
    BY <2>1, PoolStep DEF Phases
  <2>2. CASE joined' # joined
    <3>1. main_join
      BY <2>2
      DEF Next, Exited, vars, main_metadata_file, dispatch, openstack_run_handler, J!Launch,
          main_config_drive, config_drive_userdata, config_drive_finish, openstack_init,
          main_datasource, main_fix_disk, main_setup, main_metadata, main_userdata, main_join,
          main_finish, async_fixdisk, J!Complete, job_done
    <3> QED
      BY <3>1 DEF main_join, J!Join, J!Active
  <2> QED
    BY <2>1, <2>2
<1>2. joined => joined'
  BY PoolStep DEF TypeOK, J!TypeOK
<1>3. UNCHANGED options => ConfigDrive' = ConfigDrive /\ DataSource' = DataSource
  BY DEF ConfigDrive, DataSource
<1>4. SUFFICES /\ handlerSet' => stage' \notin EarlyStages /\ dataSource' = "drive" /\ DataSource'
               /\ stage' = "start" => DataSource'
               /\ stage' \in CdStages => ConfigDrive' /\ dataSource' = "drive"
               /\ stage' \in {"finish", "exit"} => joined'
  BY <1>1 DEF Phases
<1> USE <1>2, <1>3 DEF Phases, EarlyStages, CdStages
<1>a. CASE main_metadata_file \/ config_drive_userdata \/ config_drive_finish \/ openstack_init
  BY <1>a DEF main_metadata_file, config_drive_userdata, config_drive_finish, openstack_init
<1>b. CASE main_config_drive
  BY <1>b DEF main_config_drive
<1>c. CASE main_datasource
  <2>1. /\ stage = "start" /\ stage' = "fix_disk" /\ options' = options /\ joined' = joined
        /\ dataSource' = "drive" \/ (handlerSet' = handlerSet /\ dataSource' = dataSource)
    BY <1>c DEF main_datasource
  <2>2. ~handlerSet /\ DataSource'
    BY <2>1
  <2>3. handlerSet' => dataSource' = "drive"
    BY <2>1, <2>2
  <2> QED
    BY <2>1, <2>2, <2>3
<1>d. CASE \/ dispatch("mf_dispatch", "config_drive", "metadata_file")
           \/ dispatch("cd_dispatch", "cd_userdata", "config_drive")
           \/ dispatch("md_dispatch", "userdata", "datasource")
  BY <1>d DEF dispatch
<1>e. CASE main_fix_disk \/ main_setup \/ main_metadata \/ main_userdata \/ main_finish
  BY <1>e DEF main_fix_disk, main_setup, main_metadata, main_userdata, main_finish
<1>f. CASE main_join
  BY <1>f DEF main_join, J!Join
<1>g. CASE async_fixdisk \/ (\E j \in Jobs : job_done(j)) \/ UNCHANGED vars
  BY <1>g DEF async_fixdisk, job_done, vars
<1> QED
  BY <1>a, <1>b, <1>c, <1>d, <1>e, <1>f, <1>g DEF Next, Exited

THEOREM PhasesAlways == Spec => []Phases
BY PhasesInit, PhasesStep, TypeCorrect, PTL DEF Spec

-----------------------------------------------------------------------------
(* Handlers and what they point into, when main() alone has the drive.     *)

Held(t) == t \in live /\ (t = "drive" => mounted)
HandlersHold ==
    /\ arg[FixDisk] = None /\ arg[Resize] = None
    /\ NoConfigDriveOption =>
          /\ node # None => Held(node)
          /\ \A j \in Jobs : job[j] = "active" /\ arg[j] # None => Held(arg[j])

LEMMA HandlersHoldInit == Init => HandlersHold
BY DEF Init, J!Init, HandlersHold, Jobs

LEMMA HandlersHoldStep == TypeOK /\ Phases /\ HandlersHold /\ [Next]_vars => HandlersHold'
<1> SUFFICES ASSUME TypeOK, Phases, HandlersHold, [Next]_vars PROVE HandlersHold'
  OBVIOUS
<1>0. arg'[FixDisk] = None /\ arg'[Resize] = None
  <2>1. \A reason \in Reasons : \A key : openstack_run_handler(reason, key) =>
           arg'[FixDisk] = arg[FixDisk] /\ arg'[Resize] = arg[Resize]
    BY DEF openstack_run_handler, TypeOK, FixDisk, Resize, Reasons, Jobs
  <2>2. UNCHANGED arg \/ \E reason \in Reasons, key \in Keys : openstack_run_handler(reason, key)
    BY DEF Next, Exited, vars, main_metadata_file, dispatch, main_config_drive,
           config_drive_userdata, config_drive_finish, openstack_init, main_datasource,
           main_fix_disk, main_setup, main_metadata, main_userdata, main_join, main_finish,
           async_fixdisk, job_done, Reasons
  <2> QED
    BY <2>1, <2>2 DEF HandlersHold
<1> SUFFICES ASSUME NoConfigDriveOption'
             PROVE  /\ node' # None => Held(node)'
                    /\ \A j \in Jobs : job'[j] = "active" /\ arg'[j] # None => Held(arg[j])'
  BY <1>0 DEF HandlersHold
<1>1. options' = options
  BY DEF Next, Exited, vars, main_metadata_file, dispatch, main_config_drive, config_drive_userdata,
         config_drive_finish, openstack_init, main_datasource, main_fix_disk, main_setup,
         main_metadata, main_userdata, main_join, main_finish, async_fixdisk, job_done
<1>2. NoConfigDriveOption /\ ~ConfigDrive
  BY <1>1 DEF NoConfigDriveOption, ConfigDrive
<1>3. /\ node # None => Held(node)
      /\ \A j \in Jobs : job[j] = "active" /\ arg[j] # None => Held(arg[j])
  BY <1>2 DEF HandlersHold
(* Trees are only added, and the drive is only mounted. *)
<1>4. ASSUME live \subseteq live', mounted => mounted', UNCHANGED <<job, arg>>,
             node' = node \/ Held(node)'
      PROVE  /\ node' # None => Held(node)'
             /\ \A j \in Jobs : job'[j] = "active" /\ arg'[j] # None => Held(arg[j])'
  BY <1>3, <1>4 DEF Held
<1>5. ASSUME UNCHANGED <<live, mounted, node, arg>>
      PROVE  /\ node' # None => Held(node)'
             /\ \A j \in Jobs : job'[j] = "active" /\ job[j] = "active" /\ arg'[j] # None =>
                   Held(arg[j])'
  BY <1>3, <1>5 DEF Held
<1>a. CASE main_metadata_file
  BY <1>4, <1>a DEF main_metadata_file, openstack_load_metadata_file, Held
<1>b. ASSUME NEW from, NEW to, NEW reason \in Reasons, dispatch(from, to, reason)
      PROVE  /\ node' # None => Held(node)'
             /\ \A j \in Jobs : job'[j] = "active" /\ arg'[j] # None => Held(arg[j])'
  <2>1. UNCHANGED <<live, mounted, node>>
    BY <1>b DEF dispatch
  <2>2. CASE UNCHANGED <<pool, arg>>
    BY <1>3, <2>1, <2>2 DEF Held
  <2>3. ASSUME NEW key \in Keys, openstack_run_handler(reason, key)
        PROVE  \A j \in Jobs : job'[j] = "active" /\ arg'[j] # None => Held(arg[j])'
    <3>1. \A j \in Jobs : j # <<reason, key>> => job'[j] = job[j] /\ arg'[j] = arg[j]
      BY <2>3 DEF openstack_run_handler, J!Launch, TypeOK, J!TypeOK
    <3>2. <<reason, key>> \in Jobs /\ arg'[<<reason, key>>] = node
      BY <2>3 DEF openstack_run_handler, TypeOK, Jobs
    <3> QED
      BY <1>3, <2>1, <3>1, <3>2 DEF Held
  <2> QED
    BY <1>3, <1>b, <2>1, <2>2, <2>3 DEF dispatch, Held
<1>c. CASE main_config_drive
  BY <1>2, <1>4, <1>c DEF main_config_drive
<1>d. CASE config_drive_userdata \/ config_drive_finish
  BY <1>2, <1>d DEF config_drive_userdata, config_drive_finish, Phases, CdStages
<1>e. CASE openstack_init \/ main_setup \/ main_userdata
  BY <1>4, <1>e DEF openstack_init, main_setup, main_userdata
<1>f. CASE main_datasource
  <2>1. CASE openstack_start_succeeds(FALSE)
    BY <1>4, <1>f, <2>1
    DEF main_datasource, openstack_start_succeeds, mount_filesystem, openstack_load_metadata_file, Held
  <2>2. CASE openstack_start_fails(FALSE)
    BY <1>4, <1>f, <2>2
    DEF main_datasource, openstack_start_fails, mount_filesystem, mount_filesystem_fails
  <2> QED
    BY <1>4, <1>f, <2>1, <2>2 DEF main_datasource
<1>g. CASE main_fix_disk \/ async_fixdisk \/ \E j \in Jobs : job_done(j)
  <2>1. UNCHANGED <<live, mounted, node, arg>>
    BY <1>g DEF main_fix_disk, async_fixdisk, job_done
  <2>2. \A j \in Reasons \X Keys : job'[j] = "active" => job[j] = "active"
    BY <1>g DEF main_fix_disk, async_fixdisk, job_done, J!Launch, J!Complete, TypeOK, J!TypeOK,
                Jobs, FixDisk, Resize, Reasons
  <2> QED
    BY <1>0, <1>3, <1>5, <2>1, <2>2 DEF Jobs
<1>h. CASE main_metadata
  BY <1>4, <1>h DEF main_metadata, openstack_load_metadata_file, Held
<1>i. CASE main_join
  BY <1>4, <1>i DEF main_join, J!Join
<1>j. CASE main_finish
  <2>1. \A j \in Jobs : job'[j] # "active"
    BY <1>j DEF main_finish, Phases
  <2>2. CASE handlerSet
    BY <1>j, <2>1, <2>2 DEF main_finish, openstack_finish
  <2>3. CASE ~handlerSet
    BY <1>4, <1>j, <2>3 DEF main_finish
  <2> QED
    BY <2>2, <2>3
<1>k. CASE UNCHANGED vars
  BY <1>4, <1>k DEF vars
<1> QED
  BY <1>a, <1>b, <1>c, <1>d, <1>e, <1>f, <1>g, <1>h, <1>i, <1>j, <1>k DEF Next, Exited, Reasons

(* Command lines without --openstack-config-drive never free or unmount what a
   handler uses. *)
THEOREM HandlersSafe == Spec => []HandlersHaveTheirDataInService
<1>1. HandlersHold => HandlersHaveTheirDataInService
  BY DEF HandlersHold, HandlersHaveTheirDataInService, HandlersHaveTheirData, Held
<1> QED
  BY <1>1, HandlersHoldInit, HandlersHoldStep, TypeCorrect, PhasesAlways, PTL DEF Spec

-----------------------------------------------------------------------------
(* Whatever has been acquired has an owner that will release it, on command *)
(* lines that leave the drive to main() and as long as nothing has failed.  *)

Owned == stage # "exit" /\ (stage \in CdStages \/ handlerSet)
Clean == ~mounted /\ ~userdataFile /\ "drive" \notin live
InHand ==
    /\ Owned \/ Clean
    /\ mountDir = mounted
    /\ "drive" \in live => node = "drive"
    /\ cleared = None
    /\ loopDevice # None => mounted /\ ConfigDrive
    /\ devFile = found.devFile \cup ({loopDevice} \ {None})
    /\ attached = found.attached \cup ({loopDevice} \ {None})
Releasable == ~ConfigDrive \/ failures = {} => InHand

LEMMA ReleasableInit == Init => Releasable
<1> SUFFICES ASSUME Init PROVE InHand
  BY DEF Releasable
<1>1. /\ mounted = FALSE /\ mountDir = FALSE /\ cleared = None /\ loopDevice = None
      /\ userdataFile = FALSE /\ live = {}
  BY DEF Init, NotMounted
<1>2. Clean
  BY <1>1 DEF Clean
<1>3. found.devFile = devFile /\ found.attached = attached
  BY DEF Init
<1> QED
  BY <1>1, <1>2, <1>3 DEF InHand

(* Steps that acquire nothing and hand nothing over. *)
LEMMA InHandKept ==
    ASSUME InHand, UNCHANGED <<options, driveVars, tree, found>>,
           userdataFile' => userdataFile \/ Owned', Owned => Owned'
    PROVE  InHand'
BY DEF InHand, Owned, Clean, ConfigDrive

(* openstack_finish releases all, if it does not fail. *)
LEMMA FinishReleases ==
    ASSUME TypeOK, OwnLoop, InHand, dataSource = "drive", UNCHANGED <<options, found>>,
           NEW busy \in Busy, NEW stuck \in Stuck, umount_filesystem(busy, stuck),
           ~busy, ~stuck, loopDevice' = None,
           userdataFile' = FALSE, live' = live \ {node}, node' = None
    PROVE  InHand' /\ Clean'
<1>1. None \notin found.devFile /\ None \notin found.attached
  BY LoopsAssumption DEF TypeOK
<1>2. CASE mounted
  <2>1. /\ devFile' = devFile \ {loopDevice}
        /\ attached' = attached \ {IF loopDevice = None THEN cleared ELSE loopDevice}
        /\ mounted' = FALSE /\ mountDir' = FALSE /\ cleared' = None
    BY <1>2 DEF umount_filesystem
  <2>2. attached' = attached \ {loopDevice}
    BY <2>1 DEF InHand
  <2>3. devFile' = found.devFile /\ attached' = found.attached
    BY <1>1, <2>1, <2>2 DEF InHand, OwnLoop
  <2> QED
    BY <2>1, <2>3 DEF InHand, Clean
<1>3. CASE ~mounted
  <2>1. loopDevice = None /\ cleared = None /\ mountDir = FALSE
    BY <1>3 DEF InHand, TypeOK, DriveTypeOK
  <2>2. /\ devFile' = devFile \ {None} /\ attached' = attached /\ cleared' = None
        /\ mounted' = mounted /\ mountDir' = mountDir
    BY <1>3, <2>1 DEF umount_filesystem
  <2> QED
    BY <1>1, <1>3, <2>1, <2>2 DEF InHand, Clean
<1> QED
  BY <1>2, <1>3

(* openstack_start hands the drive to whoever owns it then. *)
LEMMA StartInHand ==
    ASSUME TypeOK, InHand, Clean, UNCHANGED <<options, found, userdataFile>>, Owned',
           NEW image \in BOOLEAN, image => ConfigDrive,
           \/ openstack_start_succeeds(image)
           \/ ~image /\ openstack_start_fails(image)
    PROVE  InHand'
<1>1. loopDevice = None /\ mountDir = FALSE /\ cleared = None
  BY DEF InHand, Clean, TypeOK, DriveTypeOK
<1>2. ConfigDrive' = ConfigDrive
  BY DEF ConfigDrive
<1>3. CASE openstack_start_succeeds(image)
  <2>1. /\ mounted' = TRUE /\ mountDir' = TRUE /\ cleared' = None
        /\ node' = "drive" /\ live' = live \cup {"drive"}
    BY <1>1, <1>3 DEF openstack_start_succeeds, mount_filesystem, openstack_load_metadata_file
  <2>2. CASE image
    <3>1. PICK n \in Loops : /\ devFile' = devFile \cup {n} /\ attached' = attached \cup {n}
                             /\ loopDevice' = n
      BY <1>3, <2>2 DEF openstack_start_succeeds, mount_filesystem
    <3>2. n # None
      BY LoopsAssumption
    <3> QED
      BY <1>1, <1>2, <2>1, <2>2, <3>1, <3>2 DEF InHand
  <2>3. CASE ~image
    <3>1. UNCHANGED <<devFile, attached, loopDevice>>
      BY <1>3, <2>3 DEF openstack_start_succeeds, mount_filesystem
    <3> QED
      BY <1>1, <2>1, <3>1 DEF InHand
  <2> QED
    BY <2>2, <2>3
<1>4. CASE ~image /\ openstack_start_fails(image)
  <2>1. UNCHANGED <<devFile, attached, loopDevice, cleared, tree>> /\ mountDir' = mounted'
    <3>1. UNCHANGED tree
      BY <1>4 DEF openstack_start_fails
    <3>2. CASE UNCHANGED drive
      BY <1>1, <3>1, <3>2 DEF InHand
    <3>3. CASE mount_filesystem_fails(image) /\ UNCHANGED mountDir
      <4>1. UNCHANGED <<devices, mounted, cleared, loopDevice>>
        BY <1>4, <3>3 DEF mount_filesystem_fails
      <4> QED
        BY <3>1, <3>3, <4>1 DEF InHand
    <3>4. CASE mount_filesystem(image) /\ mountDir' = TRUE
      BY <1>4, <3>1, <3>4 DEF mount_filesystem
    <3> QED
      BY <1>4, <3>2, <3>3, <3>4 DEF openstack_start_fails
  <2> QED
    BY <1>1, <2>1 DEF InHand, Clean
<1> QED
  BY <1>3, <1>4

LEMMA ReleasableStep == TypeOK /\ OwnLoop /\ Phases /\ Releasable /\ [Next]_vars => Releasable'
<1> SUFFICES ASSUME TypeOK, OwnLoop, Phases, Releasable, [Next]_vars,
                    ~ConfigDrive' \/ failures' = {}
             PROVE  InHand'
  BY DEF Releasable
<1>1. options' = options /\ found' = found
  BY DEF Next, Exited, vars, main_metadata_file, dispatch, main_config_drive, config_drive_userdata,
         config_drive_finish, openstack_init, main_datasource, main_fix_disk, main_setup,
         main_metadata, main_userdata, main_join, main_finish, async_fixdisk, job_done
<1>2. ConfigDrive' = ConfigDrive /\ (Image => ConfigDrive) /\ Image \in BOOLEAN
  BY <1>1 DEF ConfigDrive, Image
<1>3. failures' = {} => failures = {}
  BY DEF Next, Exited, vars, main_metadata_file, dispatch, main_config_drive, config_drive_userdata,
         config_drive_finish, openstack_init, main_datasource, main_fix_disk, main_setup,
         main_metadata, main_userdata, main_join, main_finish, async_fixdisk, job_done,
         openstack_start_succeeds, openstack_start_fails, openstack_finish, Record
<1>4. InHand
  BY <1>2, <1>3 DEF Releasable
<1>5. stage \in EarlyStages \ CdStages => ~Owned /\ Clean
  BY <1>4 DEF Owned, Phases, EarlyStages, CdStages, InHand
<1>a. CASE main_metadata_file
  <2>1. ~Owned /\ Clean
    BY <1>5, <1>a DEF main_metadata_file, EarlyStages, CdStages
  <2> QED
    BY <1>2, <1>4, <1>a, <2>1 DEF main_metadata_file, openstack_load_metadata_file, InHand, Clean
<1>b. CASE \/ dispatch("mf_dispatch", "config_drive", "metadata_file")
           \/ dispatch("cd_dispatch", "cd_userdata", "config_drive")
           \/ dispatch("md_dispatch", "userdata", "datasource")
  BY <1>1, <1>4, <1>b, InHandKept DEF dispatch, Owned, CdStages
<1>c. CASE main_config_drive
  <2>1. ~Owned /\ Clean
    BY <1>5, <1>c DEF main_config_drive, EarlyStages, CdStages
  <2>2. CASE openstack_start_succeeds(Image) /\ stage' = "cd_dispatch"
    <3>1. Owned' /\ UNCHANGED userdataFile
      BY <1>c, <2>2 DEF main_config_drive, Owned, CdStages
    <3> QED
      BY <1>1, <1>2, <1>4, <2>1, <2>2, <3>1, StartInHand
  <2>3. CASE ConfigDrive /\ openstack_start_fails(Image)
    BY <1>2, <2>3 DEF openstack_start_fails, Record
  <2>4. CASE UNCHANGED <<drive, tree>>
    BY <1>1, <1>4, <1>c, <2>1, <2>4, InHandKept DEF main_config_drive
  <2> QED
    BY <1>c, <2>2, <2>3, <2>4 DEF main_config_drive
<1>d. CASE config_drive_userdata
  BY <1>1, <1>4, <1>d, InHandKept DEF config_drive_userdata, Owned, CdStages
<1>e. CASE config_drive_finish
  <2>1. ConfigDrive /\ dataSource = "drive" /\ failures' = {}
    BY <1>2, <1>e DEF config_drive_finish, Phases, CdStages
  <2>2. PICK busy \in Busy, stuck \in Stuck :
           /\ umount_filesystem(busy, stuck) /\ Record("umount", busy \/ stuck)
           /\ loopDevice' = None /\ userdataFile' = FALSE
           /\ live' = live \ {node} /\ node' = None
    BY <1>e, <2>1 DEF config_drive_finish, openstack_finish
  <2>3. ~busy /\ ~stuck
    BY <2>1, <2>2 DEF Record
  <2> QED
    BY <1>1, <1>4, <2>1, <2>2, <2>3, FinishReleases
<1>f. CASE openstack_init \/ main_fix_disk \/ main_setup
  BY <1>1, <1>4, <1>f, InHandKept
  DEF openstack_init, main_fix_disk, main_setup, Owned, CdStages
<1>g. CASE main_datasource
  <2>1. ~Owned /\ Clean /\ UNCHANGED userdataFile
    BY <1>5, <1>g DEF main_datasource, EarlyStages, CdStages
  <2>2. CASE handlerSet' = TRUE /\ (openstack_start_succeeds(FALSE) \/ openstack_start_fails(FALSE))
    <3>1. Owned'
      BY <1>g, <2>2 DEF main_datasource, Owned
    <3> QED
      BY <1>1, <1>4, <2>1, <2>2, <3>1, StartInHand
  <2>3. CASE UNCHANGED <<drive, tree>>
    BY <1>1, <1>4, <2>1, <2>3, InHandKept
  <2> QED
    BY <1>g, <2>2, <2>3 DEF main_datasource
<1>h. CASE main_metadata
  <2>1. handlerSet' = handlerSet /\ stage = "metadata" /\ stage' \in {"md_dispatch", "userdata"}
    BY <1>h DEF main_metadata
  <2>2. CASE UNCHANGED tree
    BY <1>1, <1>4, <1>h, <2>1, <2>2, InHandKept DEF main_metadata, Owned, CdStages
  <2>3. CASE handlerSet /\ mounted /\ openstack_load_metadata_file("drive")
    BY <1>2, <1>4, <1>h, <2>1, <2>3
    DEF main_metadata, openstack_load_metadata_file, InHand, Owned, CdStages
  <2> QED
    BY <1>h, <2>2, <2>3 DEF main_metadata
<1>i. CASE main_userdata
  <2>1. stage = "userdata" /\ stage' = "join" /\ handlerSet' = handlerSet
        /\ (handlerSet \/ UNCHANGED userdataFile)
    BY <1>i DEF main_userdata
  <2>2. Owned' = Owned /\ (userdataFile' => userdataFile \/ Owned')
    BY <2>1 DEF Owned, CdStages
  <2> QED
    BY <1>1, <1>4, <1>i, <2>2, InHandKept DEF main_userdata
<1>j. CASE main_join
  BY <1>1, <1>4, <1>j, InHandKept DEF main_join, Owned, CdStages
<1>k. CASE main_finish
  <2>1. CASE handlerSet
    <3>1. PICK busy \in Busy, stuck \in Stuck :
             /\ umount_filesystem(busy, stuck) /\ Record("umount", busy \/ stuck)
             /\ loopDevice' = None /\ userdataFile' = FALSE
             /\ live' = live \ {node} /\ node' = None
      BY <1>k, <2>1 DEF main_finish, openstack_finish, Phases
    <3>2. \A j \in Jobs : job[j] # "active"
      BY <1>k DEF main_finish, Phases
    <3>3. ~busy
      BY <3>2 DEF Busy, ActiveOn
    <3>4. ~stuck
      <4>1. CASE ~ConfigDrive
        BY <1>4, <4>1 DEF Stuck, InHand
      <4>2. CASE failures' = {}
        BY <3>1, <4>2 DEF Record
      <4> QED
        BY <1>2, <4>1, <4>2
    <3>5. dataSource = "drive"
      BY <2>1 DEF Phases
    <3> QED
      BY <1>1, <1>4, <3>1, <3>3, <3>4, <3>5, FinishReleases
  <2>2. CASE ~handlerSet
    <3>1. ~Owned /\ stage' = "exit" /\ UNCHANGED <<tree, drive, userdataFile>>
      BY <1>k, <2>2 DEF main_finish, Owned, CdStages
    <3> QED
      BY <1>1, <1>4, <3>1, InHandKept
  <2> QED
    BY <2>1, <2>2
<1>l. CASE async_fixdisk \/ (\E j \in Jobs : job_done(j)) \/ UNCHANGED vars
  BY <1>1, <1>4, <1>l, InHandKept DEF async_fixdisk, job_done, vars, Owned
<1> QED
  BY <1>a, <1>b, <1>c, <1>d, <1>e, <1>f, <1>g, <1>h, <1>i, <1>j, <1>k, <1>l DEF Next, Exited

THEOREM ReleasableAlways == Spec => []Releasable
<1>1. Spec => []OwnLoop
  BY OwnLoopInit, OwnLoopStep, TypeCorrect, PTL DEF Spec
<1> QED
  BY <1>1, ReleasableInit, ReleasableStep, TypeCorrect, PhasesAlways, PTL DEF Spec

(* In service nothing of the datasource is left behind, whatever fails. *)
THEOREM NothingLeft == Spec => []NothingLeftBehind
<1>1. TypeOK /\ Releasable => NothingLeftBehind
  BY DEF Releasable, InHand, Owned, Clean, NothingLeftBehind, NoConfigDriveOption, TypeOK, DriveTypeOK
<1> QED
  BY <1>1, ReleasableAlways, TypeCorrect, PTL

(* With any command line nothing is left behind unless something has failed. *)
THEOREM Released == Spec => []ReleasedUnlessFailed
<1>1. TypeOK /\ Releasable => ReleasedUnlessFailed
  <2> SUFFICES ASSUME TypeOK, Releasable, stage = "exit", failures = {}
               PROVE  /\ ~mounted /\ ~mountDir /\ ~userdataFile /\ "drive" \notin live
                      /\ [devFile |-> devFile, attached |-> attached] = found
    BY DEF ReleasedUnlessFailed
  <2>1. InHand /\ Clean
    BY DEF Releasable, InHand, Owned
  <2>2. loopDevice = None /\ ~mountDir
    BY <2>1 DEF InHand, Clean, TypeOK, DriveTypeOK
  <2>3. devFile = found.devFile /\ attached = found.attached
    BY <2>1, <2>2 DEF InHand
  <2> QED
    BY <2>1, <2>2, <2>3 DEF Clean, TypeOK
<1> QED
  BY <1>1, ReleasableAlways, TypeCorrect, PTL

-----------------------------------------------------------------------------
(* Where trees and data_source come from.                                  *)

OneSource == \A s, t \in Sources : s = t
Used(t) == node = t \/ \E j \in Jobs : job[j] = "active" /\ arg[j] = t
Provenance ==
    /\ stage \in {"mf_dispatch", "cd_dispatch", "md_dispatch"} => node # None
    /\ \A j \in Reasons \X Keys : job[j] = "active" => arg[j] # None
    /\ Used("file") => "metadata_file" \in options
    /\ Used("drive") \/ dataSource = "drive" => ConfigDrive \/ DataSource
    /\ Used("drive") /\ stage \in EarlyStages => ConfigDrive
    /\ Used("drive") => dataSource = "drive" \/ (ConfigDrive /\ DataSource)

LEMMA ProvenanceInit == Init => Provenance
BY NoTreeAssumption DEF Init, J!Init, Provenance, Used, Jobs, Trees

(* The two jobs that have no tree. *)
NoTree == arg[FixDisk] = None /\ arg[Resize] = None

LEMMA NoTreeInit == Init => NoTree
BY DEF Init, NoTree, Jobs

LEMMA NoTreeStep == TypeOK /\ NoTree /\ [Next]_vars => NoTree'
<1> SUFFICES ASSUME TypeOK, NoTree, [Next]_vars PROVE NoTree'
  OBVIOUS
<1>1. \A reason \in Reasons : \A key : openstack_run_handler(reason, key) =>
         arg'[FixDisk] = arg[FixDisk] /\ arg'[Resize] = arg[Resize]
  BY DEF openstack_run_handler, TypeOK, FixDisk, Resize, Reasons, Jobs
<1>2. UNCHANGED arg \/ \E reason \in Reasons, key \in Keys : openstack_run_handler(reason, key)
  BY DEF Next, Exited, vars, main_metadata_file, dispatch, main_config_drive,
         config_drive_userdata, config_drive_finish, openstack_init, main_datasource,
         main_fix_disk, main_setup, main_metadata, main_userdata, main_join, main_finish,
         async_fixdisk, job_done, Reasons
<1> QED
  BY <1>1, <1>2 DEF NoTree

(* A step that pushes no handler of metadata uses no tree that was not used,
   but the one it loads. *)
LEMMA UsedAgain ==
    ASSUME TypeOK, NoTree, UNCHANGED arg, NEW t \in Trees, Used(t)',
           \A j \in Reasons \X Keys : job'[j] = "active" => job[j] = "active"
    PROVE  Used(t) \/ node' = t
<1>1. CASE node' = t
  BY <1>1
<1>2. CASE \E j \in Jobs : job'[j] = "active" /\ arg'[j] = t
  <2>1. PICK j \in Jobs : job'[j] = "active" /\ arg[j] = t
    BY <1>2
  <2>2. j \in Reasons \X Keys
    BY <2>1, NoTreeAssumption DEF NoTree, Jobs
  <2> QED
    BY <2>1, <2>2 DEF Used
<1> QED
  BY <1>1, <1>2 DEF Used

(* A handler is pushed for the tree that is loaded. *)
LEMMA UsedByHandler ==
    ASSUME TypeOK, NEW reason \in Reasons, NEW key \in Keys, openstack_run_handler(reason, key),
           UNCHANGED node, NEW t \in Trees, Used(t)'
    PROVE  Used(t)
<1>1. \A j \in Jobs : j # <<reason, key>> => job'[j] = job[j] /\ arg'[j] = arg[j]
  BY DEF openstack_run_handler, J!Launch, TypeOK, J!TypeOK
<1>2. <<reason, key>> \in Jobs /\ arg'[<<reason, key>>] = node
  BY DEF openstack_run_handler, TypeOK, Jobs
<1> QED
  BY <1>1, <1>2 DEF Used

(* The other parts of Provenance, where no handler is pushed. *)
LEMMA ProvenanceKept ==
    ASSUME TypeOK, NoTree, Provenance, UNCHANGED <<options, arg>>,
           \A j \in Reasons \X Keys : job'[j] = "active" => job[j] = "active",
           node' \in {node, None}, dataSource' = dataSource,
           stage' \in {"mf_dispatch", "cd_dispatch", "md_dispatch"} => node' # None,
           stage' \in EarlyStages => stage \in EarlyStages
    PROVE  Provenance'
<1>1. \A t \in Trees : Used(t)' => Used(t)
  <2> SUFFICES ASSUME NEW t \in Trees, Used(t)' PROVE Used(t)
    OBVIOUS
  <2>1. Used(t) \/ node' = t
    BY UsedAgain
  <2> QED
    BY <2>1, NoTreeAssumption DEF Used
<1>2. ConfigDrive' = ConfigDrive /\ DataSource' = DataSource
  BY DEF ConfigDrive, DataSource
<1> QED
  BY <1>1, <1>2 DEF Provenance, Trees

(* Where one is pushed. *)
LEMMA ProvenancePushed ==
    ASSUME TypeOK, NoTree, Provenance, NEW reason \in Reasons, NEW from, NEW to,
           dispatch(from, to, reason), from \in {"mf_dispatch", "cd_dispatch", "md_dispatch"},
           to \notin {"mf_dispatch", "cd_dispatch", "md_dispatch"},
           to \in EarlyStages => from \in EarlyStages
    PROVE  Provenance'
<1>1. CASE UNCHANGED <<pool, arg>> /\ stage' = to
  BY <1>1, ProvenanceKept DEF dispatch
<1>2. CASE UNCHANGED stage /\ \E key \in Keys : openstack_run_handler(reason, key)
  <2>1. PICK key \in Keys : openstack_run_handler(reason, key)
    BY <1>2
  <2>2. stage = from /\ UNCHANGED <<options, node, dataSource>>
    BY DEF dispatch
  <2>3. \A t \in Trees : Used(t)' => Used(t)
    BY <2>1, <2>2, UsedByHandler
  <2>4. \A j \in Jobs : j # <<reason, key>> => job'[j] = job[j] /\ arg'[j] = arg[j]
    BY <2>1 DEF openstack_run_handler, J!Launch, TypeOK, J!TypeOK
  <2>5. <<reason, key>> \in Jobs /\ arg'[<<reason, key>>] = node
    BY <2>1 DEF openstack_run_handler, TypeOK, Jobs
  <2>6. \A j \in Reasons \X Keys : job'[j] = "active" => arg'[j] # None
    BY <2>2, <2>4, <2>5 DEF Provenance, Jobs
  <2>7. ConfigDrive' = ConfigDrive /\ DataSource' = DataSource
    BY <2>2 DEF ConfigDrive, DataSource
  <2> QED
    BY <1>2, <2>2, <2>3, <2>6, <2>7 DEF Provenance, Trees
<1> QED
  BY <1>1, <1>2 DEF dispatch

LEMMA ProvenanceStep == TypeOK /\ NoTree /\ Phases /\ Provenance /\ [Next]_vars => Provenance'
<1> SUFFICES ASSUME TypeOK, NoTree, Phases, Provenance, [Next]_vars PROVE Provenance'
  OBVIOUS
<1>0. UNCHANGED options => ConfigDrive' = ConfigDrive /\ DataSource' = DataSource
  BY DEF ConfigDrive, DataSource
<1>a. CASE main_metadata_file
  <2>1. CASE UNCHANGED tree /\ stage' = "config_drive"
    BY <1>a, <2>1, ProvenanceKept DEF main_metadata_file, EarlyStages
  <2>2. CASE "metadata_file" \in options /\ node' = "file" /\ stage' = "mf_dispatch"
    <3>1. /\ stage = "metadata_file" /\ job' = job
          /\ UNCHANGED <<options, arg, dataSource>>
      BY <1>a, <2>2 DEF main_metadata_file
    <3>2. Used("drive")' => Used("drive")
      BY <2>2, <3>1 DEF Used
    <3> QED
      BY <1>0, <2>2, <3>1, <3>2, NoTreeAssumption DEF Provenance, EarlyStages, Trees
  <2> QED
    BY <1>a, <2>1, <2>2 DEF main_metadata_file, openstack_load_metadata_file
<1>b. CASE \/ dispatch("mf_dispatch", "config_drive", "metadata_file")
           \/ dispatch("cd_dispatch", "cd_userdata", "config_drive")
           \/ dispatch("md_dispatch", "userdata", "datasource")
  BY <1>b, ProvenancePushed DEF Reasons, EarlyStages
<1>c. CASE main_config_drive
  <2>1. stage = "config_drive" /\ job' = job /\ UNCHANGED <<options, arg>>
        /\ stage' \in {"cd_dispatch", "datasource"}
    BY <1>c DEF main_config_drive
  <2>2. CASE stage' = "datasource" /\ UNCHANGED <<dataSource, drive, tree, failures>>
    BY <2>1, <2>2, ProvenanceKept DEF EarlyStages
  <2>3. CASE ConfigDrive /\ dataSource' = "drive"
    <3>1. (node' = "drive" \/ node' = node) /\ (stage' = "cd_dispatch" => node' = "drive")
      BY <1>c, <2>1, <2>3
      DEF main_config_drive, openstack_start_succeeds, openstack_start_fails,
          openstack_load_metadata_file
    <3>2. Used("file")' => Used("file")
      BY <2>1, <3>1 DEF Used
    <3> QED
      BY <1>0, <2>1, <2>3, <3>1, <3>2, NoTreeAssumption DEF Provenance, EarlyStages, Trees
  <2> QED
    BY <1>c, <2>1, <2>2, <2>3 DEF main_config_drive
<1>d. CASE config_drive_userdata \/ config_drive_finish
  BY <1>d, ProvenanceKept
  DEF config_drive_userdata, config_drive_finish, openstack_finish, EarlyStages
<1>e. CASE openstack_init
  <2>1. CASE dataSource' = dataSource
    BY <1>e, <2>1, ProvenanceKept DEF openstack_init, EarlyStages
  <2>2. CASE DataSource /\ dataSource' = "none"
    <3>1. /\ stage = "datasource" /\ stage' \notin {"mf_dispatch", "cd_dispatch", "md_dispatch"}
          /\ job' = job /\ UNCHANGED <<options, arg, node>>
      BY <1>e, <2>2 DEF openstack_init
    <3>2. \A t \in Trees : Used(t)' = Used(t)
      BY <3>1 DEF Used
    <3> QED
      BY <1>0, <2>2, <3>1, <3>2 DEF Provenance, EarlyStages, Trees
  <2> QED
    BY <1>e, <2>1, <2>2 DEF openstack_init
<1>f. CASE main_datasource
  <2>1. stage' = "fix_disk" /\ job' = job /\ UNCHANGED <<options, arg>> /\ DataSource
    BY <1>f DEF main_datasource, Phases
  <2>2. CASE UNCHANGED <<dataSource, drive, tree, handlerSet, firstBoot, failures>>
    BY <2>1, <2>2, ProvenanceKept DEF EarlyStages
  <2>3. CASE dataSource' = "drive"
    <3>1. node' = "drive" \/ node' = node
      BY <1>f DEF main_datasource, openstack_start_succeeds, openstack_start_fails,
                  openstack_load_metadata_file
    <3>2. Used("file")' => Used("file")
      BY <2>1, <3>1 DEF Used
    <3> QED
      BY <1>0, <2>1, <2>3, <3>2 DEF Provenance, EarlyStages
  <2> QED
    BY <1>f, <2>2, <2>3 DEF main_datasource
<1>g. CASE main_metadata
  <2>1. /\ stage = "metadata" /\ stage' \in {"md_dispatch", "userdata"} /\ job' = job
        /\ UNCHANGED <<options, arg, dataSource>>
    BY <1>g DEF main_metadata
  <2>2. CASE UNCHANGED tree
    <3>1. stage' = "md_dispatch" => node' # None
      BY <1>g, <2>2, NoTreeAssumption
      DEF main_metadata, openstack_load_metadata_file, Trees
    <3> QED
      BY <2>1, <2>2, <3>1, ProvenanceKept DEF EarlyStages
  <2>3. CASE handlerSet /\ node' = "drive"
    <3>1. Used("file")' => Used("file")
      BY <2>1, <2>3 DEF Used
    <3>2. dataSource' = "drive" /\ DataSource'
      BY <1>0, <2>1, <2>3 DEF Phases
    <3> QED
      BY <1>0, <2>1, <2>3, <3>1, <3>2, NoTreeAssumption DEF Provenance, EarlyStages, Trees
  <2> QED
    BY <1>g, <2>2, <2>3 DEF main_metadata, openstack_load_metadata_file
<1>h. CASE main_setup \/ main_userdata \/ main_join
  BY <1>h, ProvenanceKept DEF main_setup, main_userdata, main_join, J!Join, EarlyStages
<1>i. CASE main_finish
  BY <1>i, ProvenanceKept DEF main_finish, openstack_finish, EarlyStages
<1>j. CASE main_fix_disk \/ async_fixdisk \/ \E j \in Jobs : job_done(j)
  <2>1. \A j \in Reasons \X Keys : job'[j] = "active" => job[j] = "active"
    BY <1>j DEF main_fix_disk, async_fixdisk, job_done, J!Launch, J!Complete, TypeOK, J!TypeOK,
                Jobs, FixDisk, Resize, Reasons
  <2>2. stage' \in {stage, "setup"} /\ UNCHANGED <<options, arg, node, dataSource>>
    BY <1>j DEF main_fix_disk, async_fixdisk, job_done
  <2> QED
    BY <2>1, <2>2, ProvenanceKept DEF EarlyStages, Provenance
<1>k. CASE UNCHANGED vars
  BY <1>k, ProvenanceKept DEF vars, Provenance
<1> QED
  BY <1>a, <1>b, <1>c, <1>d, <1>e, <1>f, <1>g, <1>h, <1>i, <1>j, <1>k DEF Next, Exited

(* A handler of files reads data_source as it was for its metadata, when the
   command line names one source. *)
THEOREM FilesSafe == Spec => []FilesFromTheirSource
<1>1. TypeOK /\ NoTree /\ Provenance => FilesFromTheirSource
  <2> SUFFICES ASSUME TypeOK, NoTree, Provenance, OneSource,
                      NEW j \in Jobs, job[j] = "active", j[2] = "files"
               PROVE  dataSource = IF arg[j] = "drive" THEN "drive" ELSE "none"
    BY DEF FilesFromTheirSource, OneSource
  <2>1. /\ "metadata_file" \in options => "metadata_file" \in Sources
        /\ ConfigDrive => "config_drive" \in Sources
        /\ DataSource => "datasource" \in Sources
    BY DEF Sources, Reasons
  <2>2. ~("metadata_file" \in options /\ (ConfigDrive \/ DataSource)) /\ ~(ConfigDrive /\ DataSource)
    BY <2>1 DEF OneSource
  <2>3. j \in Reasons \X Keys
    BY DEF Jobs, FixDisk, Resize
  <2>4. arg[j] \in Trees
    BY <2>3 DEF Provenance, TypeOK
  <2>5. Used(arg[j])
    BY DEF Used
  <2> QED
    BY <2>2, <2>4, <2>5 DEF Provenance, Trees, TypeOK
<1> QED
  BY <1>1, ProvenanceInit, ProvenanceStep, NoTreeInit, NoTreeStep, TypeCorrect, PhasesAlways, PTL
  DEF Spec
=============================================================================
