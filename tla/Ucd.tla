-------------------------------- MODULE Ucd --------------------------------
(***************************************************************************)
(* main() of src/main.c with the datasource of                             *)
(* src/datasources/openstack.c: which resources it acquires and releases,  *)
(* in which order, while the functions it has pushed to the thread pool    *)
(* are using them.                                                         *)
(*                                                                         *)
(* The resources are the mount of the config drive (DriveMount), the       *)
(* temporary copy of the user data, and the trees of parsed metadata.  A   *)
(* handler keeps a pointer into the tree it was pushed for, and the        *)
(* handler of "files" also reads files of the mounted drive.  The disk is  *)
(* repaired (DiskRepair) by another function in the pool.                  *)
(*                                                                         *)
(* The thread pool and the join are those of AsyncJoin, which              *)
(* src/async_task.c implements (AsyncTaskProofs).                          *)
(***************************************************************************)
EXTENDS DriveMount, DiskRepair

CONSTANT
    CommandLines    \* sets of options

OptionNames ==
    {"metadata_file", "config_drive", "config_image", "metadata", "user_data",
     "user_data_once", "fix_disk", "first_boot_setup"}

(* "config_image" is --openstack-config-drive with a regular file. *)
ASSUME CommandLinesAssumption == CommandLines \subseteq SUBSET OptionNames

(* Metadata keys: "public_keys" stands for every key whose handler reads
   nothing but the tree. *)
Keys == {"public_keys", "files"}

(* openstack_process_metadata_file is called for three reasons; each call
   pushes one job for each key. *)
Reasons == {"metadata_file", "config_drive", "datasource"}
FixDisk == <<"main", "fix_disk">>
Resize == <<"fix_disk", "resize">>
Jobs == (Reasons \X Keys) \cup {FixDisk, Resize}

(* Where a tree of metadata was read from. *)
Trees == {"file", "drive"}

ASSUME NoTreeAssumption == None \notin Trees

VARIABLES
    options,        \* options of this command line
    stage,          \* where main() is
    job, joined,    \* the thread pool, see AsyncJoin
    arg,            \* arg[j]: the tree that job j points into
    node,           \* metadata_node
    live,           \* trees that are allocated
    template,       \* config_drive_mount_path: "fresh", or "used" by mkdtemp
    userdataFile,   \* the temporary copy of the user data exists
    dataSource,     \* data_source: "drive" or "none"
    handlerSet,     \* datasource_handler is not NULL
    firstBoot,      \* first_boot
    userReady,      \* the default user account has been set up
    found,          \* history: the loop devices there were before
    failures        \* history: functions that have failed

pool == <<job, joined>>
drive == <<driveVars, template>>
tree == <<node, live>>
main == <<handlerSet, firstBoot, userReady>>
history == <<found, failures>>
vars == <<options, stage, pool, arg, tree, drive, userdataFile, dataSource, main, repairVars,
          history>>

J == INSTANCE AsyncJoin

Stages == {"metadata_file", "mf_dispatch", "config_drive", "cd_dispatch", "cd_userdata",
           "cd_finish", "datasource", "start", "fix_disk", "setup", "metadata", "md_dispatch",
           "userdata", "join", "finish", "exit"}

TypeOK ==
    /\ options \in CommandLines
    /\ stage \in Stages
    /\ J!TypeOK
    /\ arg \in [Jobs -> Trees \cup {None}]
    /\ node \in Trees \cup {None} /\ live \subseteq Trees
    /\ template \in {"fresh", "used"} /\ DriveTypeOK
    /\ userdataFile \in BOOLEAN
    /\ dataSource \in {"drive", "none"}
    /\ handlerSet \in BOOLEAN /\ firstBoot \in BOOLEAN /\ userReady \in BOOLEAN
    /\ RepairTypeOK
    /\ found \in [devFile : SUBSET Loops, attached : SUBSET Loops]
    /\ failures \subseteq {"start", "umount"}

Image == "config_image" \in options
ConfigDrive == options \cap {"config_drive", "config_image"} # {}
DataSource == options \cap {"metadata", "user_data", "user_data_once"} # {}
Sources ==
    {s \in Reasons : CASE s = "metadata_file" -> "metadata_file" \in options
                       [] s = "config_drive" -> ConfigDrive
                       [] s = "datasource" -> DataSource}

Init ==
    /\ options \in CommandLines
    /\ stage = "metadata_file"
    /\ J!Init
    /\ arg = [j \in Jobs |-> None]
    /\ node = None /\ live = {}
    /\ template = "fresh" /\ NotMounted
    /\ devFile \in SUBSET (IF Image THEN Loops ELSE {})
    /\ attached \in SUBSET (IF Image THEN Loops ELSE {})
    /\ userdataFile = FALSE
    /\ dataSource = "none"
    /\ handlerSet = FALSE /\ firstBoot = FALSE /\ userReady = FALSE
    /\ RepairInit
    /\ "fix_disk" \notin options => disk = CHOOSE d \in Disks : TRUE
    /\ found = [devFile |-> devFile, attached |-> attached]
    /\ failures = {}

Record(f, failed) == failures' = IF failed THEN failures \cup {f} ELSE failures

-----------------------------------------------------------------------------
(* Functions of openstack.c.                                               *)

(* openstack_load_metadata_file: the new tree replaces the old one, which is
   not freed. *)
openstack_load_metadata_file(t) == node' = t /\ live' = live \cup {t}

(* openstack_start, 187-224: mkdtemp fails, always when the template has been
   filled in before; or the mount fails, and the directory goes; or the
   metadata cannot be read, and the drive stays mounted. *)
openstack_start_fails(image) ==
    /\ \/ UNCHANGED drive
       \/ /\ template = "fresh" /\ template' = "used"
          /\ mount_filesystem_fails(image)
          /\ UNCHANGED mountDir
       \/ /\ template = "fresh" /\ template' = "used"
          /\ mount_filesystem(image)
          /\ mountDir' = TRUE
    /\ UNCHANGED tree
    /\ Record("start", TRUE)

openstack_start_succeeds(image) ==
    /\ template = "fresh" /\ template' = "used"
    /\ mount_filesystem(image)
    /\ mountDir' = TRUE
    /\ openstack_load_metadata_file("drive")
    /\ UNCHANGED failures

ActiveOn(t) == {j \in Jobs : job[j] = "active" /\ arg[j] = t}

(* A handler may have a file of the drive open. *)
Busy == {b \in BOOLEAN : b => \E j \in ActiveOn("drive") : j[2] = "files"}

(* Fault: metadata_node is freed but not reset. *)
openstack_finish_dangling ==
    /\ \/ dataSource = "drive" /\ \E b \in Busy, s \in Stuck : umount_filesystem(b, s)
       \/ dataSource = "none" /\ UNCHANGED <<devices, mounted, cleared, mountDir>>
    /\ loopDevice' = None
    /\ userdataFile' = FALSE
    /\ live' = live \ {node}
    /\ node' = "dangling"
    /\ UNCHANGED <<template, failures>>

(* openstack_finish, 329-354. *)
openstack_finish ==
    /\ \/ /\ dataSource = "drive"
          /\ \E busy \in Busy, stuck \in Stuck :
                umount_filesystem(busy, stuck) /\ Record("umount", busy \/ stuck)
          /\ loopDevice' = None
       \/ dataSource = "none" /\ UNCHANGED <<devices, mount, failures>>
    /\ userdataFile' = FALSE
    /\ live' = live \ {node} /\ node' = None
    /\ UNCHANGED template

(* 394: push the handlers of the keys one after the other ... *)
openstack_run_handler(reason, key) ==
    /\ J!Launch(<<reason, key>>)
    /\ arg' = [arg EXCEPT ![<<reason, key>>] = node]

(* ... until none is left. *)
AllPushed(reason) == \A key \in Keys : job[<<reason, key>>] # "idle"

(* openstack_process_config_drive_userdata, 433-468: without user data on
   the drive nothing is copied. *)
openstack_process_config_drive_userdata ==
    \/ mounted /\ userdataFile' = TRUE
    \/ UNCHANGED userdataFile

-----------------------------------------------------------------------------
(* main() 239-257: --openstack-metadata-file.                              *)

main_metadata_file ==
    /\ stage = "metadata_file"
    /\ \/ /\ "metadata_file" \in options
          /\ openstack_load_metadata_file("file")
          /\ stage' = "mf_dispatch"
       \/ (* not wanted, not found, or not to be parsed *)
          /\ stage' = "config_drive"
          /\ UNCHANGED tree
    /\ UNCHANGED <<options, pool, arg, drive, userdataFile, dataSource, main, repairVars,
                   history>>

(* The three calls of openstack_process_metadata_file push their handlers. *)
dispatch(from, to, reason) ==
    /\ stage = from
    /\ \/ /\ \E key \in Keys : openstack_run_handler(reason, key)
          /\ UNCHANGED stage
       \/ /\ AllPushed(reason)
          /\ stage' = to
          /\ UNCHANGED <<pool, arg>>
    /\ UNCHANGED <<options, tree, drive, userdataFile, dataSource, main, repairVars, history>>

-----------------------------------------------------------------------------
(* main() 259-277: --openstack-config-drive, openstack.c 356-383.          *)

main_config_drive ==
    /\ stage = "config_drive"
    /\ \/ /\ ConfigDrive
          /\ dataSource' = "drive"
          /\ \/ openstack_start_succeeds(Image) /\ stage' = "cd_dispatch"
             \/ openstack_start_fails(Image) /\ stage' = "datasource"
       \/ (* not wanted or not found *)
          /\ stage' = "datasource"
          /\ UNCHANGED <<dataSource, drive, tree, failures>>
    /\ UNCHANGED <<options, pool, arg, userdataFile, main, repairVars, found>>

config_drive_userdata ==
    /\ stage = "cd_userdata"
    /\ openstack_process_config_drive_userdata
    /\ stage' = "cd_finish"
    /\ UNCHANGED <<options, pool, arg, tree, drive, dataSource, main, repairVars, history>>

(* Fault: data_source is reset as well. *)
config_drive_finish_resets ==
    /\ stage = "cd_finish"
    /\ openstack_finish
    /\ dataSource' = "none"
    /\ stage' = "datasource"
    /\ UNCHANGED <<options, pool, arg, main, repairVars, found>>

(* 380: the drive and the tree go while the handlers are in the pool. *)
config_drive_finish ==
    /\ stage = "cd_finish"
    /\ openstack_finish
    /\ stage' = "datasource"
    /\ UNCHANGED <<options, pool, arg, dataSource, main, repairVars, found>>

-----------------------------------------------------------------------------
(* main() 279-292: the datasource.                                         *)

(* openstack.c 134-163: nothing is the source while the drive is looked for
   by its label, eight times. *)
openstack_init ==
    /\ stage = "datasource"
    /\ IF DataSource
       THEN dataSource' = "none" /\ stage' = "start"
       ELSE UNCHANGED dataSource /\ stage' = "fix_disk"
    /\ UNCHANGED <<options, pool, arg, tree, drive, userdataFile, main, repairVars, history>>

(* Fault: a datasource that does not start is forgotten. *)
main_datasource_forgets ==
    /\ stage = "start"
    /\ stage' = "fix_disk"
    /\ dataSource' = "drive"
    /\ \/ openstack_start_succeeds(FALSE) /\ handlerSet' = TRUE /\ firstBoot' \in BOOLEAN
       \/ openstack_start_fails(FALSE) /\ UNCHANGED <<handlerSet, firstBoot>>
    /\ UNCHANGED <<options, pool, arg, userdataFile, userReady, repairVars, found>>

(* The handler is set before start() is called. *)
main_datasource ==
    /\ stage = "start"
    /\ stage' = "fix_disk"
    /\ \/ /\ dataSource' = "drive"
          /\ handlerSet' = TRUE
          /\ \/ openstack_start_succeeds(FALSE) /\ firstBoot' \in BOOLEAN
             \/ openstack_start_fails(FALSE) /\ UNCHANGED firstBoot
       \/ (* not found *)
          UNCHANGED <<dataSource, drive, tree, handlerSet, firstBoot, failures>>
    /\ UNCHANGED <<options, pool, arg, userdataFile, userReady, repairVars, found>>

-----------------------------------------------------------------------------
(* main() 294-352: the disk, the setup, the data, the join and the end.    *)

main_fix_disk ==
    /\ stage = "fix_disk"
    /\ stage' = "setup"
    /\ IF "fix_disk" \in options THEN J!Launch(FixDisk) ELSE UNCHANGED pool
    /\ UNCHANGED <<options, arg, tree, drive, userdataFile, dataSource, main, repairVars,
                   history>>

(* Fault: the setup is left to a pool thread that has not run yet. *)
main_setup_later ==
    /\ stage = "setup"
    /\ stage' = "metadata"
    /\ UNCHANGED <<options, pool, arg, tree, drive, userdataFile, dataSource, main, repairVars,
                   history>>

(* 298-320: both parts wait for the commands they run, and neither looks at
   what they return: an account that useradd could not create counts as ready
   here, as it does for the code. *)
main_setup ==
    /\ stage = "setup"
    /\ stage' = "metadata"
    /\ userReady' = (userReady \/ ("first_boot_setup" \in options /\ firstBoot))
    /\ UNCHANGED <<options, pool, arg, tree, drive, userdataFile, dataSource, handlerSet,
                   firstBoot, repairVars, history>>

(* 322-328 and openstack.c 226-266: nothing to do, already recorded for this
   boot, or process it; a tree that start() could not load is tried again. *)
main_metadata ==
    /\ stage = "metadata"
    /\ \/ /\ "metadata" \in options /\ handlerSet
          /\ \/ node # None /\ UNCHANGED tree
             \/ node = None /\ mounted /\ openstack_load_metadata_file("drive")
          /\ stage' = "md_dispatch"
       \/ /\ stage' = "userdata"
          /\ UNCHANGED tree
    /\ UNCHANGED <<options, pool, arg, drive, userdataFile, dataSource, main, repairVars,
                   history>>

(* 340-344. *)
main_userdata ==
    /\ stage = "userdata"
    /\ stage' = "join"
    /\ IF handlerSet /\ ("user_data" \in options \/ ("user_data_once" \in options /\ firstBoot))
       THEN openstack_process_config_drive_userdata
       ELSE UNCHANGED userdataFile
    /\ UNCHANGED <<options, pool, arg, tree, drive, dataSource, main, repairVars, history>>

(* Fault: main() does not wait for the thread pool. *)
main_join_skipped ==
    /\ stage = "join"
    /\ stage' = "finish"
    /\ UNCHANGED <<options, pool, arg, tree, drive, userdataFile, dataSource, main, repairVars,
                   history>>

(* 346: async_task_finish. *)
main_join ==
    /\ stage = "join"
    /\ J!Join
    /\ stage' = "finish"
    /\ UNCHANGED <<options, arg, tree, drive, userdataFile, dataSource, main, repairVars,
                   history>>

(* 348-352. *)
main_finish ==
    /\ stage = "finish"
    /\ stage' = "exit"
    /\ IF handlerSet THEN openstack_finish
       ELSE UNCHANGED <<tree, drive, userdataFile, failures>>
    /\ UNCHANGED <<options, pool, arg, dataSource, main, repairVars, found>>

(* 92-109: it starts resize2fs with async_task_exec. *)
async_fixdisk ==
    /\ job[FixDisk] = "active" /\ resize = Nothing
    /\ disk_fix
    /\ IF resize' = Nothing THEN J!Complete(FixDisk) ELSE J!Launch(Resize)
    /\ UNCHANGED <<options, stage, arg, tree, drive, userdataFile, dataSource, main, history>>

(* Any other job, and one that has started another, ends at any time. *)
job_done(j) ==
    /\ j = FixDisk => resize # Nothing
    /\ J!Complete(j)
    /\ UNCHANGED <<options, stage, arg, tree, drive, userdataFile, dataSource, main, repairVars,
                   history>>

Exited == stage = "exit" /\ UNCHANGED vars

Next ==
    \/ main_metadata_file
    \/ dispatch("mf_dispatch", "config_drive", "metadata_file")
    \/ main_config_drive
    \/ dispatch("cd_dispatch", "cd_userdata", "config_drive")
    \/ config_drive_userdata
    \/ config_drive_finish
    \/ openstack_init
    \/ main_datasource
    \/ main_fix_disk
    \/ main_setup
    \/ main_metadata
    \/ dispatch("md_dispatch", "userdata", "datasource")
    \/ main_userdata
    \/ main_join
    \/ main_finish
    \/ async_fixdisk
    \/ \E j \in Jobs : job_done(j)
    \/ Exited

Spec == Init /\ [][Next]_vars

-----------------------------------------------------------------------------
(* A job that is queued or running points into a tree that has not been freed,
   and a "files" handler of the config drive finds it mounted: the datasource
   is finished after the join ("Join async tasks", "Finish openstack
   datasource"). *)
HandlersHaveTheirData ==
    \A j \in Jobs : job[j] = "active" /\ arg[j] # None =>
        /\ arg[j] \in live
        /\ j[2] = "files" /\ arg[j] = "drive" => mounted

(* Command lines without --openstack-config-drive. *)
NoConfigDriveOption == ~ConfigDrive

(* The same, for command lines that leave the drive to main(). *)
HandlersHaveTheirDataInService == NoConfigDriveOption => HandlersHaveTheirData

(* A "files" handler reads data_source, at any time until it ends, and finds
   the source its metadata came from, provided that the command line names one
   source only: with more, openstack_init and openstack_process_config_drive
   set data_source anew beside the handlers of the source before. *)
FilesFromTheirSource ==
    (\A s, t \in Sources : s = t) =>
        \A j \in Jobs : job[j] = "active" /\ j[2] = "files" =>
            dataSource = IF arg[j] = "drive" THEN "drive" ELSE "none"

(* At its end ucd leaves nothing of the datasource behind, whichever step of
   openstack_start has failed: no mount, no directory, no copy of the user
   data, no tree of the drive. *)
NothingLeftBehind ==
    stage = "exit" /\ NoConfigDriveOption =>
        ~mounted /\ ~mountDir /\ ~userdataFile /\ "drive" \notin live

(* With any command line nothing of the drive is left behind, nor a loop
   device or its file, unless openstack_start or the unmounting has failed:
   openstack_process_config_drive does not finish what it could not start,
   and umount_filesystem gives up half way. *)
ReleasedUnlessFailed ==
    stage = "exit" /\ failures = {} =>
        /\ ~mounted /\ ~mountDir /\ ~userdataFile /\ "drive" \notin live
        /\ [devFile |-> devFile, attached |-> attached] = found

(* Whatever fails, the loop devices that others use stay attached, and their
   device files stay. *)
OthersLoopsKept == found.devFile \subseteq devFile /\ found.attached \subseteq attached

(* On a first boot with --first-boot-setup, handlers that need the default
   user (the keys are written below its home directory) are pushed when its
   account has been set up ("default user will be used by ccmodules and
   datasources"). *)
UserBeforeHandlers ==
    firstBoot /\ "first_boot_setup" \in options =>
        \A key \in Keys : job[<<"datasource", key>>] # "idle" => userReady
=============================================================================
