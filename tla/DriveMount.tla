----------------------------- MODULE DriveMount -----------------------------
(***************************************************************************)
(* mount_filesystem and umount_filesystem of src/lib.c: a config drive     *)
(* that is a block device is mounted as it is, one that is a regular file  *)
(* (an image) through a loop device, for which a device file is made.      *)
(*                                                                         *)
(* Both are operators on the state of the machine, for the main thread     *)
(* calls them and nobody else; each exit of a function is a disjunct that  *)
(* leaves behind what the code leaves behind.                              *)
(***************************************************************************)
EXTENDS Naturals

CONSTANTS
    Loops,      \* loop devices, 0..LOOP_MAJOR_ID
    None        \* no loop device

ASSUME LoopsAssumption == Loops \subseteq Nat /\ None \notin Loops

VARIABLES
    devFile,    \* loop devices that have a file /dev/loopN
    attached,   \* loop devices that the kernel has attached to a file
    mounted,    \* the config drive is mounted on its directory
    cleared,    \* the mounted loop device that goes with the mount (LOOP_CLR_FD)
    mountDir,   \* the directory exists
    loopDevice  \* config_drive_loop_device

devices == <<devFile, attached>>
mount == <<mounted, cleared, mountDir, loopDevice>>
driveVars == <<devices, mount>>

DriveTypeOK ==
    /\ devFile \subseteq Loops /\ attached \subseteq Loops
    /\ mounted \in BOOLEAN /\ mountDir \in BOOLEAN
    /\ cleared \in Loops \cup {None} /\ loopDevice \in Loops \cup {None}

NotMounted ==
    /\ mounted = FALSE /\ mountDir = FALSE
    /\ cleared = None /\ loopDevice = None

(* 418-430: the first number without a device file is taken to be free,
   whether or not the kernel has that device attached. *)
FreeLoop(n) == n \notin devFile /\ \A m \in Loops : m < n => m \in devFile

(* 408-416, and 432-489 with LOOP_SET_FD, which refuses an attached device. *)
mount_filesystem(image) ==
    /\ mounted' = TRUE /\ UNCHANGED cleared
    /\ IF image
       THEN \E n \in Loops \ attached :
               /\ FreeLoop(n)
               /\ devFile' = devFile \cup {n} /\ attached' = attached \cup {n}
               /\ loopDevice' = n
       ELSE UNCHANGED <<devices, loopDevice>>

(* Fault: the loop device that LOOP_SET_FD refused is cleared as well. *)
mount_filesystem_fails_clearing(image) ==
    /\ UNCHANGED <<mounted, cleared, loopDevice>>
    /\ \/ UNCHANGED devices
       \/ /\ image
          /\ \E n \in Loops : FreeLoop(n) /\ attached' = attached \ {n}
          /\ UNCHANGED devFile

(* 397-484: it may fail before the device file is made or remove the file
   again (442, 471), leave it (448, 457), or leave the device attached
   (477, 482); *loop_device_ is set by none of these exits. *)
mount_filesystem_fails(image) ==
    /\ UNCHANGED <<mounted, cleared, loopDevice>>
    /\ \/ UNCHANGED devices
       \/ /\ image
          /\ \E n \in Loops :
                /\ FreeLoop(n)
                /\ devFile' = devFile \cup {n}
                /\ \/ UNCHANGED attached
                   \/ n \notin attached /\ attached' = attached \cup {n}

(* Opening or clearing the loop device may fail. *)
Stuck == {s \in BOOLEAN : s => loopDevice # None}

(* Fault: the unmount is left out when the loop device is gone. *)
umount_filesystem_detached(busy, stuck) ==
    /\ devFile' = IF stuck THEN devFile ELSE devFile \ {loopDevice}
    /\ attached' = IF stuck THEN attached ELSE attached \ {loopDevice}
    /\ IF mounted /\ ~busy /\ loopDevice = None
       THEN mounted' = FALSE /\ mountDir' = FALSE /\ UNCHANGED cleared
       ELSE UNCHANGED <<mounted, mountDir, cleared>>

(* 507-530: it gives up when stuck; a device cleared while it is mounted is
   detached by the unmount; a busy drive, on which a file is open, is not
   unmounted. *)
umount_filesystem(busy, stuck) ==
    LET going == IF loopDevice = None THEN cleared ELSE loopDevice
    IN  \/ stuck /\ UNCHANGED <<devices, mounted, cleared, mountDir>>
        \/ /\ ~stuck /\ mounted /\ ~busy
           /\ devFile' = devFile \ {loopDevice} /\ attached' = attached \ {going}
           /\ mounted' = FALSE /\ mountDir' = FALSE /\ cleared' = None
        \/ /\ ~stuck /\ (~mounted \/ busy)
           /\ devFile' = devFile \ {loopDevice} /\ cleared' = going
           /\ UNCHANGED <<attached, mounted, mountDir>>
=============================================================================
