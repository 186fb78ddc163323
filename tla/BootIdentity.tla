---------------------------- MODULE BootIdentity ----------------------------
(***************************************************************************)
(* How ucd knows whether this is the first boot of this instance, and what *)
(* it has already processed: save_instance_id, is_first_boot and           *)
(* get_boot_id of src/lib.c, the id files that src/datasources/openstack.c *)
(* keeps under DATADIR_PATH, and the order in which main() uses them.      *)
(*                                                                         *)
(* A machine boots, ucd runs (possibly more than once in a boot), may be   *)
(* killed between any two steps, and the machine boots again, possibly as  *)
(* another instance (its disk was used as an image).  Only the files       *)
(* survive the process.  write_file is two steps, since open(O_TRUNC)      *)
(* empties the file before write() fills it; either may fail (the disk is  *)
(* full, or read-only), and the datasource may fail to start.              *)
(*                                                                         *)
(* Kept apart from the program's state are history variables, which no     *)
(* guard reads, except that faults bounds itself.                          *)
(***************************************************************************)
EXTENDS Naturals, FiniteSets, Sequences

CONSTANTS
    Modes,        \* command lines in use: "datasource" and "metadata_file"
    MaxBoot,      \* bound on the number of boots
    MaxInstance,  \* bound on the number of instances made of this disk
    MaxRuns,      \* bound on the runs of ucd in one boot
    MaxFaults,    \* bound on the faults: kills of ucd and calls that fail
    Absent,       \* what stat() finds of a file that does not exist
    Empty,        \* content of a file between open(O_TRUNC) and write()
    Nobody        \* the lock is free

ASSUME ModesAssumption == Modes \subseteq {"datasource", "metadata_file"}
ASSUME BoundsAssumption ==
    /\ MaxBoot \in Nat \ {0} /\ MaxInstance \in Nat \ {0}
    /\ MaxRuns \in Nat /\ MaxFaults \in Nat

Boots == 1..MaxBoot
Instances == 1..MaxInstance

(* The threads of one ucd process that touch the files. *)
Handlers == {"uuid", "hostname"}
Threads == {"main"} \cup Handlers

(* A boot id as KERNEL_BOOT_ID_FILE holds it, or its first 31 characters. *)
BootIds == [boot : Boots, cut : BOOLEAN]

ASSUME ContentsAssumption ==
    /\ Absent # Empty
    /\ {Absent, Empty} \cap BootIds = {} /\ {Absent, Empty} \cap Instances = {}
    /\ Nobody \notin Threads

VARIABLES
    boot,          \* the boot the machine is in
    instance,      \* the uuid in the metadata offered in this boot
    runs,          \* runs of ucd started in this boot
    file,          \* the id files
    mode,          \* command line of the running ucd
    stage,         \* where main() is; "off" when ucd does not run
    call,          \* call[a]: how far thread a is inside one of the three functions
    bootId,        \* bootId[a]: the boot id that thread a writes, until it is freed
    handler,       \* handler[h]: "none", "queued", "running" or "done"
    lock,          \* holder of G_LOCK(first_boot_id_file)
    cacheFirst,    \* cache_firstboot
    cacheBootId,   \* TRUE once cache_boot_id holds the shortened id
    firstBoot,     \* main()'s first_boot
    firstBoots,    \* history: boots main() took for the first one of an instance
    answers,       \* history: what is_first_boot has returned in each boot
    applied,       \* history: boots in which the hostname handler has finished
    completed,     \* history: instances for which ucd came to its end
    attempts,      \* history: how often user data was processed for each instance
    mixed,         \* history: the other command line has been used on this disk
    faults         \* history: the faults there have been

machine == <<boot, instance, runs>>
process == <<mode, stage, call, bootId, handler, lock, cacheFirst, cacheBootId, firstBoot>>
history == <<firstBoots, answers, applied, completed, attempts, mixed, faults>>
vars == <<machine, file, process, history>>

Stages == {"off", "uuid", "first_boot", "metadata", "retry", "md_open", "md_write", "userdata",
           "bootcmd", "ud_open", "ud_write", "join"}
Calls == {"none", "si_check", "si_open", "si_write", "si_open_changed", "si_write_changed",
          "si_remove", "ib_enter", "ib_open", "ib_write", "ib_return"}
IdFiles == {"first_boot_id", "metadata_id", "user_data_id"}

(* ucd is killed, a file is not written, the datasource does not start. *)
Faults == {"kill", "start", "instance_id"} \cup IdFiles

TypeOK ==
    /\ boot \in Boots /\ instance \in Instances
    /\ runs \in 0..MaxRuns
    /\ DOMAIN file = IdFiles \cup {"instance_id"}
    /\ file["instance_id"] \in Instances \cup {Absent, Empty}
    /\ \A f \in IdFiles : file[f] \in BootIds \cup {Absent, Empty}
    /\ mode \in Modes /\ stage \in Stages
    /\ call \in [Threads -> Calls]
    /\ bootId \in [Threads -> BootIds \cup {Absent}]
    /\ handler \in [Handlers -> {"none", "queued", "running", "done"}]
    /\ lock \in Threads \cup {Nobody}
    /\ cacheFirst \in {"unset", "no", "yes"}
    /\ cacheBootId \in BOOLEAN /\ firstBoot \in BOOLEAN
    /\ firstBoots \in [Instances -> SUBSET Boots]
    /\ answers \in [Boots -> SUBSET BOOLEAN]
    /\ applied \subseteq Boots
    /\ completed \subseteq Instances
    /\ attempts \in [Instances -> Nat]
    /\ mixed \in BOOLEAN
    /\ faults \in Seq(Faults) /\ Len(faults) <= MaxFaults

(* A fresh process: the statics of lib.c and the locals of main(). *)
Fresh ==
    [stage |-> "off", call |-> [a \in Threads |-> "none"],
     bootId |-> [a \in Threads |-> Absent], handler |-> [h \in Handlers |-> "none"],
     lock |-> Nobody, cacheFirst |-> "unset", cacheBootId |-> FALSE, firstBoot |-> FALSE]

Init ==
    /\ boot = 1 /\ instance = 1 /\ runs = 0
    /\ file = [f \in IdFiles \cup {"instance_id"} |-> Absent]
    /\ mode \in Modes
    /\ stage = Fresh.stage /\ call = Fresh.call /\ bootId = Fresh.bootId
    /\ handler = Fresh.handler /\ lock = Fresh.lock /\ cacheFirst = Fresh.cacheFirst
    /\ cacheBootId = Fresh.cacheBootId /\ firstBoot = Fresh.firstBoot
    /\ firstBoots = [i \in Instances |-> {}]
    /\ answers = [b \in Boots |-> {}]
    /\ applied = {}
    /\ completed = {}
    /\ attempts = [i \in Instances |-> 0]
    /\ mixed = FALSE
    /\ faults = << >>

Write(f, content) == file' = [file EXCEPT ![f] = content]
Goto(a, label) == call' = [call EXCEPT ![a] = label]

(* write_file fails: at open(), at write(), or after it, at fchmod(). *)
Fail(f) == Len(faults) < MaxFaults /\ faults' = Append(faults, f)

-----------------------------------------------------------------------------
(* Fault: the id of the boot before. *)
get_boot_id_stale == [boot |-> boot - 1, cut |-> cacheBootId]

(* The first call in a process returns what the kernel file holds and caches
   a copy cut to BOOT_ID_SIZE - 1 characters; every later call returns the
   copy. *)
get_boot_id == [boot |-> boot, cut |-> cacheBootId]

-----------------------------------------------------------------------------
(* save_instance_id.                                                       *)

(* Fault: the saved id is not compared. *)
save_instance_id_check_always(a) ==
    /\ call[a] = "si_check"
    /\ Goto(a, IF file["instance_id"] = Absent THEN "si_open" ELSE "si_open_changed")
    /\ UNCHANGED <<machine, file, mode, stage, bootId, handler, lock, cacheFirst,
                   cacheBootId, firstBoot, history>>

(* 538-548: an instance id that is the same needs nothing. *)
save_instance_id_check(a) ==
    /\ call[a] = "si_check"
    /\ Goto(a, CASE file["instance_id"] = Absent -> "si_open"
                 [] file["instance_id"] = instance -> "none"
                 [] OTHER -> "si_open_changed")
    /\ UNCHANGED <<machine, file, mode, stage, bootId, handler, lock, cacheFirst,
                   cacheBootId, firstBoot, history>>

(* 539 and 550, open ... *)
save_instance_id_open(a) ==
    /\ call[a] \in {"si_open", "si_open_changed"}
    /\ Write("instance_id", Empty)
    /\ Goto(a, IF call[a] = "si_open" THEN "si_write" ELSE "si_write_changed")
    /\ UNCHANGED <<machine, mode, stage, bootId, handler, lock, cacheFirst, cacheBootId,
                   firstBoot, history>>

(* Fault: the first boot record of the previous instance is kept. *)
save_instance_id_write_noremove(a) ==
    /\ call[a] \in {"si_write", "si_write_changed"}
    /\ Write("instance_id", instance)
    /\ Goto(a, "none")
    /\ UNCHANGED <<machine, mode, stage, bootId, handler, lock, cacheFirst, cacheBootId,
                   firstBoot, history>>

(* ... and write: the record of the first boot goes only after that. *)
save_instance_id_write(a) ==
    /\ call[a] \in {"si_write", "si_write_changed"}
    /\ Write("instance_id", instance)
    /\ Goto(a, IF call[a] = "si_write" THEN "none" ELSE "si_remove")
    /\ UNCHANGED <<machine, mode, stage, bootId, handler, lock, cacheFirst, cacheBootId,
                   firstBoot, history>>

(* 539-542, 550-553. *)
save_instance_id_fails(a) ==
    /\ call[a] \in {"si_open", "si_open_changed", "si_write", "si_write_changed"}
    /\ \/ UNCHANGED file
       \/ call[a] \in {"si_write", "si_write_changed"} /\ Write("instance_id", instance)
    /\ Fail("instance_id")
    /\ Goto(a, "none")
    /\ UNCHANGED <<machine, mode, stage, bootId, handler, lock, cacheFirst,
                   cacheBootId, firstBoot, firstBoots, answers, applied, completed,
                   attempts, mixed>>

(* 554-556. *)
save_instance_id_remove(a) ==
    /\ call[a] = "si_remove"
    /\ lock = Nobody
    /\ Write("first_boot_id", Absent)
    /\ Goto(a, "none")
    /\ UNCHANGED <<machine, mode, stage, bootId, handler, lock, cacheFirst, cacheBootId,
                   firstBoot, history>>

-----------------------------------------------------------------------------
(* is_first_boot, under G_LOCK(first_boot_id_file).                        *)

(* Fault: the answer is worked out anew by every call. *)
is_first_boot_enter_uncached(a) ==
    /\ call[a] = "ib_enter"
    /\ lock = Nobody
    /\ lock' = a
    /\ cacheBootId' = TRUE
    /\ IF file["first_boot_id"] = Absent
       THEN /\ cacheFirst' = "yes"
            /\ bootId' = [bootId EXCEPT ![a] = get_boot_id]
            /\ Goto(a, "ib_open")
       ELSE /\ cacheFirst' = IF file["first_boot_id"] = get_boot_id THEN "yes" ELSE "no"
            /\ Goto(a, "ib_return")
            /\ UNCHANGED bootId
    /\ UNCHANGED <<machine, file, mode, stage, handler, firstBoot, history>>

(* 572-594: no record means first boot, and one is going to be written; a
   record is compared with this boot's id, once in the life of the process. *)
is_first_boot_enter(a) ==
    /\ call[a] = "ib_enter"
    /\ lock = Nobody
    /\ lock' = a
    /\ \/ /\ file["first_boot_id"] = Absent
          /\ cacheFirst' = "yes"
          /\ bootId' = [bootId EXCEPT ![a] = get_boot_id]
          /\ cacheBootId' = TRUE
          /\ Goto(a, "ib_open")
       \/ /\ file["first_boot_id"] # Absent
          /\ cacheFirst # "unset"
          /\ Goto(a, "ib_return")
          /\ UNCHANGED <<cacheFirst, cacheBootId, bootId>>
       \/ /\ file["first_boot_id"] # Absent
          /\ cacheFirst = "unset"
          /\ cacheFirst' = IF file["first_boot_id"] = get_boot_id THEN "yes" ELSE "no"
          /\ cacheBootId' = TRUE
          /\ Goto(a, "ib_return")
          /\ UNCHANGED bootId
    /\ UNCHANGED <<machine, file, mode, stage, handler, firstBoot, history>>

(* 576, open ... *)
is_first_boot_open(a) ==
    /\ call[a] = "ib_open"
    /\ Write("first_boot_id", Empty)
    /\ Goto(a, "ib_write")
    /\ UNCHANGED <<machine, mode, stage, bootId, handler, lock, cacheFirst, cacheBootId,
                   firstBoot, history>>

(* ... and write. *)
is_first_boot_write(a) ==
    /\ call[a] = "ib_write"
    /\ Write("first_boot_id", bootId[a])
    /\ Goto(a, "ib_return")
    /\ UNCHANGED <<machine, mode, stage, bootId, handler, lock, cacheFirst, cacheBootId,
                   firstBoot, history>>

(* 576-579: the answer stays yes. *)
is_first_boot_fails(a) ==
    /\ call[a] \in {"ib_open", "ib_write"}
    /\ \/ UNCHANGED file
       \/ call[a] = "ib_write" /\ Write("first_boot_id", bootId[a])
    /\ Fail("first_boot_id")
    /\ Goto(a, "ib_return")
    /\ UNCHANGED <<machine, mode, stage, bootId, handler, lock, cacheFirst,
                   cacheBootId, firstBoot, firstBoots, answers, applied, completed,
                   attempts, mixed>>

(* 596-605: release the lock, return the cached answer. *)
is_first_boot_return(a) ==
    /\ call[a] = "ib_return"
    /\ lock' = Nobody
    /\ Goto(a, "none")
    /\ bootId' = [bootId EXCEPT ![a] = Absent]
    /\ answers' = [answers EXCEPT ![boot] = @ \cup {cacheFirst = "yes"}]
    /\ IF a = "main" /\ stage = "first_boot"
       THEN /\ firstBoot' = (cacheFirst = "yes")
            /\ firstBoots' = IF cacheFirst = "yes"
                             THEN [firstBoots EXCEPT ![instance] = @ \cup {boot}]
                             ELSE firstBoots
       ELSE UNCHANGED <<firstBoot, firstBoots>>
    /\ UNCHANGED <<machine, file, mode, stage, handler, cacheFirst, cacheBootId,
                   applied, completed, attempts, mixed, faults>>

LibStep(a) ==
    \/ save_instance_id_check(a) \/ save_instance_id_open(a)
    \/ save_instance_id_write(a) \/ save_instance_id_fails(a)
    \/ save_instance_id_remove(a)
    \/ is_first_boot_enter(a) \/ is_first_boot_open(a)
    \/ is_first_boot_write(a) \/ is_first_boot_fails(a)
    \/ is_first_boot_return(a)

-----------------------------------------------------------------------------
(* main() with the command line of data/ucd.service.in: openstack_start,   *)
(* is_first_boot, openstack_process_metadata, openstack_process_userdata,  *)
(* join.  The statics cache_metadata_id and cache_user_data_id are not     *)
(* modelled: neither function is called twice in a process.                *)

(* Fault: main() asks for the first boot before it starts the datasource. *)
start_datasource_late ==
    /\ mode' = "datasource"
    /\ UNCHANGED <<mixed, faults>>
    /\ stage' = "first_boot"
    /\ Goto("main", "ib_enter")
    /\ UNCHANGED handler

(* openstack.c 212-220: the uuid is processed by main() itself, first. *)
start_datasource ==
    /\ mode' = "datasource"
    /\ UNCHANGED <<mixed, faults>>
    /\ stage' = "uuid"
    /\ Goto("main", "si_check")
    /\ UNCHANGED handler

(* 189-216: no drive to mount, or no metadata to read on it; main() does not
   ask whether this is the first boot, and goes on (main.c 283-286). *)
start_datasource_fails ==
    /\ mode' = "datasource"
    /\ UNCHANGED mixed /\ Fail("start")
    /\ stage' = "retry"
    /\ UNCHANGED <<call, handler>>

(* --openstack-metadata-file, openstack.c 385-398: every key, the uuid too,
   is given to the thread pool, and main() goes on to the join. *)
start_metadata_file ==
    /\ mode' = "metadata_file"
    /\ mixed' = TRUE /\ UNCHANGED faults
    /\ stage' = "join"
    /\ handler' = [h \in Handlers |-> "queued"]
    /\ UNCHANGED call

ucd_start ==
    /\ stage = "off"
    /\ runs < MaxRuns
    /\ runs' = runs + 1
    /\ \/ "datasource" \in Modes /\ start_datasource
       \/ "datasource" \in Modes /\ start_datasource_fails
       \/ "metadata_file" \in Modes /\ start_metadata_file
    /\ UNCHANGED <<boot, instance, file, bootId, lock, cacheFirst, cacheBootId, firstBoot,
                   firstBoots, answers, applied, completed, attempts>>

(* main.c 287: first_boot = is_first_boot(). *)
main_ask_first_boot ==
    /\ stage = "uuid"
    /\ call["main"] = "none"
    /\ stage' = "first_boot"
    /\ Goto("main", "ib_enter")
    /\ UNCHANGED <<machine, file, mode, bootId, handler, lock, cacheFirst, cacheBootId,
                   firstBoot, history>>

(* main.c 298-320: the setup itself, if firstBoot, touches no id file. *)
main_setup ==
    /\ stage = "first_boot"
    /\ call["main"] = "none"
    /\ stage' = "metadata"
    /\ UNCHANGED <<machine, file, mode, call, bootId, handler, lock, cacheFirst,
                   cacheBootId, firstBoot, history>>

(* openstack.c 237-266: metadata recorded for this boot is left alone, any
   other is handed to the thread pool: without the uuid, which openstack_start
   has taken out, or with it, if the metadata can be read by now only. *)
process_metadata ==
    /\ stage \in {"metadata", "retry"}
    /\ cacheBootId' = (cacheBootId \/ file["metadata_id"] # Absent)
    /\ IF file["metadata_id"] = get_boot_id
       THEN stage' = "userdata" /\ UNCHANGED handler
       ELSE \/ /\ stage' = "md_open"
               /\ handler' = [h \in Handlers |->
                                IF h = "uuid" /\ stage = "metadata" THEN "none" ELSE "queued"]
            \/ stage = "retry" /\ stage' = "userdata" /\ UNCHANGED handler
    /\ UNCHANGED <<machine, file, mode, call, bootId, lock, cacheFirst, firstBoot, history>>

(* 269-270, 320-321: get_boot_id and open ... *)
record_open(from, to, f) ==
    /\ stage = from
    /\ stage' = to
    /\ bootId' = [bootId EXCEPT !["main"] = get_boot_id]
    /\ cacheBootId' = TRUE
    /\ Write(f, Empty)
    /\ UNCHANGED <<machine, mode, call, handler, lock, cacheFirst, firstBoot, history>>

(* Fault: the record holds the boot id as the kernel file holds it. *)
record_write_uncut(from, to, f) ==
    /\ stage = from
    /\ stage' = to
    /\ Write(f, [bootId["main"] EXCEPT !.cut = FALSE])
    /\ bootId' = [bootId EXCEPT !["main"] = Absent]
    /\ UNCHANGED <<machine, mode, call, handler, lock, cacheFirst, cacheBootId,
                   firstBoot, history>>

(* ... and write. *)
record_write(from, to, f) ==
    /\ stage = from
    /\ stage' = to
    /\ Write(f, bootId["main"])
    /\ bootId' = [bootId EXCEPT !["main"] = Absent]
    /\ UNCHANGED <<machine, mode, call, handler, lock, cacheFirst, cacheBootId,
                   firstBoot, history>>

(* openstack.c 270-272, 311-313: the failure is only logged. *)
record_fails(open, write, to, f) ==
    /\ stage \in {open, write}
    /\ stage' = to
    /\ \/ UNCHANGED file
       \/ stage = write /\ Write(f, bootId["main"])
    /\ cacheBootId' = TRUE
    /\ bootId' = [bootId EXCEPT !["main"] = Absent]
    /\ Fail(f)
    /\ UNCHANGED <<machine, mode, call, handler, lock, cacheFirst, firstBoot,
                   firstBoots, answers, applied, completed, attempts, mixed>>

(* userdata.c: whatever the first line of the user data chooses (cloud-config,
   a script, nothing), whether or not it succeeds, the caller goes on; a
   bootcmd block calls is_first_boot before. *)
userdata_process_file ==
    \/ stage' = "bootcmd" /\ Goto("main", "ib_enter")
    \/ stage' = "ud_open" /\ UNCHANGED call

(* Fault: user data is processed on a first boot whatever the record says. *)
process_userdata_again ==
    /\ stage = "userdata"
    /\ cacheBootId' = (cacheBootId \/ (firstBoot /\ file["user_data_id"] # Absent))
    /\ IF ~firstBoot
       THEN stage' = "join" /\ UNCHANGED <<call, attempts>>
       ELSE userdata_process_file /\ attempts' = [attempts EXCEPT ![instance] = @ + 1]
    /\ UNCHANGED <<machine, file, mode, bootId, handler, lock, cacheFirst, firstBoot,
                   firstBoots, answers, applied, completed, mixed, faults>>

(* main.c 340-344 and openstack.c 278-304: only on a first boot, and not if
   recorded for this boot. *)
process_userdata ==
    /\ stage = "userdata"
    /\ cacheBootId' = (cacheBootId \/ (firstBoot /\ file["user_data_id"] # Absent))
    /\ IF ~firstBoot \/ file["user_data_id"] = get_boot_id
       THEN stage' = "join" /\ UNCHANGED <<call, attempts>>
       ELSE userdata_process_file /\ attempts' = [attempts EXCEPT ![instance] = @ + 1]
    /\ UNCHANGED <<machine, file, mode, bootId, handler, lock, cacheFirst, firstBoot,
                   firstBoots, answers, applied, completed, mixed, faults>>

bootcmd_return ==
    /\ stage = "bootcmd"
    /\ call["main"] = "none"
    /\ stage' = "ud_open"
    /\ UNCHANGED <<machine, file, mode, call, bootId, handler, lock, cacheFirst,
                   cacheBootId, firstBoot, history>>

(* A pool thread takes up a metadata key ... *)
handler_start(h) ==
    /\ handler[h] = "queued"
    /\ handler' = [handler EXCEPT ![h] = "running"]
    /\ Goto(h, IF h = "uuid" THEN "si_check" ELSE "ib_enter")
    /\ UNCHANGED <<machine, file, mode, stage, bootId, lock, cacheFirst, cacheBootId,
                   firstBoot, history>>

(* ... and is done with it. *)
handler_done(h) ==
    /\ handler[h] = "running"
    /\ call[h] = "none"
    /\ handler' = [handler EXCEPT ![h] = "done"]
    /\ applied' = IF h = "hostname" THEN applied \cup {boot} ELSE applied
    /\ UNCHANGED <<machine, file, mode, stage, call, bootId, lock, cacheFirst, cacheBootId,
                   firstBoot, firstBoots, answers, completed, attempts, mixed, faults>>

(* The process is gone: its memory with it, the files as they are. *)
Gone ==
    /\ stage' = Fresh.stage /\ call' = Fresh.call /\ bootId' = Fresh.bootId
    /\ handler' = Fresh.handler /\ lock' = Fresh.lock /\ cacheFirst' = Fresh.cacheFirst
    /\ cacheBootId' = Fresh.cacheBootId /\ firstBoot' = Fresh.firstBoot
    /\ UNCHANGED <<machine, file, mode, firstBoots, answers, applied, attempts, mixed>>

(* Fault: main() ends without waiting for the thread pool. *)
ucd_end_nojoin ==
    /\ stage = "join"
    /\ completed' = IF mode = "datasource" THEN completed \cup {instance} ELSE completed
    /\ Gone
    /\ UNCHANGED faults

(* main.c 346-352: async_task_finish, then the end. *)
ucd_end ==
    /\ stage = "join"
    /\ \A h \in Handlers : handler[h] \in {"none", "done"}
    /\ completed' = IF mode = "datasource" THEN completed \cup {instance} ELSE completed
    /\ Gone
    /\ UNCHANGED faults

(* ucd is killed, or the machine loses power (then a reboot follows). *)
Crash ==
    /\ stage # "off"
    /\ Fail("kill")
    /\ Gone
    /\ UNCHANGED completed

(* The machine boots again, as the same instance or as a new one. *)
Reboot ==
    /\ stage = "off"
    /\ boot < MaxBoot
    /\ boot' = boot + 1
    /\ runs' = 0
    /\ \E i \in Instances : i >= instance /\ instance' = i
    /\ UNCHANGED <<file, process, history>>

BoundReached == stage = "off" /\ boot = MaxBoot /\ runs = MaxRuns /\ UNCHANGED vars

Next ==
    \/ ucd_start
    \/ main_ask_first_boot
    \/ main_setup
    \/ process_metadata
    \/ record_open("md_open", "md_write", "metadata_id")
    \/ record_write("md_write", "userdata", "metadata_id")
    \/ record_fails("md_open", "md_write", "userdata", "metadata_id")
    \/ process_userdata
    \/ bootcmd_return
    \/ record_open("ud_open", "ud_write", "user_data_id")
    \/ record_write("ud_write", "join", "user_data_id")
    \/ record_fails("ud_open", "ud_write", "join", "user_data_id")
    \/ \E h \in Handlers : handler_start(h) \/ handler_done(h)
    \/ \E a \in Threads : LibStep(a)
    \/ ucd_end
    \/ Crash
    \/ Reboot
    \/ BoundReached

Spec == Init /\ [][Next]_vars

-----------------------------------------------------------------------------
Count(kinds) == Cardinality({n \in DOMAIN faults : faults[n] \in kinds})
IdFaults == {"start", "instance_id", "first_boot_id"}

(* An instance has at most one first boot, however often ucd is killed and
   the machine rebooted, and one more for each time that its instance-id or
   the first-boot-id could not be written: the account setup and the once-only
   user data of main() happen in these boots. *)
FirstBootOncePerInstance ==
    \A i \in Instances : Cardinality(firstBoots[i]) <= 1 + Count({"instance_id", "first_boot_id"})

(* Within a boot is_first_boot never changes its mind, as long as only the
   service's command line is used and the ids can be read and written: not
   between the main thread and the hostname handler, not between a run, killed
   or not, and its repetition, although the first call of get_boot_id in a
   process returns the whole id and every later call a shortened one. *)
SameBootSameAnswer ==
    ~mixed /\ Count(IdFaults) = 0 => \A b \in Boots : Cardinality(answers[b]) <= 1

(* Whoever works out the answer of is_first_boot does so when the id of this
   very instance has been saved ("instance-id must be the first metadata key
   to process"). *)
InstanceIdFirst ==
    \A a \in Threads : call[a] \in {"ib_open", "ib_write", "ib_return"} =>
        file["instance_id"] = instance

(* The same, for the service's command line on a disk that can be read and
   written. *)
InstanceIdFirstInService == mode = "datasource" /\ Count(IdFaults) = 0 => InstanceIdFirst

(* Once a run of ucd has come to its end for an instance, that instance has
   had its first boot, provided that the datasource has always started and
   every instance-id and first-boot-id could be written. *)
InstanceSetUp ==
    Count(IdFaults) = 0 => \A i \in completed : firstBoots[i] # {}

(* The same, for a disk on which ucd has only been started by its service and
   has never been killed; and then a first-boot-id that is not written does no
   harm. *)
InstanceSetUpUnlessKilled ==
    Count({"kill", "start", "instance_id"}) = 0 /\ ~mixed =>
        \A i \in completed : firstBoots[i] # {}

RecordedThisBoot(f) == file[f] \in {id \in BootIds : id.boot = boot}

(* Between two runs, metadata recorded as processed in this boot has been
   applied in this boot ("metadata was already processed"). *)
RecordTruthful ==
    stage = "off" /\ RecordedThisBoot("metadata_id") => boot \in applied

(* The same, for a machine on which ucd has never been killed. *)
RecordTruthfulUnlessKilled == Count({"kill"}) = 0 => RecordTruthful

(* User data wanted "only on first boot" is processed once for an instance,
   successfully or not, and once more at most for each kill and for each
   record that could not be written. *)
UserDataOnce ==
    \A i \in Instances :
        attempts[i] <= 1 + Count({"kill", "instance_id", "first_boot_id", "user_data_id"})

(* Metadata recorded in this boot is never dispatched again in this boot by
   the service, nor is recorded user data processed again, in whatever form
   the record holds the boot id.  Metadata is an exception where openstack_start
   has failed: that run does not call is_first_boot, and so compares, and
   records, the whole boot id, while other runs use its first characters. *)
NoReprocessing ==
    [][ /\ (stage = "metadata" /\ stage' = "md_open" /\ Count({"start"}) = 0) =>
                ~RecordedThisBoot("metadata_id")
        /\ (stage = "userdata" /\ stage' \in {"bootcmd", "ud_open"}) =>
                ~RecordedThisBoot("user_data_id") ]_vars
=============================================================================
