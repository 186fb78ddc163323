------------------------- MODULE BootIdentityProofs -------------------------
(***************************************************************************)
(* What BootIdentity promises for any number of boots, instances, runs and *)
(* faults.                                                                 *)
(***************************************************************************)
EXTENDS BootIdentity, SequenceTheorems, FiniteSetTheorems, TLAPS

USE DEF machine, process, history

-----------------------------------------------------------------------------
(* Type correctness.                                                       *)

(* The state of the process; Fresh is such a state. *)
ProcessTypes ==
    /\ mode \in Modes /\ stage \in Stages
    /\ call \in [Threads -> Calls]
    /\ bootId \in [Threads -> BootIds \cup {Absent}]
    /\ handler \in [Handlers -> {"none", "queued", "running", "done"}]
    /\ lock \in Threads \cup {Nobody}
    /\ cacheFirst \in {"unset", "no", "yes"}
    /\ cacheBootId \in BOOLEAN /\ firstBoot \in BOOLEAN

FileTypes ==
    /\ file \in [IdFiles \cup {"instance_id"} -> BootIds \cup Instances \cup {Absent, Empty}]
    /\ file["instance_id"] \in Instances \cup {Absent, Empty}
    /\ \A f \in IdFiles : file[f] \in BootIds \cup {Absent, Empty}

FaultTypes == faults \in Seq(Faults) /\ Len(faults) <= MaxFaults

HistoryTypes ==
    /\ firstBoots \in [Instances -> SUBSET Boots]
    /\ answers \in [Boots -> SUBSET BOOLEAN]
    /\ applied \subseteq Boots
    /\ completed \subseteq Instances
    /\ attempts \in [Instances -> Nat]
    /\ mixed \in BOOLEAN

MachineTypes == boot \in Boots /\ instance \in Instances /\ runs \in 0..MaxRuns

(* TypeOK, and that file is a function. *)
Types == MachineTypes /\ FileTypes /\ ProcessTypes /\ FaultTypes /\ HistoryTypes

LEMMA FailTypes ==
    ASSUME FaultTypes, NEW f \in Faults, Fail(f)
    PROVE  FaultTypes'
BY BoundsAssumption DEF FaultTypes, Fail

LEMMA GoneTypes ==
    ASSUME ProcessTypes, Gone
    PROVE  ProcessTypes'
BY DEF ProcessTypes, Gone, Fresh, Stages, Calls

LEMMA WriteTypes ==
    ASSUME FileTypes, NEW f \in IdFiles \cup {"instance_id"}, NEW c, Write(f, c),
           f = "instance_id" => c \in Instances \cup {Absent, Empty},
           f # "instance_id" => c \in BootIds \cup {Absent, Empty}
    PROVE  FileTypes'
BY DEF FileTypes, Write, IdFiles

LEMMA InitTypes == Init => Types
<1> SUFFICES ASSUME Init PROVE Types
  OBVIOUS
<1>1. MachineTypes
  BY BoundsAssumption DEF Init, MachineTypes, Boots, Instances
<1>2. FileTypes
  BY DEF Init, FileTypes, IdFiles
<1>3. ProcessTypes
  BY DEF Init, ProcessTypes, Fresh, Stages, Calls
<1>4. FaultTypes
  BY EmptySeq, BoundsAssumption DEF Init, FaultTypes
<1>5. HistoryTypes
  BY DEF Init, HistoryTypes
<1> QED
  BY <1>1, <1>2, <1>3, <1>4, <1>5 DEF Types

(* The id of this boot is one. *)
LEMMA BootIdType == ASSUME Types PROVE get_boot_id \in BootIds
BY DEF Types, MachineTypes, ProcessTypes, get_boot_id, BootIds

LEMMA LibStepTypes ==
    ASSUME Types, NEW a \in Threads, LibStep(a)
    PROVE  Types'
<1> USE DEF Goto
<1>1. MachineTypes'
  BY DEF LibStep, Types, MachineTypes, save_instance_id_check, save_instance_id_open,
         save_instance_id_write, save_instance_id_fails, save_instance_id_remove,
         is_first_boot_enter, is_first_boot_open, is_first_boot_write, is_first_boot_fails,
         is_first_boot_return
<1>2. FileTypes'
  <2>1. CASE \E f \in IdFiles \cup {"instance_id"} : \E c :
                /\ Write(f, c)
                /\ f = "instance_id" => c \in Instances \cup {Absent, Empty}
                /\ f # "instance_id" => c \in BootIds \cup {Absent, Empty}
    BY <2>1, WriteTypes DEF Types
  <2>2. CASE UNCHANGED file
    BY <2>2 DEF Types, FileTypes
  <2>3. CASE save_instance_id_check(a) \/ is_first_boot_enter(a) \/ is_first_boot_return(a)
    BY <2>2, <2>3 DEF save_instance_id_check, is_first_boot_enter, is_first_boot_return
  <2>4. CASE save_instance_id_open(a) \/ save_instance_id_remove(a) \/ is_first_boot_open(a)
    BY <2>1, <2>4 DEF save_instance_id_open, save_instance_id_remove, is_first_boot_open, IdFiles
  <2>5. CASE save_instance_id_write(a) \/ save_instance_id_fails(a)
    <3>1. instance \in Instances
      BY DEF Types, MachineTypes
    <3> QED
      BY <2>1, <2>2, <2>5, <3>1 DEF save_instance_id_write, save_instance_id_fails
  <2>6. CASE is_first_boot_write(a) \/ is_first_boot_fails(a)
    <3>1. bootId[a] \in BootIds \cup {Absent, Empty} /\ "first_boot_id" \in IdFiles
      BY DEF Types, ProcessTypes, IdFiles
    <3>2. Write("first_boot_id", bootId[a]) \/ UNCHANGED file
      BY <2>6 DEF is_first_boot_write, is_first_boot_fails
    <3> QED
      BY <2>1, <2>2, <3>1, <3>2
  <2> QED
    BY <2>3, <2>4, <2>5, <2>6 DEF LibStep
<1>3. ProcessTypes'
  <2>1. get_boot_id \in BootIds
    BY BootIdType
  <2>2. CASE \/ save_instance_id_check(a) \/ save_instance_id_open(a)
             \/ save_instance_id_write(a) \/ save_instance_id_fails(a)
             \/ save_instance_id_remove(a)
    BY <2>2 DEF Types, ProcessTypes, Calls, save_instance_id_check, save_instance_id_open,
                save_instance_id_write, save_instance_id_fails, save_instance_id_remove
  <2>3. CASE is_first_boot_enter(a)
    BY <2>1, <2>3 DEF Types, ProcessTypes, Calls, is_first_boot_enter
  <2>4. CASE is_first_boot_open(a) \/ is_first_boot_write(a) \/ is_first_boot_fails(a)
    BY <2>4 DEF Types, ProcessTypes, Calls, is_first_boot_open, is_first_boot_write,
                is_first_boot_fails
  <2>5. CASE is_first_boot_return(a)
    <3>1. firstBoot' \in BOOLEAN
      BY <2>5 DEF Types, ProcessTypes, is_first_boot_return
    <3> QED
      BY <2>5, <3>1 DEF Types, ProcessTypes, Calls, is_first_boot_return
  <2> QED
    BY <2>2, <2>3, <2>4, <2>5 DEF LibStep
<1>4. FaultTypes'
  <2>1. UNCHANGED faults \/ Fail("instance_id") \/ Fail("first_boot_id")
    BY DEF LibStep, save_instance_id_check, save_instance_id_open,
           save_instance_id_write, save_instance_id_fails, save_instance_id_remove,
           is_first_boot_enter, is_first_boot_open, is_first_boot_write, is_first_boot_fails,
           is_first_boot_return
  <2>2. UNCHANGED faults => FaultTypes'
    BY DEF Types, FaultTypes
  <2> QED
    BY <2>1, <2>2, FailTypes DEF Types, Faults, IdFiles
<1>5. HistoryTypes'
  <2>1. CASE is_first_boot_return(a)
    <3>1. boot \in Boots /\ instance \in Instances
      BY DEF Types, MachineTypes
    <3>2. (cacheFirst = "yes") \in BOOLEAN
      OBVIOUS
    <3>3. answers' \in [Boots -> SUBSET BOOLEAN]
      BY <2>1, <3>1, <3>2 DEF is_first_boot_return, Types, HistoryTypes
    <3>4. firstBoots' \in [Instances -> SUBSET Boots]
      BY <2>1, <3>1 DEF is_first_boot_return, Types, HistoryTypes
    <3> QED
      BY <2>1, <3>3, <3>4 DEF is_first_boot_return, Types, HistoryTypes
  <2>2. CASE UNCHANGED <<firstBoots, answers, applied, completed, attempts, mixed>>
    BY <2>2 DEF Types, HistoryTypes
  <2> QED
    BY <2>1, <2>2
    DEF LibStep, save_instance_id_check, save_instance_id_open, save_instance_id_write,
        save_instance_id_fails, save_instance_id_remove, is_first_boot_enter, is_first_boot_open,
        is_first_boot_write, is_first_boot_fails
<1> QED
  BY <1>1, <1>2, <1>3, <1>4, <1>5 DEF Types

(* The steps of main() and of the handlers, but for calls of lib.c. *)
LEMMA MainStepTypes ==
    ASSUME Types,
           \/ main_ask_first_boot \/ main_setup \/ process_metadata \/ process_userdata
           \/ bootcmd_return \/ \E h \in Handlers : handler_start(h) \/ handler_done(h)
    PROVE  Types'
<1> USE DEF Goto
<1>1. UNCHANGED <<machine, file, faults>>
  BY DEF main_ask_first_boot, main_setup, process_metadata, process_userdata, bootcmd_return,
         handler_start, handler_done
<1>2. MachineTypes' /\ FileTypes' /\ FaultTypes'
  BY <1>1 DEF Types, MachineTypes, FileTypes, FaultTypes
<1>3. CASE main_ask_first_boot \/ main_setup \/ bootcmd_return
  BY <1>2, <1>3
  DEF Types, main_ask_first_boot, main_setup, bootcmd_return, ProcessTypes, HistoryTypes, Stages,
      Calls, Threads
<1>4. CASE process_metadata
  <2>1. cacheBootId' \in BOOLEAN
    BY <1>4 DEF process_metadata
  <2>2. handler' \in [Handlers -> {"none", "queued", "running", "done"}]
    BY <1>4 DEF process_metadata, Types, ProcessTypes
  <2>3. stage' \in Stages
    BY <1>4 DEF process_metadata, Types, ProcessTypes, Stages
  <2> QED
    BY <1>2, <1>4, <2>1, <2>2, <2>3 DEF process_metadata, Types, ProcessTypes, HistoryTypes
<1>5. CASE process_userdata
  <2>1. cacheBootId' \in BOOLEAN
    BY <1>5 DEF process_userdata
  <2>2. stage' \in Stages /\ call' \in [Threads -> Calls]
    BY <1>5 DEF process_userdata, userdata_process_file, Types, ProcessTypes, Stages, Calls, Threads
  <2>3. attempts' \in [Instances -> Nat]
    BY <1>5 DEF process_userdata, Types, HistoryTypes, MachineTypes
  <2> QED
    BY <1>2, <1>5, <2>1, <2>2, <2>3 DEF process_userdata, Types, ProcessTypes, HistoryTypes
<1>6. CASE \E h \in Handlers : handler_start(h) \/ handler_done(h)
  <2>1. ProcessTypes'
    BY <1>6 DEF handler_start, handler_done, Types, ProcessTypes, Calls, Threads
  <2>2. HistoryTypes'
    BY <1>6 DEF handler_start, handler_done, Types, HistoryTypes, MachineTypes
  <2> QED
    BY <1>2, <2>1, <2>2 DEF Types
<1> QED
  BY <1>3, <1>4, <1>5, <1>6

(* The records. *)
LEMMA RecordTypes ==
    ASSUME Types, NEW from \in Stages, NEW to \in Stages, NEW next \in Stages, NEW f \in IdFiles,
           record_open(from, to, f) \/ record_write(from, to, f) \/ record_fails(from, to, next, f)
    PROVE  Types'
<1>1. MachineTypes' /\ HistoryTypes'
  BY DEF record_open, record_write, record_fails, Types, MachineTypes, HistoryTypes
<1>2. "main" \in Threads /\ bootId["main"] \in BootIds \cup {Absent} /\ get_boot_id \in BootIds
  BY BootIdType DEF Threads, Types, ProcessTypes
<1>3. ProcessTypes'
  <2>1. bootId' \in [Threads -> BootIds \cup {Absent}]
    BY <1>2 DEF record_open, record_write, record_fails, Types, ProcessTypes
  <2>2. cacheBootId' \in BOOLEAN /\ stage' \in Stages
    BY DEF record_open, record_write, record_fails, Types, ProcessTypes
  <2> QED
    BY <2>1, <2>2 DEF record_open, record_write, record_fails, Types, ProcessTypes
<1>4. FileTypes'
  <2>1. CASE UNCHANGED file
    BY <2>1 DEF Types, FileTypes
  <2>2. CASE Write(f, Empty) \/ Write(f, bootId["main"])
    BY <1>2, <2>2, WriteTypes DEF Types, IdFiles
  <2> QED
    BY <2>1, <2>2 DEF record_open, record_write, record_fails
<1>5. FaultTypes'
  <2>1. UNCHANGED faults \/ Fail(f)
    BY DEF record_open, record_write, record_fails
  <2>2. UNCHANGED faults => FaultTypes'
    BY DEF Types, FaultTypes
  <2> QED
    BY <2>1, <2>2, FailTypes DEF Types, Faults
<1> QED
  BY <1>1, <1>3, <1>4, <1>5 DEF Types

(* Processes come and go. *)
LEMMA LifeTypes ==
    ASSUME Types, ucd_start \/ ucd_end \/ Crash \/ Reboot \/ UNCHANGED vars
    PROVE  Types'
<1>1. CASE UNCHANGED vars
  BY <1>1 DEF vars, Types, MachineTypes, FileTypes, ProcessTypes, FaultTypes, HistoryTypes
<1>2. CASE ucd_start
  <2>1. MachineTypes'
    BY <1>2, BoundsAssumption DEF ucd_start, Types, MachineTypes
  <2>2. FileTypes'
    BY <1>2 DEF ucd_start, Types, FileTypes
  <2>3. mode' \in Modes /\ stage' \in Stages /\ call' \in [Threads -> Calls]
    BY <1>2 DEF ucd_start, start_datasource, start_datasource_fails, start_metadata_file, Goto,
                Types, ProcessTypes, Stages, Calls
  <2>4. handler' \in [Handlers -> {"none", "queued", "running", "done"}]
    BY <1>2 DEF ucd_start, start_datasource, start_datasource_fails, start_metadata_file,
                Types, ProcessTypes
  <2>5. ProcessTypes'
    BY <1>2, <2>3, <2>4 DEF ucd_start, Types, ProcessTypes
  <2>6. FaultTypes'
    <3>1. UNCHANGED faults \/ Fail("start")
      BY <1>2 DEF ucd_start, start_datasource, start_datasource_fails, start_metadata_file
    <3>2. UNCHANGED faults => FaultTypes'
      BY DEF Types, FaultTypes
    <3> QED
      BY <3>1, <3>2, FailTypes DEF Types, Faults
  <2>7. HistoryTypes'
    BY <1>2 DEF ucd_start, start_datasource, start_datasource_fails, start_metadata_file,
                Types, HistoryTypes
  <2> QED
    BY <2>1, <2>2, <2>5, <2>6, <2>7 DEF Types
<1>3. CASE ucd_end \/ Crash
  <2>1. Gone
    BY <1>3 DEF ucd_end, Crash
  <2>2. MachineTypes' /\ FileTypes'
    BY <2>1 DEF Gone, Types, MachineTypes, FileTypes
  <2>3. ProcessTypes'
    BY <2>1, GoneTypes DEF Types
  <2>4. FaultTypes'
    <3>1. UNCHANGED faults \/ Fail("kill")
      BY <1>3 DEF ucd_end, Crash
    <3>2. UNCHANGED faults => FaultTypes'
      BY DEF Types, FaultTypes
    <3> QED
      BY <3>1, <3>2, FailTypes DEF Types, Faults
  <2>5. completed' \subseteq Instances
    BY <1>3 DEF ucd_end, Crash, Types, HistoryTypes, MachineTypes
  <2>6. HistoryTypes'
    BY <2>1, <2>5 DEF Gone, Types, HistoryTypes
  <2> QED
    BY <2>2, <2>3, <2>4, <2>6 DEF Types
<1>4. CASE Reboot
  <2>1. MachineTypes'
    BY <1>4, BoundsAssumption DEF Reboot, Types, MachineTypes, Boots
  <2> QED
    BY <1>4, <2>1 DEF Reboot, Types, FileTypes, ProcessTypes, FaultTypes, HistoryTypes
<1> QED
  BY <1>1, <1>2, <1>3, <1>4

LEMMA NextTypes == Types /\ [Next]_vars => Types'
<1> SUFFICES ASSUME Types, [Next]_vars PROVE Types'
  OBVIOUS
<1>1. CASE \/ record_open("md_open", "md_write", "metadata_id")
           \/ record_write("md_write", "userdata", "metadata_id")
           \/ record_fails("md_open", "md_write", "userdata", "metadata_id")
           \/ record_open("ud_open", "ud_write", "user_data_id")
           \/ record_write("ud_write", "join", "user_data_id")
           \/ record_fails("ud_open", "ud_write", "join", "user_data_id")
  BY <1>1, RecordTypes DEF Stages, IdFiles
<1> QED
  BY <1>1, LibStepTypes, MainStepTypes, LifeTypes DEF Next, BoundReached

THEOREM TypesAlways == Spec => []Types
BY InitTypes, NextTypes, PTL DEF Spec

(* Every variable always has a value of its type. *)
THEOREM TypeCorrect == Spec => []TypeOK
<1>1. Types => TypeOK
  BY DEF Types, MachineTypes, FileTypes, ProcessTypes, FaultTypes, HistoryTypes, TypeOK, IdFiles
<1> QED
  BY <1>1, TypesAlways, PTL

-----------------------------------------------------------------------------
(* Faults.                                                                 *)

(* There has been none of this kind. *)
Free(K) == \A n \in DOMAIN faults : faults[n] \notin K

LEMMA CountZero ==
    ASSUME FaultTypes, NEW K
    PROVE  Count(K) = 0 <=> Free(K)
<1> DEFINE S == {n \in DOMAIN faults : faults[n] \in K}
<1>1. DOMAIN faults = 1..Len(faults) /\ Len(faults) \in Nat
  BY DEF FaultTypes
<1>2. IsFiniteSet(S)
  <2>1. S \subseteq 1..Len(faults) /\ 1 \in Int /\ Len(faults) \in Int
    BY <1>1
  <2> HIDE DEF S
  <2> QED
    BY <2>1, FS_Interval, FS_Subset
<1>3. Cardinality(S) = 0 <=> S = {}
  BY <1>2, FS_EmptySet
<1> QED
  BY <1>3 DEF Count, Free

(* They are not forgotten. *)
LEMMA FreeBefore ==
    ASSUME FaultTypes, NEW K, NEW f, Fail(f), Free(K)'
    PROVE  Free(K) /\ f \notin K
<1>1. /\ faults' = Append(faults, f) /\ Len(faults') = Len(faults) + 1 /\ faults \in Seq(Faults)
      /\ DOMAIN faults = 1..Len(faults) /\ Len(faults) \in Nat
  BY DEF Fail, FaultTypes
<1>2. \A n \in 1..Len(faults) : faults'[n] = faults[n]
  BY <1>1
<1>3. faults'[Len(faults) + 1] = f /\ DOMAIN faults' = 1..(Len(faults) + 1)
  BY <1>1
<1> QED
  BY <1>1, <1>2, <1>3 DEF Free

LEMMA FreeKept ==
    ASSUME Types, [Next]_vars, NEW K, Free(K)'
    PROVE  Free(K)
<1>1. UNCHANGED faults \/ \E f \in Faults : Fail(f)
  BY DEF Next, BoundReached, vars, LibStep, save_instance_id_check, save_instance_id_open,
         save_instance_id_write, save_instance_id_fails, save_instance_id_remove,
         is_first_boot_enter, is_first_boot_open, is_first_boot_write, is_first_boot_fails,
         is_first_boot_return, main_ask_first_boot, main_setup, process_metadata,
         process_userdata, bootcmd_return, handler_start, handler_done, record_open,
         record_write, record_fails, ucd_start, start_datasource, start_datasource_fails,
         start_metadata_file, ucd_end, Gone, Crash, Reboot, Faults, IdFiles
<1>2. CASE UNCHANGED faults
  BY <1>2 DEF Free
<1>3. CASE \E f \in Faults : Fail(f)
  BY <1>3, FreeBefore DEF Types
<1> QED
  BY <1>1, <1>2, <1>3

-----------------------------------------------------------------------------
(* Between two runs there is no process.                                   *)

Off ==
    stage = "off" =>
        /\ call = Fresh.call /\ bootId = Fresh.bootId /\ handler = Fresh.handler
        /\ lock = Fresh.lock /\ cacheFirst = Fresh.cacheFirst
        /\ cacheBootId = Fresh.cacheBootId /\ firstBoot = Fresh.firstBoot

LEMMA OffInit == Init => Off
BY DEF Init, Off

LEMMA OffStep == Off /\ [Next]_vars => Off'
<1> SUFFICES ASSUME Off, [Next]_vars PROVE Off'
  OBVIOUS
<1>1. CASE UNCHANGED vars \/ Reboot \/ BoundReached
  BY <1>1 DEF vars, Reboot, BoundReached, Off
<1>2. CASE ucd_end \/ Crash
  BY <1>2 DEF ucd_end, Crash, Gone, Off
<1>3. CASE ucd_start
  BY <1>3 DEF ucd_start, start_datasource, start_datasource_fails, start_metadata_file, Off
<1>4. ASSUME NEW a \in Threads, LibStep(a) PROVE Off'
  <2>1. call[a] # "none" /\ stage' = stage
    BY <1>4
    DEF LibStep, save_instance_id_check, save_instance_id_open,
        save_instance_id_write, save_instance_id_fails, save_instance_id_remove,
        is_first_boot_enter, is_first_boot_open, is_first_boot_write, is_first_boot_fails,
        is_first_boot_return
  <2> QED
    BY <2>1 DEF Off, Fresh
<1>5. ASSUME NEW h \in Handlers, handler_start(h) \/ handler_done(h) PROVE Off'
  <2>1. handler[h] # "none" /\ stage' = stage
    BY <1>5 DEF handler_start, handler_done
  <2> QED
    BY <2>1 DEF Off, Fresh
<1>6. CASE \/ main_ask_first_boot \/ main_setup \/ process_metadata \/ process_userdata
           \/ bootcmd_return
  BY <1>6 DEF main_ask_first_boot, main_setup, process_metadata, process_userdata,
              userdata_process_file, bootcmd_return, Off
<1>7. CASE \/ record_open("md_open", "md_write", "metadata_id")
           \/ record_write("md_write", "userdata", "metadata_id")
           \/ record_fails("md_open", "md_write", "userdata", "metadata_id")
           \/ record_open("ud_open", "ud_write", "user_data_id")
           \/ record_write("ud_write", "join", "user_data_id")
           \/ record_fails("ud_open", "ud_write", "join", "user_data_id")
  BY <1>7 DEF record_open, record_write, record_fails, Off
<1> QED
  BY <1>1, <1>2, <1>3, <1>4, <1>5, <1>6, <1>7 DEF Next

THEOREM OffAlways == Spec => []Off
BY OffInit, OffStep, PTL DEF Spec

-----------------------------------------------------------------------------
(* The instance id comes first.                                            *)

(* The datasource has started and every instance-id could be written. *)
IdLost == {"start", "instance_id"}
InService == stage # "off" /\ mode = "datasource" /\ Free(IdLost)

(* Calls of save_instance_id that have not saved it yet. *)
Saving == {"si_check", "si_open", "si_write", "si_open_changed", "si_write_changed"}

SavedFirst ==
    InService =>
        /\ stage # "retry" /\ handler["uuid"] = "none" /\ call["uuid"] = "none"
        /\ call["hostname"] \notin Saving \cup {"si_remove"}
        /\ stage # "uuid" => call["main"] \notin Saving \cup {"si_remove"}
        /\ stage = "uuid" => /\ call["main"] \in Saving \cup {"si_remove", "none"}
                             /\ call["hostname"] = "none" /\ handler["hostname"] = "none"
        /\ file["instance_id"] = instance \/ (stage = "uuid" /\ call["main"] \in Saving)

LEMMA SavedFirstInit == Init => SavedFirst
BY DEF Init, Fresh, SavedFirst, InService

LEMMA SavedFirstStep == Types /\ Off /\ SavedFirst /\ [Next]_vars => SavedFirst'
<1> SUFFICES ASSUME Types, Off, SavedFirst, [Next]_vars, InService' PROVE SavedFirst'
  BY DEF SavedFirst
<1>0. /\ call \in [Threads -> Calls] /\ Threads = {"main", "uuid", "hostname"}
      /\ Handlers = {"uuid", "hostname"} /\ DOMAIN handler = Handlers
      /\ DOMAIN file = IdFiles \cup {"instance_id"}
  BY DEF Types, ProcessTypes, FileTypes, Threads, Handlers
<1>1. Free(IdLost)
  BY FreeKept DEF InService
<1>2. ASSUME NEW f \in IdLost, Fail(f) PROVE FALSE
  BY <1>2, FreeBefore DEF Types, InService
<1>a. ASSUME NEW a \in Threads, LibStep(a)
      PROVE  SavedFirst'
  <2>1. call[a] # "none" /\ UNCHANGED <<stage, mode, handler, instance>>
    BY <1>a
    DEF LibStep, save_instance_id_check, save_instance_id_open,
        save_instance_id_write, save_instance_id_fails, save_instance_id_remove,
        is_first_boot_enter, is_first_boot_open, is_first_boot_write, is_first_boot_fails,
        is_first_boot_return
  <2>2. InService
    BY <1>1, <2>1 DEF InService
  <2>4. CASE \/ save_instance_id_check(a) \/ save_instance_id_open(a)
             \/ save_instance_id_write(a) \/ save_instance_id_remove(a)
    <3>1. a = "main" /\ stage = "uuid"
      BY <1>0, <2>2, <2>4
      DEF save_instance_id_check, save_instance_id_open, save_instance_id_write,
          save_instance_id_remove, SavedFirst, Saving
    <3> QED
      BY <1>0, <2>1, <2>2, <2>4, <3>1
      DEF save_instance_id_check, save_instance_id_open, save_instance_id_write,
          save_instance_id_remove, SavedFirst, Saving, Goto, Write, IdFiles
  <2>5. CASE save_instance_id_fails(a)
    BY <1>2, <2>5 DEF save_instance_id_fails, IdLost
  <2>6. CASE \/ is_first_boot_enter(a) \/ is_first_boot_open(a) \/ is_first_boot_write(a)
             \/ is_first_boot_fails(a) \/ is_first_boot_return(a)
    <3>1. call[a] \in {"ib_enter", "ib_open", "ib_write", "ib_return"}
      BY <2>6 DEF is_first_boot_enter, is_first_boot_open, is_first_boot_write,
                  is_first_boot_fails, is_first_boot_return
    <3>2. a # "uuid" /\ stage # "uuid"
      BY <1>0, <2>2, <3>1 DEF SavedFirst, Saving
    <3>3. file'["instance_id"] = file["instance_id"]
      BY <1>0, <2>6 DEF is_first_boot_enter, is_first_boot_open, is_first_boot_write,
                        is_first_boot_fails, is_first_boot_return, Write, IdFiles
    <3>4. \E c \in {"ib_open", "ib_write", "ib_return", "none"} : call' = [call EXCEPT ![a] = c]
      BY <2>6 DEF is_first_boot_enter, is_first_boot_open, is_first_boot_write,
                  is_first_boot_fails, is_first_boot_return, Goto
    <3> QED
      BY <1>0, <2>1, <2>2, <3>2, <3>3, <3>4 DEF SavedFirst, Saving
  <2> QED
    BY <1>a, <2>4, <2>5, <2>6 DEF LibStep
<1>b. ASSUME NEW h \in Handlers, handler_start(h) \/ handler_done(h)
      PROVE  SavedFirst'
  <2>1. UNCHANGED <<stage, mode, file, instance>>
    BY <1>b DEF handler_start, handler_done
  <2>2. InService
    BY <1>1, <2>1 DEF InService
  <2>3. h = "hostname" /\ stage # "uuid"
    BY <1>0, <1>b, <2>2 DEF handler_start, handler_done, SavedFirst
  <2> QED
    BY <1>0, <1>b, <2>1, <2>2, <2>3 DEF handler_start, handler_done, Goto, SavedFirst, Saving
<1>c. CASE ucd_start
  <2>1. stage = "off" /\ UNCHANGED <<file, instance>>
    BY <1>c DEF ucd_start
  <2>2. call = [a \in Threads |-> "none"] /\ handler = [h \in Handlers |-> "none"]
    BY <2>1 DEF Off, Fresh
  <2>3. ~start_datasource_fails
    BY <1>2 DEF start_datasource_fails, IdLost
  <2>4. start_datasource
    BY <1>c, <2>3 DEF ucd_start, start_metadata_file, InService
  <2> QED
    BY <1>0, <2>2, <2>4 DEF start_datasource, Goto, SavedFirst, Saving
<1>d. CASE main_ask_first_boot \/ main_setup \/ bootcmd_return
  <2>1. InService
    BY <1>1, <1>d DEF main_ask_first_boot, main_setup, bootcmd_return, InService
  <2> QED
    BY <1>0, <1>d, <2>1 DEF main_ask_first_boot, main_setup, bootcmd_return, Goto, SavedFirst, Saving
<1>e. CASE process_metadata
  <2>1. InService /\ UNCHANGED <<call, file, instance>> /\ stage # "uuid"
    BY <1>1, <1>e DEF process_metadata, InService
  <2>2. stage = "metadata" /\ stage' \in {"userdata", "md_open"}
    BY <1>e, <2>1 DEF process_metadata, SavedFirst
  <2>3. handler'["uuid"] = "none"
    BY <1>0, <1>e, <2>1, <2>2 DEF process_metadata, SavedFirst
  <2> QED
    BY <2>1, <2>2, <2>3 DEF SavedFirst
<1>f. CASE process_userdata
  <2>1. InService /\ UNCHANGED <<handler, file, instance>> /\ stage = "userdata"
    BY <1>1, <1>f DEF process_userdata, InService
  <2>2. /\ stage' \in {"join", "ud_open", "bootcmd"}
        /\ call' = call \/ call' = [call EXCEPT !["main"] = "ib_enter"]
    BY <1>f DEF process_userdata, userdata_process_file, Goto
  <2> QED
    BY <1>0, <2>1, <2>2 DEF SavedFirst, Saving
<1>g. CASE \E f \in IdFiles, from, to, next \in Stages \ {"off", "uuid", "retry"} :
              record_open(from, to, f) \/ record_write(from, to, f) \/ record_fails(from, to, next, f)
  <2>1. UNCHANGED <<mode, call, handler, instance>> /\ stage # "off" /\ stage # "uuid"
        /\ stage' \in Stages \ {"off", "uuid", "retry"}
    BY <1>g DEF record_open, record_write, record_fails
  <2>2. file'["instance_id"] = file["instance_id"]
    BY <1>0, <1>g DEF record_open, record_write, record_fails, Write, IdFiles
  <2>3. InService
    BY <1>1, <2>1 DEF InService
  <2> QED
    BY <2>1, <2>2, <2>3 DEF SavedFirst
<1>h. CASE ucd_end \/ Crash \/ Reboot
  BY <1>h DEF ucd_end, Crash, Gone, Fresh, Reboot, InService
<1>i. CASE UNCHANGED vars
  BY <1>i DEF vars, SavedFirst, InService, Free
<1> QED
  BY <1>a, <1>b, <1>c, <1>d, <1>e, <1>f, <1>g, <1>h, <1>i DEF Next, BoundReached, Stages, IdFiles

THEOREM SavedFirstAlways == Spec => []SavedFirst
BY SavedFirstInit, SavedFirstStep, TypesAlways, OffAlways, PTL DEF Spec

(* In service the instance id has been saved when somebody works out whether
   this is its first boot. *)
THEOREM InstanceIdIsFirst == Spec => []InstanceIdFirstInService
<1>1. Types /\ Off /\ SavedFirst => InstanceIdFirstInService
  <2> SUFFICES ASSUME Types, Off, SavedFirst, mode = "datasource", Count(IdFaults) = 0,
                      NEW a \in Threads, call[a] \in {"ib_open", "ib_write", "ib_return"}
               PROVE  file["instance_id"] = instance
    BY DEF InstanceIdFirstInService, InstanceIdFirst
  <2>1. stage # "off"
    BY DEF Off, Fresh
  <2>2. Free(IdFaults) => Free(IdLost)
    BY DEF Free, IdFaults, IdLost
  <2>3. InService
    BY <2>1, <2>2, CountZero DEF InService, Types
  <2> QED
    BY <2>3 DEF SavedFirst, Saving, Threads, Handlers
<1> QED
  BY <1>1, SavedFirstAlways, TypesAlways, OffAlways, PTL

-----------------------------------------------------------------------------
(* What is recorded has been done.                                         *)

(* Ids are of this boot when they are about to be written, and of this boot
   or an earlier one when they have been. *)
IdsOfTheirBoot ==
    /\ \A a \in Threads : bootId[a] \in BootIds => bootId[a].boot = boot
    /\ \A f \in IdFiles : file[f] \in BootIds => file[f].boot <= boot

LEMMA IdsInit == Init => IdsOfTheirBoot
BY ContentsAssumption DEF Init, Fresh, IdsOfTheirBoot, IdFiles

LEMMA IdsStep == Types /\ Off /\ IdsOfTheirBoot /\ [Next]_vars => IdsOfTheirBoot'
<1> SUFFICES ASSUME Types, Off, IdsOfTheirBoot, [Next]_vars PROVE IdsOfTheirBoot'
  OBVIOUS
<1>0. /\ DOMAIN bootId = Threads /\ DOMAIN file = IdFiles \cup {"instance_id"}
      /\ "instance_id" \notin IdFiles /\ "first_boot_id" \in IdFiles /\ "main" \in Threads
      /\ boot \in Nat /\ get_boot_id.boot = boot
      /\ Absent \notin BootIds /\ Empty \notin BootIds
  BY ContentsAssumption
  DEF Types, ProcessTypes, FileTypes, MachineTypes, IdFiles, Threads, Boots, get_boot_id
<1>1. ASSUME NEW a \in Threads, LibStep(a) PROVE IdsOfTheirBoot'
  <2>1. boot' = boot
    BY <1>1
    DEF LibStep, save_instance_id_check, save_instance_id_open,
        save_instance_id_write, save_instance_id_fails, save_instance_id_remove,
        is_first_boot_enter, is_first_boot_open, is_first_boot_write, is_first_boot_fails,
        is_first_boot_return
  <2>2. CASE \/ save_instance_id_check(a) \/ save_instance_id_open(a)
             \/ save_instance_id_write(a) \/ save_instance_id_fails(a)
             \/ save_instance_id_remove(a)
    BY <1>0, <2>1, <2>2
    DEF save_instance_id_check, save_instance_id_open, save_instance_id_write,
        save_instance_id_fails, save_instance_id_remove, Write, IdsOfTheirBoot
  <2>3. CASE is_first_boot_enter(a) \/ is_first_boot_return(a)
    BY <1>0, <2>1, <2>3 DEF is_first_boot_enter, is_first_boot_return, IdsOfTheirBoot
  <2>4. CASE is_first_boot_open(a) \/ is_first_boot_write(a) \/ is_first_boot_fails(a)
    BY <1>0, <2>1, <2>4
    DEF is_first_boot_open, is_first_boot_write, is_first_boot_fails, Write, IdsOfTheirBoot
  <2> QED
    BY <1>1, <2>2, <2>3, <2>4 DEF LibStep
<1>2. CASE \E f \in IdFiles, from, to, next \in Stages :
              record_open(from, to, f) \/ record_write(from, to, f) \/ record_fails(from, to, next, f)
  BY <1>0, <1>2 DEF record_open, record_write, record_fails, Write, IdsOfTheirBoot
<1>3. CASE \/ main_ask_first_boot \/ main_setup \/ process_metadata \/ process_userdata
           \/ bootcmd_return \/ (\E h \in Handlers : handler_start(h) \/ handler_done(h))
           \/ ucd_start
  BY <1>3 DEF main_ask_first_boot, main_setup, process_metadata, process_userdata,
              bootcmd_return, handler_start, handler_done, ucd_start, IdsOfTheirBoot
<1>4. CASE ucd_end \/ Crash
  <2>1. UNCHANGED <<boot, file>> /\ bootId' = [a \in Threads |-> Absent]
    BY <1>4 DEF ucd_end, Crash, Gone, Fresh, machine
  <2> QED
    BY <1>0, <2>1 DEF IdsOfTheirBoot
<1>5. CASE Reboot
  <2>1. \A id \in BootIds : id.boot <= boot => id.boot <= boot'
    BY <1>0, <1>5 DEF Reboot, BootIds, Boots
  <2>2. \A a \in Threads : bootId'[a] = Absent
    BY <1>5 DEF Reboot, Off, Fresh
  <2> QED
    BY <1>0, <1>5, <2>1, <2>2 DEF Reboot, IdsOfTheirBoot
<1>6. CASE UNCHANGED vars
  BY <1>6 DEF vars, IdsOfTheirBoot
<1> QED
  BY <1>1, <1>2, <1>3, <1>4, <1>5, <1>6 DEF Next, BoundReached, Stages, IdFiles

THEOREM IdsAlways == Spec => []IdsOfTheirBoot
BY IdsInit, IdsStep, TypesAlways, OffAlways, PTL DEF Spec

(* Nobody was killed: metadata recorded in this boot have been applied in it
   or are in the hands of the thread pool. *)
RecordedIsInHand ==
    Free({"kill"}) =>
        /\ RecordedThisBoot("metadata_id") \/ stage \in {"md_open", "md_write"} =>
               boot \in applied \/ handler["hostname"] # "none"
        /\ handler["hostname"] = "done" => boot \in applied

LEMMA InHandInit == Init => RecordedIsInHand
BY ContentsAssumption DEF Init, Fresh, RecordedIsInHand, RecordedThisBoot, IdFiles, Handlers

LEMMA InHandStep ==
    Types /\ Off /\ IdsOfTheirBoot /\ RecordedIsInHand /\ [Next]_vars => RecordedIsInHand'
<1> SUFFICES ASSUME Types, Off, IdsOfTheirBoot, RecordedIsInHand, [Next]_vars, Free({"kill"})'
             PROVE  RecordedIsInHand'
  BY DEF RecordedIsInHand
<1>0. /\ Free({"kill"})
      /\ DOMAIN handler = {"uuid", "hostname"} /\ Handlers = {"uuid", "hostname"}
      /\ DOMAIN file = IdFiles \cup {"instance_id"}
      /\ "metadata_id" \in IdFiles /\ Empty \notin BootIds
  BY FreeKept, ContentsAssumption DEF Types, ProcessTypes, FileTypes, IdFiles, Handlers
<1>1. ASSUME NEW a \in Threads, LibStep(a) PROVE RecordedIsInHand'
  <2>1. UNCHANGED <<boot, stage, handler, applied>>
    BY <1>1
    DEF LibStep, save_instance_id_check, save_instance_id_open,
        save_instance_id_write, save_instance_id_fails, save_instance_id_remove,
        is_first_boot_enter, is_first_boot_open, is_first_boot_write, is_first_boot_fails,
        is_first_boot_return
  <2>2. file'["metadata_id"] = file["metadata_id"]
    BY <1>0, <1>1
    DEF LibStep, save_instance_id_check, save_instance_id_open,
        save_instance_id_write, save_instance_id_fails, save_instance_id_remove,
        is_first_boot_enter, is_first_boot_open, is_first_boot_write, is_first_boot_fails,
        is_first_boot_return, Write
  <2> QED
    BY <1>0, <2>1, <2>2 DEF RecordedIsInHand, RecordedThisBoot
<1>2. CASE \/ main_ask_first_boot \/ main_setup \/ process_userdata \/ bootcmd_return
  <2>1. /\ UNCHANGED <<boot, handler, applied, file>>
        /\ stage' \in {"first_boot", "metadata", "join", "bootcmd", "ud_open"}
    BY <1>2 DEF main_ask_first_boot, main_setup, process_userdata, userdata_process_file,
                bootcmd_return
  <2> QED
    BY <1>0, <2>1 DEF RecordedIsInHand, RecordedThisBoot
<1>3. CASE process_metadata
  <2>1. UNCHANGED <<boot, applied, file>>
    BY <1>3 DEF process_metadata
  <2>2. CASE stage' = "userdata" /\ UNCHANGED handler
    BY <1>0, <2>1, <2>2 DEF RecordedIsInHand, RecordedThisBoot
  <2>3. CASE handler'["hostname"] = "queued"
    BY <2>3 DEF RecordedIsInHand
  <2> QED
    BY <1>0, <1>3, <2>2, <2>3 DEF process_metadata
<1>4. ASSUME NEW h \in Handlers, handler_start(h) \/ handler_done(h) PROVE RecordedIsInHand'
  <2>1. UNCHANGED <<boot, stage, file>> /\ applied \subseteq applied'
    BY <1>4 DEF handler_start, handler_done
  <2>2. h = "hostname" => handler'["hostname"] \in {"running", "done"}
    BY <1>0, <1>4 DEF handler_start, handler_done
  <2>3. h = "hostname" /\ handler'["hostname"] = "done" => boot \in applied'
    BY <1>0, <1>4 DEF handler_start, handler_done
  <2>4. h # "hostname" => handler'["hostname"] = handler["hostname"]
    BY <1>0, <1>4 DEF handler_start, handler_done
  <2> QED
    BY <1>0, <2>1, <2>2, <2>3, <2>4 DEF RecordedIsInHand, RecordedThisBoot
<1>5. CASE \/ record_open("md_open", "md_write", "metadata_id")
           \/ record_write("md_write", "userdata", "metadata_id")
           \/ record_fails("md_open", "md_write", "userdata", "metadata_id")
  <2>1. UNCHANGED <<boot, handler, applied>> /\ stage \in {"md_open", "md_write"}
    BY <1>5 DEF record_open, record_write, record_fails
  <2> QED
    BY <1>0, <2>1 DEF RecordedIsInHand
<1>6. CASE \/ record_open("ud_open", "ud_write", "user_data_id")
           \/ record_write("ud_write", "join", "user_data_id")
           \/ record_fails("ud_open", "ud_write", "join", "user_data_id")
  <2>1. UNCHANGED <<boot, handler, applied>> /\ stage' \in {"ud_write", "join"}
    BY <1>6 DEF record_open, record_write, record_fails
  <2>2. file'["metadata_id"] = file["metadata_id"]
    BY <1>0, <1>6 DEF record_open, record_write, record_fails, Write
  <2> QED
    BY <1>0, <2>1, <2>2 DEF RecordedIsInHand, RecordedThisBoot
<1>7. CASE ucd_start
  <2>1. stage = "off" /\ UNCHANGED <<boot, file, applied>> /\ handler["hostname"] = "none"
    BY <1>7 DEF ucd_start, Off, Fresh, Handlers
  <2>2. RecordedThisBoot("metadata_id") => boot \in applied
    BY <1>0, <2>1 DEF RecordedIsInHand
  <2>3. stage' \in {"uuid", "retry", "join"} /\ handler'["hostname"] \in {"none", "queued"}
    BY <1>0, <1>7, <2>1 DEF ucd_start, start_datasource, start_datasource_fails, start_metadata_file
  <2> QED
    BY <2>1, <2>2, <2>3 DEF RecordedIsInHand, RecordedThisBoot
<1>8. CASE ucd_end
  <2>1. UNCHANGED <<boot, file, applied>> /\ stage' = "off" /\ handler'["hostname"] = "none"
    BY <1>8 DEF ucd_end, Gone, Fresh, Handlers
  <2>2. handler["hostname"] \in {"none", "done"}
    BY <1>0, <1>8 DEF ucd_end
  <2> QED
    BY <1>0, <2>1, <2>2 DEF RecordedIsInHand, RecordedThisBoot
<1>9. CASE Crash
  <2>1. Fail("kill")
    BY <1>9 DEF Crash
  <2> QED
    BY <2>1, FreeBefore DEF Types
<1>10. CASE Reboot
  <2>1. file' = file /\ handler' = handler /\ stage' = "off" /\ boot' = boot + 1 /\ boot \in Nat
        /\ stage = "off"
    BY <1>10 DEF Reboot, Types, MachineTypes, Boots
  <2>2. handler["hostname"] = "none"
    BY <2>1 DEF Off, Fresh, Handlers
  <2>3. \A id \in BootIds : id.boot \in Nat
    BY DEF BootIds, Boots
  <2>4. ~RecordedThisBoot("metadata_id")'
    BY <1>0, <2>1, <2>3 DEF IdsOfTheirBoot, RecordedThisBoot, BootIds
  <2> QED
    BY <2>1, <2>2, <2>4 DEF RecordedIsInHand
<1>11. CASE UNCHANGED vars
  BY <1>11 DEF vars, RecordedIsInHand, RecordedThisBoot, Free
<1> QED
  BY <1>1, <1>2, <1>3, <1>4, <1>5, <1>6, <1>7, <1>8, <1>9, <1>10, <1>11 DEF Next, BoundReached

THEOREM InHandAlways == Spec => []RecordedIsInHand
BY InHandInit, InHandStep, TypesAlways, OffAlways, IdsAlways, PTL DEF Spec

(* On a machine on which ucd was never killed, metadata recorded in this boot
   have been applied in it. *)
THEOREM RecordIsTruthful == Spec => []RecordTruthfulUnlessKilled
<1>1. Types /\ Off /\ RecordedIsInHand => RecordTruthfulUnlessKilled
  <2> SUFFICES ASSUME Types, Off, RecordedIsInHand, Count({"kill"}) = 0, stage = "off",
                      RecordedThisBoot("metadata_id")
               PROVE  boot \in applied
    BY DEF RecordTruthfulUnlessKilled, RecordTruthful
  <2>1. Free({"kill"}) /\ handler["hostname"] = "none"
    BY CountZero DEF Types, Off, Fresh, Handlers
  <2> QED
    BY <2>1 DEF RecordedIsInHand
<1> QED
  BY <1>1, InHandAlways, TypesAlways, OffAlways, PTL

-----------------------------------------------------------------------------
(* Who is inside which function of lib.c.                                  *)

Saves == Saving \cup {"si_remove"}
Asks == {"ib_enter", "ib_open", "ib_write", "ib_return"}

(* main() saves the instance id before it asks, and there are no handlers
   meanwhile; otherwise the uuid handler saves it, and does nothing else. *)
OneSaver ==
    /\ call["hostname"] \notin Saves /\ call["uuid"] \notin Asks
    /\ \A h \in Handlers :
          /\ call[h] # "none" => handler[h] = "running"
          /\ handler[h] # "none" =>
                 stage \notin {"off", "uuid", "first_boot", "metadata", "retry"}
    /\ call["main"] \in Saves => stage = "uuid"
    /\ call["main"] \in Asks => stage \in {"first_boot", "bootcmd"}

(* An id is only saved if the file has another, and the record of another
   instance is only removed when the id has been saved; a record is only written by
   the holder of the lock, whose answer is yes and who has the boot's id. *)
HasReason ==
    /\ \A a \in Threads : call[a] \in Saving \ {"si_check"} => file["instance_id"] # instance
    /\ \A a \in Threads : call[a] = "si_remove" => file["instance_id"] = instance
    /\ \A a \in Threads : call[a] \in Asks \ {"ib_enter"} => lock = a
    /\ \A a \in Threads : call[a] \in {"ib_open", "ib_write"} =>
                              cacheFirst = "yes" /\ bootId[a] \in BootIds

LEMMA OneSaverInit == Init => OneSaver /\ HasReason
BY DEF Init, Fresh, OneSaver, HasReason, Saves, Saving, Asks, Threads, Handlers

LEMMA OneSaverStep == Types /\ Off /\ OneSaver /\ [Next]_vars => OneSaver'
<1> SUFFICES ASSUME Types, Off, OneSaver, [Next]_vars PROVE OneSaver'
  OBVIOUS
<1>0. /\ call \in [Threads -> Calls] /\ Threads = {"main", "uuid", "hostname"}
      /\ Handlers = {"uuid", "hostname"} /\ DOMAIN handler = Handlers
  BY DEF Types, ProcessTypes, Threads, Handlers
<1>1. ASSUME NEW a \in Threads, LibStep(a) PROVE OneSaver'
  <2>1. UNCHANGED <<stage, handler>>
    BY <1>1
    DEF LibStep, save_instance_id_check, save_instance_id_open,
        save_instance_id_write, save_instance_id_fails, save_instance_id_remove,
        is_first_boot_enter, is_first_boot_open, is_first_boot_write, is_first_boot_fails,
        is_first_boot_return
  <2>2. CASE \/ save_instance_id_check(a) \/ save_instance_id_open(a)
             \/ save_instance_id_write(a) \/ save_instance_id_fails(a)
             \/ save_instance_id_remove(a)
    <3>1. call[a] \in Saves /\ \E c \in Saves \cup {"none"} : call' = [call EXCEPT ![a] = c]
      BY <2>2
      DEF save_instance_id_check, save_instance_id_open, save_instance_id_write,
          save_instance_id_fails, save_instance_id_remove, Saves, Saving, Goto
    <3> QED
      BY <1>0, <2>1, <3>1 DEF OneSaver, Saves, Saving, Asks
  <2>3. CASE \/ is_first_boot_enter(a) \/ is_first_boot_open(a)
             \/ is_first_boot_write(a) \/ is_first_boot_fails(a) \/ is_first_boot_return(a)
    <3>1. call[a] \in Asks /\ \E c \in Asks \cup {"none"} : call' = [call EXCEPT ![a] = c]
      BY <2>3
      DEF is_first_boot_enter, is_first_boot_open, is_first_boot_write, is_first_boot_fails,
          is_first_boot_return, Asks, Goto
    <3> QED
      BY <1>0, <2>1, <3>1 DEF OneSaver, Saves, Saving, Asks
  <2> QED
    BY <1>1, <2>2, <2>3 DEF LibStep
<1>2. ASSUME NEW h \in Handlers, handler_start(h) \/ handler_done(h) PROVE OneSaver'
  <2>1. UNCHANGED stage
    BY <1>2 DEF handler_start, handler_done
  <2> QED
    BY <1>0, <1>2, <2>1 DEF handler_start, handler_done, Goto, OneSaver, Saves, Saving, Asks
<1>3. CASE main_ask_first_boot \/ main_setup \/ bootcmd_return
  BY <1>0, <1>3 DEF main_ask_first_boot, main_setup, bootcmd_return, Goto, OneSaver, Saves, Saving, Asks
<1>4. CASE process_metadata
  <2>1. UNCHANGED call /\ stage' \in {"userdata", "md_open"} /\ call["main"] \notin Saves \cup Asks
        /\ \A h \in Handlers : call[h] = "none"
    BY <1>0, <1>4 DEF process_metadata, OneSaver
  <2> QED
    BY <1>0, <2>1 DEF OneSaver, Saves, Saving, Asks
<1>5. CASE process_userdata
  <2>1. UNCHANGED handler /\ stage = "userdata"
        /\ \/ stage' \in {"join", "ud_open"} /\ UNCHANGED call
           \/ stage' = "bootcmd" /\ call' = [call EXCEPT !["main"] = "ib_enter"]
    BY <1>5 DEF process_userdata, userdata_process_file, Goto
  <2> QED
    BY <1>0, <2>1 DEF OneSaver, Saves, Saving, Asks
<1>6. CASE \E f \in IdFiles,
              from, to, next \in Stages \ {"off", "uuid", "first_boot", "bootcmd", "metadata", "retry"} :
              record_open(from, to, f) \/ record_write(from, to, f) \/ record_fails(from, to, next, f)
  BY <1>6 DEF record_open, record_write, record_fails, OneSaver
<1>7. CASE ucd_start
  <2>1. call = [a \in Threads |-> "none"] /\ handler = [h \in Handlers |-> "none"]
    BY <1>7 DEF ucd_start, Off, Fresh
  <2>2. CASE start_datasource
    BY <1>0, <2>1, <2>2 DEF start_datasource, Goto, OneSaver, Saves, Saving, Asks
  <2>3. CASE start_datasource_fails \/ start_metadata_file
    BY <1>0, <2>1, <2>3 DEF start_datasource_fails, start_metadata_file, OneSaver, Saves, Saving, Asks
  <2> QED
    BY <1>7, <2>2, <2>3 DEF ucd_start
<1>8. CASE ucd_end \/ Crash
  <2>1. call' = [a \in Threads |-> "none"] /\ handler' = [h \in Handlers |-> "none"]
    BY <1>8 DEF ucd_end, Crash, Gone, Fresh
  <2> QED
    BY <1>0, <2>1 DEF OneSaver, Saves, Saving, Asks
<1>9. CASE Reboot \/ UNCHANGED vars
  BY <1>9 DEF Reboot, vars, OneSaver
<1> QED
  BY <1>1, <1>2, <1>3, <1>4, <1>5, <1>6, <1>7, <1>8, <1>9 DEF Next, BoundReached, Stages, IdFiles

THEOREM OneSaverAlways == Spec => []OneSaver
BY OneSaverInit, OneSaverStep, TypesAlways, OffAlways, PTL DEF Spec

LEMMA HasReasonStep ==
    Types /\ Off /\ OneSaver /\ HasReason /\ [Next]_vars => HasReason'
<1> SUFFICES ASSUME Types, Off, OneSaver, HasReason, [Next]_vars PROVE HasReason'
  OBVIOUS
<1>0. /\ call \in [Threads -> Calls] /\ Threads = {"main", "uuid", "hostname"}
      /\ Handlers = {"uuid", "hostname"} /\ DOMAIN bootId = Threads
      /\ DOMAIN file = IdFiles \cup {"instance_id"} /\ "instance_id" \notin IdFiles
      /\ "first_boot_id" \in IdFiles
      /\ Nobody \notin Threads /\ Absent # instance /\ Empty # instance
      /\ get_boot_id \in BootIds
  BY ContentsAssumption, BootIdType
  DEF Types, MachineTypes, ProcessTypes, FileTypes, Threads, Handlers, IdFiles
<1> USE DEF Saving, Asks
<1>1. ASSUME NEW a \in Threads,
             \/ save_instance_id_check(a) \/ save_instance_id_open(a)
             \/ save_instance_id_write(a) \/ save_instance_id_fails(a)
             \/ save_instance_id_remove(a)
      PROVE  HasReason'
  <2>1. UNCHANGED <<instance, lock, cacheFirst, bootId>> /\ call[a] \in Saves
    BY <1>1
    DEF save_instance_id_check, save_instance_id_open, save_instance_id_write,
        save_instance_id_fails, save_instance_id_remove, Saves
  <2>2. \A b \in Threads : b # a => call[b] \notin Saves
    BY <1>0, <2>1 DEF OneSaver
  <2>3. \A b \in Threads : b # a => call'[b] = call[b]
    BY <1>0, <1>1
    DEF save_instance_id_check, save_instance_id_open, save_instance_id_write,
        save_instance_id_fails, save_instance_id_remove, Goto
  <2>4. call'[a] \notin Asks
    BY <1>0, <1>1
    DEF save_instance_id_check, save_instance_id_open, save_instance_id_write,
        save_instance_id_fails, save_instance_id_remove, Goto
  <2>5. /\ call'[a] \in Saving \ {"si_check"} => file'["instance_id"] # instance
        /\ call'[a] = "si_remove" => file'["instance_id"] = instance
    <3>1. CASE save_instance_id_check(a)
      BY <1>0, <3>1 DEF save_instance_id_check, Goto
    <3>2. CASE save_instance_id_open(a)
      BY <1>0, <3>2 DEF save_instance_id_open, Goto, Write
    <3>3. CASE \/ save_instance_id_write(a) \/ save_instance_id_fails(a)
               \/ save_instance_id_remove(a)
      BY <1>0, <3>3
      DEF save_instance_id_write, save_instance_id_fails, save_instance_id_remove, Goto, Write
    <3> QED
      BY <1>1, <3>1, <3>2, <3>3
  <2> QED
    BY <1>0, <2>1, <2>2, <2>3, <2>4, <2>5 DEF HasReason, Saves
<1>2. ASSUME NEW a \in Threads,
             \/ is_first_boot_enter(a) \/ is_first_boot_open(a)
             \/ is_first_boot_write(a) \/ is_first_boot_fails(a) \/ is_first_boot_return(a)
      PROVE  HasReason'
  <2>1. file'["instance_id"] = file["instance_id"] /\ UNCHANGED instance
    BY <1>0, <1>2
    DEF is_first_boot_enter, is_first_boot_open, is_first_boot_write, is_first_boot_fails,
        is_first_boot_return, Write
  <2>2. \A b \in Threads : b # a => call'[b] = call[b] /\ bootId'[b] = bootId[b]
    BY <1>0, <1>2
    DEF is_first_boot_enter, is_first_boot_open, is_first_boot_write, is_first_boot_fails,
        is_first_boot_return, Goto
  <2>3. call'[a] \in Asks \cup {"none"}
    BY <1>0, <1>2
    DEF is_first_boot_enter, is_first_boot_open, is_first_boot_write, is_first_boot_fails,
        is_first_boot_return, Goto
  <2>4. \A b \in Threads : b # a => call[b] \notin Asks \ {"ib_enter"}
    <3>1. lock = Nobody \/ lock = a
      BY <1>2
      DEF is_first_boot_enter, is_first_boot_open, is_first_boot_write, is_first_boot_fails,
          is_first_boot_return, HasReason
    <3> QED
      BY <1>0, <3>1 DEF HasReason
  <2>5. call'[a] \in Asks \ {"ib_enter"} => lock' = a
    BY <1>0, <1>2
    DEF is_first_boot_enter, is_first_boot_open, is_first_boot_write, is_first_boot_fails,
        is_first_boot_return, Goto, HasReason
  <2>6. call'[a] \in {"ib_open", "ib_write"} => cacheFirst' = "yes" /\ bootId'[a] \in BootIds
    <3>1. CASE is_first_boot_enter(a)
      BY <1>0, <3>1 DEF is_first_boot_enter, Goto
    <3>2. CASE is_first_boot_open(a)
      BY <1>0, <3>2 DEF is_first_boot_open, Goto, HasReason
    <3>3. CASE is_first_boot_write(a) \/ is_first_boot_fails(a) \/ is_first_boot_return(a)
      BY <1>0, <3>3 DEF is_first_boot_write, is_first_boot_fails, is_first_boot_return, Goto
    <3> QED
      BY <1>2, <3>1, <3>2, <3>3
  <2> QED
    BY <1>0, <2>1, <2>2, <2>3, <2>4, <2>5, <2>6 DEF HasReason
<1>3. ASSUME UNCHANGED <<file, instance, lock, cacheFirst, bootId>>,
             \A a \in Threads : call'[a] = call[a] \/ call'[a] \in {"none", "si_check", "ib_enter"}
      PROVE  HasReason'
  BY <1>0, <1>3 DEF HasReason
<1>4. CASE \/ main_ask_first_boot \/ main_setup \/ bootcmd_return \/ process_metadata
           \/ process_userdata \/ \E h \in Handlers : handler_start(h) \/ handler_done(h)
  BY <1>0, <1>3, <1>4
  DEF main_ask_first_boot, main_setup, bootcmd_return, process_metadata, process_userdata,
      userdata_process_file, handler_start, handler_done, Goto
<1>5. CASE ucd_start
  BY <1>0, <1>3, <1>5 DEF ucd_start, start_datasource, start_datasource_fails, start_metadata_file, Goto
<1>6. CASE \E f \in IdFiles, from, to, next \in Stages \ {"first_boot", "bootcmd"} :
              record_open(from, to, f) \/ record_write(from, to, f) \/ record_fails(from, to, next, f)
  <2>1. UNCHANGED <<instance, lock, cacheFirst, call>> /\ stage \notin {"first_boot", "bootcmd"}
    BY <1>6 DEF record_open, record_write, record_fails
  <2>2. file'["instance_id"] = file["instance_id"]
    BY <1>0, <1>6 DEF record_open, record_write, record_fails, Write
  <2>3. \A b \in Threads : b # "main" => bootId'[b] = bootId[b]
    BY <1>0, <1>6 DEF record_open, record_write, record_fails
  <2>4. call["main"] \notin {"ib_open", "ib_write"}
    BY <2>1 DEF OneSaver
  <2> QED
    BY <1>0, <2>1, <2>2, <2>3, <2>4 DEF HasReason
<1>7. CASE ucd_end \/ Crash
  <2>1. UNCHANGED <<instance, file>> /\ call' = [a \in Threads |-> "none"]
    BY <1>7 DEF ucd_end, Crash, Gone, Fresh, machine
  <2>2. \A a \in Threads : call'[a] \notin Saving \cup {"si_remove"} \cup Asks
    BY <2>1 DEF Saving, Asks
  <2> QED
    BY <2>2 DEF HasReason, Asks
<1>8. CASE Reboot
  BY <1>0, <1>8 DEF Reboot, Off, Fresh, HasReason
<1>9. CASE UNCHANGED vars
  BY <1>9 DEF vars, HasReason
<1> QED
  BY <1>1, <1>2, <1>4, <1>5, <1>6, <1>7, <1>8, <1>9 DEF Next, BoundReached, LibStep, Stages, IdFiles

THEOREM HasReasonAlways == Spec => []HasReason
BY OneSaverInit, HasReasonStep, OneSaverAlways, TypesAlways, OffAlways, PTL DEF Spec

-----------------------------------------------------------------------------
(* One first boot per instance.                                            *)

LEMMA CountType ==
    ASSUME FaultTypes, NEW K
    PROVE  Count(K) \in Nat
<1> DEFINE S == {n \in DOMAIN faults : faults[n] \in K}
<1>1. S \subseteq 1..Len(faults) /\ 1 \in Int /\ Len(faults) \in Int
  BY DEF FaultTypes
<1> HIDE DEF S
<1>2. IsFiniteSet(S)
  BY <1>1, FS_Interval, FS_Subset
<1>3. Cardinality(S) \in Nat
  BY <1>2, FS_CardinalityType
<1> QED
  BY <1>3 DEF S, Count

(* One more fault counts as one, or not at all. *)
LEMMA CountGrows ==
    ASSUME FaultTypes, NEW K, NEW f, Fail(f)
    PROVE  Count(K)' = IF f \in K THEN Count(K) + 1 ELSE Count(K)
<1> DEFINE S == {n \in DOMAIN faults : faults[n] \in K}
           T == {n \in DOMAIN faults' : faults'[n] \in K}
<1>1. /\ faults' = Append(faults, f) /\ faults \in Seq(Faults) /\ Len(faults) \in Nat
      /\ DOMAIN faults = 1..Len(faults)
  BY DEF Fail, FaultTypes
<1>2. /\ DOMAIN faults' = 1..(Len(faults) + 1) /\ faults'[Len(faults) + 1] = f
      /\ \A n \in 1..Len(faults) : faults'[n] = faults[n]
  BY <1>1
<1>3. IsFiniteSet(S) /\ Len(faults) + 1 \notin S
  <2>1. S \subseteq 1..Len(faults) /\ 1 \in Int /\ Len(faults) \in Int
    BY <1>1
  <2>2. Len(faults) + 1 \notin 1..Len(faults)
    BY <1>1
  <2> HIDE DEF S
  <2> QED
    BY <2>1, <2>2, FS_Interval, FS_Subset
<1>4. T = IF f \in K THEN S \cup {Len(faults) + 1} ELSE S
  BY <1>1, <1>2
<1>5. Count(K) = Cardinality(S) /\ Count(K)' = Cardinality(T)
  BY DEF Count
<1> HIDE DEF S, T
<1>6. Cardinality(S \cup {Len(faults) + 1}) = Cardinality(S) + 1
  BY <1>3, FS_AddElement
<1> QED
  BY <1>4, <1>5, <1>6

LostIds == Count({"instance_id", "first_boot_id"})

LEMMA LostIdsStep ==
    ASSUME FaultTypes
    PROVE  /\ LostIds \in Nat
           /\ UNCHANGED faults => LostIds' = LostIds
           /\ \A f : Fail(f) =>
                 LostIds' = IF f \in {"instance_id", "first_boot_id"} THEN LostIds + 1 ELSE LostIds
<1>1. LostIds \in Nat
  BY CountType DEF LostIds
<1>2. UNCHANGED faults => LostIds' = LostIds
  BY DEF LostIds, Count
<1>3. ASSUME NEW f, Fail(f)
      PROVE  LostIds' = IF f \in {"instance_id", "first_boot_id"} THEN LostIds + 1 ELSE LostIds
  BY <1>3, CountGrows DEF LostIds
<1> QED
  BY <1>1, <1>2, <1>3

FirstBootsOf(i) == Cardinality(firstBoots[i])

(* Answering yes in this boot adds it to the first boots of the instance. *)
New == boot \notin firstBoots[instance]

(* What may yet lead to another first boot of this instance. *)
Recur ==
    \/ file["instance_id"] # instance
    \/ file["first_boot_id"] = Absent
    \/ RecordedThisBoot("first_boot_id") /\ New
    \/ \E a \in Threads : call[a] = "si_remove"
    \/ cacheFirst = "yes" /\ New

AboutToAsk ==
    \/ stage = "uuid" /\ call["main"] = "none"
    \/ stage = "first_boot" /\ call["main"] # "none"

AboutToAnswer == stage = "first_boot" /\ call["main"] = "ib_return"

(* Whatever may lead to another first boot has been paid for: there has been
   none, or an id was lost.  Once more where main() is about to take this boot
   for a first one and will find itself in the same situation again. *)
Paid ==
    /\ \A i \in Instances : FirstBootsOf(i) <= LostIds + 1
    /\ \A i \in Instances : i > instance => firstBoots[i] = {}
    /\ Recur => FirstBootsOf(instance) <= LostIds
    /\ AboutToAsk /\ file["instance_id"] # instance => FirstBootsOf(instance) + 1 <= LostIds
    /\ AboutToAnswer /\ file["first_boot_id"] = Absent => FirstBootsOf(instance) + 1 <= LostIds

LEMMA FirstBootsType ==
    ASSUME Types
    PROVE  \A i \in Instances : /\ FirstBootsOf(i) \in Nat
                                /\ firstBoots[i] = {} => FirstBootsOf(i) = 0
                                /\ FirstBootsOf(i) = 0 => firstBoots[i] = {}
<1> SUFFICES ASSUME NEW i \in Instances
             PROVE  /\ FirstBootsOf(i) \in Nat
                    /\ firstBoots[i] = {} <=> FirstBootsOf(i) = 0
  OBVIOUS
<1>1. firstBoots[i] \subseteq 1..MaxBoot /\ 1 \in Int /\ MaxBoot \in Int
  BY BoundsAssumption DEF Types, HistoryTypes, Boots
<1>2. IsFiniteSet(firstBoots[i])
  BY <1>1, FS_Interval, FS_Subset
<1> QED
  BY <1>2, FS_CardinalityType, FS_EmptySet DEF FirstBootsOf

LEMMA PaidInit == Init => Paid
<1> SUFFICES ASSUME Init PROVE Paid
  OBVIOUS
<1>1. Types /\ \A i \in Instances : firstBoots[i] = {}
  BY InitTypes DEF Init
<1>2. \A i \in Instances : FirstBootsOf(i) = 0
  BY <1>1, FirstBootsType
<1>3. LostIds \in Nat /\ instance \in Instances
  BY <1>1, LostIdsStep DEF Types, MachineTypes
<1>4. stage = "off"
  BY DEF Init, Fresh
<1> QED
  BY <1>1, <1>2, <1>3, <1>4 DEF Paid, AboutToAsk, AboutToAnswer

(* Steps that neither ask nor save leave everything as it was, or the process
   is gone. *)
LEMMA PaidKept ==
    ASSUME Types, Paid, UNCHANGED <<boot, instance, firstBoots>>,
           LostIds' = LostIds,
           \/ cacheFirst' # "yes" \/ UNCHANGED cacheFirst,
           file'["instance_id"] = file["instance_id"],
           file'["first_boot_id"] = file["first_boot_id"],
           \A a \in Threads : call'[a] = "si_remove" => call[a] = "si_remove",
           \/ stage' \notin {"uuid", "first_boot"}
           \/ stage' = "uuid" /\ call'["main"] # "none"
           \/ stage' = "first_boot" /\ call'["main"] = "none"
           \/ stage = "uuid" /\ call["main"] = "none" /\ call'["main"] # "ib_return"
    PROVE  Paid'
<1>1. Recur' => Recur
  BY DEF Recur, RecordedThisBoot, New, Threads, IdFiles
<1>2. instance \in Instances /\ \A i \in Instances : FirstBootsOf(i)' = FirstBootsOf(i)
  BY DEF FirstBootsOf, Types, MachineTypes
<1> QED
  BY <1>1, <1>2 DEF Paid, AboutToAsk, AboutToAnswer

(* Saving the instance id. *)
LEMMA PaidSave ==
    ASSUME Types, OneSaver, HasReason, Paid, NEW a \in Threads,
           \/ save_instance_id_check(a) \/ save_instance_id_open(a)
           \/ save_instance_id_write(a) \/ save_instance_id_fails(a)
           \/ save_instance_id_remove(a)
    PROVE  Paid'
<1>0. /\ call \in [Threads -> Calls] /\ Threads = {"main", "uuid", "hostname"}
      /\ DOMAIN file = IdFiles \cup {"instance_id"} /\ "instance_id" \notin IdFiles
      /\ "first_boot_id" \in IdFiles /\ instance \in Instances
      /\ Absent # Empty /\ Absent # instance /\ Empty # instance
  BY ContentsAssumption
  DEF Types, MachineTypes, ProcessTypes, FileTypes, Threads, Handlers, IdFiles
<1>1. /\ UNCHANGED <<boot, instance, stage, cacheFirst, firstBoots>> /\ call[a] \in Saves
      /\ \A b \in Threads : b # a => call'[b] = call[b]
  BY <1>0
  DEF save_instance_id_check, save_instance_id_open, save_instance_id_write,
      save_instance_id_fails, save_instance_id_remove, Saves, Saving, Goto
<1>2. /\ stage # "first_boot"
      /\ \A b \in Threads : b # a => call[b] \notin Saves
      /\ stage = "uuid" => a = "main"
  BY <1>0, <1>1 DEF OneSaver, Saves, Handlers
<1>3. /\ \A i \in Instances : FirstBootsOf(i)' = FirstBootsOf(i) /\ FirstBootsOf(i) \in Nat
      /\ LostIds \in Nat
  BY <1>1, FirstBootsType, LostIdsStep DEF FirstBootsOf, Types
<1>4. UNCHANGED faults => LostIds' = LostIds
  BY LostIdsStep DEF Types
<1>5. CASE save_instance_id_check(a)
  <2>1. /\ UNCHANGED <<file, faults>>
        /\ call'[a] # "si_remove"
        /\ call'[a] = "none" => file["instance_id"] = instance
    BY <1>0, <1>5 DEF save_instance_id_check, Goto
  <2>2. Recur' => Recur
    <3>1. RecordedThisBoot("first_boot_id")' = RecordedThisBoot("first_boot_id")
      BY <1>1, <2>1 DEF RecordedThisBoot
    <3>2. (\E b \in Threads : call'[b] = "si_remove") => \E b \in Threads : call[b] = "si_remove"
      BY <1>1, <2>1
    <3> QED
      BY <1>1, <2>1, <3>1, <3>2 DEF Recur, New
  <2>3. stage = "uuid" /\ call'["main"] = "none" => file["instance_id"] = instance
    BY <1>2, <2>1
  <2>4. LostIds' = LostIds /\ instance \in Instances
    BY <1>0, <1>4, <2>1
  <2>5. ~AboutToAnswer' /\ (AboutToAsk' => file["instance_id"] = instance)
    BY <1>1, <1>2, <2>3 DEF AboutToAsk, AboutToAnswer
  <2> QED
    BY <1>1, <1>3, <2>1, <2>2, <2>4, <2>5 DEF Paid
<1>6. CASE save_instance_id_open(a)
  <2>1. /\ UNCHANGED faults /\ call'[a] # "none" /\ call[a] \in Saving \ {"si_check"}
    BY <1>0, <1>6 DEF save_instance_id_open, Goto, Saving
  <2>2. FirstBootsOf(instance) <= LostIds
    BY <2>1 DEF HasReason, Paid, Recur
  <2> QED
    BY <1>0, <1>1, <1>2, <1>3, <1>4, <2>1, <2>2 DEF Paid, AboutToAsk, AboutToAnswer
<1>7. CASE save_instance_id_write(a)
  <2>1. /\ UNCHANGED faults /\ file'["instance_id"] = instance
        /\ call[a] \in Saving \ {"si_check"}
    BY <1>0, <1>7 DEF save_instance_id_write, Write, Saving
  <2>2. FirstBootsOf(instance) <= LostIds
    BY <2>1 DEF HasReason, Paid, Recur
  <2> QED
    BY <1>0, <1>1, <1>2, <1>3, <1>4, <2>1, <2>2 DEF Paid, AboutToAsk, AboutToAnswer
<1>8. CASE save_instance_id_fails(a)
  <2>1. Fail("instance_id") /\ call[a] \in Saving \ {"si_check"}
    BY <1>8 DEF save_instance_id_fails, Saving
  <2>2. LostIds' = LostIds + 1
    BY <2>1, LostIdsStep DEF Types
  <2>3. FirstBootsOf(instance) <= LostIds
    BY <2>1 DEF HasReason, Paid, Recur
  <2> QED
    BY <1>0, <1>1, <1>2, <1>3, <2>2, <2>3 DEF Paid, AboutToAsk, AboutToAnswer
<1>9. CASE save_instance_id_remove(a)
  <2>1. /\ UNCHANGED faults /\ call[a] = "si_remove"
        /\ file'["instance_id"] = instance
    BY <1>0, <1>9 DEF save_instance_id_remove, Write, HasReason
  <2>2. FirstBootsOf(instance) <= LostIds
    BY <2>1 DEF Paid, Recur
  <2> QED
    BY <1>0, <1>1, <1>2, <1>3, <1>4, <2>1, <2>2 DEF Paid, AboutToAsk, AboutToAnswer
<1> QED
  BY <1>5, <1>6, <1>7, <1>8, <1>9

(* Asking. *)
LEMMA PaidEnter ==
    ASSUME Types, OneSaver, Paid, NEW a \in Threads, is_first_boot_enter(a)
    PROVE  Paid'
<1>0. /\ call \in [Threads -> Calls] /\ instance \in Instances
      /\ call[a] = "ib_enter" /\ call'[a] \in {"ib_open", "ib_return"}
      /\ call'[a] = "ib_return" => file["first_boot_id"] # Absent
      /\ UNCHANGED <<boot, instance, stage, file, firstBoots, faults>>
      /\ \A b \in Threads : b # a => call'[b] = call[b]
  BY DEF is_first_boot_enter, Goto, Types, ProcessTypes, MachineTypes
<1>1. /\ \A i \in Instances : FirstBootsOf(i)' = FirstBootsOf(i) /\ FirstBootsOf(i) \in Nat
      /\ LostIds \in Nat /\ LostIds' = LostIds
  BY <1>0, FirstBootsType, LostIdsStep DEF FirstBootsOf, Types
<1>2. Recur' => Recur
  <2>1. RecordedThisBoot("first_boot_id")' = RecordedThisBoot("first_boot_id")
    BY <1>0 DEF RecordedThisBoot
  <2>2. (\E b \in Threads : call'[b] = "si_remove") => \E b \in Threads : call[b] = "si_remove"
    BY <1>0
  <2>3. file["first_boot_id"] = get_boot_id => RecordedThisBoot("first_boot_id")
    BY BootIdType DEF RecordedThisBoot, get_boot_id
  <2>4. cacheFirst' = "yes" =>
            \/ cacheFirst = "yes" \/ file["first_boot_id"] = Absent
            \/ file["first_boot_id"] = get_boot_id
    BY DEF is_first_boot_enter
  <2> QED
    BY <1>0, <2>1, <2>2, <2>3, <2>4 DEF Recur, New
<1>3. AboutToAsk' => AboutToAsk
  BY <1>0 DEF AboutToAsk, Threads
<1>4. AboutToAnswer' /\ file'["first_boot_id"] = Absent => AboutToAnswer
  BY <1>0 DEF AboutToAnswer, Threads
<1> QED
  BY <1>0, <1>1, <1>2, <1>3, <1>4 DEF Paid

LEMMA PaidRecord ==
    ASSUME Types, OneSaver, HasReason, Paid, NEW a \in Threads,
           is_first_boot_open(a) \/ is_first_boot_write(a) \/ is_first_boot_fails(a)
    PROVE  Paid'
<1>0. /\ call \in [Threads -> Calls] /\ instance \in Instances
      /\ call[a] \in {"ib_open", "ib_write"} /\ call'[a] \in {"ib_write", "ib_return"}
      /\ UNCHANGED <<boot, instance, stage, firstBoots, cacheFirst>>
      /\ \A b \in Threads : b # a => call'[b] = call[b]
      /\ DOMAIN file = IdFiles \cup {"instance_id"} /\ "instance_id" \notin IdFiles
      /\ "first_boot_id" \in IdFiles
      /\ Absent # Empty /\ Absent \notin BootIds /\ Empty \notin BootIds
  BY ContentsAssumption
  DEF is_first_boot_open, is_first_boot_write, is_first_boot_fails, Goto, Types, ProcessTypes,
      FileTypes, MachineTypes, IdFiles
<1>1. /\ \A i \in Instances : FirstBootsOf(i)' = FirstBootsOf(i) /\ FirstBootsOf(i) \in Nat
      /\ LostIds \in Nat
  BY <1>0, FirstBootsType, LostIdsStep DEF FirstBootsOf, Types
<1>2. cacheFirst = "yes" /\ bootId[a] \in BootIds
  BY <1>0 DEF HasReason
<1>3. file'["instance_id"] = file["instance_id"]
      /\ file'["first_boot_id"] \in {file["first_boot_id"], Empty, bootId[a]}
  BY <1>0 DEF is_first_boot_open, is_first_boot_write, is_first_boot_fails, Write
<1>4. Recur' => Recur
  <2>1. (\E b \in Threads : call'[b] = "si_remove") => \E b \in Threads : call[b] = "si_remove"
    BY <1>0
  <2>2. file'["first_boot_id"] = Absent => file["first_boot_id"] = Absent
    BY <1>0, <1>2, <1>3
  <2> QED
    BY <1>0, <1>2, <1>3, <2>1, <2>2 DEF Recur, New
<1>5. AboutToAsk' => AboutToAsk
  BY <1>0 DEF AboutToAsk, Threads
<1>6. CASE is_first_boot_open(a) \/ is_first_boot_write(a)
  <2>1. UNCHANGED faults /\ file'["first_boot_id"] # Absent
    BY <1>0, <1>2, <1>6 DEF is_first_boot_open, is_first_boot_write, Write
  <2>2. LostIds' = LostIds
    BY <2>1, LostIdsStep DEF Types
  <2> QED
    BY <1>0, <1>1, <1>3, <1>4, <1>5, <2>1, <2>2 DEF Paid
<1>7. CASE is_first_boot_fails(a)
  <2>1. LostIds' = LostIds + 1
    BY <1>7, LostIdsStep DEF is_first_boot_fails, Types
  <2>2. file'["first_boot_id"] = Absent => FirstBootsOf(instance) <= LostIds
    BY <1>0, <1>2, <1>3 DEF Paid, Recur
  <2>3. file'["instance_id"] # instance => FirstBootsOf(instance) <= LostIds
    BY <1>3 DEF Paid, Recur
  <2> QED
    BY <1>0, <1>1, <1>3, <1>4, <2>1, <2>2, <2>3 DEF Paid
<1> QED
  BY <1>6, <1>7

LEMMA PaidReturn ==
    ASSUME Types, OneSaver, Paid, NEW a \in Threads, is_first_boot_return(a)
    PROVE  Paid'
<1>0. /\ call \in [Threads -> Calls] /\ instance \in Instances /\ boot \in Boots
      /\ call[a] = "ib_return" /\ call'[a] = "none"
      /\ UNCHANGED <<boot, instance, stage, file, cacheFirst, faults>>
      /\ \A b \in Threads : b # a => call'[b] = call[b]
      /\ firstBoots \in [Instances -> SUBSET Boots]
  BY DEF is_first_boot_return, Goto, Types, ProcessTypes, MachineTypes, HistoryTypes
<1>1. /\ LostIds \in Nat /\ LostIds' = LostIds
      /\ \A i \in Instances : FirstBootsOf(i) \in Nat
  BY <1>0, FirstBootsType, LostIdsStep DEF Types
<1>2. RecordedThisBoot("first_boot_id")' = RecordedThisBoot("first_boot_id")
  BY <1>0 DEF RecordedThisBoot
<1>3. (\E b \in Threads : call'[b] = "si_remove") => \E b \in Threads : call[b] = "si_remove"
  BY <1>0
<1>4. ~AboutToAnswer' /\ (AboutToAsk' => AboutToAsk)
  BY <1>0 DEF AboutToAsk, AboutToAnswer, OneSaver, Asks, Threads
<1>5. CASE UNCHANGED firstBoots
  <2>1. Recur' => Recur
    BY <1>0, <1>2, <1>3, <1>5 DEF Recur, New
  <2>2. \A i \in Instances : FirstBootsOf(i)' = FirstBootsOf(i)
    BY <1>5 DEF FirstBootsOf
  <2> QED
    BY <1>0, <1>1, <1>4, <1>5, <2>1, <2>2 DEF Paid
<1>6. CASE /\ a = "main" /\ stage = "first_boot" /\ cacheFirst = "yes"
           /\ firstBoots' = [firstBoots EXCEPT ![instance] = @ \cup {boot}]
  <2>1. /\ firstBoots'[instance] = firstBoots[instance] \cup {boot}
        /\ \A i \in Instances : i # instance => firstBoots'[i] = firstBoots[i]
    BY <1>0, <1>6
  <2>2. FirstBootsOf(instance)' = IF New THEN FirstBootsOf(instance) + 1 ELSE FirstBootsOf(instance)
    <3>1. firstBoots[instance] \subseteq 1..MaxBoot /\ 1 \in Int /\ MaxBoot \in Int
      BY <1>0, BoundsAssumption DEF Boots
    <3>2. IsFiniteSet(firstBoots[instance])
      BY <3>1, FS_Interval, FS_Subset
    <3>3. New => Cardinality(firstBoots[instance] \cup {boot}) = Cardinality(firstBoots[instance]) + 1
      BY <3>2, FS_AddElement DEF New
    <3>4. ~New => firstBoots[instance] \cup {boot} = firstBoots[instance]
      BY DEF New
    <3>5. FirstBootsOf(instance)' = Cardinality(firstBoots[instance] \cup {boot})
      BY <1>0, <2>1 DEF FirstBootsOf
    <3> QED
      BY <3>3, <3>4, <3>5 DEF FirstBootsOf
  <2>3. \A i \in Instances : i # instance => FirstBootsOf(i)' = FirstBootsOf(i)
    BY <2>1 DEF FirstBootsOf
  <2>4. ~New'
    BY <1>0, <2>1 DEF New
  <2>5. FirstBootsOf(instance)' <= LostIds + 1
    BY <1>0, <1>1, <1>6, <2>2 DEF Paid, Recur
  <2>6. AboutToAsk /\ AboutToAnswer /\ ~AboutToAsk'
    BY <1>0, <1>6 DEF AboutToAsk, AboutToAnswer
  <2>7. \A b \in Threads : call[b] # "si_remove"
    BY <1>0, <1>6 DEF OneSaver, Saves, Threads, Handlers
  <2>8. Recur' => FirstBootsOf(instance)' <= LostIds
    <3>1. Recur' => file["instance_id"] # instance \/ file["first_boot_id"] = Absent
      BY <1>0, <1>3, <2>4, <2>7 DEF Recur
    <3>2. Recur' => FirstBootsOf(instance) + 1 <= LostIds
      BY <2>6, <3>1 DEF Paid
    <3> QED
      BY <1>0, <1>1, <2>2, <3>2
  <2>9. \A i \in Instances : i > instance => firstBoots'[i] = {}
    <3>1. instance \in Nat
      BY <1>0 DEF Instances
    <3> QED
      BY <2>1, <3>1 DEF Paid, Instances
  <2> QED
    BY <1>0, <1>1, <1>4, <2>3, <2>5, <2>6, <2>8, <2>9 DEF Paid
<1> QED
  BY <1>5, <1>6 DEF is_first_boot_return

LEMMA PaidStep ==
    Types /\ Off /\ IdsOfTheirBoot /\ OneSaver /\ HasReason /\ Paid /\ [Next]_vars => Paid'
<1> SUFFICES ASSUME Types, Off, IdsOfTheirBoot, OneSaver, HasReason, Paid, [Next]_vars
             PROVE  Paid'
  OBVIOUS
<1>0. /\ call \in [Threads -> Calls] /\ Threads = {"main", "uuid", "hostname"}
      /\ Handlers = {"uuid", "hostname"}
      /\ DOMAIN file = IdFiles \cup {"instance_id"} /\ "instance_id" \notin IdFiles
      /\ "first_boot_id" \in IdFiles /\ instance \in Instances
  BY DEF Types, MachineTypes, ProcessTypes, FileTypes, Threads, Handlers, IdFiles
<1>1. UNCHANGED faults => LostIds' = LostIds
  BY LostIdsStep DEF Types
<1>2. CASE \E a \in Threads : LibStep(a)
  BY <1>2, PaidSave, PaidEnter, PaidRecord, PaidReturn DEF LibStep
<1>3. CASE main_ask_first_boot \/ main_setup \/ bootcmd_return
  <2>1. UNCHANGED <<boot, instance, firstBoots, faults, cacheFirst, file>>
    BY <1>3 DEF main_ask_first_boot, main_setup, bootcmd_return
  <2>2. \A a \in Threads : call'[a] = "si_remove" => call[a] = "si_remove"
    BY <1>0, <1>3 DEF main_ask_first_boot, main_setup, bootcmd_return, Goto
  <2>3. \/ stage' \notin {"uuid", "first_boot"}
        \/ stage = "uuid" /\ call["main"] = "none" /\ call'["main"] # "ib_return"
    BY <1>0, <1>3 DEF main_ask_first_boot, main_setup, bootcmd_return, Goto
  <2> QED
    BY <1>1, <2>1, <2>2, <2>3, PaidKept
<1>4. CASE process_metadata \/ process_userdata
  <2>1. UNCHANGED <<boot, instance, firstBoots, faults, cacheFirst, file>>
        /\ stage' \notin {"uuid", "first_boot"}
    BY <1>4 DEF process_metadata, process_userdata, userdata_process_file
  <2>2. \A a \in Threads : call'[a] = "si_remove" => call[a] = "si_remove"
    BY <1>0, <1>4 DEF process_metadata, process_userdata, userdata_process_file, Goto
  <2> QED
    BY <1>1, <2>1, <2>2, PaidKept
<1>5. ASSUME NEW h \in Handlers, handler_start(h) \/ handler_done(h) PROVE Paid'
  <2>1. UNCHANGED <<boot, instance, firstBoots, faults, cacheFirst, file, stage>>
        /\ stage \notin {"uuid", "first_boot"}
    BY <1>5 DEF handler_start, handler_done, OneSaver
  <2>2. \A a \in Threads : call'[a] = "si_remove" => call[a] = "si_remove"
    BY <1>0, <1>5 DEF handler_start, handler_done, Goto
  <2> QED
    BY <1>1, <2>1, <2>2, PaidKept
<1>6. CASE \E f \in IdFiles \ {"first_boot_id"},
              from, to, next \in Stages \ {"uuid", "first_boot"} :
              record_open(from, to, f) \/ record_write(from, to, f) \/ record_fails(from, to, next, f)
  <2>1. UNCHANGED <<boot, instance, firstBoots, cacheFirst, call>>
        /\ stage' \notin {"uuid", "first_boot"}
    BY <1>6 DEF record_open, record_write, record_fails
  <2>2. /\ file'["instance_id"] = file["instance_id"]
        /\ file'["first_boot_id"] = file["first_boot_id"]
    BY <1>0, <1>6 DEF record_open, record_write, record_fails, Write
  <2>3. LostIds' = LostIds
    <3>1. UNCHANGED faults \/ \E f \in IdFiles \ {"first_boot_id"} : Fail(f)
      BY <1>6 DEF record_open, record_write, record_fails
    <3> QED
      BY <1>1, <3>1, LostIdsStep DEF Types, IdFiles
  <2> QED
    BY <2>1, <2>2, <2>3, PaidKept
<1>7. CASE ucd_start
  <2>1. /\ UNCHANGED <<boot, instance, firstBoots, cacheFirst, file>>
        /\ \A a \in Threads : call[a] = "none"
    BY <1>7 DEF ucd_start, Off, Fresh
  <2>2. /\ \A a \in Threads : call'[a] \in {"none", "si_check"}
        /\ \/ stage' \notin {"uuid", "first_boot"}
           \/ stage' = "uuid" /\ call'["main"] # "none"
    BY <1>0, <1>7, <2>1 DEF ucd_start, start_datasource, start_datasource_fails,
                            start_metadata_file, Goto
  <2>3. LostIds' = LostIds
    <3>1. UNCHANGED faults \/ Fail("start")
      BY <1>7 DEF ucd_start, start_datasource, start_datasource_fails, start_metadata_file
    <3> QED
      BY <1>1, <3>1, LostIdsStep DEF Types
  <2> QED
    BY <2>1, <2>2, <2>3, PaidKept
<1>8. CASE ucd_end \/ Crash
  <2>1. /\ UNCHANGED <<boot, instance, firstBoots, file>>
        /\ cacheFirst' # "yes" /\ stage' = "off" /\ \A a \in Threads : call'[a] = "none"
    BY <1>8 DEF ucd_end, Crash, Gone, Fresh
  <2>2. LostIds' = LostIds
    <3>1. UNCHANGED faults \/ Fail("kill")
      BY <1>8 DEF ucd_end, Crash
    <3> QED
      BY <1>1, <3>1, LostIdsStep DEF Types
  <2> QED
    BY <2>1, <2>2, PaidKept
<1>9. CASE Reboot
  <2>1. /\ stage = "off" /\ boot' = boot + 1 /\ instance' \in Instances /\ instance' >= instance
        /\ UNCHANGED <<file, process, history>>
    BY <1>9 DEF Reboot
  <2>2. cacheFirst # "yes" /\ \A a \in Threads : call[a] = "none"
    BY <2>1 DEF Off, Fresh
  <2>3. ~RecordedThisBoot("first_boot_id")'
    <3>1. \A id \in BootIds : id.boot \in Nat
      BY DEF BootIds, Boots
    <3>2. boot \in Nat
      BY DEF Types, MachineTypes, Boots
    <3> QED
      BY <1>0, <2>1, <3>1, <3>2 DEF IdsOfTheirBoot, RecordedThisBoot
  <2>4. /\ \A i \in Instances : FirstBootsOf(i)' = FirstBootsOf(i) /\ FirstBootsOf(i) \in Nat
        /\ LostIds \in Nat /\ LostIds' = LostIds
        /\ \A i \in Instances : firstBoots[i] = {} => FirstBootsOf(i) = 0
    BY <1>1, <2>1, FirstBootsType, LostIdsStep DEF FirstBootsOf, Types
  <2>5. ~AboutToAsk' /\ ~AboutToAnswer'
    BY <2>1 DEF AboutToAsk, AboutToAnswer
  <2>6. Recur' => FirstBootsOf(instance)' <= LostIds
    <3>1. CASE instance' = instance
      <4>1. Recur' => Recur
        BY <2>1, <2>2, <2>3, <3>1 DEF Recur
      <4>2. FirstBootsOf(instance)' = FirstBootsOf(instance)
        BY <2>1, <3>1 DEF FirstBootsOf
      <4> QED
        BY <4>1, <4>2 DEF Paid
    <3>2. CASE instance' # instance
      <4>1. firstBoots[instance'] = {}
        BY <1>0, <2>1, <3>2 DEF Paid, Instances
      <4>2. FirstBootsOf(instance)' = Cardinality(firstBoots[instance'])
        BY <2>1 DEF FirstBootsOf
      <4> QED
        <5>1. Cardinality(firstBoots[instance']) = 0
          BY <2>1, <2>4, <4>1 DEF FirstBootsOf
        <5> QED
          BY <2>4, <4>2, <5>1
    <3> QED
      BY <3>1, <3>2
  <2>7. \A i \in Instances : i > instance' => i > instance
    BY <1>0, <2>1 DEF Instances
  <2> QED
    BY <2>1, <2>4, <2>5, <2>6, <2>7 DEF Paid
<1>10. CASE UNCHANGED vars
  <2>1. UNCHANGED <<boot, instance, firstBoots, cacheFirst, file, faults, stage, call>>
    BY <1>10 DEF vars
  <2>2. LostIds' = LostIds /\ \A i \in Instances : FirstBootsOf(i)' = FirstBootsOf(i)
    BY <1>1, <2>1 DEF FirstBootsOf
  <2>3. Recur' = Recur /\ AboutToAsk' = AboutToAsk /\ AboutToAnswer' = AboutToAnswer
    BY <2>1 DEF Recur, RecordedThisBoot, New, AboutToAsk, AboutToAnswer
  <2> QED
    BY <1>0, <2>1, <2>2, <2>3 DEF Paid
<1> QED
  BY <1>2, <1>3, <1>4, <1>5, <1>6, <1>7, <1>8, <1>9, <1>10 DEF Next, BoundReached, Stages, IdFiles

(* An instance has one first boot, and one more at most for each time that
   its id or that of its first boot was lost, whatever happens to ucd and
   however often the machine is started. *)
THEOREM OneFirstBoot == Spec => []FirstBootOncePerInstance
<1>1. Spec => []Paid
  BY PaidInit, PaidStep, TypesAlways, OffAlways, IdsAlways, OneSaverAlways, HasReasonAlways, PTL
  DEF Spec
<1>2. Types /\ Paid => FirstBootOncePerInstance
  <2> SUFFICES ASSUME Types, Paid, NEW i \in Instances
               PROVE  Cardinality(firstBoots[i]) <= 1 + Count({"instance_id", "first_boot_id"})
    BY DEF FirstBootOncePerInstance
  <2>1. FirstBootsOf(i) \in Nat /\ LostIds \in Nat
    BY FirstBootsType, LostIdsStep DEF Types
  <2> QED
    BY <2>1 DEF Paid, FirstBootsOf, LostIds
<1> QED
  BY <1>1, <1>2, TypesAlways, PTL

-----------------------------------------------------------------------------
(***************************************************************************)
(* Several runs of ucd in a boot and several boots of an instance: they    *)
(* agree on whether this is the first boot, an instance is set up, and     *)
(* nothing recorded is done again.                                         *)
(***************************************************************************)

ThisBoot(cut) == [boot |-> boot, cut |-> cut]

-----------------------------------------------------------------------------
(* In which form the id of the boot is recorded.                           *)

(* Whoever has asked for the first boot uses the shortened id from then on,
   and main() has asked before it records metadata, unless the datasource did
   not start, and in any case before it records user data. *)
CutForm ==
    /\ cacheFirst # "unset" => cacheBootId = TRUE
    /\ firstBoot = TRUE => cacheFirst = "yes"
    /\ \A a \in Threads : call[a] \in Asks \ {"ib_enter"} => cacheFirst # "unset"
    /\ stage = "first_boot" /\ call["main"] # "ib_enter" => cacheFirst # "unset"
    /\ stage = "metadata" => cacheFirst # "unset"
    /\ stage \in {"bootcmd", "ud_open", "ud_write"} => firstBoot = TRUE
    /\ Free({"start"}) =>
           /\ stage # "retry"
           /\ stage \in {"md_open", "md_write"} => cacheBootId = TRUE
           /\ stage = "md_write" => bootId["main"] = ThisBoot(TRUE)
           /\ file["metadata_id"] \in BootIds => file["metadata_id"].cut = TRUE
    /\ stage = "ud_write" => bootId["main"] = ThisBoot(TRUE)
    /\ file["user_data_id"] \in BootIds => file["user_data_id"].cut = TRUE

(* What every step of the functions of lib.c leaves alone. *)
LEMMA LibFrame ==
    ASSUME Types, NEW a \in Threads, LibStep(a)
    PROVE  /\ UNCHANGED <<boot, instance, runs, mode, stage, handler>>
           /\ UNCHANGED <<applied, completed, attempts, mixed>>
           /\ file'["metadata_id"] = file["metadata_id"]
           /\ file'["user_data_id"] = file["user_data_id"]
           /\ \A b \in Threads : b # a => call'[b] = call[b] /\ bootId'[b] = bootId[b]
           /\ cacheBootId = TRUE => cacheBootId' = TRUE
           /\ cacheFirst # "unset" => cacheFirst' # "unset"
           /\ call[a] \in Saves => UNCHANGED <<bootId, lock, cacheFirst, cacheBootId, firstBoot>>
<1>0. /\ DOMAIN file = IdFiles \cup {"instance_id"} /\ "instance_id" \notin IdFiles
      /\ IdFiles = {"first_boot_id", "metadata_id", "user_data_id"}
      /\ DOMAIN call = Threads /\ DOMAIN bootId = Threads
  BY DEF Types, FileTypes, ProcessTypes, IdFiles
<1>1. CASE \/ save_instance_id_check(a) \/ save_instance_id_open(a)
           \/ save_instance_id_write(a) \/ save_instance_id_fails(a)
           \/ save_instance_id_remove(a)
  BY <1>0, <1>1
  DEF save_instance_id_check, save_instance_id_open, save_instance_id_write,
      save_instance_id_fails, save_instance_id_remove, Goto, Write
<1>2. CASE is_first_boot_enter(a) \/ is_first_boot_return(a)
  BY <1>0, <1>2 DEF is_first_boot_enter, is_first_boot_return, Goto, Saves, Saving
<1>3. CASE is_first_boot_open(a) \/ is_first_boot_write(a) \/ is_first_boot_fails(a)
  BY <1>0, <1>3 DEF is_first_boot_open, is_first_boot_write, is_first_boot_fails, Goto, Write
<1> QED
  BY <1>1, <1>2, <1>3 DEF LibStep

(* The same for the steps of main() between its calls. *)
LEMMA MainFrame ==
    ASSUME Types,
           main_ask_first_boot \/ main_setup \/ process_metadata \/ process_userdata \/ bootcmd_return
    PROVE  /\ UNCHANGED <<machine, file, mode, bootId, lock, cacheFirst, firstBoot>>
           /\ UNCHANGED <<firstBoots, answers, applied, completed, mixed, faults>>
           /\ cacheBootId = TRUE => cacheBootId' = TRUE
<1>1. CASE main_ask_first_boot \/ main_setup \/ bootcmd_return
  BY <1>1 DEF main_ask_first_boot, main_setup, bootcmd_return
<1>2. CASE process_metadata \/ process_userdata
  <2>1. cacheBootId = TRUE => cacheBootId' = TRUE
    BY <1>2 DEF process_metadata, process_userdata
  <2>2. UNCHANGED <<machine, file, mode, bootId, lock, cacheFirst, firstBoot>>
    BY <1>2 DEF process_metadata, process_userdata
  <2>3. UNCHANGED <<firstBoots, answers, applied, completed, mixed, faults>>
    BY <1>2 DEF process_metadata, process_userdata
  <2> QED
    BY <2>1, <2>2, <2>3
<1> QED
  BY <1>1, <1>2

(* And for the recording of what has been processed. *)
RecordStep ==
    \/ record_open("md_open", "md_write", "metadata_id")
    \/ record_write("md_write", "userdata", "metadata_id")
    \/ record_fails("md_open", "md_write", "userdata", "metadata_id")
    \/ record_open("ud_open", "ud_write", "user_data_id")
    \/ record_write("ud_write", "join", "user_data_id")
    \/ record_fails("ud_open", "ud_write", "join", "user_data_id")

LEMMA RecordFrame ==
    ASSUME Types, RecordStep
    PROVE  /\ UNCHANGED <<machine, mode, call, handler, lock, cacheFirst, firstBoot>>
           /\ UNCHANGED <<firstBoots, answers, applied, completed, attempts, mixed>>
           /\ file'["instance_id"] = file["instance_id"]
           /\ file'["first_boot_id"] = file["first_boot_id"]
           /\ cacheBootId = TRUE => cacheBootId' = TRUE
           /\ \A h \in Handlers : bootId'[h] = bootId[h]
           /\ stage \in {"md_open", "md_write", "ud_open", "ud_write"}
<1>0. /\ DOMAIN file = IdFiles \cup {"instance_id"} /\ "instance_id" \notin IdFiles
      /\ DOMAIN bootId = Threads /\ "main" \notin Handlers /\ Handlers \subseteq Threads
  BY DEF Types, FileTypes, ProcessTypes, IdFiles, Handlers, Threads
<1>1. CASE \/ record_open("md_open", "md_write", "metadata_id")
           \/ record_open("ud_open", "ud_write", "user_data_id")
  BY <1>0, <1>1 DEF record_open, Write, IdFiles
<1>2. CASE \/ record_write("md_write", "userdata", "metadata_id")
           \/ record_write("ud_write", "join", "user_data_id")
  BY <1>0, <1>2 DEF record_write, Write, IdFiles
<1>3. CASE \/ record_fails("md_open", "md_write", "userdata", "metadata_id")
           \/ record_fails("ud_open", "ud_write", "join", "user_data_id")
  BY <1>0, <1>3 DEF record_fails, Write, IdFiles
<1> QED
  BY <1>1, <1>2, <1>3 DEF RecordStep

LEMMA CutFormInit == Init => CutForm
BY ContentsAssumption DEF Init, Fresh, CutForm, IdFiles, Threads, Handlers, Asks

LEMMA CutFormStep == Types /\ Off /\ OneSaver /\ CutForm /\ [Next]_vars => CutForm'
<1> SUFFICES ASSUME Types, Off, OneSaver, CutForm, [Next]_vars PROVE CutForm'
  OBVIOUS
<1>0. /\ call \in [Threads -> Calls] /\ Threads = {"main", "uuid", "hostname"}
      /\ Handlers = {"uuid", "hostname"} /\ DOMAIN handler = Handlers
      /\ DOMAIN file = IdFiles \cup {"instance_id"} /\ "instance_id" \notin IdFiles
      /\ IdFiles = {"first_boot_id", "metadata_id", "user_data_id"}
      /\ DOMAIN bootId = Threads /\ cacheBootId \in BOOLEAN /\ cacheBootId' \in BOOLEAN
      /\ firstBoot \in BOOLEAN /\ firstBoot' \in BOOLEAN
      /\ Absent \notin BootIds /\ Empty \notin BootIds
      /\ cacheBootId = TRUE => get_boot_id = ThisBoot(TRUE)
      /\ ThisBoot(TRUE).cut = TRUE
  BY ContentsAssumption, NextTypes
  DEF Types, ProcessTypes, FileTypes, Threads, Handlers, IdFiles, get_boot_id, ThisBoot
<1>1. Free({"start"})' => Free({"start"})
  BY FreeKept
<1>2. ASSUME NEW a \in Threads, LibStep(a) PROVE CutForm'
  <2>1. /\ call[a] \in Saves => call'[a] \in Saves \cup {"none"} /\ a # "hostname"
        /\ call[a] \in Saves \cup Asks
        /\ call[a] \in Asks => call'[a] \in {"ib_open", "ib_write", "ib_return", "none"}
    BY <1>0, <1>2
    DEF LibStep, save_instance_id_check, save_instance_id_open,
        save_instance_id_write, save_instance_id_fails, save_instance_id_remove,
        is_first_boot_enter, is_first_boot_open, is_first_boot_write, is_first_boot_fails,
        is_first_boot_return, Goto, OneSaver, Saves, Saving, Asks
  <2>2. call[a] \in Asks =>
            /\ cacheFirst' # "unset" /\ cacheBootId' = TRUE
            /\ firstBoot' = TRUE => cacheFirst' = "yes"
    BY <1>0, <1>2
    DEF LibStep, save_instance_id_check, save_instance_id_open,
        save_instance_id_write, save_instance_id_fails, save_instance_id_remove,
        is_first_boot_enter, is_first_boot_open, is_first_boot_write, is_first_boot_fails,
        is_first_boot_return, Goto, CutForm, Saves, Saving, Asks
  <2>3. call[a] \in Asks /\ stage \in {"bootcmd", "ud_open", "ud_write"} => firstBoot' = TRUE
    BY <1>0, <1>2
    DEF LibStep, save_instance_id_check, save_instance_id_open,
        save_instance_id_write, save_instance_id_fails, save_instance_id_remove,
        is_first_boot_enter, is_first_boot_open, is_first_boot_write, is_first_boot_fails,
        is_first_boot_return, CutForm, Saves, Saving, Asks
  <2>4. bootId["main"] = bootId'["main"] \/ (a = "main" /\ call[a] \in Asks)
    BY <1>0, <1>2, <2>1, LibFrame
  <2>5. stage \in {"md_write", "ud_write"} => bootId'["main"] = bootId["main"]
    BY <2>4 DEF OneSaver
  <2>6. CASE call[a] \in Saves
    <3>1. /\ UNCHANGED <<boot, stage, bootId, cacheFirst, cacheBootId, firstBoot>>
          /\ file'["metadata_id"] = file["metadata_id"]
          /\ file'["user_data_id"] = file["user_data_id"]
          /\ \A b \in Threads : call'[b] \in Asks => call[b] \in Asks /\ call'[b] = call[b]
      BY <1>2, <2>1, <2>6, LibFrame DEF Saves, Saving, Asks
    <3>2. stage = "first_boot" => call'["main"] = call["main"]
      BY <1>0, <1>2, <2>6, LibFrame DEF OneSaver
    <3> QED
      BY <1>0, <1>1, <3>1, <3>2 DEF CutForm, ThisBoot
  <2>7. CASE call[a] \in Asks
    BY <1>0, <1>1, <1>2, <2>1, <2>2, <2>3, <2>5, <2>7, LibFrame DEF CutForm, OneSaver, Saves, Saving, Asks, ThisBoot
  <2> QED
    BY <2>1, <2>6, <2>7
<1>3. CASE main_ask_first_boot \/ main_setup \/ bootcmd_return
  BY <1>0, <1>1, <1>3 DEF main_ask_first_boot, main_setup, bootcmd_return, Goto, CutForm, Asks, ThisBoot
<1>4. CASE process_metadata
  BY <1>0, <1>1, <1>4, MainFrame DEF process_metadata, CutForm, ThisBoot
<1>5. CASE process_userdata
  <2>1. stage' \in {"bootcmd", "ud_open"} => firstBoot = TRUE
    BY <1>0, <1>5 DEF process_userdata
  <2>2. /\ UNCHANGED <<boot, file, bootId, cacheFirst, firstBoot, faults>>
        /\ stage' \in {"join", "bootcmd", "ud_open"}
        /\ \A a \in Threads : call'[a] = call[a] \/ call'[a] = "ib_enter"
    BY <1>0, <1>5 DEF process_userdata, userdata_process_file, Goto
  <2> QED
    BY <1>0, <1>1, <1>5, <2>1, <2>2, MainFrame DEF CutForm, Asks, ThisBoot
<1>6. ASSUME NEW h \in Handlers, handler_start(h) \/ handler_done(h) PROVE CutForm'
  <2>1. /\ UNCHANGED <<boot, file, stage, bootId, cacheFirst, cacheBootId, firstBoot, faults>>
        /\ call'["main"] = call["main"]
        /\ \A a \in Threads : call'[a] = call[a] \/ call'[a] \in {"si_check", "ib_enter"}
    BY <1>0, <1>6 DEF handler_start, handler_done, Goto
  <2> QED
    BY <1>0, <1>1, <2>1 DEF CutForm, Asks, ThisBoot
<1>7. CASE RecordStep
  <2>1. CASE \/ record_open("md_open", "md_write", "metadata_id")
             \/ record_open("ud_open", "ud_write", "user_data_id")
    <3>1. /\ UNCHANGED boot /\ cacheBootId' = TRUE /\ bootId'["main"] = get_boot_id
          /\ file'["metadata_id"] \in {file["metadata_id"], Empty}
          /\ file'["user_data_id"] \in {file["user_data_id"], Empty}
          /\ \/ stage = "md_open" /\ stage' = "md_write"
             \/ stage = "ud_open" /\ stage' = "ud_write"
      BY <1>0, <2>1 DEF record_open, Write
    <3> QED
      BY <1>0, <1>1, <1>7, <3>1, RecordFrame DEF CutForm, ThisBoot
  <2>2. CASE \/ record_write("md_write", "userdata", "metadata_id")
             \/ record_fails("md_open", "md_write", "userdata", "metadata_id")
    <3>1. /\ UNCHANGED boot /\ stage' = "userdata"
          /\ \/ stage = "md_write" /\ file'["metadata_id"] = bootId["main"]
             \/ file'["metadata_id"] = file["metadata_id"]
          /\ file'["user_data_id"] = file["user_data_id"]
      BY <1>0, <2>2 DEF record_write, record_fails, Write
    <3> QED
      BY <1>0, <1>1, <1>7, <3>1, RecordFrame DEF CutForm, ThisBoot
  <2>3. CASE \/ record_write("ud_write", "join", "user_data_id")
             \/ record_fails("ud_open", "ud_write", "join", "user_data_id")
    <3>1. /\ UNCHANGED boot /\ stage' = "join"
          /\ \/ stage = "ud_write" /\ file'["user_data_id"] = bootId["main"]
             \/ file'["user_data_id"] = file["user_data_id"]
          /\ file'["metadata_id"] = file["metadata_id"]
      BY <1>0, <2>3 DEF record_write, record_fails, Write
    <3> QED
      BY <1>0, <1>1, <1>7, <3>1, RecordFrame DEF CutForm, ThisBoot
  <2> QED
    BY <1>7, <2>1, <2>2, <2>3 DEF RecordStep
<1>8. CASE ucd_start
  <2>1. /\ UNCHANGED <<boot, file, bootId, cacheFirst, cacheBootId, firstBoot>>
        /\ stage' \in {"uuid", "retry", "join"}
        /\ stage' = "retry" => Fail("start")
        /\ \A a \in Threads : call'[a] = call[a] \/ call'[a] = "si_check"
    BY <1>0, <1>8 DEF ucd_start, start_datasource, start_datasource_fails, start_metadata_file, Goto
  <2>2. Free({"start"})' => ~Fail("start")
    BY FreeBefore DEF Types
  <2> QED
    BY <1>0, <1>1, <2>1, <2>2 DEF CutForm, Asks, ThisBoot
<1>9. CASE ucd_end \/ Crash
  BY <1>0, <1>1, <1>9 DEF ucd_end, Crash, Gone, Fresh, CutForm, Asks
<1>10. CASE Reboot
  BY <1>0, <1>1, <1>10 DEF Reboot, Off, Fresh, CutForm, Asks
<1>11. CASE UNCHANGED vars
  BY <1>0, <1>1, <1>11 DEF vars, CutForm, ThisBoot
<1> QED
  BY <1>2, <1>3, <1>4, <1>5, <1>6, <1>7, <1>8, <1>9, <1>10, <1>11 DEF Next, BoundReached, RecordStep

THEOREM CutFormAlways == Spec => []CutForm
BY CutFormInit, CutFormStep, TypesAlways, OffAlways, OneSaverAlways, PTL DEF Spec

(* Nothing that was recorded in this boot is processed again in it. *)
THEOREM NothingReprocessed == Spec => NoReprocessing
<1>1. ASSUME Types, CutForm, [Next]_vars, stage = "metadata", stage' = "md_open", Count({"start"}) = 0
      PROVE  ~RecordedThisBoot("metadata_id")
  <2>1. Free({"start"}) /\ cacheBootId = TRUE
    BY <1>1, CountZero DEF Types, CutForm
  <2>2. process_metadata
    BY <1>1
    DEF Next, BoundReached, vars, ucd_start, main_ask_first_boot, main_setup, process_userdata,
        bootcmd_return, handler_start, handler_done, record_open, record_write, record_fails,
        LibStep, save_instance_id_check, save_instance_id_open, save_instance_id_write,
        save_instance_id_fails, save_instance_id_remove, is_first_boot_enter, is_first_boot_open,
        is_first_boot_write, is_first_boot_fails, is_first_boot_return, ucd_end, Crash, Gone,
        Fresh, Reboot
  <2>3. file["metadata_id"] # ThisBoot(TRUE)
    BY <1>1, <2>1, <2>2 DEF process_metadata, get_boot_id, ThisBoot
  <2> QED
    BY <1>1, <2>1, <2>3 DEF CutForm, RecordedThisBoot, BootIds, ThisBoot
<1>2. ASSUME Types, CutForm, [Next]_vars, stage = "userdata", stage' \in {"bootcmd", "ud_open"}
      PROVE  ~RecordedThisBoot("user_data_id")
  <2>1. process_userdata
    BY <1>2
    DEF Next, BoundReached, vars, ucd_start, main_ask_first_boot, main_setup, process_metadata,
        bootcmd_return, handler_start, handler_done, record_open, record_write, record_fails,
        LibStep, save_instance_id_check, save_instance_id_open, save_instance_id_write,
        save_instance_id_fails, save_instance_id_remove, is_first_boot_enter, is_first_boot_open,
        is_first_boot_write, is_first_boot_fails, is_first_boot_return, ucd_end, Crash, Gone,
        Fresh, Reboot
  <2>2. firstBoot = TRUE /\ file["user_data_id"] # get_boot_id
    BY <1>2, <2>1 DEF process_userdata, Types, ProcessTypes
  <2>3. cacheBootId = TRUE
    BY <1>2, <2>2 DEF CutForm
  <2> QED
    BY <1>2, <2>2, <2>3 DEF CutForm, RecordedThisBoot, BootIds, get_boot_id
<1>3. Types /\ CutForm /\ [Next]_vars =>
        [ /\ (stage = "metadata" /\ stage' = "md_open" /\ Count({"start"}) = 0) =>
                ~RecordedThisBoot("metadata_id")
          /\ (stage = "userdata" /\ stage' \in {"bootcmd", "ud_open"}) =>
                ~RecordedThisBoot("user_data_id") ]_vars
  BY <1>1, <1>2
<1> QED
  BY <1>3, CutFormAlways, TypesAlways, PTL DEF Spec, NoReprocessing

-----------------------------------------------------------------------------
(* User data.                                                              *)

Lapses == Count({"kill", "user_data_id"})

(* This boot was a first one and may yet process user data: they have neither
   been recorded in it nor are about to be. *)
Due ==
    /\ boot \in firstBoots[instance]
    /\ file["user_data_id"] # ThisBoot(TRUE)
    /\ stage \notin {"bootcmd", "ud_open", "ud_write"}

(* Each processing of user data is owed to a first boot, to a kill or to a
   record that could not be written; one that is due has not been counted. *)
Owed ==
    /\ firstBoot = TRUE => boot \in firstBoots[instance]
    /\ \A i \in Instances : firstBoots[i] \subseteq 1..boot
    /\ \A i \in Instances : attempts[i] <= FirstBootsOf(i) + Lapses
    /\ Due => attempts[instance] + 1 <= FirstBootsOf(instance) + Lapses

LEMMA LapsesStep ==
    ASSUME FaultTypes
    PROVE  /\ Lapses \in Nat
           /\ UNCHANGED faults => Lapses' = Lapses
           /\ \A f : Fail(f) => Lapses' = IF f \in {"kill", "user_data_id"} THEN Lapses + 1 ELSE Lapses
<1>1. Lapses \in Nat
  BY CountType DEF Lapses
<1>2. UNCHANGED faults => Lapses' = Lapses
  BY DEF Lapses, Count
<1>3. ASSUME NEW f, Fail(f)
      PROVE  Lapses' = IF f \in {"kill", "user_data_id"} THEN Lapses + 1 ELSE Lapses
  BY <1>3, CountGrows DEF Lapses
<1> QED
  BY <1>1, <1>2, <1>3

(* Faults of different kinds are counted apart. *)
LEMMA CountApart ==
    ASSUME FaultTypes, NEW K, NEW L, K \cap L = {}
    PROVE  Count(K \cup L) = Count(K) + Count(L)
<1> DEFINE S == {n \in DOMAIN faults : faults[n] \in K}
           T == {n \in DOMAIN faults : faults[n] \in L}
<1>1. IsFiniteSet(S) /\ IsFiniteSet(T)
  <2>1. /\ S \subseteq 1..Len(faults) /\ T \subseteq 1..Len(faults)
        /\ 1 \in Int /\ Len(faults) \in Int
    BY DEF FaultTypes
  <2> HIDE DEF S, T
  <2> QED
    BY <2>1, FS_Interval, FS_Subset
<1>2. {n \in DOMAIN faults : faults[n] \in K \cup L} = S \cup T /\ S \cap T = {}
  OBVIOUS
<1>3. Count(K) = Cardinality(S) /\ Count(L) = Cardinality(T) /\ Count(K \cup L) = Cardinality(S \cup T)
  BY <1>2 DEF Count
<1> HIDE DEF S, T
<1>4. Cardinality(S \cup T) = Cardinality(S) + Cardinality(T) - Cardinality(S \cap T)
  BY <1>1, FS_Union
<1>5. Cardinality(S \cap T) = 0
  BY <1>2, FS_EmptySet
<1>6. Cardinality(S) \in Nat /\ Cardinality(T) \in Nat
  BY <1>1, FS_CardinalityType
<1> QED
  BY <1>3, <1>4, <1>5, <1>6

LEMMA OwedInit == Init => Owed
<1> SUFFICES ASSUME Init PROVE Owed
  OBVIOUS
<1>1. Types /\ firstBoot = FALSE /\ \A i \in Instances : firstBoots[i] = {} /\ attempts[i] = 0
  BY InitTypes DEF Init, Fresh
<1>2. \A i \in Instances : FirstBootsOf(i) = 0
  BY <1>1, FirstBootsType
<1>3. Lapses \in Nat /\ instance \in Instances
  BY <1>1, LapsesStep DEF Types, MachineTypes
<1>4. ~Due
  BY <1>1, <1>3 DEF Due
<1> QED
  BY <1>1, <1>2, <1>3, <1>4 DEF Owed

(* Steps that count neither a first boot nor an attempt. *)
LEMMA OwedKept ==
    ASSUME Types, Owed, UNCHANGED <<boot, instance, firstBoots, attempts>>,
           firstBoot' = TRUE => firstBoot = TRUE,
           Lapses' = Lapses + 1 \/ (Lapses' = Lapses /\ (Due' => Due))
    PROVE  Owed'
<1>1. /\ \A i \in Instances : FirstBootsOf(i)' = FirstBootsOf(i) /\ FirstBootsOf(i) \in Nat
      /\ Lapses \in Nat /\ \A i \in Instances : attempts[i] \in Nat
      /\ instance \in Instances
  BY FirstBootsType, LapsesStep DEF FirstBootsOf, Types, HistoryTypes, MachineTypes
<1>2. CASE Lapses' = Lapses + 1
  BY <1>1, <1>2 DEF Owed
<1>3. CASE Lapses' = Lapses /\ (Due' => Due)
  BY <1>1, <1>3 DEF Owed
<1> QED
  BY <1>2, <1>3

LEMMA OwedReturn ==
    ASSUME Types, Owed, NEW a \in Threads, is_first_boot_return(a)
    PROVE  Owed'
<1>0. /\ instance \in Instances /\ boot \in Boots /\ boot \in 1..boot
      /\ UNCHANGED <<boot, instance, stage, file, faults, attempts>>
      /\ firstBoots \in [Instances -> SUBSET Boots] /\ attempts \in [Instances -> Nat]
      /\ Lapses \in Nat /\ Lapses' = Lapses
      /\ \A i \in Instances : FirstBootsOf(i) \in Nat
  BY FirstBootsType, LapsesStep
  DEF is_first_boot_return, Types, MachineTypes, HistoryTypes, ProcessTypes, Boots
<1>1. CASE UNCHANGED firstBoots /\ (firstBoot' = TRUE => firstBoot = TRUE)
  <2>1. Due' => Due
    BY <1>0, <1>1 DEF Due, ThisBoot
  <2> QED
    BY <1>0, <1>1, <2>1, OwedKept
<1>2. CASE firstBoots' = [firstBoots EXCEPT ![instance] = @ \cup {boot}]
  <2>1. /\ firstBoots'[instance] = firstBoots[instance] \cup {boot}
        /\ \A i \in Instances : i # instance => firstBoots'[i] = firstBoots[i]
    BY <1>0, <1>2
  <2>2. \A i \in Instances : i # instance => FirstBootsOf(i)' = FirstBootsOf(i)
    BY <2>1 DEF FirstBootsOf
  <2>3. \A i \in Instances : firstBoots'[i] \subseteq 1..boot
    BY <1>0, <2>1 DEF Owed
  <2>4. CASE boot \in firstBoots[instance]
    <3>1. firstBoots'[instance] = firstBoots[instance]
      BY <2>1, <2>4
    <3>2. FirstBootsOf(instance)' = FirstBootsOf(instance) /\ (Due' => Due)
      BY <1>0, <2>4, <3>1 DEF FirstBootsOf, Due, ThisBoot
    <3> QED
      BY <1>0, <2>1, <2>2, <2>3, <3>1, <3>2 DEF Owed
  <2>5. CASE boot \notin firstBoots[instance]
    <3>1. FirstBootsOf(instance)' = FirstBootsOf(instance) + 1
      <4>1. firstBoots[instance] \subseteq 1..MaxBoot /\ 1 \in Int /\ MaxBoot \in Int
        BY <1>0, BoundsAssumption DEF Boots
      <4>2. IsFiniteSet(firstBoots[instance])
        BY <4>1, FS_Interval, FS_Subset
      <4>3. Cardinality(firstBoots[instance] \cup {boot}) = Cardinality(firstBoots[instance]) + 1
        BY <2>5, <4>2, FS_AddElement
      <4>4. FirstBootsOf(instance)' = Cardinality(firstBoots[instance] \cup {boot})
        BY <1>0, <2>1 DEF FirstBootsOf
      <4> QED
        BY <4>3, <4>4 DEF FirstBootsOf
    <3>2. attempts[instance] <= FirstBootsOf(instance) + Lapses
      BY <1>0 DEF Owed
    <3>3. attempts[instance] + 1 <= FirstBootsOf(instance)' + Lapses
      BY <1>0, <3>1, <3>2
    <3>4. \A i \in Instances : i # instance => attempts[i] <= FirstBootsOf(i)' + Lapses
      BY <1>0, <2>2 DEF Owed
    <3>5. attempts[instance] <= FirstBootsOf(instance)' + Lapses
      BY <1>0, <3>1, <3>2
    <3> QED
      BY <1>0, <2>1, <2>3, <3>3, <3>4, <3>5 DEF Owed
  <2> QED
    BY <2>4, <2>5
<1> QED
  BY <1>0, <1>1, <1>2 DEF is_first_boot_return

LEMMA OwedProcess ==
    ASSUME Types, CutForm, Owed, process_userdata
    PROVE  Owed'
<1>0. /\ UNCHANGED <<boot, instance, file, firstBoot, firstBoots, faults>>
      /\ stage = "userdata" /\ instance \in Instances /\ firstBoot \in BOOLEAN
      /\ attempts \in [Instances -> Nat]
      /\ Lapses \in Nat /\ Lapses' = Lapses
      /\ \A i \in Instances : FirstBootsOf(i) \in Nat /\ FirstBootsOf(i)' = FirstBootsOf(i)
  BY FirstBootsType, LapsesStep
  DEF process_userdata, Types, MachineTypes, HistoryTypes, ProcessTypes, FirstBootsOf
<1>1. CASE UNCHANGED attempts /\ stage' = "join"
  <2>1. Due' => Due
    BY <1>0, <1>1 DEF Due, ThisBoot
  <2> QED
    BY <1>0, <1>1, <2>1, OwedKept
<1>2. CASE /\ firstBoot = TRUE /\ file["user_data_id"] # get_boot_id
           /\ stage' \in {"bootcmd", "ud_open"}
           /\ attempts' = [attempts EXCEPT ![instance] = @ + 1]
  <2>1. cacheBootId = TRUE
    BY <1>2 DEF CutForm
  <2>2. Due
    BY <1>0, <1>2, <2>1 DEF Owed, Due, get_boot_id, ThisBoot
  <2>3. /\ attempts'[instance] = attempts[instance] + 1
        /\ \A i \in Instances : i # instance => attempts'[i] = attempts[i]
    BY <1>0, <1>2
  <2>4. ~Due'
    BY <1>2 DEF Due
  <2>5. attempts'[instance] <= FirstBootsOf(instance) + Lapses
    BY <2>2, <2>3 DEF Owed
  <2> QED
    BY <1>0, <2>3, <2>4, <2>5 DEF Owed
<1> QED
  BY <1>0, <1>1, <1>2 DEF process_userdata, userdata_process_file

LEMMA OwedStep ==
    Types /\ Off /\ CutForm /\ Owed /\ [Next]_vars => Owed'
<1> SUFFICES ASSUME Types, Off, CutForm, Owed, [Next]_vars PROVE Owed'
  OBVIOUS
<1>0. /\ DOMAIN file = IdFiles \cup {"instance_id"} /\ "user_data_id" \in IdFiles
      /\ UNCHANGED faults => Lapses' = Lapses
  BY LapsesStep DEF Types, FileTypes, ProcessTypes, IdFiles
<1>1. ASSUME NEW a \in Threads, LibStep(a) PROVE Owed'
  <2>1. CASE is_first_boot_return(a)
    BY <2>1, OwedReturn
  <2>2. CASE ~is_first_boot_return(a)
    <3>1. /\ UNCHANGED <<boot, instance, stage, firstBoots, attempts, firstBoot>>
          /\ file'["user_data_id"] = file["user_data_id"]
      BY <1>1, <2>2, LibFrame
      DEF LibStep, save_instance_id_check, save_instance_id_open,
          save_instance_id_write, save_instance_id_fails, save_instance_id_remove,
          is_first_boot_enter, is_first_boot_open, is_first_boot_write, is_first_boot_fails
    <3>2. UNCHANGED faults \/ Fail("instance_id") \/ Fail("first_boot_id")
      BY <1>1, <2>2
      DEF LibStep, save_instance_id_check, save_instance_id_open,
          save_instance_id_write, save_instance_id_fails, save_instance_id_remove,
          is_first_boot_enter, is_first_boot_open, is_first_boot_write, is_first_boot_fails
    <3>3. Lapses' = Lapses
      BY <3>2, LapsesStep DEF Types
    <3>4. Due' => Due
      BY <3>1 DEF Due, ThisBoot
    <3> QED
      BY <1>0, <3>1, <3>3, <3>4, OwedKept
  <2> QED
    BY <2>1, <2>2
<1>2. CASE main_ask_first_boot \/ main_setup \/ process_metadata \/ bootcmd_return
  <2>1. /\ UNCHANGED <<boot, instance, file, firstBoots, attempts, firstBoot, faults>>
        /\ stage' \in {"bootcmd", "ud_open", "ud_write"} \/ stage \notin {"bootcmd", "ud_open", "ud_write"}
    BY <1>2 DEF main_ask_first_boot, main_setup, process_metadata, bootcmd_return
  <2>2. Due' => Due
    BY <2>1 DEF Due, ThisBoot
  <2> QED
    BY <1>0, <2>1, <2>2, OwedKept
<1>3. CASE process_userdata
  BY <1>3, OwedProcess
<1>4. ASSUME NEW h \in Handlers, handler_start(h) \/ handler_done(h) PROVE Owed'
  <2>1. UNCHANGED <<boot, instance, file, stage, firstBoots, attempts, firstBoot, faults>>
    BY <1>4 DEF handler_start, handler_done
  <2>2. Due' => Due
    BY <2>1 DEF Due, ThisBoot
  <2> QED
    BY <1>0, <2>1, <2>2, OwedKept
<1>5. CASE \/ record_open("md_open", "md_write", "metadata_id")
           \/ record_write("md_write", "userdata", "metadata_id")
           \/ record_fails("md_open", "md_write", "userdata", "metadata_id")
  <2>1. /\ UNCHANGED <<boot, instance, firstBoots, attempts, firstBoot>>
        /\ file'["user_data_id"] = file["user_data_id"] /\ stage \in {"md_open", "md_write"}
        /\ UNCHANGED faults \/ Fail("metadata_id")
    BY <1>0, <1>5 DEF record_open, record_write, record_fails, Write
  <2>2. Lapses' = Lapses
    BY <2>1, LapsesStep DEF Types
  <2>3. Due' => Due
    BY <2>1 DEF Due, ThisBoot
  <2> QED
    BY <1>0, <2>1, <2>2, <2>3, OwedKept
<1>6. CASE \/ record_open("ud_open", "ud_write", "user_data_id")
           \/ record_write("ud_write", "join", "user_data_id")
  <2>1. /\ UNCHANGED <<boot, instance, firstBoots, attempts, firstBoot, faults>>
        /\ stage' = "ud_write" \/ (stage = "ud_write" /\ file'["user_data_id"] = bootId["main"])
    BY <1>0, <1>6 DEF record_open, record_write, Write
  <2>2. ~Due'
    BY <2>1 DEF Due, CutForm, ThisBoot
  <2> QED
    BY <1>0, <2>1, <2>2, OwedKept
<1>7. CASE record_fails("ud_open", "ud_write", "join", "user_data_id")
  <2>1. UNCHANGED <<boot, instance, firstBoots, attempts, firstBoot>> /\ Fail("user_data_id")
    BY <1>7 DEF record_fails
  <2>2. Lapses' = Lapses + 1
    BY <2>1, LapsesStep DEF Types
  <2> QED
    BY <1>0, <2>1, <2>2, OwedKept
<1>8. CASE ucd_start
  <2>1. /\ UNCHANGED <<boot, instance, file, firstBoots, attempts, firstBoot>> /\ stage = "off"
        /\ UNCHANGED faults \/ Fail("start")
    BY <1>8 DEF ucd_start, start_datasource, start_datasource_fails, start_metadata_file
  <2>2. Lapses' = Lapses
    BY <2>1, LapsesStep DEF Types
  <2>3. Due' => Due
    BY <2>1 DEF Due, ThisBoot
  <2> QED
    BY <1>0, <2>1, <2>2, <2>3, OwedKept
<1>9. CASE ucd_end
  <2>1. /\ UNCHANGED <<boot, instance, file, firstBoots, attempts, faults>> /\ firstBoot' = FALSE
        /\ stage = "join"
    BY <1>9 DEF ucd_end, Gone, Fresh
  <2>2. Due' => Due
    BY <2>1 DEF Due, ThisBoot
  <2> QED
    BY <1>0, <2>1, <2>2, OwedKept
<1>10. CASE Crash
  <2>1. UNCHANGED <<boot, instance, firstBoots, attempts>> /\ firstBoot' = FALSE /\ Fail("kill")
    BY <1>10 DEF Crash, Gone, Fresh
  <2>2. Lapses' = Lapses + 1
    BY <2>1, LapsesStep DEF Types
  <2> QED
    BY <1>0, <2>1, <2>2, OwedKept
<1>11. CASE Reboot
  <2>1. /\ UNCHANGED <<firstBoots, attempts, firstBoot, faults>> /\ stage = "off"
        /\ boot' = boot + 1 /\ instance' \in Instances /\ boot \in Nat
    BY <1>11 DEF Reboot, Types, MachineTypes, Boots
  <2>2. firstBoot = FALSE
    BY <2>1 DEF Off, Fresh
  <2>3. \A i \in Instances : boot' \notin firstBoots[i] /\ firstBoots[i] \subseteq 1..boot'
    BY <2>1 DEF Owed
  <2>4. ~Due'
    BY <2>1, <2>3 DEF Due
  <2>5. \A i \in Instances : FirstBootsOf(i)' = FirstBootsOf(i)
    BY <2>1 DEF FirstBootsOf
  <2> QED
    BY <1>0, <2>1, <2>2, <2>3, <2>4, <2>5 DEF Owed
<1>12. CASE UNCHANGED vars
  <2>1. UNCHANGED <<boot, instance, file, stage, firstBoots, attempts, firstBoot, faults>>
    BY <1>12 DEF vars
  <2>2. Due' => Due
    BY <2>1 DEF Due, ThisBoot
  <2> QED
    BY <1>0, <2>1, <2>2, OwedKept
<1> QED
  BY <1>1, <1>2, <1>3, <1>4, <1>5, <1>6, <1>7, <1>8, <1>9, <1>10, <1>11, <1>12 DEF Next, BoundReached

THEOREM OwedAlways == Spec => []Owed
BY OwedInit, OwedStep, CutFormAlways, TypesAlways, OffAlways, PTL DEF Spec

(* User data are processed once for an instance, and once more at most for
   each fault that makes ucd forget that it did: a kill, or an id or a record
   that could not be written. *)
THEOREM UserDataProcessedOnce == Spec => []UserDataOnce
<1>1. Types /\ Owed /\ FirstBootOncePerInstance => UserDataOnce
  <2> SUFFICES ASSUME Types, Owed, FirstBootOncePerInstance, NEW i \in Instances
               PROVE  attempts[i] <= 1 + Count({"kill", "instance_id", "first_boot_id", "user_data_id"})
    BY DEF UserDataOnce
  <2> DEFINE Ids == {"instance_id", "first_boot_id"}
             Others == {"kill", "user_data_id"}
  <2>1. Count(Ids \cup Others) = Count(Ids) + Count(Others)
    <3>1. Ids \cap Others = {}
      OBVIOUS
    <3> HIDE DEF Ids, Others
    <3> QED
      BY <3>1, CountApart DEF Types
  <2>2. Ids \cup Others = {"kill", "instance_id", "first_boot_id", "user_data_id"}
    OBVIOUS
  <2>3. FirstBootsOf(i) <= 1 + Count(Ids)
    BY DEF FirstBootOncePerInstance, FirstBootsOf
  <2>4. attempts[i] <= FirstBootsOf(i) + Count(Others)
    BY DEF Owed, Lapses
  <2>5. attempts[i] \in Nat /\ FirstBootsOf(i) \in Nat /\ Count(Ids) \in Nat /\ Count(Others) \in Nat
    BY FirstBootsType, CountType DEF Types, HistoryTypes
  <2> HIDE DEF Ids, Others
  <2> QED
    BY <2>1, <2>2, <2>3, <2>4, <2>5
<1> QED
  BY <1>1, OwedAlways, TypesAlways, OneFirstBoot, PTL

-----------------------------------------------------------------------------
(* One answer in a boot.                                                   *)

ModeOfService == ~mixed /\ stage # "off" => mode = "datasource"

Undisturbed == mixed = FALSE /\ Free(IdFaults)

Recording == \E a \in Threads : call[a] \in {"ib_open", "ib_write"}

(* The answer has been given in this boot: the file gives it too. *)
Agreed ==
    answers[boot] # {} =>
        /\ file["instance_id"] = instance /\ call["main"] # "si_remove" /\ ~Recording
        /\ file["first_boot_id"] # Absent
        /\ TRUE \in answers[boot] => file["first_boot_id"] = ThisBoot(FALSE)
        /\ FALSE \in answers[boot] => file["first_boot_id"] # ThisBoot(FALSE)

(* The answer is cached: the file gives it, unless it is just being written. *)
Cached ==
    /\ cacheFirst # "unset" /\ ~Recording =>
           /\ file["first_boot_id"] # Absent
           /\ cacheFirst = "yes" <=> file["first_boot_id"] = ThisBoot(FALSE)
    /\ \A a \in Threads : call[a] \in {"ib_open", "ib_write"} => bootId[a] = ThisBoot(FALSE)
    /\ cacheFirst = "unset" => stage \in {"off", "uuid", "first_boot"} /\ cacheBootId = FALSE
    /\ stage = "uuid" => cacheFirst = "unset"

(* In service, and as long as ids can be read and written, an answer once given
   stays, and nobody is about to change the file. *)
Decided ==
    /\ \A b \in Boots : b > boot => answers[b] = {}
    /\ Undisturbed =>
           /\ \A b \in Boots : ~(TRUE \in answers[b] /\ FALSE \in answers[b])
           /\ Agreed /\ Cached

LEMMA ModeStep == Types /\ ModeOfService /\ [Next]_vars => ModeOfService'
<1> SUFFICES ASSUME Types, ModeOfService, [Next]_vars PROVE ModeOfService'
  OBVIOUS
<1>1. CASE ucd_start
  BY <1>1 DEF ucd_start, start_datasource, start_datasource_fails, start_metadata_file, ModeOfService
<1>2. CASE ucd_end \/ Crash \/ Reboot
  BY <1>2 DEF ucd_end, Crash, Gone, Fresh, Reboot, ModeOfService
<1>3. CASE \E a \in Threads : LibStep(a)
  BY <1>3, LibFrame DEF ModeOfService
<1>4. CASE RecordStep
  BY <1>4, RecordFrame DEF ModeOfService
<1>5. CASE main_ask_first_boot \/ main_setup \/ process_metadata \/ process_userdata \/ bootcmd_return
  <2>1. stage # "off" /\ UNCHANGED <<mode, mixed>>
    BY <1>5 DEF main_ask_first_boot, main_setup, process_metadata, process_userdata, bootcmd_return
  <2> QED
    BY <2>1 DEF ModeOfService
<1>6. CASE \E h \in Handlers : handler_start(h) \/ handler_done(h)
  BY <1>6 DEF handler_start, handler_done, ModeOfService
<1>7. CASE UNCHANGED vars
  BY <1>7 DEF vars, ModeOfService
<1> QED
  BY <1>1, <1>2, <1>3, <1>4, <1>5, <1>6, <1>7 DEF Next, BoundReached, RecordStep

THEOREM ModeAlways == Spec => []ModeOfService
<1>1. Init => ModeOfService
  BY DEF Init, Fresh, ModeOfService
<1> QED
  BY <1>1, ModeStep, TypesAlways, PTL DEF Spec

(* Other command lines and faults are not forgotten. *)
LEMMA UndisturbedBefore ==
    ASSUME Types, [Next]_vars, Undisturbed'
    PROVE  Undisturbed
<1>1. Free(IdFaults)
  BY FreeKept DEF Undisturbed
<1>2. mixed' = mixed \/ mixed' = TRUE
  BY DEF Next, BoundReached, vars, LibStep, save_instance_id_check, save_instance_id_open,
         save_instance_id_write, save_instance_id_fails, save_instance_id_remove,
         is_first_boot_enter, is_first_boot_open, is_first_boot_write, is_first_boot_fails,
         is_first_boot_return, main_ask_first_boot, main_setup, process_metadata,
         process_userdata, bootcmd_return, handler_start, handler_done, record_open,
         record_write, record_fails, ucd_start, start_datasource, start_datasource_fails,
         start_metadata_file, ucd_end, Gone, Crash, Reboot
<1> QED
  BY <1>1, <1>2 DEF Undisturbed

(* In service the instance id has been saved when main() is past it. *)
LEMMA SavedPastUuid ==
    ASSUME Types, SavedFirst, ModeOfService, Undisturbed, stage # "off"
    PROVE  /\ InService
           /\ stage # "uuid" => file["instance_id"] = instance
<1>1. InService
  BY DEF ModeOfService, Undisturbed, InService, IdLost, IdFaults, Free
<1> QED
  BY <1>1 DEF SavedFirst

LEMMA DecidedInit == Init => Decided
<1> SUFFICES ASSUME Init PROVE Decided
  OBVIOUS
<1>1. /\ \A b \in Boots : answers[b] = {}
      /\ boot \in Boots /\ cacheFirst = "unset" /\ cacheBootId = FALSE /\ stage = "off"
      /\ \A a \in Threads : call[a] = "none"
  BY BoundsAssumption DEF Init, Fresh, Boots
<1> QED
  BY <1>1 DEF Decided, Agreed, Cached

(* No call ends, or goes on, in this step. *)
OnlyNewCalls ==
    \A a \in Threads :
        \/ call'[a] = call[a] /\ bootId'[a] = bootId[a]
        \/ call[a] = "none" /\ call'[a] \in {"none", "si_check", "ib_enter"}

(* Steps that leave the files alone and nobody records anything in. *)
LEMMA DecidedKept ==
    ASSUME Types, Decided, Undisturbed' => Undisturbed,
           UNCHANGED <<boot, instance, answers, cacheFirst>>,
           file'["instance_id"] = file["instance_id"],
           file'["first_boot_id"] = file["first_boot_id"],
           OnlyNewCalls,
           Undisturbed' /\ cacheFirst = "unset" =>
               stage' \in {"off", "uuid", "first_boot"} /\ cacheBootId' = FALSE,
           Undisturbed' /\ stage' = "uuid" => cacheFirst = "unset"
    PROVE  Decided'
<1>1. CASE ~Undisturbed'
  BY <1>1 DEF Decided
<1>2. CASE Undisturbed'
  <2>1. Recording' <=> Recording
    BY DEF Recording, OnlyNewCalls
  <2>2. call'["main"] = "si_remove" => call["main"] = "si_remove"
    BY DEF Threads, OnlyNewCalls
  <2>0. \A a \in Threads : call'[a] \in {"ib_open", "ib_write"} =>
            call[a] = call'[a] /\ bootId'[a] = bootId[a]
    BY DEF OnlyNewCalls
  <2>3. Agreed'
    BY <1>2, <2>1, <2>2 DEF Decided, Agreed, ThisBoot
  <2>4. Cached'
    <3>1. Undisturbed /\ Cached
      BY <1>2 DEF Decided
    <3> QED
      BY <1>2, <2>0, <2>1, <3>1 DEF Cached, ThisBoot
  <2> QED
    BY <1>2, <2>3, <2>4 DEF Decided
<1> QED
  BY <1>1, <1>2

LEMMA DecidedSave ==
    ASSUME Types, OneSaver, HasReason, SavedFirst, ModeOfService, Decided,
           Undisturbed, Undisturbed', stage # "off", NEW a \in Threads,
           \/ save_instance_id_check(a) \/ save_instance_id_open(a)
           \/ save_instance_id_write(a) \/ save_instance_id_fails(a)
           \/ save_instance_id_remove(a)
    PROVE  Agreed' /\ Cached' /\ UNCHANGED <<boot, answers>>
<1>0. /\ call \in [Threads -> Calls] /\ Threads = {"main", "uuid", "hostname"}
      /\ DOMAIN file = IdFiles \cup {"instance_id"} /\ "instance_id" \notin IdFiles
      /\ Handlers = {"uuid", "hostname"}
  BY DEF Types, ProcessTypes, FileTypes, Threads, Handlers, IdFiles
<1>1. a = "main" /\ stage = "uuid" /\ call["main"] \in Saves
      /\ call["uuid"] = "none" /\ call["hostname"] = "none"
  BY <1>0, SavedPastUuid
  DEF save_instance_id_check, save_instance_id_open, save_instance_id_write,
      save_instance_id_fails, save_instance_id_remove, SavedFirst, Saves, Saving
<1>2. cacheFirst = "unset" /\ cacheBootId = FALSE
  BY <1>1 DEF Decided, Cached
<1>3. /\ UNCHANGED <<boot, instance, stage, answers, cacheFirst, cacheBootId>>
      /\ \A b \in Threads : call'[b] \in Saves \cup {"none"}
  BY <1>0, <1>1
  DEF save_instance_id_check, save_instance_id_open, save_instance_id_write,
      save_instance_id_fails, save_instance_id_remove, Goto, Saves, Saving
<1>4. Cached'
  BY <1>1, <1>2, <1>3 DEF Cached, Saves, Saving
<1>5. CASE save_instance_id_check(a)
  <2>1. UNCHANGED file /\ call["main"] = "si_check"
        /\ call'["main"] # "si_remove"
    BY <1>0, <1>1, <1>5 DEF save_instance_id_check, Goto
  <2>2. ~Recording'
    BY <1>3 DEF Recording, Saves, Saving
  <2>3. Agreed
    BY DEF Decided
  <2> QED
    BY <1>3, <1>4, <2>1, <2>2, <2>3 DEF Agreed, ThisBoot
<1>6. CASE \/ save_instance_id_open(a) \/ save_instance_id_write(a)
           \/ save_instance_id_fails(a) \/ save_instance_id_remove(a)
  <2>1. call["main"] = "si_remove" \/ file["instance_id"] # instance
    BY <1>0, <1>1, <1>6
    DEF save_instance_id_open, save_instance_id_write, save_instance_id_fails,
        save_instance_id_remove, HasReason, Saving
  <2>2. answers[boot] = {}
    BY <2>1 DEF Decided, Agreed
  <2> QED
    BY <1>3, <1>4, <2>2 DEF Agreed
<1> QED
  BY <1>5, <1>6

LEMMA DecidedAsk ==
    ASSUME Types, OneSaver, HasReason, CutForm, SavedFirst, ModeOfService, Decided,
           Undisturbed, Undisturbed', stage # "off", NEW a \in Threads,
           is_first_boot_enter(a) \/ is_first_boot_open(a) \/ is_first_boot_write(a)
    PROVE  Agreed' /\ Cached' /\ UNCHANGED <<boot, answers>>
<1>0. /\ call \in [Threads -> Calls] /\ Threads = {"main", "uuid", "hostname"}
      /\ DOMAIN file = IdFiles \cup {"instance_id"} /\ "instance_id" \notin IdFiles
      /\ "first_boot_id" \in IdFiles /\ DOMAIN bootId = Threads
      /\ Handlers = {"uuid", "hostname"} /\ Nobody \notin Threads
      /\ ThisBoot(FALSE) \in BootIds /\ Absent \notin BootIds /\ Empty # Absent
  BY ContentsAssumption
  DEF Types, ProcessTypes, FileTypes, MachineTypes, Threads, Handlers, IdFiles, ThisBoot, BootIds
<1>1. call[a] \in Asks /\ stage # "uuid"
  BY <1>0 DEF is_first_boot_enter, is_first_boot_open, is_first_boot_write, OneSaver, Asks
<1>2. file["instance_id"] = instance /\ call["main"] # "si_remove"
  BY <1>1, SavedPastUuid DEF OneSaver, Saves
<1>3. /\ UNCHANGED <<boot, instance, stage, answers>>
      /\ file'["instance_id"] = file["instance_id"]
      /\ \A b \in Threads : b # a => call'[b] = call[b] /\ bootId'[b] = bootId[b]
      /\ call'[a] \in {"ib_open", "ib_write", "ib_return"}
  BY <1>0 DEF is_first_boot_enter, is_first_boot_open, is_first_boot_write, Goto, Write
<1>4. \A b \in Threads : b # a => call[b] \notin {"ib_open", "ib_write"}
  <2>1. lock = Nobody \/ lock = a
    BY DEF is_first_boot_enter, is_first_boot_open, is_first_boot_write, HasReason, Asks
  <2> QED
    BY <1>0, <2>1 DEF HasReason, Asks
<1>5. call'["main"] # "si_remove"
  BY <1>0, <1>2, <1>3
<1>6. Recording' <=> call'[a] \in {"ib_open", "ib_write"}
  BY <1>3, <1>4 DEF Recording
<1>7. Agreed /\ Cached
  BY DEF Decided
<1>8. CASE is_first_boot_enter(a)
  <2>1. ~Recording /\ UNCHANGED file
    BY <1>4, <1>8 DEF is_first_boot_enter, Recording
  <2>2. CASE file["first_boot_id"] = Absent
    <3>1. answers[boot] = {} /\ cacheFirst = "unset" /\ cacheBootId = FALSE
      BY <1>7, <2>1, <2>2 DEF Agreed, Cached
    <3>2. cacheFirst' = "yes" /\ bootId'[a] = ThisBoot(FALSE) /\ call'[a] = "ib_open"
      BY <1>0, <1>8, <2>2, <3>1 DEF is_first_boot_enter, Goto, get_boot_id, ThisBoot
    <3>3. Agreed'
      BY <1>3, <3>1 DEF Agreed
    <3>4. Cached'
      BY <1>1, <1>3, <1>4, <1>6, <3>2 DEF Cached, ThisBoot
    <3> QED
      BY <1>3, <3>3, <3>4
  <2>3. CASE file["first_boot_id"] # Absent
    <3>1. call'[a] = "ib_return" /\ ~Recording'
      BY <1>0, <1>6, <1>8, <2>3 DEF is_first_boot_enter, Goto
    <3>2. Agreed'
      BY <1>2, <1>3, <1>5, <1>7, <2>1, <3>1 DEF Agreed, ThisBoot
    <3>3. cacheFirst' # "unset" /\ (cacheFirst' = "yes" <=> file["first_boot_id"] = ThisBoot(FALSE))
      <4>1. CASE cacheFirst # "unset"
        <5>1. cacheFirst' = cacheFirst
          BY <1>8, <2>3, <4>1 DEF is_first_boot_enter
        <5> QED
          BY <1>7, <2>1, <4>1, <5>1 DEF Cached
      <4>2. CASE cacheFirst = "unset"
        <5>1. get_boot_id = ThisBoot(FALSE)
          BY <1>7, <4>2 DEF Cached, get_boot_id, ThisBoot
        <5>2. cacheFirst' = IF file["first_boot_id"] = get_boot_id THEN "yes" ELSE "no"
          BY <1>8, <2>3, <4>2 DEF is_first_boot_enter
        <5> QED
          BY <5>1, <5>2
      <4> QED
        BY <4>1, <4>2
    <3>4. Cached'
      BY <1>1, <1>3, <1>4, <2>1, <2>3, <3>1, <3>3 DEF Cached, ThisBoot
    <3> QED
      BY <1>3, <3>2, <3>4
  <2> QED
    BY <2>2, <2>3
<1>9. CASE is_first_boot_open(a) \/ is_first_boot_write(a)
  <2>1. call[a] \in {"ib_open", "ib_write"} /\ Recording
    BY <1>9 DEF is_first_boot_open, is_first_boot_write, Recording
  <2>2. answers[boot] = {} /\ cacheFirst = "yes" /\ bootId[a] = ThisBoot(FALSE)
    BY <1>7, <2>1 DEF Agreed, Cached, HasReason
  <2>3. Agreed'
    BY <1>3, <2>2 DEF Agreed
  <2>4. /\ UNCHANGED <<bootId, cacheFirst>>
        /\ call'[a] = "ib_return" => file'["first_boot_id"] = ThisBoot(FALSE)
    BY <1>0, <1>9, <2>2 DEF is_first_boot_open, is_first_boot_write, Goto, Write
  <2>5. \A b \in Threads : call'[b] \in {"ib_open", "ib_write"} => bootId'[b] = ThisBoot(FALSE)'
    BY <1>3, <1>4, <2>2, <2>4 DEF ThisBoot
  <2>6. Cached'
    BY <1>0, <1>1, <1>3, <1>6, <2>2, <2>4, <2>5 DEF Cached, ThisBoot
  <2> QED
    BY <1>3, <2>3, <2>6
<1> QED
  BY <1>8, <1>9

LEMMA DecidedReturn ==
    ASSUME Types, OneSaver, HasReason, CutForm, SavedFirst, ModeOfService, Decided,
           Undisturbed, Undisturbed', stage # "off", NEW a \in Threads, is_first_boot_return(a)
    PROVE  /\ Agreed' /\ Cached' /\ UNCHANGED boot
           /\ \A b \in Boots : b # boot => answers'[b] = answers[b]
           /\ ~(TRUE \in answers'[boot] /\ FALSE \in answers'[boot])
<1>0. /\ call \in [Threads -> Calls] /\ Threads = {"main", "uuid", "hostname"}
      /\ Handlers = {"uuid", "hostname"} /\ boot \in Boots
      /\ answers \in [Boots -> SUBSET BOOLEAN] /\ DOMAIN bootId = Threads
  BY DEF Types, ProcessTypes, MachineTypes, HistoryTypes, Threads, Handlers
<1>1. call[a] = "ib_return" /\ stage # "uuid" /\ cacheFirst # "unset"
  BY <1>0 DEF is_first_boot_return, OneSaver, CutForm, Asks
<1>2. file["instance_id"] = instance /\ call["main"] # "si_remove"
  BY <1>1, SavedPastUuid DEF OneSaver, Saves
<1>3. /\ UNCHANGED <<boot, instance, stage, file, cacheFirst, cacheBootId>>
      /\ \A b \in Threads : b # a => call'[b] = call[b] /\ bootId'[b] = bootId[b]
      /\ call'[a] = "none"
  BY <1>0 DEF is_first_boot_return, Goto
<1>4. ~Recording /\ ~Recording'
  <2>1. \A b \in Threads : b # a => call[b] \notin {"ib_open", "ib_write"}
    BY <1>0, <1>1 DEF HasReason, Asks
  <2> QED
    BY <1>1, <1>3, <2>1 DEF Recording
<1>5. Agreed /\ Cached
  BY DEF Decided
<1>6. Cached'
  BY <1>1, <1>3, <1>4, <1>5 DEF Cached, Recording, ThisBoot
<1>7. /\ \A b \in Boots : b # boot => answers'[b] = answers[b]
      /\ TRUE \in answers'[boot] => TRUE \in answers[boot] \/ cacheFirst = "yes"
      /\ FALSE \in answers'[boot] => FALSE \in answers[boot] \/ cacheFirst # "yes"
  <2>1. answers' = [answers EXCEPT ![boot] = @ \cup {cacheFirst = "yes"}]
    BY DEF is_first_boot_return
  <2>2. CASE cacheFirst = "yes"
    <3>1. answers'[boot] = answers[boot] \cup {TRUE}
      BY <1>0, <2>1, <2>2
    <3> QED
      BY <1>0, <2>1, <2>2, <3>1
  <2>3. CASE cacheFirst # "yes"
    <3>1. answers'[boot] = answers[boot] \cup {FALSE}
      BY <1>0, <2>1, <2>3
    <3> QED
      BY <1>0, <2>1, <2>3, <3>1
  <2> QED
    BY <2>2, <2>3
<1>8. /\ file["first_boot_id"] # Absent
      /\ cacheFirst = "yes" <=> file["first_boot_id"] = ThisBoot(FALSE)
  BY <1>1, <1>4, <1>5 DEF Cached
<1>9. /\ TRUE \in answers'[boot] => file["first_boot_id"] = ThisBoot(FALSE)
      /\ FALSE \in answers'[boot] => file["first_boot_id"] # ThisBoot(FALSE)
  BY <1>5, <1>7, <1>8 DEF Agreed
<1>10. call'["main"] # "si_remove"
  BY <1>0, <1>2, <1>3
<1>11. Agreed'
  BY <1>2, <1>3, <1>4, <1>8, <1>9, <1>10 DEF Agreed, ThisBoot
<1> QED
  BY <1>3, <1>6, <1>7, <1>9, <1>11

LEMMA DecidedStep ==
    /\ Types /\ Off /\ OneSaver /\ HasReason /\ CutForm /\ SavedFirst /\ ModeOfService
    /\ Decided /\ [Next]_vars
    => Decided'
<1> SUFFICES ASSUME Types, Off, OneSaver, HasReason, CutForm, SavedFirst, ModeOfService, Decided,
                    [Next]_vars
             PROVE  Decided'
  OBVIOUS
<1>0. /\ call \in [Threads -> Calls] /\ Threads = {"main", "uuid", "hostname"}
      /\ Handlers = {"uuid", "hostname"} /\ boot \in Boots /\ DOMAIN bootId = Threads
      /\ answers \in [Boots -> SUBSET BOOLEAN]
  BY DEF Types, ProcessTypes, MachineTypes, HistoryTypes, Threads, Handlers
<1>1. Undisturbed' => Undisturbed
  BY UndisturbedBefore
<1>2. ASSUME NEW a \in Threads, LibStep(a) PROVE Decided'
  <2>1. /\ UNCHANGED boot /\ \A b \in Boots : b # boot => answers'[b] = answers[b]
    BY <1>0, <1>2
    DEF LibStep, save_instance_id_check, save_instance_id_open,
        save_instance_id_write, save_instance_id_fails, save_instance_id_remove,
        is_first_boot_enter, is_first_boot_open, is_first_boot_write, is_first_boot_fails,
        is_first_boot_return
  <2>2. \A b \in Boots : b > boot => b # boot
    BY DEF Boots
  <2>3. \A b \in Boots : b > boot' => answers'[b] = {}
    BY <2>1, <2>2 DEF Decided
  <2>4. CASE Undisturbed'
    <3>1. Undisturbed
      BY <1>1, <2>4
    <3>2. call[a] # "none"
      BY <1>2
      DEF LibStep, save_instance_id_check, save_instance_id_open,
          save_instance_id_write, save_instance_id_fails, save_instance_id_remove,
          is_first_boot_enter, is_first_boot_open, is_first_boot_write, is_first_boot_fails,
          is_first_boot_return
    <3>3. stage # "off"
      BY <3>2 DEF Off, Fresh
    <3>4. ~is_first_boot_fails(a)
      <4>1. ~Fail("first_boot_id")
        BY <2>4, FreeBefore DEF Undisturbed, IdFaults, IdFiles, Types
      <4> QED
        BY <4>1 DEF is_first_boot_fails
    <3>5. CASE is_first_boot_return(a)
      BY <2>1, <2>3, <2>4, <3>1, <3>3, <3>5, DecidedReturn DEF Decided
    <3>6. CASE is_first_boot_enter(a) \/ is_first_boot_open(a) \/ is_first_boot_write(a)
      BY <2>3, <2>4, <3>1, <3>3, <3>6, DecidedAsk DEF Decided
    <3>7. CASE \/ save_instance_id_check(a) \/ save_instance_id_open(a)
               \/ save_instance_id_write(a) \/ save_instance_id_fails(a)
               \/ save_instance_id_remove(a)
      BY <2>3, <2>4, <3>1, <3>3, <3>7, DecidedSave DEF Decided
    <3> QED
      BY <1>2, <3>4, <3>5, <3>6, <3>7 DEF LibStep
  <2> QED
    BY <2>3, <2>4 DEF Decided
<1>3. Undisturbed' => /\ Undisturbed
                      /\ cacheFirst = "unset" =>
                             stage \in {"off", "uuid", "first_boot"} /\ cacheBootId = FALSE
                      /\ stage = "uuid" => cacheFirst = "unset"
  BY <1>1 DEF Decided, Cached
<1>4. CASE main_ask_first_boot \/ main_setup \/ bootcmd_return
  <2>1. /\ UNCHANGED <<boot, instance, answers, cacheFirst, file, bootId, cacheBootId>>
        /\ OnlyNewCalls
    BY <1>0, <1>4 DEF OnlyNewCalls, main_ask_first_boot, main_setup, bootcmd_return, Goto
  <2>2. Undisturbed' /\ cacheFirst = "unset" => stage' \in {"off", "uuid", "first_boot"}
    BY <1>3, <1>4 DEF main_ask_first_boot, main_setup, bootcmd_return, CutForm
  <2>3. stage' # "uuid"
    BY <1>4 DEF main_ask_first_boot, main_setup, bootcmd_return
  <2> QED
    BY <1>1, <1>3, <2>1, <2>2, <2>3, DecidedKept
<1>5. CASE process_metadata \/ process_userdata
  <2>1. /\ UNCHANGED <<boot, instance, answers, cacheFirst, file, bootId>>
        /\ stage \in {"metadata", "retry", "userdata"} /\ stage' # "uuid"
    BY <1>5 DEF process_metadata, process_userdata, userdata_process_file
  <2>2. OnlyNewCalls
    <3>1. call["main"] = "none"
      BY <1>0, <2>1 DEF OneSaver, Saves, Saving, Asks, Calls
    <3> QED
      BY <1>0, <1>5, <2>1, <3>1 DEF OnlyNewCalls, process_metadata, process_userdata, userdata_process_file, Goto
  <2> QED
    BY <1>1, <1>3, <2>1, <2>2, DecidedKept
<1>6. ASSUME NEW h \in Handlers, handler_start(h) \/ handler_done(h) PROVE Decided'
  <2>1. UNCHANGED <<boot, instance, answers, cacheFirst, file, bootId, cacheBootId, stage>>
    BY <1>6 DEF handler_start, handler_done
  <2>2. handler[h] = "queued" => call[h] = "none"
    BY DEF OneSaver
  <2>3. OnlyNewCalls
    BY <1>0, <1>6, <2>1, <2>2 DEF OnlyNewCalls, handler_start, handler_done, Goto
  <2> QED
    BY <1>1, <1>3, <2>1, <2>3, DecidedKept
<1>7. CASE RecordStep
  <2>1. /\ stage \in {"md_open", "md_write", "ud_open", "ud_write"}
        /\ UNCHANGED <<boot, instance, answers, cacheFirst, call>> /\ stage' # "uuid"
        /\ file'["instance_id"] = file["instance_id"]
        /\ file'["first_boot_id"] = file["first_boot_id"]
        /\ \A h \in Handlers : bootId'[h] = bootId[h]
    BY <1>7, RecordFrame DEF RecordStep, record_open, record_write, record_fails
  <2>2. call["main"] = "none"
    BY <1>0, <2>1 DEF OneSaver, Saves, Saving, Asks, Calls
  <2>3. OnlyNewCalls
    BY <1>0, <2>1, <2>2 DEF OnlyNewCalls
  <2> QED
    BY <1>1, <1>3, <2>1, <2>3, DecidedKept
<1>8. CASE ucd_start
  <2>1. /\ UNCHANGED <<boot, instance, answers, cacheFirst, file, bootId, cacheBootId>>
        /\ \A a \in Threads : call[a] = "none" /\ call'[a] \in {"none", "si_check"}
        /\ cacheFirst = "unset" /\ cacheBootId = FALSE
        /\ OnlyNewCalls
    BY <1>0, <1>8 DEF OnlyNewCalls, ucd_start, start_datasource, start_datasource_fails, start_metadata_file,
                      Goto, Off, Fresh
  <2>2. Undisturbed' => stage' = "uuid"
    <3>1. Undisturbed' => ~Fail("start")
      BY FreeBefore DEF Undisturbed, IdFaults, Types
    <3> QED
      BY <1>8, <3>1 DEF ucd_start, start_datasource, start_datasource_fails, start_metadata_file,
                        Undisturbed
  <2> QED
    BY <1>1, <2>1, <2>2, DecidedKept
<1>9. CASE ucd_end \/ Crash
  <2>1. /\ UNCHANGED <<boot, instance, answers, file>>
        /\ \A a \in Threads : call'[a] = "none"
        /\ cacheFirst' = "unset" /\ cacheBootId' = FALSE /\ stage' = "off"
    BY <1>9 DEF ucd_end, Crash, Gone, Fresh
  <2>2. ~Recording' /\ call'["main"] = "none"
    BY <1>0, <2>1 DEF Recording
  <2>3. Cached'
    BY <2>1 DEF Cached
  <2>4. Agreed => Agreed'
    BY <2>1, <2>2 DEF Agreed, ThisBoot
  <2> QED
    BY <1>1, <2>1, <2>3, <2>4 DEF Decided
<1>10. CASE Reboot
  <2>1. /\ UNCHANGED <<answers, call, cacheFirst, cacheBootId, stage>>
        /\ stage = "off" /\ boot' = boot + 1 /\ boot' \in Boots
    BY <1>10, NextTypes DEF Reboot, Types, MachineTypes
  <2>2. /\ \A a \in Threads : call[a] = "none"
        /\ cacheFirst = "unset" /\ cacheBootId = FALSE
    BY <2>1 DEF Off, Fresh
  <2>3. boot' > boot /\ \A b \in Boots : b > boot' => b > boot
    BY <1>0, <2>1 DEF Boots
  <2>4. answers'[boot'] = {} /\ \A b \in Boots : b > boot' => answers'[b] = {}
    BY <2>1, <2>3 DEF Decided
  <2>5. Agreed' /\ Cached'
    BY <2>1, <2>2, <2>4 DEF Agreed, Cached
  <2> QED
    BY <1>1, <2>1, <2>4, <2>5 DEF Decided
<1>11. CASE UNCHANGED vars
  <2>1. OnlyNewCalls /\ UNCHANGED <<boot, instance, answers, cacheFirst, file, cacheBootId, stage>>
    BY <1>11 DEF vars, OnlyNewCalls
  <2> QED
    BY <1>1, <1>3, <2>1, DecidedKept
<1> QED
  BY <1>2, <1>4, <1>5, <1>6, <1>7, <1>8, <1>9, <1>10, <1>11 DEF Next, BoundReached, RecordStep

THEOREM DecidedAlways == Spec => []Decided
BY DecidedInit, DecidedStep, TypesAlways, OffAlways, OneSaverAlways, HasReasonAlways,
   CutFormAlways, SavedFirstAlways, ModeAlways, PTL
DEF Spec

(* In service, and on a disk on which the ids can be read and written, all
   answers of is_first_boot in a boot are the same. *)
THEOREM OneAnswer == Spec => []SameBootSameAnswer
<1>1. Types /\ Decided => SameBootSameAnswer
  <2> SUFFICES ASSUME Types, Decided, ~mixed, Count(IdFaults) = 0, NEW b \in Boots
               PROVE  Cardinality(answers[b]) <= 1
    BY DEF SameBootSameAnswer
  <2>1. Undisturbed
    BY CountZero DEF Undisturbed, Types, HistoryTypes
  <2>2. answers[b] \subseteq BOOLEAN /\ ~(TRUE \in answers[b] /\ FALSE \in answers[b])
    BY <2>1 DEF Decided, Types, HistoryTypes
  <2>3. answers[b] = {} \/ answers[b] = {TRUE} \/ answers[b] = {FALSE}
    BY <2>2
  <2>4. Cardinality({}) = 0 /\ Cardinality({TRUE}) = 1 /\ Cardinality({FALSE}) = 1
    BY FS_EmptySet, FS_Singleton
  <2>5. Cardinality(answers[b]) = 0 \/ Cardinality(answers[b]) = 1
    BY <2>3, <2>4, Zenon
  <2> QED
    BY <2>5
<1> QED
  BY <1>1, DecidedAlways, TypesAlways, PTL

-----------------------------------------------------------------------------
(* Every instance is set up.                                               *)

NeverLost == mixed = FALSE /\ Free({"kill", "start", "instance_id"})

(* How far a run can be for an instance that has had no first boot yet: it is
   going to answer yes. *)
SetUpAhead ==
    \/ /\ stage = "uuid" /\ call["main"] = "si_check"
       /\ file["instance_id"] # instance
       /\ file["instance_id"] = Absent => file["first_boot_id"] = Absent
    \/ /\ stage = "uuid" /\ call["main"] \in {"si_open", "si_write", "none"}
       /\ file["first_boot_id"] = Absent
    \/ stage = "uuid" /\ call["main"] \in {"si_open_changed", "si_write_changed", "si_remove"}
    \/ stage = "first_boot" /\ call["main"] = "ib_enter" /\ file["first_boot_id"] = Absent
    \/ stage = "first_boot" /\ call["main"] \in Asks \ {"ib_enter"} /\ cacheFirst = "yes"

(* Nobody was killed: whoever has its id in the file, other than the instance
   that a run is working on, has been set up. *)
SetUpFirstOfAll ==
    NeverLost =>
        /\ \A i \in completed : firstBoots[i] # {}
        /\ \A i \in Instances : file["instance_id"] = i =>
               firstBoots[i] # {} \/ (stage # "off" /\ i = instance)
        /\ stage = "off" /\ file["instance_id"] = Absent => file["first_boot_id"] = Absent
        /\ stage # "off" /\ firstBoots[instance] = {} => SetUpAhead

LEMMA SetUpInit == Init => SetUpFirstOfAll
BY ContentsAssumption DEF Init, Fresh, SetUpFirstOfAll, IdFiles

LEMMA NeverLostBefore ==
    ASSUME Types, [Next]_vars, NeverLost'
    PROVE  /\ NeverLost
           /\ ~Fail("kill") /\ ~Fail("start") /\ ~Fail("instance_id")
<1>1. Free({"kill", "start", "instance_id"})
  BY FreeKept DEF NeverLost
<1>2. mixed' = mixed \/ mixed' = TRUE
  BY DEF Next, BoundReached, vars, LibStep, save_instance_id_check, save_instance_id_open,
         save_instance_id_write, save_instance_id_fails, save_instance_id_remove,
         is_first_boot_enter, is_first_boot_open, is_first_boot_write, is_first_boot_fails,
         is_first_boot_return, main_ask_first_boot, main_setup, process_metadata,
         process_userdata, bootcmd_return, handler_start, handler_done, record_open,
         record_write, record_fails, ucd_start, start_datasource, start_datasource_fails,
         start_metadata_file, ucd_end, Gone, Crash, Reboot
<1>3. ASSUME NEW f \in {"kill", "start", "instance_id"}, Fail(f) PROVE FALSE
  BY <1>3, FreeBefore DEF NeverLost, Types
<1> QED
  BY <1>1, <1>2, <1>3 DEF NeverLost

(* A run that is past asking has set its instance up. *)
LEMMA SetUpPastAsking ==
    ASSUME SetUpFirstOfAll, NeverLost, stage \notin {"off", "uuid", "first_boot"}
    PROVE  firstBoots[instance] # {}
BY DEF SetUpFirstOfAll, SetUpAhead

(* Steps of such a run. *)
LEMMA SetUpKept ==
    ASSUME SetUpFirstOfAll, NeverLost, firstBoots[instance] # {}, stage # "off", stage' # "off",
           UNCHANGED <<instance, firstBoots, completed>>,
           file'["instance_id"] = file["instance_id"]
    PROVE  SetUpFirstOfAll'
BY DEF SetUpFirstOfAll

LEMMA SetUpSave ==
    ASSUME Types, SavedFirst, ModeOfService, SetUpFirstOfAll, NeverLost, ~Fail("instance_id"),
           stage # "off", NEW a \in Threads,
           \/ save_instance_id_check(a) \/ save_instance_id_open(a)
           \/ save_instance_id_write(a) \/ save_instance_id_fails(a)
           \/ save_instance_id_remove(a)
    PROVE  SetUpFirstOfAll'
<1>0. /\ call \in [Threads -> Calls] /\ Threads = {"main", "uuid", "hostname"}
      /\ DOMAIN file = IdFiles \cup {"instance_id"} /\ "instance_id" \notin IdFiles
      /\ "first_boot_id" \in IdFiles /\ Empty \notin Instances /\ instance \in Instances
  BY ContentsAssumption DEF Types, ProcessTypes, FileTypes, MachineTypes, Threads, Handlers, IdFiles
<1>1. InService
  BY DEF ModeOfService, NeverLost, InService, IdLost, Free
<1>2. a = "main" /\ stage = "uuid"
  BY <1>0, <1>1
  DEF save_instance_id_check, save_instance_id_open, save_instance_id_write,
      save_instance_id_fails, save_instance_id_remove, SavedFirst, Saving
<1>3. UNCHANGED <<instance, stage, firstBoots, completed>>
  BY DEF save_instance_id_check, save_instance_id_open, save_instance_id_write,
         save_instance_id_fails, save_instance_id_remove
<1>4. firstBoots[instance] = {} => SetUpAhead
  BY <1>2 DEF SetUpFirstOfAll
<1>5. CASE save_instance_id_check(a)
  <2>1. UNCHANGED file /\ call["main"] = "si_check"
        /\ call'["main"] = CASE file["instance_id"] = Absent -> "si_open"
                             [] file["instance_id"] = instance -> "none"
                             [] OTHER -> "si_open_changed"
    BY <1>0, <1>2, <1>5 DEF save_instance_id_check, Goto
  <2>2. ASSUME firstBoots[instance] = {} PROVE SetUpAhead'
    <3>1. /\ file["instance_id"] # instance
          /\ file["instance_id"] = Absent => file["first_boot_id"] = Absent
      BY <1>2, <1>4, <2>1, <2>2 DEF SetUpAhead
    <3> QED
      BY <1>2, <1>3, <2>1, <3>1 DEF SetUpAhead
  <2> QED
    BY <1>3, <2>1, <2>2 DEF SetUpFirstOfAll
<1>6. CASE save_instance_id_open(a) \/ save_instance_id_write(a) \/ save_instance_id_remove(a)
  <2>1. file'["instance_id"] \in {file["instance_id"], Empty, instance}
    BY <1>0, <1>6 DEF save_instance_id_open, save_instance_id_write, save_instance_id_remove, Write
  <2>2. firstBoots[instance] = {} => SetUpAhead'
    <3>1. CASE save_instance_id_open(a)
      BY <1>0, <1>2, <1>3, <1>4, <3>1 DEF save_instance_id_open, Goto, Write, SetUpAhead
    <3>2. CASE save_instance_id_write(a)
      BY <1>0, <1>2, <1>3, <1>4, <3>2 DEF save_instance_id_write, Goto, Write, SetUpAhead
    <3>3. CASE save_instance_id_remove(a)
      BY <1>0, <1>2, <1>3, <3>3 DEF save_instance_id_remove, Goto, Write, SetUpAhead
    <3> QED
      BY <1>6, <3>1, <3>2, <3>3
  <2> QED
    BY <1>0, <1>2, <1>3, <2>1, <2>2 DEF SetUpFirstOfAll
<1>7. ~save_instance_id_fails(a)
  BY DEF save_instance_id_fails
<1> QED
  BY <1>5, <1>6, <1>7

LEMMA SetUpAsk ==
    ASSUME Types, OneSaver, SetUpFirstOfAll, NeverLost, stage # "off", NEW a \in Threads,
           \/ is_first_boot_enter(a) \/ is_first_boot_open(a) \/ is_first_boot_write(a)
           \/ is_first_boot_fails(a) \/ is_first_boot_return(a)
    PROVE  SetUpFirstOfAll'
<1>0. /\ call \in [Threads -> Calls] /\ Threads = {"main", "uuid", "hostname"}
      /\ Handlers = {"uuid", "hostname"} /\ instance \in Instances
      /\ DOMAIN file = IdFiles \cup {"instance_id"} /\ "instance_id" \notin IdFiles
      /\ "first_boot_id" \in IdFiles /\ firstBoots \in [Instances -> SUBSET Boots]
  BY DEF Types, ProcessTypes, FileTypes, MachineTypes, HistoryTypes, Threads, Handlers, IdFiles
<1>1. call[a] \in Asks /\ UNCHANGED <<instance, stage, completed>>
      /\ file'["instance_id"] = file["instance_id"]
  BY <1>0 DEF is_first_boot_enter, is_first_boot_open, is_first_boot_write, is_first_boot_fails,
              is_first_boot_return, Write, Asks
<1>2. \A i \in Instances : firstBoots[i] # {} => firstBoots'[i] # {}
  <2>1. CASE UNCHANGED firstBoots
    BY <2>1
  <2>2. CASE firstBoots' = [firstBoots EXCEPT ![instance] = @ \cup {boot}]
    BY <1>0, <2>2
  <2> QED
    BY <2>1, <2>2 DEF is_first_boot_enter, is_first_boot_open, is_first_boot_write,
                      is_first_boot_fails, is_first_boot_return
<1>3. ASSUME firstBoots'[instance] = {}
      PROVE  SetUpAhead'
  <2>1. SetUpAhead
    BY <1>0, <1>2, <1>3 DEF SetUpFirstOfAll
  <2>2. a = "main" /\ stage = "first_boot"
    <3>1. stage # "uuid"
      BY <1>0, <1>1 DEF OneSaver, Asks
    <3>2. stage = "first_boot"
      BY <2>1, <3>1 DEF SetUpAhead
    <3> QED
      BY <1>0, <1>1, <3>2 DEF OneSaver, Asks
  <2>3. CASE is_first_boot_enter(a)
    <3>1. file["first_boot_id"] = Absent
      BY <2>1, <2>2, <2>3 DEF is_first_boot_enter, SetUpAhead, Asks
    <3> QED
      BY <1>0, <1>1, <2>2, <2>3, <3>1 DEF is_first_boot_enter, Goto, SetUpAhead, Asks
  <2>4. cacheFirst = "yes" \/ call["main"] = "ib_enter"
    BY <2>1, <2>2 DEF SetUpAhead
  <2>5. CASE is_first_boot_open(a) \/ is_first_boot_write(a) \/ is_first_boot_fails(a)
    <3>1. call'["main"] \in {"ib_write", "ib_return"} /\ UNCHANGED cacheFirst
          /\ call["main"] # "ib_enter"
      BY <1>0, <2>2, <2>5 DEF is_first_boot_open, is_first_boot_write, is_first_boot_fails, Goto
    <3> QED
      BY <1>1, <2>2, <2>4, <3>1 DEF SetUpAhead, Asks
  <2>6. CASE is_first_boot_return(a)
    <3>1. cacheFirst = "yes"
      BY <2>2, <2>4, <2>6 DEF is_first_boot_return
    <3>2. firstBoots' = [firstBoots EXCEPT ![instance] = @ \cup {boot}]
      BY <2>2, <2>6, <3>1 DEF is_first_boot_return
    <3> QED
      BY <1>0, <1>3, <3>2
  <2> QED
    BY <2>3, <2>5, <2>6
<1>4. completed \subseteq Instances
  BY DEF Types, HistoryTypes
<1> QED
  BY <1>1, <1>2, <1>3, <1>4 DEF SetUpFirstOfAll

LEMMA SetUpStep ==
    /\ Types /\ Off /\ OneSaver /\ SavedFirst /\ ModeOfService /\ SetUpFirstOfAll /\ [Next]_vars
    => SetUpFirstOfAll'
<1> SUFFICES ASSUME Types, Off, OneSaver, SavedFirst, ModeOfService, SetUpFirstOfAll, [Next]_vars,
                    NeverLost'
             PROVE  SetUpFirstOfAll'
  BY DEF SetUpFirstOfAll
<1>0. /\ call \in [Threads -> Calls] /\ Threads = {"main", "uuid", "hostname"}
      /\ instance \in Instances /\ Absent \notin Instances
  BY ContentsAssumption DEF Types, ProcessTypes, MachineTypes, Threads, Handlers
<1>1. NeverLost /\ ~Fail("kill") /\ ~Fail("start") /\ ~Fail("instance_id")
  BY NeverLostBefore
<1>2. ASSUME NEW a \in Threads, LibStep(a) PROVE SetUpFirstOfAll'
  <2>1. call[a] # "none"
    BY <1>2
    DEF LibStep, save_instance_id_check, save_instance_id_open,
        save_instance_id_write, save_instance_id_fails, save_instance_id_remove,
        is_first_boot_enter, is_first_boot_open, is_first_boot_write, is_first_boot_fails,
        is_first_boot_return
  <2>2. stage # "off"
    BY <2>1 DEF Off, Fresh
  <2> QED
    BY <1>1, <1>2, <2>2, SetUpSave, SetUpAsk DEF LibStep
<1>3. CASE main_ask_first_boot \/ main_setup
  <2>1. UNCHANGED <<instance, file, firstBoots, completed>>
        /\ stage # "off" /\ stage' # "off" /\ call["main"] = "none"
    BY <1>3 DEF main_ask_first_boot, main_setup
  <2>2. ASSUME firstBoots[instance] = {} PROVE SetUpAhead'
    <3>1. SetUpAhead
      BY <1>1, <2>1, <2>2 DEF SetUpFirstOfAll
    <3>2. stage = "uuid" /\ file["first_boot_id"] = Absent
      BY <2>1, <3>1 DEF SetUpAhead, Asks
    <3>3. main_ask_first_boot
      BY <1>3, <3>2 DEF main_setup
    <3> QED
      BY <1>0, <3>2, <3>3 DEF main_ask_first_boot, Goto, SetUpAhead
  <2> QED
    BY <1>1, <2>1, <2>2 DEF SetUpFirstOfAll
<1>4. CASE process_metadata \/ process_userdata \/ bootcmd_return
  <2>1. /\ UNCHANGED <<instance, file, firstBoots, completed>>
        /\ stage \notin {"off", "uuid", "first_boot"} /\ stage' # "off"
    BY <1>4 DEF process_metadata, process_userdata, userdata_process_file, bootcmd_return
  <2> QED
    BY <1>1, <2>1, SetUpPastAsking, SetUpKept
<1>5. ASSUME NEW h \in Handlers, handler_start(h) \/ handler_done(h) PROVE SetUpFirstOfAll'
  <2>1. /\ UNCHANGED <<instance, file, firstBoots, completed, stage>>
        /\ stage \notin {"off", "uuid", "first_boot"}
    BY <1>5 DEF handler_start, handler_done, OneSaver
  <2> QED
    BY <1>1, <2>1, SetUpPastAsking, SetUpKept
<1>6. CASE RecordStep
  <2>1. /\ UNCHANGED <<instance, firstBoots, completed>>
        /\ file'["instance_id"] = file["instance_id"]
        /\ stage \notin {"off", "uuid", "first_boot"} /\ stage' # "off"
    BY <1>6, RecordFrame DEF RecordStep, record_open, record_write, record_fails
  <2> QED
    BY <1>1, <2>1, SetUpPastAsking, SetUpKept
<1>7. CASE ucd_start
  <2>1. stage = "off" /\ UNCHANGED <<instance, file, firstBoots, completed>>
    BY <1>7 DEF ucd_start
  <2>2. start_datasource
    BY <1>1, <1>7 DEF ucd_start, start_datasource_fails, start_metadata_file, NeverLost
  <2>3. stage' = "uuid" /\ call'["main"] = "si_check"
    BY <1>0, <2>2 DEF start_datasource, Goto
  <2>4. firstBoots[instance] = {} => SetUpAhead'
    BY <1>0, <1>1, <2>1, <2>3 DEF SetUpFirstOfAll, SetUpAhead
  <2> QED
    BY <1>1, <2>1, <2>3, <2>4 DEF SetUpFirstOfAll
<1>8. CASE ucd_end
  <2>1. /\ stage = "join" /\ stage' = "off" /\ UNCHANGED <<instance, file, firstBoots>>
        /\ completed' \subseteq completed \cup {instance}
    BY <1>8 DEF ucd_end, Gone, Fresh
  <2>2. firstBoots[instance] # {}
    BY <1>1, <2>1, SetUpPastAsking
  <2>3. InService
    BY <1>1, <2>1 DEF ModeOfService, NeverLost, InService, IdLost, Free
  <2>4. file["instance_id"] = instance
    BY <2>1, <2>3 DEF SavedFirst
  <2> QED
    BY <1>0, <1>1, <2>1, <2>2, <2>4 DEF SetUpFirstOfAll
<1>9. ~Crash
  BY <1>1 DEF Crash
<1>10. CASE Reboot
  BY <1>1, <1>10 DEF Reboot, SetUpFirstOfAll
<1>11. CASE UNCHANGED vars
  BY <1>1, <1>11 DEF vars, SetUpFirstOfAll, SetUpAhead
<1> QED
  BY <1>2, <1>3, <1>4, <1>5, <1>6, <1>7, <1>8, <1>9, <1>10, <1>11 DEF Next, BoundReached, RecordStep

THEOREM SetUpFirstAlways == Spec => []SetUpFirstOfAll
BY SetUpInit, SetUpStep, TypesAlways, OffAlways, OneSaverAlways, SavedFirstAlways, ModeAlways, PTL
DEF Spec

(* As long as ucd is not killed, its datasource starts and the instance-id can
   be written, an instance for which ucd has come to its end has been set up:
   main() has taken some boot for its first one. *)
THEOREM InstancesAreSetUp == Spec => []InstanceSetUpUnlessKilled
<1>1. Types /\ SetUpFirstOfAll => InstanceSetUpUnlessKilled
  <2> SUFFICES ASSUME Types, SetUpFirstOfAll, Count({"kill", "start", "instance_id"}) = 0, ~mixed,
                      NEW i \in completed
               PROVE  firstBoots[i] # {}
    BY DEF InstanceSetUpUnlessKilled
  <2>1. Free({"kill", "start", "instance_id"})
    BY CountZero DEF Types
  <2>2. mixed = FALSE
    BY DEF Types, HistoryTypes
  <2> QED
    BY <2>1, <2>2 DEF SetUpFirstOfAll, NeverLost
<1> QED
  BY <1>1, SetUpFirstAlways, TypesAlways, PTL
=============================================================================
