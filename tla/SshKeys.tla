------------------------------- MODULE SshKeys -------------------------------
(***************************************************************************)
(* write_ssh_keys of src/lib.c, on the threads that call it: those of the  *)
(* pool with the handlers of "public_keys" and "keys" of OpenStack's       *)
(* metadata, and the main thread with the users and ssh_authorized_keys    *)
(* modules of the cloud-config, all for one user.  Nothing locks the file. *)
(*                                                                         *)
(* A text is a sequence of keys and newlines; a key is one element, with   *)
(* the whole of its line: lines that only contain a key (options before    *)
(* it, a comment sign) are not modelled.  The user exists, and no system   *)
(* call fails.                                                             *)
(***************************************************************************)
EXTENDS Naturals, Sequences, FiniteSets

CONSTANTS
    Keys,       \* the keys there are
    Demands,    \* what the threads may have to write: texts, in order, for each thread
    Starts,     \* what the file may be before
    Absent      \* the file does not exist

NL == "newline"
KeyTexts == Seq(Keys \cup {NL})

KeyHandlers == {"public_keys", "keys"}
Threads == KeyHandlers \cup {"userdata"}

(* No line holds more than a key, and the last line is ended. *)
KeyPerLine(text) == \A i \in DOMAIN text : i > 1 /\ text[i] # NL => text[i - 1] = NL
WholeLines(text) == KeyPerLine(text) /\ (text # <<>> => text[Len(text)] = NL)

ASSUME KeysAssumption == NL \notin Keys /\ Absent \notin KeyTexts
ASSUME StartsAssumption == \A f \in Starts : f = Absent \/ f \in KeyTexts

(* The modules of the cloud-config end each key with a newline; metadata may
   lack the last one. *)
ASSUME DemandsAssumption ==
    \A demand \in Demands :
        /\ demand \in [Threads -> Seq(KeyTexts)]
        /\ \A t \in Threads : \A n \in DOMAIN demand[t] : KeyPerLine(demand[t][n])
        /\ \A n \in DOMAIN demand["userdata"] : WholeLines(demand["userdata"][n])

VARIABLES
    calls,      \* calls[t]: the data of the calls of write_ssh_keys by thread t, in order
    start,      \* what authorized_keys was before
    active,     \* the threads that have keys to write this time
    file,       \* authorized_keys
    pc,         \* pc[t]: how far t is inside write_ssh_keys
    made,       \* made[t]: how many of its calls t has completed
    auth_keys,  \* auth_keys[t]: the keys in the file when t read it
    line,       \* line[t]: how much of its data t has compared
    missing     \* missing[t]: the text that t is about to append

given == <<calls, start, active>>
read == <<auth_keys, line, missing>>
writing == <<given, file, pc, made, read>>

KeysIn(text) == {text[i] : i \in DOMAIN text} \ {NL}
KeysGiven(t) == UNION {KeysIn(calls[t][n]) : n \in DOMAIN calls[t]}
KeysKnown ==
    (UNION {KeysGiven(t) : t \in Threads}) \cup (IF start = Absent THEN {} ELSE KeysIn(start))

TypeOK ==
    /\ calls \in Demands /\ start \in Starts /\ active \subseteq Threads
    /\ file = Absent \/ file \in Seq(KeysKnown \cup {NL})
    /\ pc \in [Threads -> {"idle", "create", "write", "compare"}]
    /\ made \in [Threads -> Nat] /\ line \in [Threads -> Nat]
    /\ auth_keys \in [Threads -> SUBSET KeysKnown] /\ missing \in [Threads -> KeyTexts]
    /\ \A t \in Threads :
          made[t] <= Len(calls[t]) /\ missing[t] \in Seq(KeysGiven(t) \cup {NL})

WriteInit ==
    /\ calls \in Demands /\ start \in Starts /\ active \in SUBSET Threads
    /\ file = start
    /\ pc = [t \in Threads |-> "idle"]
    /\ made = [t \in Threads |-> 0]
    /\ auth_keys = [t \in Threads |-> {}]
    /\ line = [t \in Threads |-> 0]
    /\ missing = [t \in Threads |-> <<>>]

Data(t) == calls[t][made[t] + 1]
Working(t) == t \in active /\ made[t] < Len(calls[t])

Return(t) ==
    /\ pc' = [pc EXCEPT ![t] = "idle"]
    /\ made' = [made EXCEPT ![t] = @ + 1]

(* 292: no file yet; it will be created with the data as they are. *)
stat_absent(t) ==
    /\ Working(t) /\ pc[t] = "idle"
    /\ file = Absent
    /\ pc' = [pc EXCEPT ![t] = "create"]
    /\ UNCHANGED <<given, file, made, read>>

(* 293, write_file with O_CREAT|O_WRONLY: a file that another thread has
   created in the meantime is opened as it is ... *)
write_file_create(t) ==
    /\ pc[t] = "create"
    /\ file' = IF file = Absent THEN <<>> ELSE file
    /\ pc' = [pc EXCEPT ![t] = "write"]
    /\ UNCHANGED <<given, made, read>>

(* ... and overwritten from its beginning. *)
write_file_write(t) ==
    /\ pc[t] = "write"
    /\ file' = Data(t) \o SubSeq(file, Len(Data(t)) + 1, Len(file))
    /\ Return(t)
    /\ UNCHANGED <<given, read>>

(* 297-303: the file is read and the data are split. *)
read_file(t) ==
    /\ Working(t) /\ pc[t] = "idle"
    /\ file # Absent
    /\ auth_keys' = [auth_keys EXCEPT ![t] = KeysIn(file)]
    /\ line' = [line EXCEPT ![t] = 0]
    /\ missing' = [missing EXCEPT ![t] = <<>>]
    /\ pc' = [pc EXCEPT ![t] = "compare"]
    /\ UNCHANGED <<given, file, made>>

(* Fault: a key that the file has already is appended again. *)
compare_line_all(t) ==
    /\ pc[t] = "compare" /\ line[t] < Len(Data(t))
    /\ line' = [line EXCEPT ![t] = @ + 1]
    /\ LET key == Data(t)[line[t] + 1]
       IN  missing' = IF key = NL THEN missing ELSE [missing EXCEPT ![t] = @ \o <<key, NL>>]
    /\ UNCHANGED <<given, file, pc, made, auth_keys>>

(* 305-309: a line that the file read does not contain anywhere goes to a line
   of its own.  The code looks for the text of the line anywhere in that of the
   file (g_strstr_len); keys being elements, none is a part of another here. *)
compare_line(t) ==
    /\ pc[t] = "compare" /\ line[t] < Len(Data(t))
    /\ line' = [line EXCEPT ![t] = @ + 1]
    /\ LET key == Data(t)[line[t] + 1]
       IN  missing' = IF key = NL \/ key \in auth_keys[t] THEN missing
                      ELSE [missing EXCEPT ![t] = @ \o <<key, NL>>]
    /\ UNCHANGED <<given, file, pc, made, auth_keys>>

(* Fault: the text is written at the position the file ended at when it was
   read, without O_APPEND; here the beginning. *)
write_file_append_seek(t) ==
    /\ pc[t] = "compare" /\ line[t] = Len(Data(t))
    /\ file' = missing[t] \o SubSeq(file, Len(missing[t]) + 1, Len(file))
    /\ Return(t)
    /\ UNCHANGED <<given, read>>

(* Fault: the last newline is not written. *)
write_file_append_bare(t) ==
    /\ pc[t] = "compare" /\ line[t] = Len(Data(t))
    /\ file' = file \o SubSeq(missing[t], 1, Len(missing[t]) - 1)
    /\ Return(t)
    /\ UNCHANGED <<given, read>>

(* 314, write_file with O_APPEND: at the end, wherever that is by now. *)
write_file_append(t) ==
    /\ pc[t] = "compare" /\ line[t] = Len(Data(t))
    /\ file' = file \o missing[t]
    /\ Return(t)
    /\ UNCHANGED <<given, read>>

WriteStep(t) ==
    \/ stat_absent(t) \/ write_file_create(t) \/ write_file_write(t)
    \/ read_file(t) \/ compare_line(t) \/ write_file_append(t)

WriteNext == \E t \in Threads : WriteStep(t)

WriteSpec == WriteInit /\ [][WriteNext]_writing

AllMade == \A t \in active : made[t] = Len(calls[t])

-----------------------------------------------------------------------------
(* What sshd makes of the file: the keys that are lines of it. *)
Authorized(f) ==
    IF f = Absent THEN {}
    ELSE {f[i] : i \in {j \in DOMAIN f : /\ j = 1 \/ f[j - 1] = NL
                                         /\ j = Len(f) \/ f[j + 1] = NL}} \ {NL}

(* Every key that was given is authorized in the end ("This will be added to
   the default user account's SSH configuration"). *)
KeysDelivered == AllMade => \A t \in active : KeysGiven(t) \subseteq Authorized(file)

(* There was a file, and its last line is ended. *)
Existed == start # Absent /\ WholeLines(start)

(* That is so if the file existed before, whatever the interleaving of the
   threads, or if the main thread alone writes to it. *)
KeysDeliveredToFile ==
    Existed \/ (start = Absent /\ active \subseteq {"userdata"}) => KeysDelivered

(* A key that is authorized in a file that existed before stays so. *)
KeysKept == [][Existed => Authorized(file) \subseteq Authorized(file')]_writing

Distinct(text) == \A i, j \in DOMAIN text : text[i] = text[j] /\ text[i] # NL => i = j

(* A single thread never writes a key twice, nor one that was there before,
   unless one call is given the same key twice. *)
NoDuplicates ==
    /\ Cardinality(active) <= 1
    /\ start # Absent => Distinct(start)
    /\ \A t \in active : \A n \in DOMAIN calls[t] : Distinct(calls[t][n])
    => (file # Absent => Distinct(file))
=============================================================================
