----------------------------- MODULE DataFetch -----------------------------
(***************************************************************************)
(* src/ucd-data-fetch.c, started once in a boot by data/ucd@.service.in,   *)
(* whose condition is that the file with the user data does not exist: it  *)
(* asks a server for the ssh keys, the hostname and the user data, makes   *)
(* one cloud-config file of them and replaces itself by "ucd -u file".     *)
(*                                                                         *)
(* A request is answered at once in the model: what the server will ever   *)
(* send, and how the connection goes on after that, is chosen when it is   *)
(* sent, and fgets takes it from the stream line by line.  The connection  *)
(* is kept alive, so fgets may wait for a newline until the server closes. *)
(***************************************************************************)
EXTENDS SequencesExt

CONSTANTS
    Providers,      \* entries of config[]: [named : BOOLEAN, paths : SUBSET Requests]
    Responses,      \* what a server may answer, see ResponseShape
    LineMax,        \* characters fgets takes at most: sizeof(buf) - 1
    SizeMax,        \* largest value of a size_t
    ResolveTries, FirstTries, LaterTries,   \* limits of the retries
    MaxBoot,        \* bound on the number of boots
    MaxCrashes,     \* bound on the runs that are killed
    Absent          \* the file does not exist; no answer yet

NL == "newline"
Requests == {"sshkey", "hostname", "userdata"}

(* status: "ok" is 2xx, "error" any other, "lost" a connection that ends (or
   makes no sense) before the headers do.  length: whether the headers have a
   Content-Length.  arrives: how much of the body is ever sent.  end: whether
   the connection is then left open, closed or reset. *)
ResponseShape(r) ==
    /\ r.status \in {"ok", "error", "lost"}
    /\ r.length \in {"exact", "missing"}
    /\ r.body \in Seq(ToSet(r.body)) /\ Len(r.body) <= SizeMax
    /\ r.arrives \in 0..Len(r.body)
    /\ r.end \in {"open", "closed", "reset"}

ASSUME ProvidersAssumption ==
    \A p \in Providers : p.named \in BOOLEAN /\ p.paths \subseteq Requests /\ "sshkey" \in p.paths
ASSUME ResponsesAssumption == Absent \notin Responses /\ \A r \in Responses : ResponseShape(r)
ASSUME NumbersAssumption ==
    /\ LineMax \in Nat \ {0} /\ SizeMax \in Nat \ {0}
    /\ ResolveTries \in Nat /\ FirstTries \in Nat /\ LaterTries \in Nat
    /\ ResolveTries <= FirstTries /\ LaterTries <= FirstTries
    /\ MaxBoot \in Nat \ {0} /\ MaxCrashes \in Nat

VARIABLES
    boot, started, crashes,     \* the machine: boot, whether the unit was started in it
    provider,                   \* the provider of this machine
    file,                       \* USER_DATA_PATH/<name>-user-data
    stage,                      \* where main() is; "off" when it does not run
    request,                    \* the request that main() is at
    n,                          \* retries counted
    stream, end,                \* what fgets can still get, and what comes after it
    cl, left,                   \* main()'s cl and write_lines' own
    answers,                    \* history: the answer to each request of this run
    executed                    \* history: the file that ucd was executed on

machine == <<boot, started, crashes, provider>>
connection == <<stream, end>>
vars == <<machine, file, stage, request, n, connection, cl, left, answers, executed>>

Stages == {"off", "resolve", "connect", "request", "headers", "open", "header", "lines", "exec"}
Tokens == {NL, "header", "  - ", "hostname: "} \cup UNION {ToSet(r.body) : r \in Responses}

TypeOK ==
    /\ boot \in 1..MaxBoot /\ started \in BOOLEAN /\ crashes \in 0..MaxCrashes
    /\ provider \in Providers
    /\ file # Absent => file \in Seq(Tokens)
    /\ stage \in Stages /\ request \in Requests
    /\ n \in 0..(FirstTries + 1)
    /\ stream \in Seq(Tokens) /\ end \in {"open", "closed", "reset"}
    /\ cl \in 0..SizeMax /\ left \in 0..SizeMax
    /\ answers \in [Requests -> Responses \cup {Absent}]
    /\ executed # Absent => executed \in Seq(Tokens)

Init ==
    /\ boot = 1 /\ started = FALSE /\ crashes = 0
    /\ provider \in Providers
    /\ file = Absent
    /\ stage = "off" /\ request = "sshkey" /\ n = 0
    /\ stream = <<>> /\ end = "open"
    /\ cl = 0 /\ left = 0
    /\ answers = [r \in Requests |-> Absent]
    /\ executed = Absent

-----------------------------------------------------------------------------
(* The end of the process: FAIL and exit, the file as it is. *)
FAIL == stage' = "off" /\ UNCHANGED file

(* Fault: the unit has no condition. *)
start_always ==
    /\ stage = "off" /\ ~started
    /\ started' = TRUE
    /\ stage' = IF provider.named THEN "resolve" ELSE "connect"
    /\ request' = "sshkey" /\ n' = 0
    /\ cl' \in 0..SizeMax
    /\ answers' = [r \in Requests |-> Absent]
    /\ UNCHANGED <<boot, crashes, provider, file, connection, left, executed>>

(* The unit's condition, and main() up to the first connection.  cl is not
   initialized. *)
start ==
    /\ stage = "off" /\ ~started
    /\ file = Absent
    /\ started' = TRUE
    /\ stage' = IF provider.named THEN "resolve" ELSE "connect"
    /\ request' = "sshkey" /\ n' = 0
    /\ cl' \in 0..SizeMax
    /\ answers' = [r \in Requests |-> Absent]
    /\ UNCHANGED <<boot, crashes, provider, file, connection, left, executed>>

(* 287-315: found, to be tried again (up to a limit), or given up. *)
resolve ==
    /\ stage = "resolve"
    /\ \/ stage' = "connect" /\ UNCHANGED <<file, n>>
       \/ /\ n' = n + 1
          /\ IF n' > ResolveTries THEN FAIL ELSE UNCHANGED <<stage, file>>
       \/ FAIL /\ UNCHANGED n
    /\ UNCHANGED <<machine, request, connection, cl, left, answers, executed>>

(* Where a new connection leads: a provider without the path of the hostname
   goes on to the user data on this connection (419), one without user data
   to the end (482). *)
Wanted(r) ==
    IF r \in provider.paths THEN "request" ELSE "exec"

AfterConnect ==
    IF request = "hostname" /\ "hostname" \notin provider.paths
    THEN request' = "userdata" /\ stage' = Wanted("userdata")
    ELSE request' = request /\ stage' = Wanted(request)

Limit == IF request = "sshkey" THEN FirstTries ELSE LaterTries

(* The three loops around connect(), 317-329, 402-415 and 464-477. *)
connect ==
    /\ stage = "connect"
    /\ \/ AfterConnect /\ UNCHANGED <<file, n>>
       \/ /\ n' = n + 1
          /\ IF n' > Limit THEN FAIL ELSE UNCHANGED <<stage, file>>
          /\ UNCHANGED request
       \/ FAIL /\ UNCHANGED <<request, n>>
    /\ UNCHANGED <<machine, connection, cl, left, answers, executed>>

(* The request is written, and answered, or main() fails. *)
send_request ==
    /\ stage = "request"
    /\ \/ /\ \E r \in Responses :
                /\ answers' = [answers EXCEPT ![request] = r]
                /\ stream' = SubSeq(r.body, 1, r.arrives)
                /\ end' = r.end
          /\ stage' = "headers"
          /\ UNCHANGED file
       \/ FAIL /\ UNCHANGED <<connection, answers>>
    /\ UNCHANGED <<machine, request, n, cl, left, executed>>

(* main() after the body of a request, or without it. *)
NextRequest ==
    /\ stage' = IF request = "userdata" THEN "exec" ELSE "connect"
    /\ request' = IF request = "sshkey" THEN "hostname" ELSE "userdata"
    /\ n' = 0

(* parse_headers and its callers: 1 is a body to be read, 2 an answer other
   than 2xx, which only the keys cannot do without, 0 an error.  Without a
   Content-Length cl keeps the value it has. *)
parse_headers ==
    /\ stage = "headers"
    /\ LET r == answers[request] IN
       \/ /\ r.status = "ok"
          /\ cl' = IF r.length = "exact" THEN Len(r.body) ELSE cl
          /\ left' = cl'
          /\ stage' = IF request = "sshkey" THEN "open" ELSE "lines"
          /\ UNCHANGED <<file, request, n>>
       \/ /\ r.status = "error" /\ request # "sshkey"
          /\ NextRequest
          /\ UNCHANGED <<file, cl, left>>
       \/ /\ r.status = "lost" \/ (r.status = "error" /\ request = "sshkey")
          /\ FAIL
          /\ UNCHANGED <<request, n, cl, left>>
    /\ UNCHANGED <<machine, connection, answers, executed>>

(* 370-375: a new, empty file. *)
open_output ==
    /\ stage = "open"
    /\ \/ file' = <<>> /\ stage' = "header"
       \/ FAIL
    /\ UNCHANGED <<machine, request, n, connection, cl, left, answers, executed>>

(* Fault: no unlink. *)
write_header_fails_leaving == FAIL

(* 380-383: close, unlink, FAIL. *)
write_header_fails == stage' = "off" /\ file' = Absent

(* 377-384. *)
write_header ==
    /\ stage = "header"
    /\ \/ file' = <<"header">> /\ stage' = "lines"
       \/ write_header_fails
    /\ UNCHANGED <<machine, request, n, connection, cl, left, answers, executed>>

-----------------------------------------------------------------------------
(* write_lines, one line of it at a time. *)

Prefix ==
    CASE request = "sshkey" -> <<"  - ">>
      [] request = "hostname" -> <<"hostname: ">>
      [] OTHER -> <<>>

Ends == {k \in 1..Len(stream) : stream[k] = NL \/ k = LineMax}

(* Fault: the end of the stream is read over again and again. *)
fgets_again ==
    IF Ends # {} THEN {k \in Ends : \A j \in Ends : k <= j}
    ELSE IF end = "closed" THEN {Len(stream)} \ {0}
    ELSE {}

(* How many characters fgets returns: up to a newline, or a full buffer, or
   all there is once the connection has been closed; 0 is the end of it.
   Empty while it waits, or when the connection is reset. *)
fgets ==
    IF Ends # {} THEN {k \in Ends : \A j \in Ends : k <= j}
    ELSE IF end = "closed" THEN {Len(stream)}
    ELSE {}

(* Fault: the last line is left without a newline. *)
write_lines_copy_bare(k) ==
    LET line == SubSeq(stream, 1, k)
    IN  /\ left > 0 /\ k > 0
        /\ stream' = SubSeq(stream, k + 1, Len(stream))
        /\ left' = (left + SizeMax + 1 - k) % (SizeMax + 1)
        /\ file' = file \o Prefix \o line
        /\ UNCHANGED <<stage, request, n>>

(* Fault: signed arithmetic of the length. *)
write_lines_copy_signed(k) ==
    LET line == SubSeq(stream, 1, k)
    IN  /\ left > 0 /\ k > 0
        /\ stream' = SubSeq(stream, k + 1, Len(stream))
        /\ left' = left - k
        /\ file' = file \o Prefix \o line \o (IF line[k] = NL THEN <<>> ELSE <<NL>>)
        /\ UNCHANGED <<stage, request, n>>

(* 219-236: the prefix, the line, and a newline if it has none.  The length
   that is left is unsigned. *)
write_lines_copy(k) ==
    LET line == SubSeq(stream, 1, k)
    IN  /\ left > 0 /\ k > 0
        /\ stream' = SubSeq(stream, k + 1, Len(stream))
        /\ left' = (left + SizeMax + 1 - k) % (SizeMax + 1)
        /\ file' = file \o Prefix \o line \o (IF line[k] = NL THEN <<>> ELSE <<NL>>)
        /\ UNCHANGED <<stage, request, n>>

(* 206-217: all of it, or the end of the stream, which is no error. *)
write_lines_return ==
    /\ left = 0 \/ 0 \in fgets
    /\ NextRequest
    /\ UNCHANGED <<file, stream, left>>

(* Faults: no unlink, in one of the three places. *)
keys_fail_leaving == request = "sshkey" /\ FAIL
hostname_fails_leaving == request = "hostname" /\ FAIL
userdata_fails_leaving == request = "userdata" /\ FAIL

(* What main() does when write_lines has failed, 388-391, 449-452 and 512-515:
   each time it closes and unlinks the file by itself, and ends. *)
keys_fail == request = "sshkey" /\ stage' = "off" /\ file' = Absent
hostname_fails == request = "hostname" /\ stage' = "off" /\ file' = Absent
userdata_fails == request = "userdata" /\ stage' = "off" /\ file' = Absent

(* 213: the connection is reset; 222-236: a line cannot be written. *)
write_lines_fails ==
    /\ left > 0
    /\ fgets \ {0} # {} \/ (Ends = {} /\ end = "reset")
    /\ keys_fail \/ hostname_fails \/ userdata_fails
    /\ UNCHANGED <<stream, left, request, n>>

write_lines ==
    /\ stage = "lines"
    /\ \/ \E k \in fgets : write_lines_copy(k)
       \/ write_lines_return
       \/ write_lines_fails
    /\ UNCHANGED <<machine, end, cl, answers, executed>>

-----------------------------------------------------------------------------
(* 525-527. *)
execl ==
    /\ stage = "exec"
    /\ stage' = "off"
    /\ executed' = file
    /\ UNCHANGED <<machine, file, request, n, connection, cl, left, answers>>

(* The server closes a connection that it has left open. *)
server_close ==
    /\ stage \in {"headers", "open", "header", "lines"}
    /\ end = "open"
    /\ end' = "closed"
    /\ UNCHANGED <<machine, file, stage, request, n, stream, cl, left, answers, executed>>

(* The process is killed. *)
Crash ==
    /\ stage # "off" /\ crashes < MaxCrashes
    /\ crashes' = crashes + 1
    /\ FAIL
    /\ UNCHANGED <<boot, started, provider, request, n, connection, cl, left, answers, executed>>

Reboot ==
    /\ stage = "off" /\ boot < MaxBoot
    /\ boot' = boot + 1
    /\ started' = FALSE
    /\ UNCHANGED <<crashes, provider, file, stage, request, n, connection, cl, left, answers,
                   executed>>

BoundReached == stage = "off" /\ boot = MaxBoot /\ UNCHANGED vars

Program ==
    \/ resolve \/ connect \/ send_request \/ parse_headers
    \/ open_output \/ write_header \/ write_lines \/ execl

Next == start \/ Program \/ server_close \/ Crash \/ Reboot \/ BoundReached

Spec == Init /\ [][Next]_vars

(* The process is scheduled; a server does not keep an idle connection open
   for ever, without which fgets could wait for ever: the program has no time
   limit on it, and the unit says TimeoutSec=0. *)
Fairness == WF_vars(Program) /\ WF_vars(server_close)

FairSpec == Spec /\ Fairness

-----------------------------------------------------------------------------
(* What the file should be. *)

(* Each line of the body after the prefix, each with its newline. *)
Rendered(prefix, body) ==
    FlattenSeq([i \in DOMAIN body |->
        (IF i = 1 \/ body[i - 1] = NL THEN prefix ELSE <<>>) \o <<body[i]>>
        \o (IF i = Len(body) /\ body[i] # NL THEN <<NL>> ELSE <<>>)])

Section(prefix, r) ==
    IF answers[r] # Absent /\ answers[r].status = "ok"
    THEN Rendered(prefix, answers[r].body) ELSE <<>>

(* What the file holds when a request is made. *)
Before(r) ==
    CASE r = "sshkey" -> <<"header">>
      [] r = "hostname" -> <<"header">> \o Section(<<"  - ">>, "sshkey")
      [] OTHER -> <<"header">> \o Section(<<"  - ">>, "sshkey")
                  \o Section(<<"hostname: ">>, "hostname")

Expected == Before("userdata") \o Section(<<>>, "userdata")

(* No line is longer than the buffer. *)
Fits(body) ==
    \A i \in 1..(Len(body) - LineMax + 1) : \E j \in i..(i + LineMax - 1) : body[j] = NL

(* The headers say how long a body is, no line of it is longer than the buffer,
   and all of it arrives, unless the connection is reset, which fgets reports.
   The program does not notice the other ways in which a body may be cut. *)
NoneCutUnnoticed ==
    \A r \in Requests : answers[r] # Absent /\ answers[r].status = "ok" =>
        /\ answers[r].length = "exact"
        /\ answers[r].arrives = Len(answers[r].body) \/ answers[r].end = "reset"
        /\ Fits(answers[r].body)

(* ucd is executed on the header and all lines of the keys, the hostname and
   the user data, in this order, each line with its prefix and its newline,
   and never after a body that a reset has cut short. *)
UcdGetsEverything ==
    stage = "exec" /\ NoneCutUnnoticed => file = Expected

(* ucd is executed once for a disk, whatever fails and however often the
   machine boots: the file it was executed on is not touched again. *)
ExecutedOnce ==
    [][(executed # Absent) => (executed' = executed /\ file' = file)]_vars

(* A run that ends by itself, wherever it fails, leaves no file, or one made of
   the header and whole sections: the keys, the keys and the hostname, or
   everything.  No part of a body stays, although main() may fail in eighteen
   places after open(), four of them inside a text, and cleans up in each of these
   by itself.  (A whole section may stay without the others: FileMeansExecuted.) *)
OnlyWholeSectionsStay ==
    stage = "off" /\ crashes = 0 /\ NoneCutUnnoticed =>
        file \in {Absent, Before("hostname"), Before("userdata"), Expected}

(* The program comes to an end. *)
FetchEnds == stage # "off" ~> stage = "off"

(* Between two runs there is a file only if ucd has been executed on it: data
   that was fetched but not handed on is fetched again in the next boot. *)
FileMeansExecuted == stage = "off" /\ file # Absent => executed # Absent
=============================================================================
