-------------------------- MODULE DataFetchProofs --------------------------
(***************************************************************************)
(* What DataFetch promises whatever the servers answer, however long the   *)
(* bodies and the buffer, and however often the machine boots and the      *)
(* program is killed.                                                      *)
(***************************************************************************)
EXTENDS DataFetch, SequenceLemmas

-----------------------------------------------------------------------------
(* What Rendered makes of a body, line by line.                            *)

(* What Rendered writes for each token. *)
Pieces(prefix, body) ==
    [i \in DOMAIN body |->
        (IF i = 1 \/ body[i - 1] = NL THEN prefix ELSE <<>>) \o <<body[i]>>
        \o (IF i = Len(body) /\ body[i] # NL THEN <<NL>> ELSE <<>>)]

(* The rendered body is these pieces, and a text. *)
LEMMA PiecesType ==
    ASSUME NEW T, NL \in T, NEW prefix \in Seq(T), NEW body \in Seq(T)
    PROVE  /\ Pieces(prefix, body) \in Seq(Seq(T))
           /\ Len(Pieces(prefix, body)) = Len(body)
           /\ Rendered(prefix, body) = FlattenSeq(Pieces(prefix, body))
           /\ Rendered(prefix, body) \in Seq(T)
<1>1. DOMAIN body = 1..Len(body) /\ Len(body) \in Nat
  OBVIOUS
<1>2. ASSUME NEW i \in DOMAIN body
      PROVE  (IF i = 1 \/ body[i - 1] = NL THEN prefix ELSE <<>>) \o <<body[i]>>
              \o (IF i = Len(body) /\ body[i] # NL THEN <<NL>> ELSE <<>>) \in Seq(T)
  <2>1. /\ (IF i = 1 \/ body[i - 1] = NL THEN prefix ELSE <<>>) \in Seq(T)
        /\ <<body[i]>> \in Seq(T)
        /\ (IF i = Len(body) /\ body[i] # NL THEN <<NL>> ELSE <<>>) \in Seq(T)
    BY EmptySeq
  <2> QED
    BY <2>1, ConcatProperties
<1>3. Pieces(prefix, body) \in [1..Len(body) -> Seq(T)]
  BY <1>1, <1>2 DEF Pieces
<1>4. Pieces(prefix, body) \in Seq(Seq(T)) /\ Len(Pieces(prefix, body)) = Len(body)
  BY <1>1, <1>3
<1>5. Rendered(prefix, body) = FlattenSeq(Pieces(prefix, body))
  BY DEF Rendered, Pieces
<1> QED
  BY <1>4, <1>5, FlattenType

(* Of an empty body nothing is written. *)
LEMMA RenderedNothing == ASSUME NEW prefix PROVE Rendered(prefix, <<>>) = <<>>
<1>1. Pieces(prefix, <<>>) = <<>>
  BY DEF Pieces
<1>2. Rendered(prefix, <<>>) = FlattenSeq(Pieces(prefix, <<>>))
  BY DEF Rendered, Pieces
<1> QED
  BY <1>1, <1>2 DEF FlattenSeq

(* What write_lines writes for a line is what Rendered has for it: one line l,
   or the unfinished last one, after whole lines a. *)
LEMMA RenderedLine ==
    ASSUME NEW T, NL \in T, NEW prefix \in Seq(T), NEW a \in Seq(T), NEW l \in Seq(T),
           Len(l) # 0, a = <<>> \/ a[Len(a)] = NL,
           \A i \in 1..(Len(l) - 1) : l[i] # NL
    PROVE  Rendered(prefix, a \o l)
           = Rendered(prefix, a)
             \o (prefix \o l \o (IF l[Len(l)] = NL THEN <<>> ELSE <<NL>>))
<1> DEFINE ab == a \o l
           k == Len(a)
           m == Len(l)
           P == Pieces(prefix, ab)
           R == Rendered(prefix, a)
           End(j) == IF j = m /\ l[m] # NL THEN <<NL>> ELSE <<>>
<1>1. /\ ab \in Seq(T) /\ Len(ab) = k + m /\ k \in Nat /\ m \in Nat /\ m # 0
      /\ DOMAIN ab = 1..(k + m) /\ DOMAIN a = 1..k
      /\ (a = <<>>) = (k = 0)
  BY ConcatProperties
<1>2. /\ \A i \in 1..k : ab[i] = a[i]
      /\ \A i \in 1..m : k + i \in 1..(k + m) /\ ab[k + i] = l[i]
      /\ a = <<>> \/ a[k] = NL
      /\ \A i \in 1..(m - 1) : l[i] # NL
  BY ConcatProperties
<1> HIDE DEF ab, k, m
<1>3. P \in Seq(Seq(T)) /\ Len(P) = k + m /\ Rendered(prefix, ab) = FlattenSeq(P)
  BY <1>1, PiecesType
<1>4. R \in Seq(T) /\ R = FlattenSeq(Pieces(prefix, a))
  BY PiecesType
<1>5. SubSeq(P, 1, k) = Pieces(prefix, a)
  <2>1. ASSUME NEW i \in 1..k PROVE P[i] = Pieces(prefix, a)[i]
    <3>1. i \in 1..(k + m) /\ ab[i] = a[i] /\ (i # 1 => ab[i - 1] = a[i - 1]) /\ i # k + m
      BY <1>1, <1>2
    <3>2. ~(i = k /\ a[i] # NL)
      BY <1>1
    <3> QED
      BY <1>1, <3>1, <3>2 DEF Pieces
  <2>2. Pieces(prefix, a) \in Seq(Seq(T)) /\ Len(Pieces(prefix, a)) = k
    BY PiecesType DEF k
  <2> HIDE DEF P
  <2>3. /\ SubSeq(P, 1, k) \in Seq(Seq(T)) /\ Len(SubSeq(P, 1, k)) = k
        /\ \A i \in 1..k : SubSeq(P, 1, k)[i] = P[i]
    BY <1>1, <1>3, SMTT(30)
  <2> QED
    BY <2>1, <2>2, <2>3, SeqEqual
<1>6. P[k + 1] = prefix \o <<l[1]>> \o End(1)
  <2>1. k + 1 \in 1..(k + m) /\ ab[k + 1] = l[1] /\ (k + 1 = k + m) = (1 = m)
    BY <1>1, <1>2
  <2>2. k + 1 = 1 \/ ab[(k + 1) - 1] = NL
    BY <1>1, <1>2
  <2> QED
    BY <1>1, <2>1, <2>2 DEF Pieces
<1>7. ASSUME NEW j \in 1..(m - 1) PROVE P[k + (j + 1)] = <<l[j + 1]>> \o End(j + 1)
  <2>1. /\ k + (j + 1) \in 1..(k + m) /\ ab[k + (j + 1)] = l[j + 1]
        /\ (k + (j + 1) = k + m) = (j + 1 = m)
        /\ ab[(k + (j + 1)) - 1] = l[j] /\ k + (j + 1) # 1
    <3>1. j \in 1..m /\ j + 1 \in 1..m /\ (k + (j + 1)) - 1 = k + j
      BY <1>1
    <3>2. ab[k + j] = l[j] /\ ab[k + (j + 1)] = l[j + 1] /\ k + (j + 1) \in 1..(k + m)
      BY <1>2, <3>1
    <3>3. (k + (j + 1) = k + m) = (j + 1 = m) /\ k + (j + 1) # 1
      BY <1>1
    <3> QED
      BY <3>1, <3>2, <3>3
  <2>2. P[k + (j + 1)] = <<>> \o <<l[j + 1]>> \o End(j + 1)
    <3>1. (k + (j + 1)) \in DOMAIN ab /\ ab[(k + (j + 1)) - 1] # NL
      BY <1>1, <1>2, <2>1
    <3>2. (k + (j + 1) = Len(ab)) = (j + 1 = m)
      BY <1>1, <2>1
    <3>3. P[k + (j + 1)] = <<>> \o <<ab[k + (j + 1)]>> \o
              (IF k + (j + 1) = Len(ab) /\ ab[k + (j + 1)] # NL THEN <<NL>> ELSE <<>>)
      BY <2>1, <3>1 DEF Pieces
    <3>4. j + 1 = m => l[j + 1] = l[m]
      OBVIOUS
    <3> QED
      BY <2>1, <3>2, <3>3, <3>4
  <2> QED
    BY <2>2
<1> DEFINE Right(j) ==
               FlattenSeq(SubSeq(P, 1, k + j)) = R \o (prefix \o SubSeq(l, 1, j) \o End(j))
           S == {j \in Nat : j \in 1..m => Right(j)}
<1>8. 0 \in S
  OBVIOUS
<1>t. /\ \A j \in Nat : End(j) \in Seq(T)
      /\ \A j \in 1..m : SubSeq(l, 1, j) \in Seq(T) /\ l[j] \in T /\ <<l[j]>> \in Seq(T)
  <2>1. \A j \in 1..m : SubSeq(l, 1, j) \in Seq(T) /\ l[j] \in T /\ <<l[j]>> \in Seq(T)
    BY DEF m
  <2>2. <<>> \in Seq(T) /\ <<NL>> \in Seq(T)
    BY EmptySeq
  <2> QED
    BY <2>1, <2>2
<1> HIDE DEF P, R, End, Right
<1>9. ASSUME NEW j \in Nat, j \in S PROVE j + 1 \in S
  <2> SUFFICES ASSUME j + 1 \in 1..m PROVE Right(j + 1)
    OBVIOUS
  <2>1. FlattenSeq(SubSeq(P, 1, k + (j + 1))) = FlattenSeq(SubSeq(P, 1, k + j)) \o P[k + (j + 1)]
    <3>1. k + j \in 0..(Len(P) - 1) /\ k + (j + 1) = (k + j) + 1
      BY <1>1, <1>3
    <3> QED
      BY <1>3, <3>1, FlattenSingle
  <2>2. CASE j = 0
    <3>1. FlattenSeq(SubSeq(P, 1, k + j)) = R
      <4>1. k + j = k
        BY <1>1, <2>2
      <4> QED
        BY <1>4, <1>5, <4>1
    <3>2. SubSeq(l, 1, 1) = <<l[1]>>
      <4>1. 1 \in 1..Len(l)
        BY <1>1 DEF m
      <4>2. 1 \in 1..1 /\ 1 - 1 = 0 /\ 1 \in Int /\ 0 \in Int /\ 0 < 1
        OBVIOUS
      <4>3. SubSeq(l, 1, 1) = SubSeq(l, 1, 1 - 1) \o <<l[1]>>
        BY <4>1, <4>2, SubSeqRecursiveSecond
      <4>4. SubSeq(l, 1, 0) = <<>>
        BY <4>2, SubSeqEmpty
      <4>5. <<l[1]>> \in Seq(T)
        BY <4>1
      <4>6. <<>> \o <<l[1]>> = <<l[1]>>
        BY <4>5, ConcatEmptySeq, Zenon
      <4>7. SubSeq(l, 1, 1 - 1) = <<>>
        BY <4>2, <4>4
      <4> QED
        BY <4>3, <4>6, <4>7, Zenon
    <3>3. k + (j + 1) = k + 1 /\ j + 1 = 1
      BY <1>1, <2>2
    <3> QED
      BY <1>6, <2>1, <3>1, <3>2, <3>3 DEF Right
  <2>3. CASE j # 0
    <3> DEFINE A == SubSeq(l, 1, j)
               B == <<l[j + 1]>>
               C == End(j + 1)
    <3>1. j \in 1..(m - 1) /\ j \in 1..m /\ End(j) = <<>> /\ j + 1 \in 1..m
      BY <1>1, <2>3 DEF End
    <3>2. A \in Seq(T) /\ B \in Seq(T) /\ C \in Seq(T)
      BY <1>t, <3>1
    <3>3. FlattenSeq(SubSeq(P, 1, k + j)) = R \o (prefix \o A \o <<>>)
      BY <1>9, <3>1 DEF Right
    <3>4. P[k + (j + 1)] = B \o C
      BY <1>7, <3>1
    <3>5. SubSeq(l, 1, j + 1) = A \o B
      <4>1. j + 1 \in 1..Len(l) /\ 1 \in 1..Len(l) /\ j + 1 \in 1..(j + 1) /\ (j + 1) - 1 = j
        BY <3>1 DEF m
      <4>2. SubSeq(l, 1, j + 1) = SubSeq(l, 1, (j + 1) - 1) \o <<l[j + 1]>>
        BY <4>1, SubSeqRecursiveSecond
      <4> QED
        BY <4>1, <4>2 DEF A, B
    <3> HIDE DEF A, B, C
    <3>6. R \in Seq(T) /\ (prefix \o A) \o <<>> = prefix \o A
      BY <1>4, <3>2, ConcatProperties, ConcatEmptySeq
    <3>7. FlattenSeq(SubSeq(P, 1, k + (j + 1))) = (R \o (prefix \o A)) \o (B \o C)
      BY <2>1, <3>3, <3>4, <3>6
    <3>8. (R \o (prefix \o A)) \o (B \o C) = R \o ((prefix \o (A \o B)) \o C)
      <4>1. prefix \o A \in Seq(T) /\ B \o C \in Seq(T) /\ R \in Seq(T)
        BY <1>4, <3>2
      <4>2. (R \o (prefix \o A)) \o (B \o C) = R \o ((prefix \o A) \o (B \o C))
        <5> DEFINE pA == prefix \o A
                   BC == B \o C
        <5>1. pA \in Seq(T) /\ BC \in Seq(T) /\ R \in Seq(T)
          BY <4>1
        <5> HIDE DEF pA, BC
        <5>2. (R \o pA) \o BC = R \o (pA \o BC)
          BY <5>1, SMTT(20)
        <5> QED
          BY <5>2 DEF pA, BC
      <4>3. (prefix \o A) \o (B \o C) = ((prefix \o A) \o B) \o C
        BY <3>2, <4>1, SMTT(40)
      <4>4. (prefix \o A) \o B = prefix \o (A \o B)
        BY <3>2, SMTT(20)
      <4> QED
        BY <4>2, <4>3, <4>4
    <3> QED
      BY <3>5, <3>7, <3>8 DEF C, Right
  <2> QED
    BY <2>2, <2>3
<1> HIDE DEF S
<1>10. Nat \subseteq S
  BY <1>8, <1>9, Induction
<1>11. FlattenSeq(SubSeq(P, 1, k + m)) = R \o (prefix \o SubSeq(l, 1, m) \o End(m))
  <2>1. m \in S /\ m \in 1..m
    BY <1>1, <1>10
  <2> QED
    BY <2>1 DEF S, Right
<1>12. SubSeq(P, 1, k + m) = P /\ SubSeq(l, 1, m) = l
  <2>1. SubSeq(P, 1, Len(P)) = P
    BY <1>3, SubSeqFull
  <2>2. SubSeq(l, 1, Len(l)) = l
    BY SubSeqFull
  <2> QED
    BY <1>3, <2>1, <2>2 DEF m
<1>13. Rendered(prefix, ab) = R \o (prefix \o l \o End(m))
  BY <1>3, <1>11, <1>12
<1> QED
  BY <1>13 DEF ab, R, m, End

USE DEF machine, connection

-----------------------------------------------------------------------------
(* The unit runs once for a disk.                                          *)

(* Once ucd has been executed the unit's condition keeps the program off. *)
HandedOver == executed # Absent => stage = "off" /\ file = executed

LEMMA HandedOverInit == Init => HandedOver
BY DEF Init, HandedOver

(* Every other step has a stage in which nothing has been handed over. *)
LEMMA HandedOverStep ==
    HandedOver /\ [Next]_vars =>
        HandedOver' /\ (executed # Absent => executed' = executed /\ file' = file)
<1> SUFFICES ASSUME HandedOver, [Next]_vars
             PROVE  HandedOver' /\ (executed # Absent => executed' = executed /\ file' = file)
  OBVIOUS
<1>1. CASE start
  BY <1>1 DEF start, HandedOver
<1>2. CASE Program
  <2>1. stage # "off" /\ (stage # "exec" => executed' = executed)
    BY <1>2 DEF Program, resolve, connect, send_request, parse_headers, open_output,
                write_header, write_lines, execl
  <2>2. executed = Absent
    BY <2>1 DEF HandedOver
  <2>3. CASE stage = "exec"
    BY <1>2, <2>2, <2>3
    DEF Program, resolve, connect, send_request, parse_headers, open_output, write_header,
        write_lines, execl, HandedOver
  <2> QED
    BY <2>1, <2>2, <2>3 DEF HandedOver
<1>3. CASE server_close
  BY <1>3 DEF server_close, HandedOver
<1>4. CASE Crash
  BY <1>4 DEF Crash, FAIL, HandedOver
<1>5. CASE Reboot
  BY <1>5 DEF Reboot, HandedOver
<1>6. CASE UNCHANGED vars
  BY <1>6 DEF vars, HandedOver
<1> QED
  BY <1>1, <1>2, <1>3, <1>4, <1>5, <1>6 DEF Next, BoundReached

(* ucd is executed once for a disk, on a file that nobody touches again. *)
THEOREM OnceOnly == Spec => ExecutedOnce
<1>1. HandedOver /\ [Next]_vars =>
        [(executed # Absent) => (executed' = executed /\ file' = file)]_vars
  BY HandedOverStep
<1> QED
  BY <1>1, HandedOverInit, HandedOverStep, PTL DEF Spec, ExecutedOnce

-----------------------------------------------------------------------------
(* Type correctness.                                                       *)

(* When the header has been written the file is there, retries are counted up
   to the largest limit, and headers are parsed when there is an answer. *)
Progress ==
    /\ stage \in {"header", "lines"} \/ (stage # "off" /\ request # "sshkey") => file \in Seq(Tokens)
    /\ stage = "exec" => request # "sshkey"
    /\ stage # "off" => n <= FirstTries
    /\ stage = "headers" => answers[request] \in Responses

IInv == TypeOK /\ Progress

(* The bodies that are sent are sequences of tokens. *)
LEMMA Bodies ==
    ASSUME NEW r \in Responses
    PROVE  /\ r.body \in Seq(Tokens)
           /\ Len(r.body) \in 0..SizeMax
           /\ SubSeq(r.body, 1, r.arrives) \in Seq(Tokens)
           /\ r.end \in {"open", "closed", "reset"}
<1>1. /\ r.body \in Seq(ToSet(r.body)) /\ Len(r.body) <= SizeMax
      /\ r.arrives \in 0..Len(r.body) /\ r.end \in {"open", "closed", "reset"}
  BY ResponsesAssumption DEF ResponseShape
<1>2. ToSet(r.body) \subseteq Tokens
  BY DEF Tokens
<1>3. r.body \in Seq(Tokens)
  BY <1>1, <1>2, SeqMonotonic
<1>4. SubSeq(r.body, 1, r.arrives) \in Seq(Tokens)
  BY <1>1, <1>3
<1> QED
  BY <1>1, <1>3, <1>4

LEMMA InitIInv == Init => IInv
<1>1. <<>> \in Seq(Tokens)
  BY EmptySeq
<1>2. 1 \in 1..MaxBoot /\ 0 \in 0..MaxCrashes /\ 0 \in 0..SizeMax /\ 0 \in 0..(FirstTries + 1)
  BY NumbersAssumption
<1> QED
  BY <1>1, <1>2, NumbersAssumption DEF Init, IInv, TypeOK, Progress, Stages, Requests

LEMMA OneToken ==
    ASSUME NEW x \in Tokens
    PROVE  <<x>> \in Seq(Tokens)
OBVIOUS

(* A line that is copied is a piece of the stream. *)
LEMMA CopyTypes ==
    ASSUME IInv, stage = "lines", NEW k \in fgets, write_lines_copy(k)
    PROVE  file' \in Seq(Tokens) /\ stream' \in Seq(Tokens) /\ left' \in 0..SizeMax
<1>1. file \in Seq(Tokens) /\ stream \in Seq(Tokens) /\ left \in 0..SizeMax
  BY DEF IInv, TypeOK, Progress
<1>2. k \in 1..Len(stream)
  BY <1>1 DEF fgets, Ends, write_lines_copy
<1>3. SubSeq(stream, 1, k) \in Seq(Tokens) /\ SubSeq(stream, k + 1, Len(stream)) \in Seq(Tokens)
  BY <1>1, <1>2
<1>4. Prefix \in Seq(Tokens) /\ <<NL>> \in Seq(Tokens) /\ <<>> \in Seq(Tokens)
  <2>1. NL \in Tokens /\ "  - " \in Tokens /\ "hostname: " \in Tokens
    BY DEF Tokens
  <2>2. <<NL>> \in Seq(Tokens) /\ <<"  - ">> \in Seq(Tokens) /\ <<"hostname: ">> \in Seq(Tokens)
    BY <2>1, OneToken
  <2>3. <<>> \in Seq(Tokens)
    BY EmptySeq
  <2> QED
    BY <2>2, <2>3 DEF Prefix
<1>5. file' \in Seq(Tokens)
  BY <1>1, <1>3, <1>4 DEF write_lines_copy
<1>6. left' \in 0..SizeMax
  BY <1>1, <1>2, NumbersAssumption DEF write_lines_copy
<1> QED
  BY <1>3, <1>5, <1>6 DEF write_lines_copy

LEMMA NextIInv == IInv /\ [Next]_vars => IInv'
<1> SUFFICES ASSUME IInv, [Next]_vars PROVE IInv'
  OBVIOUS
<1> USE NumbersAssumption DEF IInv, TypeOK, Progress, Stages, Requests, FAIL
<1>1. CASE start
  BY <1>1 DEF start
<1>2. CASE resolve
  BY <1>2 DEF resolve
<1>3. CASE connect
  <2>1. "sshkey" \in provider.paths /\ Limit <= FirstTries /\ Limit \in Nat
    BY ProvidersAssumption DEF Limit
  <2>2. CASE AfterConnect /\ UNCHANGED <<file, n>>
    BY <1>3, <2>1, <2>2 DEF connect, AfterConnect, Wanted
  <2>3. CASE n' = n + 1 /\ UNCHANGED request
    BY <1>3, <2>1, <2>3 DEF connect
  <2>4. CASE FAIL /\ UNCHANGED <<request, n>>
    BY <1>3, <2>4 DEF connect
  <2> QED
    BY <1>3, <2>2, <2>3, <2>4 DEF connect
<1>4. CASE send_request
  <2>1. CASE FAIL /\ UNCHANGED <<connection, answers>>
    BY <1>4, <2>1 DEF send_request
  <2>2. CASE stage' = "headers"
    <3>1. PICK r \in Responses : /\ answers' = [answers EXCEPT ![request] = r]
                                 /\ stream' = SubSeq(r.body, 1, r.arrives)
                                 /\ end' = r.end
      BY <1>4, <2>2 DEF send_request
    <3>2. stream' \in Seq(Tokens) /\ end' \in {"open", "closed", "reset"}
      BY <3>1, Bodies
    <3> QED
      BY <1>4, <2>2, <3>1, <3>2 DEF send_request
  <2> QED
    BY <1>4, <2>1, <2>2 DEF send_request
<1>5. CASE parse_headers
  <2>1. stage = "headers" /\ Len(answers[request].body) \in 0..SizeMax
    BY <1>5, Bodies DEF parse_headers
  <2> QED
    BY <1>5, <2>1 DEF parse_headers, NextRequest
<1>6. CASE open_output
  <2>1. <<>> \in Seq(Tokens)
    BY EmptySeq
  <2> QED
    BY <1>6, <2>1 DEF open_output
<1>7. CASE write_header
  <2>1. <<"header">> \in Seq(Tokens)
    <3>1. "header" \in Tokens
      BY DEF Tokens
    <3> QED
      BY <3>1, OneToken
  <2>2. CASE file' = <<"header">> /\ stage' = "lines"
    BY <1>7, <2>1, <2>2 DEF write_header
  <2>3. CASE write_header_fails
    BY <1>7, <2>3 DEF write_header, write_header_fails
  <2> QED
    BY <1>7, <2>2, <2>3 DEF write_header
<1>8. CASE write_lines
  <2>1. CASE \E k \in fgets : write_lines_copy(k)
    <3>1. file' \in Seq(Tokens) /\ stream' \in Seq(Tokens) /\ left' \in 0..SizeMax
      BY <1>8, <2>1, CopyTypes DEF write_lines
    <3> QED
      BY <1>8, <2>1, <3>1 DEF write_lines, write_lines_copy
  <2>2. CASE write_lines_return
    BY <1>8, <2>2 DEF write_lines, write_lines_return, NextRequest
  <2>3. CASE write_lines_fails
    BY <1>8, <2>3 DEF write_lines, write_lines_fails, keys_fail, hostname_fails, userdata_fails
  <2> QED
    BY <1>8, <2>1, <2>2, <2>3 DEF write_lines
<1>9. CASE execl
  BY <1>9 DEF execl
<1>10. CASE server_close
  BY <1>10 DEF server_close
<1>11. CASE Crash
  BY <1>11 DEF Crash
<1>12. CASE Reboot
  <2>1. boot' \in 1..MaxBoot
    BY <1>12 DEF Reboot
  <2> QED
    BY <1>12, <2>1 DEF Reboot
<1>13. CASE UNCHANGED vars
  BY <1>13 DEF vars
<1> QED
  BY <1>1, <1>2, <1>3, <1>4, <1>5, <1>6, <1>7, <1>8, <1>9, <1>10, <1>11, <1>12, <1>13
  DEF Next, Program, BoundReached

(* Every variable always has a value of its type; the length that is left
   wraps, and stays a size_t. *)
THEOREM TypeCorrect == Spec => []TypeOK
<1>1. IInv => TypeOK
  BY DEF IInv
<1> QED
  BY <1>1, InitIInv, NextIInv, PTL DEF Spec

-----------------------------------------------------------------------------
(* What ucd is executed on.                                                *)

(* The requests made after q. *)
Later(q) ==
    CASE q = "sshkey" -> {"hostname", "userdata"}
      [] q = "hostname" -> {"userdata"}
      [] OTHER -> {}

(* The answer to the request main() is at. *)
Answered == answers[request]

(* Requests are made in their order. *)
InOrder ==
    stage # "off" =>
        /\ \A q \in Later(request) : answers[q] = Absent
        /\ stage \in {"resolve", "connect", "request"} => Answered = Absent
        /\ stage \in {"open", "header"} => request = "sshkey"
        /\ stage \in {"open", "header", "lines"} => Answered \in Responses /\ Answered.status = "ok"
        /\ stage = "exec" => request = "userdata"

(* What arrives of its body, and how many characters do not. *)
Arriving == SubSeq(Answered.body, 1, Answered.arrives)
Lacking == Len(Answered.body) - Answered.arrives

(* This part is split into what has been copied, whole lines, and the rest. *)
Split(a) ==
    /\ Arriving = a \o stream
    /\ stream = <<>> \/ a = <<>> \/ a[Len(a)] = NL
    /\ left = Len(stream) + Lacking
    /\ file = Before(request) \o Rendered(Prefix, a)

(* The inductive invariant: while no body is cut unnoticed, the file has all
   lines of the requests that are done and, in write_lines, those of the part
   of this body that has been read; left counts what is to come, and what is
   lacking is not taken for an end. *)
Whole ==
    stage # "off" /\ NoneCutUnnoticed =>
        /\ stage \in {"resolve", "connect", "request", "headers"} =>
               \A q \in {"hostname", "userdata"} : request = q => file = Before(q)
        /\ stage = "headers" /\ Answered.status = "ok" => stream = Arriving
        /\ stage \in {"open", "header"} => stream = Arriving /\ left = Len(stream) + Lacking
        /\ stage = "lines" => \E a \in Seq(Tokens) : Split(a)
        /\ stage = "exec" => file = Expected

(* A reset stays one. *)
ResetSeen ==
    stage \in {"headers", "open", "header", "lines"} /\ Answered.end = "reset" => end = "reset"

LEMMA OrderInit == Init => InOrder
BY DEF Init, InOrder

LEMMA OrderStep == IInv /\ InOrder /\ [Next]_vars => InOrder'
<1> SUFFICES ASSUME IInv, InOrder, [Next]_vars PROVE InOrder'
  OBVIOUS
<1> USE DEF InOrder, Later, Answered, Requests, FAIL
<1>0. /\ DOMAIN answers = Requests /\ request \in Requests
      /\ answers' \in [Requests -> Responses \cup {Absent}]
      /\ stage = "headers" => answers[request] \in Responses
  BY NextIInv DEF IInv, TypeOK, Progress
<1>1. CASE start
  BY <1>1 DEF start
<1>2. CASE resolve
  BY <1>2 DEF resolve
<1>3. CASE connect
  <2>1. request = "sshkey" => Wanted(request) = "request"
    BY ProvidersAssumption DEF Wanted, IInv, TypeOK
  <2>2. CASE AfterConnect
    <3>1. answers' = answers /\ stage = "connect"
      BY <1>3 DEF connect
    <3> QED
      BY <1>0, <2>1, <2>2, <3>1 DEF AfterConnect, Wanted
  <2>3. CASE UNCHANGED <<stage, request>> \/ stage' = "off"
    BY <1>3, <2>3 DEF connect
  <2> QED
    BY <1>3, <2>2, <2>3 DEF connect
<1>4. CASE send_request
  <2>1. CASE stage' = "headers"
    <3>1. request' = request /\ \A q \in Requests : q # request => answers'[q] = answers[q]
      BY <1>0, <1>4, <2>1 DEF send_request
    <3> QED
      BY <1>0, <1>4, <2>1, <3>1 DEF send_request
  <2>2. CASE stage' = "off"
    BY <2>2
  <2> QED
    BY <1>4, <2>1, <2>2 DEF send_request
<1>5. CASE parse_headers
  BY <1>0, <1>5 DEF parse_headers, NextRequest
<1>6. CASE open_output
  BY <1>6 DEF open_output
<1>7. CASE write_header
  BY <1>7 DEF write_header, write_header_fails
<1>8. CASE write_lines
  <2>1. CASE \E k \in fgets : write_lines_copy(k)
    BY <1>8, <2>1 DEF write_lines, write_lines_copy
  <2>2. CASE write_lines_return
    BY <1>0, <1>8, <2>2 DEF write_lines, write_lines_return, NextRequest
  <2>3. CASE write_lines_fails
    BY <1>8, <2>3 DEF write_lines, write_lines_fails, keys_fail, hostname_fails, userdata_fails
  <2> QED
    BY <1>8, <2>1, <2>2, <2>3 DEF write_lines
<1>9. CASE execl
  BY <1>9 DEF execl
<1>10. CASE server_close
  BY <1>10 DEF server_close
<1>11. CASE Crash
  BY <1>11 DEF Crash
<1>12. CASE Reboot
  BY <1>12 DEF Reboot
<1>13. CASE UNCHANGED vars
  BY <1>13 DEF vars
<1> QED
  BY <1>1, <1>2, <1>3, <1>4, <1>5, <1>6, <1>7, <1>8, <1>9, <1>10, <1>11, <1>12, <1>13
  DEF Next, Program, BoundReached

(* Before the next request the section of this one has been added. *)
LEMMA NextOne ==
    /\ Before("userdata") = Before("hostname") \o Section(<<"hostname: ">>, "hostname")
    /\ Before("hostname") = Before("sshkey") \o Section(<<"  - ">>, "sshkey")
    /\ Expected = Before("userdata") \o Section(<<>>, "userdata")
BY DEF Before, Expected

(* What the steps that get no answer leave as it is. *)
LEMMA SameAnswers ==
    ASSUME answers' = answers
    PROVE  /\ NoneCutUnnoticed' = NoneCutUnnoticed /\ Expected' = Expected
           /\ \A q : Before(q)' = Before(q)
<1>1. \A prefix, q : Section(prefix, q)' = Section(prefix, q)
  BY DEF Section
<1> QED
  BY <1>1 DEF NoneCutUnnoticed, Expected, Before

(* Sections are texts. *)
LEMMA BeforeType ==
    ASSUME TypeOK
    PROVE  \A q \in Requests : Before(q) \in Seq(Tokens)
<1>1. NL \in Tokens /\ "  - " \in Tokens /\ "hostname: " \in Tokens /\ "header" \in Tokens
  BY DEF Tokens
<1>2. /\ <<"header">> \in Seq(Tokens) /\ <<"  - ">> \in Seq(Tokens)
      /\ <<"hostname: ">> \in Seq(Tokens) /\ <<>> \in Seq(Tokens)
  BY <1>1, OneToken, EmptySeq
<1>3. ASSUME NEW prefix \in Seq(Tokens), NEW q \in Requests
      PROVE  Section(prefix, q) \in Seq(Tokens)
  <2>1. CASE answers[q] # Absent /\ answers[q].status = "ok"
    <3>1. answers[q].body \in Seq(Tokens)
      BY <2>1, Bodies DEF TypeOK
    <3> QED
      BY <1>1, <2>1, <3>1, PiecesType DEF Section
  <2> QED
    BY <1>2, <2>1 DEF Section
<1>4. /\ Section(<<"  - ">>, "sshkey") \in Seq(Tokens)
      /\ Section(<<"hostname: ">>, "hostname") \in Seq(Tokens)
  BY <1>2, <1>3 DEF Requests
<1> QED
  BY <1>2, <1>4, ConcatProperties DEF Before, Requests

(* Nothing wraps while there is more left than is taken. *)
LEMMA Unwrapped ==
    ASSUME NEW N \in Nat \ {0}, NEW x \in 0..(N - 1)
    PROVE  (x + N) % N = x
OBVIOUS

(* The texts are put together in the order of the fprintf calls, and compared
   in the order of the sections. *)
Copied(f, r, p, l, e) == (f \o r) \o p \o l \o e = f \o (r \o (p \o l \o e))

Associates(a, b, c) == (a \o b) \o c = a \o (b \o c)

LEMMA AssociatesAll == \A a, b, c \in Seq(Tokens) : Associates(a, b, c)
BY ConcatAssociative DEF Associates

LEMMA RegroupedAll == \A f, r, p, l, e \in Seq(Tokens) : Copied(f, r, p, l, e)
<1> TAKE f, r, p, l, e \in Seq(Tokens)
<1>1. PICK x \in Seq(Tokens) : x = f \o r
  BY ConcatProperties
<1>2. PICK y \in Seq(Tokens) : y = p \o l
  BY ConcatProperties
<1>3. PICK z \in Seq(Tokens) : z = y \o e
  BY ConcatProperties
<1>4. Associates(x, p, l) /\ Associates(x, y, e) /\ Associates(f, r, z)
  BY AssociatesAll
<1> QED
  BY <1>1, <1>2, <1>3, <1>4, Zenon DEF Copied, Associates

(* RenderedLine in a form that can be used one variable at a time. *)
LineAt(prefix, a, l) ==
    /\ Len(l) # 0
    /\ a = <<>> \/ a[Len(a)] = NL
    /\ \A i \in 1..(Len(l) - 1) : l[i] # NL
    => Rendered(prefix, a \o l)
       = Rendered(prefix, a) \o (prefix \o l \o (IF l[Len(l)] = NL THEN <<>> ELSE <<NL>>))

LEMMA RenderedAll == \A prefix, a, l \in Seq(Tokens) : LineAt(prefix, a, l)
<1> TAKE prefix, a, l \in Seq(Tokens)
<1>1. NL \in Tokens
  BY DEF Tokens
<1> SUFFICES ASSUME Len(l) # 0, a = <<>> \/ a[Len(a)] = NL, \A i \in 1..(Len(l) - 1) : l[i] # NL
             PROVE  Rendered(prefix, a \o l)
                    = Rendered(prefix, a)
                      \o (prefix \o l \o (IF l[Len(l)] = NL THEN <<>> ELSE <<NL>>))
  BY DEF LineAt
<1> QED
  BY <1>1, RenderedLine

(* What fgets returns is a piece of the stream. *)
LEMMA Piece ==
    ASSUME NEW s \in Seq(Tokens), NEW k \in 1..Len(s)
    PROVE  /\ SubSeq(s, 1, k) \in Seq(Tokens) /\ SubSeq(s, k + 1, Len(s)) \in Seq(Tokens)
           /\ Len(SubSeq(s, 1, k)) = k /\ Len(SubSeq(s, k + 1, Len(s))) = Len(s) - k
           /\ s = SubSeq(s, 1, k) \o SubSeq(s, k + 1, Len(s))
           /\ \A i \in 1..k : SubSeq(s, 1, k)[i] = s[i]
OBVIOUS

(* What arrives is the first part of the body, or all of it. *)
LEMMA ArrivingType ==
    ASSUME Answered \in Responses
    PROVE  /\ Arriving \in Seq(Tokens) /\ Lacking \in Nat
           /\ Len(Answered.body) = Len(Arriving) + Lacking
           /\ \A i \in 1..Len(Arriving) : Arriving[i] = Answered.body[i]
           /\ Lacking = 0 => Arriving = Answered.body
<1>0. PICK body \in Seq(Tokens) : body = Answered.body
  BY Bodies
<1>1. PICK n1 \in 0..Len(body) : n1 = Answered.arrives
  BY <1>0, ResponsesAssumption DEF ResponseShape
<1>2. /\ SubSeq(body, 1, n1) \in Seq(Tokens) /\ Len(SubSeq(body, 1, n1)) = n1
      /\ \A i \in 1..n1 : SubSeq(body, 1, n1)[i] = body[i]
  OBVIOUS
<1>3. SubSeq(body, 1, Len(body)) = body
  BY SubSeqFull
<1>4. Arriving = SubSeq(body, 1, n1) /\ Lacking = Len(body) - n1
  BY <1>0, <1>1 DEF Arriving, Lacking
<1>5. Lacking \in Nat /\ Len(body) = n1 + Lacking /\ (Lacking = 0 => n1 = Len(body))
  BY <1>1, <1>4
<1> QED
  BY <1>0, <1>1, <1>2, <1>3, <1>4, <1>5

(* The same answer, the same part of it. *)
LEMMA SameArriving ==
    ASSUME UNCHANGED <<answers, request>>
    PROVE  Answered' = Answered /\ Arriving' = Arriving /\ Lacking' = Lacking
BY DEF Answered, Arriving, Lacking

(* A line is taken whole, or the rest of what arrives. *)
LEMMA LineTaken ==
    ASSUME IInv, InOrder, NoneCutUnnoticed, stage = "lines", NEW a \in Seq(Tokens), Split(a),
           NEW k \in fgets, k # 0
    PROVE  /\ k \in 1..Len(stream)
           /\ \A i \in 1..(k - 1) : stream[i] # NL
           /\ k = Len(stream) \/ stream[k] = NL
<1>1. /\ stream \in Seq(Tokens) /\ Len(stream) \in Nat /\ LineMax \in Nat \ {0}
      /\ Answered \in Responses /\ Answered # Absent /\ request \in Requests
  BY ResponsesAssumption, NumbersAssumption DEF IInv, TypeOK, Progress, InOrder
<1>2. k \in 1..Len(stream)
  BY <1>1 DEF fgets, Ends
<1>3. \A i \in 1..(k - 1) : stream[i] # NL
  <2> SUFFICES ASSUME NEW i \in 1..(k - 1), stream[i] = NL PROVE FALSE
    OBVIOUS
  <2>1. i \in Ends /\ i < k
    BY <1>2 DEF Ends
  <2> QED
    BY <1>1, <2>1 DEF fgets, Ends
<1>4. k = Len(stream) \/ stream[k] = NL
  <2>1. CASE Ends = {}
    BY <2>1 DEF fgets
  <2>2. CASE Ends # {}
    <3> SUFFICES ASSUME stream[k] # NL PROVE FALSE
      OBVIOUS
    <3>1. k = LineMax
      BY <1>2, <2>2 DEF fgets, Ends
    <3>2. Fits(Answered.body)
      BY <1>1 DEF NoneCutUnnoticed, InOrder, Answered
    <3>3. /\ Arriving = a \o stream /\ Lacking \in Nat
          /\ Len(Answered.body) = Len(Arriving) + Lacking
          /\ \A i \in 1..Len(Arriving) : Arriving[i] = Answered.body[i]
      BY <1>1, ArrivingType DEF Split
    <3> DEFINE m == Len(a) + 1
    <3>4. /\ Len(a) \in Nat /\ Len(Arriving) = Len(a) + Len(stream)
          /\ m \in 1..(Len(Answered.body) - LineMax + 1)
      BY <1>1, <1>2, <3>1, <3>3
    <3>5. PICK j \in m..(m + LineMax - 1) : Answered.body[j] = NL
      BY <3>2, <3>4 DEF Fits
    <3>6. j \in 1..Len(Arriving) /\ j - Len(a) \in 1..k
      BY <1>1, <1>2, <3>1, <3>4, <3>5
    <3>7. (a \o stream)[j] = NL
      BY <3>3, <3>5, <3>6
    <3>8. stream[j - Len(a)] = NL
      BY <1>1, <1>2, <3>4, <3>6, <3>7
    <3> QED
      BY <1>2, <1>3, <3>6, <3>8
  <2> QED
    BY <2>1, <2>2
<1> QED
  BY <1>2, <1>3, <1>4

(* A line l has been taken and written with its newline nl. *)
LEMMA LineCopied ==
    ASSUME TypeOK, NEW a \in Seq(Tokens), Split(a),
           NEW l \in Seq(Tokens), NEW rest \in Seq(Tokens), NEW nl \in Seq(Tokens),
           stream = l \o rest, Len(l) # 0, Lacking \in Nat,
           \A i \in 1..(Len(l) - 1) : l[i] # NL,
           rest = <<>> \/ l[Len(l)] = NL,
           nl = IF l[Len(l)] = NL THEN <<>> ELSE <<NL>>,
           UNCHANGED <<answers, request>>, stream' = rest, left' = left - Len(l),
           file' = file \o Prefix \o l \o nl
    PROVE  Split(a \o l)'
<1> DEFINE b == a \o l
<1>1. b \in Seq(Tokens) /\ Arriving = b \o rest
  <2>1. Arriving = a \o (l \o rest)
    BY DEF Split
  <2>2. (a \o l) \o rest = a \o (l \o rest)
    BY SMTT(20)
  <2> QED
    BY <2>1, <2>2, ConcatProperties
<1>2. b[Len(b)] = l[Len(l)]
  BY ConcatProperties
<1>3. left' = Len(rest) + Lacking
  <2>1. left = (Len(l) + Len(rest)) + Lacking
    BY ConcatProperties DEF Split
  <2> QED
    BY <2>1
<1>4. a = <<>> \/ a[Len(a)] = NL
  <2>1. stream # <<>>
    BY ConcatProperties
  <2> QED
    BY <2>1 DEF Split
<1>5. NL \in Tokens /\ Prefix \in Seq(Tokens)
  <2>1. NL \in Tokens /\ "  - " \in Tokens /\ "hostname: " \in Tokens
    BY DEF Tokens
  <2>2. <<"  - ">> \in Seq(Tokens) /\ <<"hostname: ">> \in Seq(Tokens) /\ <<>> \in Seq(Tokens)
    BY <2>1, OneToken, EmptySeq
  <2> QED
    BY <2>1, <2>2 DEF Prefix
<1>6. Rendered(Prefix, b) = Rendered(Prefix, a) \o (Prefix \o l \o nl)
  <2>1. \A prefix \in Seq(Tokens) :
            Rendered(prefix, a \o l)
            = Rendered(prefix, a) \o (prefix \o l \o (IF l[Len(l)] = NL THEN <<>> ELSE <<NL>>))
    <3>1. \A prefix, x \in Seq(Tokens) : LineAt(prefix, x, l)
      BY RenderedAll
    <3>2. \A prefix \in Seq(Tokens) : LineAt(prefix, a, l)
      BY <3>1
    <3> QED
      BY <1>4, <3>2 DEF LineAt
  <2> QED
    BY <1>5, <2>1
<1>7. file' = Before(request) \o Rendered(Prefix, b)
  <2>1. file = Before(request) \o Rendered(Prefix, a)
    BY DEF Split
  <2>2. Rendered(Prefix, a) \in Seq(Tokens)
    BY <1>5, PiecesType
  <2>3. Before(request) \in Seq(Tokens)
    BY BeforeType DEF TypeOK
  <2>4. (Before(request) \o Rendered(Prefix, a)) \o Prefix \o l \o nl
        = Before(request) \o (Rendered(Prefix, a) \o (Prefix \o l \o nl))
    <3>1. \A f, r, p, x \in Seq(Tokens) : Copied(f, r, p, x, nl)
      BY RegroupedAll
    <3>2. \A f, r, p \in Seq(Tokens) : Copied(f, r, p, l, nl)
      BY <3>1
    <3>3. \A f, r \in Seq(Tokens) : Copied(f, r, Prefix, l, nl)
      BY <1>5, <3>2
    <3>4. \A f \in Seq(Tokens) : Copied(f, Rendered(Prefix, a), Prefix, l, nl)
      BY <2>2, <3>3
    <3>5. Copied(Before(request), Rendered(Prefix, a), Prefix, l, nl)
      BY <2>3, <3>4
    <3> QED
      BY <3>5 DEF Copied
  <2> QED
    BY <1>6, <2>1, <2>4
<1>8. /\ Before(request)' = Before(request) /\ Prefix' = Prefix
      /\ Arriving' = Arriving /\ Lacking' = Lacking
      /\ Rendered(Prefix, b)' = Rendered(Prefix, b)
  BY SameAnswers, SameArriving DEF Prefix, Rendered
<1> HIDE DEF b
<1>9. Split(b)'
  BY <1>1, <1>2, <1>3, <1>7, <1>8 DEF Split
<1> QED
  BY <1>9 DEF b

LEMMA WholeInit == Init => Whole
BY DEF Init, Whole

(* Nothing has been copied yet. *)
LEMMA NothingCopied ==
    ASSUME TypeOK, UNCHANGED <<answers, request, stream>>, stream = Arriving,
           file' = Before(request), left' = Len(stream) + Lacking
    PROVE  \E a \in Seq(Tokens) : Split(a)'
<1>1. Before(request) \in Seq(Tokens) /\ stream \in Seq(Tokens)
  BY BeforeType DEF TypeOK
<1>2. Before(request) \o Rendered(Prefix, <<>>) = Before(request) /\ <<>> \o stream = stream
  BY <1>1, RenderedNothing, ConcatEmptySeq
<1>3. /\ Before(request)' = Before(request) /\ Arriving' = Arriving /\ Lacking' = Lacking
      /\ Rendered(Prefix, <<>>)' = Rendered(Prefix, <<>>)
  BY SameAnswers, SameArriving DEF Prefix, Rendered
<1>4. Split(<<>>)'
  BY <1>2, <1>3 DEF Split
<1>5. <<>> \in Seq(Tokens)
  BY EmptySeq
<1> QED
  BY <1>4, <1>5

(* A request that was not made has no lines. *)
LEMMA NotMade ==
    ASSUME TypeOK
    PROVE  /\ answers["hostname"] = Absent => Before("userdata") = Before("hostname")
           /\ answers["userdata"] = Absent => Expected = Before("userdata")
<1>1. Before("hostname") \in Seq(Tokens) /\ Before("userdata") \in Seq(Tokens)
  BY BeforeType DEF Requests
<1>2. \A prefix, q : answers[q] = Absent => Section(prefix, q) = <<>>
  BY DEF Section
<1>3. answers["hostname"] = Absent => Before("userdata") = Before("hostname") \o <<>>
  BY <1>2, NextOne
<1>4. answers["userdata"] = Absent => Expected = Before("userdata") \o <<>>
  BY <1>2, NextOne
<1> QED
  BY <1>1, <1>3, <1>4, ConcatEmptySeq

(* When a request is done, its lines are in the file. *)
LEMMA RequestDone ==
    ASSUME request \in Requests, file = Before(request) \o Section(Prefix, request),
           NextRequest, UNCHANGED <<file, answers>>
    PROVE  Whole'
<1>1. CASE request = "sshkey"
  <2>1. file = Before("hostname")
    BY <1>1, NextOne DEF Prefix
  <2>2. file' = Before("hostname")' /\ stage' = "connect" /\ request' = "hostname"
    BY <1>1, <2>1, SameAnswers DEF NextRequest
  <2> QED
    BY <2>2 DEF Whole
<1>2. CASE request = "hostname"
  <2>1. file = Before("userdata")
    BY <1>2, NextOne DEF Prefix
  <2>2. file' = Before("userdata")' /\ stage' = "connect" /\ request' = "userdata"
    BY <1>2, <2>1, SameAnswers DEF NextRequest
  <2> QED
    BY <2>2 DEF Whole
<1>3. CASE request = "userdata"
  <2>1. file = Expected
    BY <1>3, NextOne DEF Prefix
  <2>2. file' = Expected' /\ stage' = "exec"
    BY <1>3, <2>1, SameAnswers DEF NextRequest
  <2> QED
    BY <2>2 DEF Whole
<1> QED
  BY <1>1, <1>2, <1>3 DEF Requests

(* A connection, and the requests that are skipped on it. *)
LEMMA ConnectWhole == ASSUME IInv, InOrder, Whole, connect PROVE Whole'
<1>1. TypeOK /\ request \in Requests /\ stage = "connect" /\ answers' = answers
  BY DEF IInv, TypeOK, connect
<1>2. (stage' # "off" => file' = file) /\ NoneCutUnnoticed' = NoneCutUnnoticed /\ Expected' = Expected
      /\ \A q : Before(q)' = Before(q)
  BY SameAnswers, <1>1 DEF connect, FAIL
<1>3. CASE UNCHANGED <<stage, request>> \/ stage' = "off"
  BY <1>1, <1>2, <1>3 DEF Whole
<1>4. CASE AfterConnect /\ UNCHANGED <<file, n>>
  <2> SUFFICES ASSUME NoneCutUnnoticed' PROVE Whole'
    BY DEF Whole
  <2>1. \A q \in {"hostname", "userdata"} : request = q => file = Before(q)
    BY <1>1, <1>2 DEF Whole
  <2>2. request = "sshkey" => stage' = "request" /\ request' = "sshkey"
    BY <1>4, ProvidersAssumption DEF AfterConnect, Wanted, IInv, TypeOK
  <2>3. /\ request # "sshkey" => answers["userdata"] = Absent
        /\ request = "hostname" => answers["hostname"] = Absent
    BY <1>1 DEF InOrder, Later, Answered, Requests
  <2>4. /\ stage' \in {"request", "exec"} /\ request' \in {request, "userdata"}
        /\ stage' = "exec" => request' = "userdata"
        /\ request' # request => request = "hostname"
    BY <1>1, <1>4, <2>2 DEF AfterConnect, Wanted, Requests
  <2>5. \A q \in {"hostname", "userdata"} : request' = q => file' = Before(q)
    BY <1>1, <1>2, <1>4, <2>1, <2>3, <2>4, NotMade DEF Requests
  <2>6. stage' = "exec" => file' = Expected
    BY <1>1, <2>2, <2>3, <2>4, <2>5, NotMade
  <2> QED
    BY <1>2, <2>4, <2>5, <2>6 DEF Whole
<1> QED
  <2> SUFFICES ASSUME stage' # "off" PROVE Whole'
    BY DEF Whole
  <2>1. (AfterConnect /\ UNCHANGED <<file, n>>) \/ UNCHANGED <<stage, request>>
    BY DEF connect, FAIL
  <2> QED
    BY <1>3, <1>4, <2>1

(* An answer: later requests have none yet, so no section changes. *)
LEMMA SendWhole == ASSUME IInv, InOrder, Whole, send_request PROVE Whole'
<1>1. CASE stage' = "off"
  BY <1>1 DEF Whole
<1>2. CASE stage' = "headers"
  <2> SUFFICES ASSUME NoneCutUnnoticed' PROVE Whole'
    BY DEF Whole
  <2>1. PICK r \in Responses : /\ answers' = [answers EXCEPT ![request] = r]
                               /\ stream' = SubSeq(r.body, 1, r.arrives)
    BY <1>2 DEF send_request, FAIL
  <2>2. /\ stage = "request" /\ request' = request /\ file' = file /\ request \in Requests
        /\ DOMAIN answers = Requests /\ answers[request] = Absent /\ r # Absent
    BY <1>2, ResponsesAssumption DEF send_request, FAIL, IInv, TypeOK, InOrder, Answered
  <2>3. /\ answers'[request] = r /\ Answered' = r
        /\ \A q \in Requests : q # request => answers'[q] = answers[q]
    BY <2>1, <2>2 DEF Answered
  <2>4. \A prefix, q : q \in Requests /\ q # request => Section(prefix, q)' = Section(prefix, q)
    BY <2>3 DEF Section
  <2>5. NoneCutUnnoticed
    BY <2>2, <2>3 DEF NoneCutUnnoticed
  <2>6. \A q \in {"hostname", "userdata"} :
            request = q => file = Before(q) /\ Before(q)' = Before(q)
    <3>1. \A q \in {"hostname", "userdata"} : request = q => file = Before(q)
      BY <2>2, <2>5 DEF Whole
    <3>2. request = "hostname" => Before("hostname")' = Before("hostname")
      BY <2>4 DEF Before, Requests
    <3>3. request = "userdata" => Before("userdata")' = Before("userdata")
      BY <2>4 DEF Before, Requests
    <3> QED
      BY <3>1, <3>2, <3>3
  <2>7. stream' = Arriving'
    BY <2>1, <2>3 DEF Arriving
  <2> QED
    BY <1>2, <2>2, <2>3, <2>6, <2>7 DEF Whole
<1> QED
  BY <1>1, <1>2 DEF send_request, FAIL

(* A body to be read, or a request without one. *)
LEMMA HeadersWhole == ASSUME IInv, InOrder, Whole, parse_headers PROVE Whole'
<1>1. /\ TypeOK /\ stage = "headers" /\ request \in Requests /\ Answered \in Responses
      /\ UNCHANGED <<answers, stream>> /\ Answered # Absent
  BY ResponsesAssumption DEF IInv, TypeOK, Progress, parse_headers, Answered
<1>2. NoneCutUnnoticed' = NoneCutUnnoticed
  BY <1>1, SameAnswers
<1> SUFFICES ASSUME NoneCutUnnoticed, stage' # "off" PROVE Whole'
  BY <1>2 DEF Whole
<1>3. request # "sshkey" => file = Before(request)
  BY <1>1 DEF Whole, Requests
<1>4. CASE Answered.status = "ok"
  <2>1. /\ stage' = IF request = "sshkey" THEN "open" ELSE "lines"
        /\ Answered.length = "exact" /\ left' = Len(Answered.body)
        /\ UNCHANGED <<file, request>>
    BY <1>1, <1>4 DEF parse_headers, NoneCutUnnoticed, Answered
  <2>2. /\ stream = Arriving /\ Arriving' = Arriving /\ Lacking' = Lacking
        /\ left' = Len(stream) + Lacking
    BY <1>1, <1>4, <2>1, ArrivingType, SameArriving DEF Whole
  <2>3. CASE request = "sshkey"
    BY <1>1, <2>1, <2>2, <2>3 DEF Whole
  <2>4. CASE request # "sshkey"
    <3>1. file' = Before(request)
      BY <1>3, <2>1, <2>4
    <3>2. \E a \in Seq(Tokens) : Split(a)'
      BY <1>1, <2>1, <2>2, <3>1, NothingCopied
    <3>3. stage' = "lines"
      BY <2>1, <2>4
    <3> QED
      BY <3>2, <3>3 DEF Whole
  <2> QED
    BY <2>3, <2>4
<1>5. CASE Answered.status # "ok"
  <2>1. NextRequest /\ UNCHANGED <<file, answers>> /\ request # "sshkey"
    BY <1>1, <1>5 DEF parse_headers, FAIL, Answered
  <2>2. file = Before(request) \o Section(Prefix, request)
    <3>1. Section(Prefix, request) = <<>>
      BY <1>5 DEF Section, Answered
    <3>2. Before(request) \in Seq(Tokens)
      BY <1>1, BeforeType
    <3> QED
      BY <1>3, <2>1, <3>1, <3>2, ConcatEmptySeq
  <2> QED
    BY <1>1, <2>1, <2>2, RequestDone
<1> QED
  BY <1>4, <1>5

(* A line, or the end of the body. *)
LEMMA LinesWhole == ASSUME IInv, InOrder, ResetSeen, Whole, write_lines PROVE Whole'
<1>1. /\ TypeOK /\ stage = "lines" /\ request \in Requests /\ Answered \in Responses
      /\ Answered # Absent /\ Answered.status = "ok" /\ answers' = answers
      /\ stream \in Seq(Tokens) /\ left \in 0..SizeMax
  BY ResponsesAssumption DEF IInv, TypeOK, InOrder, write_lines
<1>2. NoneCutUnnoticed' = NoneCutUnnoticed
  BY <1>1, SameAnswers
<1> SUFFICES ASSUME NoneCutUnnoticed, stage' # "off" PROVE Whole'
  BY <1>2 DEF Whole
<1>3. PICK a \in Seq(Tokens) : Split(a)
  BY <1>1 DEF Whole
<1>4. ASSUME NEW k \in fgets, write_lines_copy(k) PROVE Whole'
  <2>1. k # 0
    BY <1>4 DEF write_lines_copy
  <2>2. /\ k \in 1..Len(stream)
        /\ \A i \in 1..(k - 1) : stream[i] # NL
        /\ k = Len(stream) \/ stream[k] = NL
    BY <1>1, <1>3, <2>1, LineTaken
  <2>3. PICK l \in Seq(Tokens), rest \in Seq(Tokens) :
            /\ l = SubSeq(stream, 1, k) /\ rest = SubSeq(stream, k + 1, Len(stream))
            /\ Len(l) = k /\ Len(rest) = Len(stream) - k /\ stream = l \o rest
            /\ \A i \in 1..k : l[i] = stream[i]
    <3>1. /\ SubSeq(stream, 1, k) \in Seq(Tokens)
          /\ SubSeq(stream, k + 1, Len(stream)) \in Seq(Tokens)
          /\ Len(SubSeq(stream, 1, k)) = k
          /\ Len(SubSeq(stream, k + 1, Len(stream))) = Len(stream) - k
          /\ stream = SubSeq(stream, 1, k) \o SubSeq(stream, k + 1, Len(stream))
          /\ \A i \in 1..k : SubSeq(stream, 1, k)[i] = stream[i]
      BY <1>1, <2>2, Piece, Zenon
    <3> QED
      BY <3>1, Zenon
  <2>4. PICK nl \in Seq(Tokens) : nl = IF l[Len(l)] = NL THEN <<>> ELSE <<NL>>
    <3>1. NL \in Tokens
      BY DEF Tokens
    <3> QED
      BY <3>1, OneToken, EmptySeq
  <2>5. /\ stream' = rest /\ UNCHANGED <<stage, request>>
        /\ file' = file \o Prefix \o l \o nl
        /\ left' = (left + SizeMax + 1 - k) % (SizeMax + 1)
    BY <1>4, <2>3, <2>4 DEF write_lines_copy
  <2>6. left' = left - Len(l)
    <3>1. left = Len(stream) + Lacking /\ Lacking \in Nat
      BY <1>1, <1>3, ArrivingType DEF Split
    <3>2. SizeMax + 1 \in Nat \ {0} /\ left - k \in 0..((SizeMax + 1) - 1)
      BY <1>1, <2>2, <3>1, NumbersAssumption
    <3>3. ((left - k) + (SizeMax + 1)) % (SizeMax + 1) = left - k
      BY <3>2, Unwrapped
    <3>4. (left - k) + (SizeMax + 1) = left + SizeMax + 1 - k
      BY <1>1, <2>2, NumbersAssumption
    <3> QED
      BY <2>3, <2>5, <3>3, <3>4
  <2>7. \A i \in 1..(Len(l) - 1) : l[i] # NL
    BY <1>1, <2>2, <2>3
  <2>8. rest = <<>> \/ l[Len(l)] = NL
    BY <1>1, <2>2, <2>3
  <2>9. Len(l) # 0
    BY <2>1, <2>3
  <2>10. Split(a \o l)'
    BY <1>1, <1>3, <2>3, <2>4, <2>5, <2>6, <2>7, <2>8, <2>9, ArrivingType, LineCopied
  <2>11. a \o l \in Seq(Tokens)
    BY <1>3, <2>3, ConcatProperties
  <2>12. stage' = "lines"
    BY <1>1, <2>5
  <2>13. \E x \in Seq(Tokens) : Split(x)'
    BY <2>10, <2>11
  <2> QED
    BY <2>12, <2>13 DEF Whole
<1>5. CASE write_lines_return
  <2>0. left = Len(stream) + Lacking /\ Lacking \in Nat
    BY <1>1, <1>3, ArrivingType DEF Split
  <2>1. stream = <<>> /\ Lacking = 0
    <3>1. CASE left = 0
      BY <1>1, <2>0, <3>1
    <3>2. CASE 0 \in fgets
      <4>1. stream = <<>> /\ end = "closed"
        BY <1>1, <3>2 DEF fgets, Ends
      <4>2. Answered.end # "reset"
        BY <1>1, <4>1 DEF ResetSeen
      <4>3. Answered.arrives = Len(Answered.body)
        BY <1>1, <4>2 DEF NoneCutUnnoticed, Answered
      <4>4. Len(Answered.body) \in Int
        BY <1>1, Bodies
      <4> QED
        BY <4>1, <4>3, <4>4 DEF Lacking
    <3> QED
      BY <1>5, <3>1, <3>2 DEF write_lines_return
  <2>2. Answered.body = a
    <3>1. Arriving = a
      BY <1>3, <2>1, ConcatEmptySeq DEF Split
    <3> QED
      BY <1>1, <2>1, <3>1, ArrivingType
  <2>3. file = Before(request) \o Section(Prefix, request)
    BY <1>1, <1>3, <2>2 DEF Split, Section, Answered
  <2>4. NextRequest /\ UNCHANGED <<file, answers>>
    BY <1>1, <1>5 DEF write_lines_return
  <2> QED
    BY <1>1, <2>3, <2>4, RequestDone
<1>6. CASE write_lines_fails
  BY <1>6 DEF write_lines_fails, keys_fail, hostname_fails, userdata_fails
<1> QED
  BY <1>4, <1>5, <1>6 DEF write_lines

(* Every step of the program, the server and the machine. *)
LEMMA WholeStep == IInv /\ InOrder /\ ResetSeen /\ Whole /\ [Next]_vars => Whole'
<1> SUFFICES ASSUME IInv, InOrder, ResetSeen, Whole, [Next]_vars PROVE Whole'
  OBVIOUS
<1>1. CASE start
  BY <1>1 DEF start, Whole
<1>2. CASE resolve
  <2>1. answers' = answers /\ request' = request /\ stage = "resolve"
    BY <1>2 DEF resolve
  <2>2. stage' = "off" \/ (stage' \in {"resolve", "connect"} /\ file' = file)
    BY <1>2 DEF resolve, FAIL
  <2> QED
    BY <2>1, <2>2, SameAnswers DEF Whole
<1>3. CASE connect
  BY <1>3, ConnectWhole
<1>4. CASE send_request
  BY <1>4, SendWhole
<1>5. CASE parse_headers
  BY <1>5, HeadersWhole
<1>6. CASE open_output
  <2>1. /\ UNCHANGED <<answers, request, stream, left>> /\ stage = "open"
        /\ stage' \in {"header", "off"}
    BY <1>6 DEF open_output, FAIL
  <2>2. /\ Answered' = Answered /\ Arriving' = Arriving /\ Lacking' = Lacking
        /\ NoneCutUnnoticed' = NoneCutUnnoticed
    BY <2>1, SameAnswers, SameArriving
  <2> QED
    BY <2>1, <2>2 DEF Whole
<1>7. CASE write_header
  <2>1. /\ UNCHANGED <<answers, request, stream, left>> /\ stage = "header"
        /\ stage' \in {"lines", "off"} /\ (stage' = "lines" => file' = <<"header">>)
    BY <1>7 DEF write_header, write_header_fails
  <2>2. NoneCutUnnoticed' = NoneCutUnnoticed
    BY <2>1, SameAnswers
  <2> SUFFICES ASSUME NoneCutUnnoticed, stage' = "lines" PROVE Whole'
    BY <2>1, <2>2 DEF Whole
  <2>3. stream = Arriving /\ left' = Len(stream) + Lacking /\ request = "sshkey"
    BY <2>1 DEF Whole, InOrder
  <2>4. file' = Before(request)
    BY <2>1, <2>3 DEF Before
  <2>5. \E a \in Seq(Tokens) : Split(a)'
    BY <2>1, <2>3, <2>4, NothingCopied DEF IInv
  <2> QED
    BY <2>5 DEF Whole
<1>8. CASE write_lines
  BY <1>8, LinesWhole
<1>9. CASE execl \/ Crash
  BY <1>9 DEF execl, Crash, FAIL, Whole
<1>10. CASE Reboot
  BY <1>10 DEF Reboot, Whole
<1>11. CASE server_close \/ UNCHANGED vars
  <2>1. UNCHANGED <<stage, request, file, stream, left, answers>>
    BY <1>11 DEF server_close, vars
  <2>2. /\ Answered' = Answered /\ Arriving' = Arriving /\ Lacking' = Lacking
        /\ NoneCutUnnoticed' = NoneCutUnnoticed /\ Expected' = Expected
        /\ \A q : Before(q)' = Before(q)
    BY <2>1, SameAnswers, SameArriving
  <2>3. ASSUME NEW a, Split(a) PROVE Split(a)'
    <3>1. Before(request)' = Before(request) /\ Rendered(Prefix, a)' = Rendered(Prefix, a)
      BY <2>1, SameAnswers DEF Prefix, Rendered
    <3> QED
      BY <2>1, <2>2, <2>3, <3>1 DEF Split
  <2> QED
    BY <2>1, <2>2, <2>3 DEF Whole
<1> QED
  BY <1>1, <1>2, <1>3, <1>4, <1>5, <1>6, <1>7, <1>8, <1>9, <1>10, <1>11
  DEF Next, Program, BoundReached

-----------------------------------------------------------------------------
(* What a run leaves behind. *)

LEMMA ResetInit == Init => ResetSeen
BY DEF Init, ResetSeen

(* Only a connection that is open is closed later. *)
LEMMA ResetStep == IInv /\ InOrder /\ ResetSeen /\ [Next]_vars => ResetSeen'
<1> SUFFICES ASSUME IInv, InOrder, ResetSeen, [Next]_vars PROVE ResetSeen'
  OBVIOUS
<1> USE DEF ResetSeen, FAIL
<1>1. CASE send_request
  <2>1. CASE stage' = "off"
    BY <2>1
  <2>2. CASE stage' # "off"
    <3>1. PICK r \in Responses : answers' = [answers EXCEPT ![request] = r] /\ end' = r.end
      BY <1>1, <2>2 DEF send_request
    <3>2. Answered' = r
      BY <1>1, <3>1 DEF send_request, Answered, IInv, TypeOK
    <3> QED
      BY <3>1, <3>2
  <2> QED
    BY <2>1, <2>2
<1>2. CASE Program /\ ~send_request
  <2>1. /\ answers' = answers /\ end' = end
        /\ stage' \in {"headers", "open", "header", "lines"} =>
              request' = request /\ stage \in {"headers", "open", "header", "lines"}
    BY <1>2 DEF Program, resolve, connect, AfterConnect, Wanted, parse_headers, NextRequest,
        open_output, write_header, write_header_fails, write_lines, write_lines_copy,
        write_lines_return, write_lines_fails, keys_fail, hostname_fails, userdata_fails, execl
  <2> QED
    BY <2>1 DEF Answered
<1>3. CASE start
  BY <1>3 DEF start
<1>4. CASE server_close
  BY <1>4 DEF server_close, Answered
<1>5. CASE Crash \/ Reboot
  BY <1>5 DEF Crash, Reboot
<1>6. CASE UNCHANGED vars
  BY <1>6 DEF vars, Answered
<1> QED
  BY <1>1, <1>2, <1>3, <1>4, <1>5, <1>6 DEF Next, BoundReached

(* Until the file is opened there is none, since the unit's condition holds. *)
NotOpenedYet ==
    stage \in {"resolve", "connect", "request", "headers", "open"} /\ request = "sshkey" =>
        file = Absent

LEMMA NotOpenedInit == Init => NotOpenedYet
BY DEF Init, NotOpenedYet

LEMMA NotOpenedStep == IInv /\ NotOpenedYet /\ [Next]_vars => NotOpenedYet'
<1> SUFFICES ASSUME IInv, NotOpenedYet, [Next]_vars PROVE NotOpenedYet'
  OBVIOUS
<1> USE DEF NotOpenedYet, FAIL
<1>1. CASE start
  BY <1>1 DEF start
<1>2. CASE resolve \/ connect \/ send_request
  BY <1>2 DEF resolve, connect, AfterConnect, Wanted, send_request
<1>3. CASE parse_headers \/ write_lines
  BY <1>3 DEF parse_headers, NextRequest, write_lines, write_lines_copy, write_lines_return,
              write_lines_fails, keys_fail, hostname_fails, userdata_fails
<1>4. CASE open_output \/ write_header \/ execl
  BY <1>4 DEF open_output, write_header, write_header_fails, execl
<1>5. CASE server_close \/ Crash \/ Reboot \/ UNCHANGED vars
  BY <1>5 DEF server_close, Crash, Reboot, vars
<1> QED
  BY <1>1, <1>2, <1>3, <1>4, <1>5 DEF Next, Program, BoundReached

(* A step with which a run ends, and nothing that it has been killed by. *)
LEMMA RunEnds ==
    ASSUME IInv, InOrder, NotOpenedYet, Whole, NoneCutUnnoticed, Program, stage' = "off"
    PROVE  file' \in {Absent, Before("hostname"), Before("userdata"), Expected}
<1>1. request \in Requests /\ stage # "off"
  BY DEF IInv, TypeOK, Program, resolve, connect, send_request, parse_headers, open_output,
         write_header, write_lines, execl
<1>2. CASE /\ stage \in {"resolve", "connect", "request", "headers"}
           /\ file' = file
  BY <1>1, <1>2 DEF NotOpenedYet, Whole, Requests
<1>3. CASE resolve \/ connect \/ send_request \/ parse_headers
  <2>1. stage \in {"resolve", "connect", "request", "headers"} /\ file' = file
    BY <1>3 DEF resolve, connect, AfterConnect, Wanted, send_request, parse_headers, NextRequest,
                FAIL
  <2> QED
    BY <1>2, <2>1
<1>4. CASE open_output
  BY <1>1, <1>4 DEF open_output, FAIL, NotOpenedYet, InOrder
<1>5. CASE write_header
  BY <1>5 DEF write_header, write_header_fails
<1>6. CASE write_lines
  BY <1>6 DEF write_lines, write_lines_copy, write_lines_return, NextRequest, write_lines_fails,
              keys_fail, hostname_fails, userdata_fails
<1>7. CASE execl
  BY <1>1, <1>7 DEF execl, Whole
<1> QED
  BY <1>3, <1>4, <1>5, <1>6, <1>7 DEF Program

LEMMA LeftInit == Init => OnlyWholeSectionsStay
BY DEF Init, OnlyWholeSectionsStay

LEMMA LeftStep ==
    IInv /\ InOrder /\ NotOpenedYet /\ Whole /\ OnlyWholeSectionsStay /\ [Next]_vars
        => OnlyWholeSectionsStay'
<1> SUFFICES ASSUME IInv, InOrder, NotOpenedYet, Whole, OnlyWholeSectionsStay, [Next]_vars,
                    stage' = "off", crashes' = 0, NoneCutUnnoticed'
             PROVE  (file \in {Absent, Before("hostname"), Before("userdata"), Expected})'
  BY DEF OnlyWholeSectionsStay
<1>1. ~start /\ ~server_close /\ ~Crash
  BY DEF start, server_close, Crash, IInv, TypeOK
<1>2. answers' = answers
  <2>1. CASE Program
    BY <2>1 DEF Program, resolve, connect, send_request, parse_headers, open_output,
                write_header, write_lines, execl
  <2> QED
    BY <1>1, <2>1 DEF Next, Reboot, BoundReached, vars
<1>3. /\ NoneCutUnnoticed /\ Expected' = Expected
      /\ Before("hostname")' = Before("hostname") /\ Before("userdata")' = Before("userdata")
  BY <1>2, SameAnswers
<1>4. CASE Program
  BY <1>3, <1>4, RunEnds
<1>5. CASE Reboot \/ UNCHANGED vars
  <2>1. stage = "off" /\ crashes = 0 /\ file' = file
    BY <1>5 DEF Reboot, vars
  <2> QED
    BY <1>3, <2>1 DEF OnlyWholeSectionsStay
<1> QED
  BY <1>1, <1>4, <1>5 DEF Next, BoundReached

-----------------------------------------------------------------------------
(* The theorems. *)

(* The conjunction of the parts of the invariant. *)
FetchInvariant == IInv /\ InOrder /\ ResetSeen /\ NotOpenedYet /\ Whole /\ OnlyWholeSectionsStay

THEOREM InvariantHolds == Spec => []FetchInvariant
<1>1. Init => FetchInvariant
  BY InitIInv, OrderInit, ResetInit, NotOpenedInit, WholeInit, LeftInit DEF FetchInvariant
<1>2. FetchInvariant /\ [Next]_vars => FetchInvariant'
  BY NextIInv, OrderStep, ResetStep, NotOpenedStep, WholeStep, LeftStep DEF FetchInvariant
<1> QED
  BY <1>1, <1>2, PTL DEF Spec

(* ucd is executed on the header and every line of the keys, the hostname and
   the user data, in this order, each line with its prefix and its newline,
   whatever is written or read in pieces, and never on less. *)
THEOREM EverythingHandedOver == Spec => []UcdGetsEverything
<1>1. FetchInvariant => UcdGetsEverything
  BY DEF FetchInvariant, Whole, UcdGetsEverything
<1> QED
  BY <1>1, InvariantHolds, PTL

(* Wherever a run fails, no part of the keys, the hostname or the user data
   stays in the file: what is found after it is made of whole sections. *)
THEOREM WholeSectionsStay == Spec => []OnlyWholeSectionsStay
<1>1. FetchInvariant => OnlyWholeSectionsStay
  BY DEF FetchInvariant
<1> QED
  BY <1>1, InvariantHolds, PTL
=============================================================================
