------------------------- MODULE AuthorizedKeysProofs -------------------------
(***************************************************************************)
(* What SshKeys promises for any keys, any calls of any length and any     *)
(* file there was before; and what AuthorizedKeys promises for any         *)
(* metadata.                                                               *)
(***************************************************************************)
EXTENDS AuthorizedKeys, SequenceLemmas, FiniteSetTheorems

USE DEF given, read

-----------------------------------------------------------------------------
(* Texts.                                                                  *)

LEMMA Joined ==
    ASSUME NEW a \in KeyTexts, NEW b \in KeyTexts
    PROVE  a \o b \in KeyTexts /\ KeysIn(a \o b) = KeysIn(a) \cup KeysIn(b)
<1>1. /\ a \o b \in KeyTexts /\ Len(a \o b) = Len(a) + Len(b)
      /\ Len(a) \in Nat /\ Len(b) \in Nat
      /\ DOMAIN a = 1..Len(a) /\ DOMAIN b = 1..Len(b) /\ DOMAIN (a \o b) = 1..(Len(a) + Len(b))
      /\ \A i \in 1..Len(a) : (a \o b)[i] = a[i]
      /\ \A i \in 1..Len(b) : (a \o b)[Len(a) + i] = b[i]
  BY DEF KeyTexts
<1>2. \A i \in 1..(Len(a) + Len(b)) :
          i \in 1..Len(a) \/ (i - Len(a) \in 1..Len(b) /\ (a \o b)[i] = b[i - Len(a)])
  BY <1>1 DEF KeyTexts
<1>3. KeysIn(a \o b) \subseteq KeysIn(a) \cup KeysIn(b)
  BY <1>1, <1>2 DEF KeysIn
<1>4. KeysIn(a) \subseteq KeysIn(a \o b)
  BY <1>1 DEF KeysIn
<1>5. KeysIn(b) \subseteq KeysIn(a \o b)
  <2>1. \A i \in 1..Len(b) : Len(a) + i \in 1..(Len(a) + Len(b))
    BY <1>1
  <2> QED
    BY <1>1, <2>1 DEF KeysIn
<1> QED
  BY <1>1, <1>3, <1>4, <1>5

(* Whole lines after whole lines are whole lines. *)
LEMMA JoinedLines ==
    ASSUME NEW a \in KeyTexts, NEW b \in KeyTexts, WholeLines(a), WholeLines(b)
    PROVE  WholeLines(a \o b)
<1> DEFINE ab == a \o b
<1>1. /\ ab \in KeyTexts /\ Len(ab) = Len(a) + Len(b)
      /\ Len(a) \in Nat /\ Len(b) \in Nat
      /\ DOMAIN a = 1..Len(a) /\ DOMAIN b = 1..Len(b) /\ DOMAIN ab = 1..(Len(a) + Len(b))
      /\ \A i \in 1..Len(a) : ab[i] = a[i]
      /\ \A i \in (Len(a) + 1)..(Len(a) + Len(b)) : ab[i] = b[i - Len(a)]
      /\ (a = <<>>) = (Len(a) = 0) /\ (b = <<>>) = (Len(b) = 0)
  BY DEF KeyTexts
<1> HIDE DEF ab
<1>2. ASSUME NEW i \in DOMAIN ab, i > 1, ab[i] # NL
      PROVE  ab[i - 1] = NL
  <2>1. CASE i <= Len(a)
    BY <1>1, <1>2, <2>1 DEF WholeLines, KeyPerLine
  <2>2. CASE i = Len(a) + 1
    BY <1>1, <1>2, <2>2 DEF WholeLines
  <2>3. CASE i > Len(a) + 1
    <3>1. i - Len(a) \in 1..Len(b) /\ i - Len(a) > 1 /\ i - 1 \in (Len(a) + 1)..(Len(a) + Len(b))
      BY <1>1, <1>2, <2>3
    <3>2. ab[i] = b[i - Len(a)] /\ ab[i - 1] = b[(i - Len(a)) - 1]
      BY <1>1, <1>2, <2>3, <3>1
    <3> QED
      BY <1>1, <1>2, <3>1, <3>2 DEF WholeLines, KeyPerLine
  <2> QED
    BY <1>1, <1>2, <2>1, <2>2, <2>3
<1>3. ASSUME ab # <<>> PROVE ab[Len(ab)] = NL
  <2>1. CASE b = <<>>
    BY <1>1, <1>3, <2>1 DEF WholeLines, KeyTexts
  <2>2. CASE b # <<>>
    BY <1>1, <2>2 DEF WholeLines
  <2> QED
    BY <2>1, <2>2
<1>4. WholeLines(ab)
  BY <1>2, <1>3 DEF WholeLines, KeyPerLine
<1> QED
  BY <1>4 DEF ab

(* Of a file with whole lines every key is authorized. *)
LEMMA LinesAuthorized ==
    ASSUME NEW f \in KeyTexts, WholeLines(f)
    PROVE  Authorized(f) = KeysIn(f)
<1>0. f # Absent
  BY KeysAssumption
<1>1. Len(f) \in Nat /\ DOMAIN f = 1..Len(f)
  BY DEF KeyTexts
<1>2. ASSUME NEW i \in DOMAIN f, f[i] # NL
      PROVE  (i = 1 \/ f[i - 1] = NL) /\ (i = Len(f) \/ f[i + 1] = NL)
  <2>1. i = 1 \/ f[i - 1] = NL
    BY <1>1, <1>2 DEF WholeLines, KeyPerLine
  <2>2. i # Len(f) => f[i + 1] = NL
    <3>1. i # Len(f) => i + 1 \in DOMAIN f /\ i + 1 > 1 /\ (i + 1) - 1 = i
      BY <1>1, <1>2
    <3> QED
      BY <1>2, <3>1 DEF WholeLines, KeyPerLine
  <2> QED
    BY <2>1, <2>2
<1> QED
  BY <1>0, <1>2 DEF Authorized, KeysIn

(* Texts with no key twice and no key in common. *)
LEMMA JoinedDistinct ==
    ASSUME NEW a \in KeyTexts, NEW b \in KeyTexts, Distinct(a), Distinct(b),
           KeysIn(a) \cap KeysIn(b) = {}
    PROVE  Distinct(a \o b)
<1> DEFINE ab == a \o b
<1>1. /\ Len(a) \in Nat /\ Len(b) \in Nat
      /\ DOMAIN a = 1..Len(a) /\ DOMAIN b = 1..Len(b) /\ DOMAIN ab = 1..(Len(a) + Len(b))
      /\ \A i \in 1..Len(a) : ab[i] = a[i]
      /\ \A i \in (Len(a) + 1)..(Len(a) + Len(b)) :
             i - Len(a) \in DOMAIN b /\ ab[i] = b[i - Len(a)]
  BY DEF KeyTexts
<1> HIDE DEF ab
<1>2. ASSUME NEW i \in DOMAIN ab, NEW j \in DOMAIN ab, ab[i] = ab[j], ab[i] # NL
      PROVE  i = j
  <2>1. CASE i <= Len(a) /\ j <= Len(a)
    BY <1>1, <1>2, <2>1 DEF Distinct
  <2>2. CASE i > Len(a) /\ j > Len(a)
    <3>1. i - Len(a) = j - Len(a)
      BY <1>1, <1>2, <2>2, SMTT(30) DEF Distinct
    <3> QED
      BY <1>1, <3>1
  <2>3. CASE i <= Len(a) /\ j > Len(a)
    <3>1. ab[i] \in KeysIn(a) /\ ab[j] \in KeysIn(b)
      BY <1>1, <1>2, <2>3 DEF KeysIn
    <3> QED
      BY <1>2, <3>1
  <2>4. CASE i > Len(a) /\ j <= Len(a)
    <3>1. ab[i] \in KeysIn(b) /\ ab[j] \in KeysIn(a)
      BY <1>1, <1>2, <2>4 DEF KeysIn
    <3> QED
      BY <1>2, <3>1
  <2> QED
    BY <1>1, <2>1, <2>2, <2>3, <2>4
<1>3. Distinct(ab)
  BY <1>2 DEF Distinct
<1> QED
  BY <1>3 DEF ab

(* A key on a line of its own. *)
LEMMA KeyLine ==
    ASSUME NEW key \in Keys
    PROVE  /\ <<key, NL>> \in KeyTexts /\ WholeLines(<<key, NL>>)
           /\ KeysIn(<<key, NL>>) = {key} /\ Distinct(<<key, NL>>)
<1>1. <<key, NL>> \in KeyTexts /\ DOMAIN <<key, NL>> = 1..2 /\ Len(<<key, NL>>) = 2
      /\ key # NL
  BY KeysAssumption DEF KeyTexts
<1>2. 1..2 = {1, 2}
  OBVIOUS
<1> QED
  BY <1>1, <1>2 DEF WholeLines, KeyPerLine, KeysIn, Distinct

(* Of an empty file. *)
LEMMA NoKeys ==
    /\ <<>> \in KeyTexts /\ WholeLines(<<>>) /\ KeysIn(<<>>) = {} /\ Distinct(<<>>)
    /\ \A t \in Threads : <<>> \in Seq(KeysGiven(t) \cup {NL})
    /\ <<>> \in Seq(KeysKnown \cup {NL})
<1>1. DOMAIN <<>> = {}
  OBVIOUS
<1> QED
  BY <1>1, EmptySeq DEF KeyTexts, WholeLines, KeyPerLine, KeysIn, Distinct

(* A text whose elements are in a smaller set. *)
LEMMA Narrowed ==
    ASSUME NEW S, NEW T, NEW a \in Seq(S), \A i \in DOMAIN a : a[i] \in T
    PROVE  a \in Seq(T)
<1>1. a \in [1..Len(a) -> T] /\ Len(a) \in Nat
  BY LenProperties
<1> QED
  BY <1>1

-----------------------------------------------------------------------------
(* A thread inside write_ssh_keys has data to write. *)
Busy ==
    \A t \in Threads :
        /\ pc[t] # "idle" => Working(t)
        /\ t \notin active => made[t] = 0
        /\ pc[t] = "compare" => file # Absent /\ line[t] <= Len(Data(t))
        /\ pc[t] = "write" => file # Absent

Types == TypeOK /\ Busy

(* Where the keys come from. *)
LEMMA KeysFrom ==
    /\ \A t \in Threads : \A n \in DOMAIN calls[t] : KeysIn(calls[t][n]) \subseteq KeysGiven(t)
    /\ \A t \in Threads : \A key \in KeysGiven(t) :
           \E n \in DOMAIN calls[t] : key \in KeysIn(calls[t][n])
    /\ \A t \in Threads : KeysGiven(t) \subseteq KeysKnown
    /\ start # Absent => KeysIn(start) \subseteq KeysKnown
    /\ \A key \in KeysKnown :
           \/ \E t \in Threads : key \in KeysGiven(t)
           \/ start # Absent /\ key \in KeysIn(start)
<1>1. /\ \A t \in Threads : \A n \in DOMAIN calls[t] : KeysIn(calls[t][n]) \subseteq KeysGiven(t)
      /\ \A t \in Threads : \A key \in KeysGiven(t) :
             \E n \in DOMAIN calls[t] : key \in KeysIn(calls[t][n])
  BY Zenon DEF KeysGiven
<1> DEFINE Texts == UNION {KeysGiven(u) : u \in Threads}
<1>2. \A t \in Threads : KeysGiven(t) \subseteq Texts
  BY Zenon
<1>3. \A key \in Texts : \E t \in Threads : key \in KeysGiven(t)
  BY Zenon
<1>4. KeysKnown = Texts \cup (IF start = Absent THEN {} ELSE KeysIn(start))
  BY DEF KeysKnown
<1> HIDE DEF Texts
<1> QED
  BY <1>1, <1>2, <1>3, <1>4

(* What the threads have to write. *)
LEMMA DataTypes ==
    ASSUME TypeOK, NEW t \in Threads, NEW n \in DOMAIN calls[t]
    PROVE  /\ calls[t][n] \in KeyTexts /\ KeyPerLine(calls[t][n])
           /\ KeysIn(calls[t][n]) \subseteq KeysGiven(t)
           /\ KeysGiven(t) \subseteq KeysKnown
           /\ t = "userdata" => WholeLines(calls[t][n])
<1>1. calls \in Demands
  BY DEF TypeOK
<1>2. calls[t] \in Seq(KeyTexts)
  BY <1>1, DemandsAssumption
<1>3. calls[t][n] \in KeyTexts
  BY <1>2
<1> QED
  BY <1>1, <1>3, KeysFrom, DemandsAssumption

LEMMA Known == ASSUME TypeOK PROVE KeysKnown \subseteq Keys
<1>1. \A text \in KeyTexts : KeysIn(text) \subseteq Keys
  BY DEF KeyTexts, KeysIn
<1>2. \A t \in Threads : KeysGiven(t) \subseteq Keys
  BY <1>1, DataTypes, KeysFrom
<1>3. start # Absent => KeysIn(start) \subseteq Keys
  BY <1>1, StartsAssumption DEF TypeOK
<1> QED
  BY <1>2, <1>3, KeysFrom

(* What a thread that is inside write_ssh_keys has to write. *)
LEMMA BusyData ==
    ASSUME Types, NEW t \in Threads, Working(t)
    PROVE  /\ made[t] \in Nat /\ made[t] + 1 \in DOMAIN calls[t] /\ t \in active
           /\ Data(t) \in KeyTexts /\ Data(t) \in Seq(KeysGiven(t) \cup {NL})
           /\ KeysIn(Data(t)) \subseteq KeysGiven(t) /\ KeysGiven(t) \subseteq KeysKnown
           /\ t = "userdata" => WholeLines(Data(t))
<1>1. calls[t] \in Seq(KeyTexts) /\ made[t] \in Nat /\ made[t] < Len(calls[t])
  BY DemandsAssumption DEF Types, TypeOK, Working
<1>2. made[t] + 1 \in DOMAIN calls[t]
  BY <1>1
<1>3. /\ Data(t) \in KeyTexts /\ KeysIn(Data(t)) \subseteq KeysGiven(t)
      /\ KeysGiven(t) \subseteq KeysKnown
      /\ t = "userdata" => WholeLines(Data(t))
  BY <1>2, DataTypes DEF Data, Types
<1>4. Data(t) \in Seq(KeysGiven(t) \cup {NL})
  <2>1. \A i \in DOMAIN Data(t) : Data(t)[i] \in KeysGiven(t) \cup {NL}
    BY <1>3 DEF KeysIn
  <2> QED
    BY <1>3, <2>1, Narrowed DEF KeyTexts
<1> QED
  BY <1>1, <1>2, <1>3, <1>4 DEF Working

(* The file as a text. *)
LEMMA FileText ==
    ASSUME TypeOK
    PROVE  /\ file # Absent => file \in Seq(KeysKnown \cup {NL}) /\ file \in KeyTexts
           /\ \A text \in Seq(KeysKnown \cup {NL}) : text \in KeyTexts /\ text # Absent
<1>1. \A text \in Seq(KeysKnown \cup {NL}) : text \in KeyTexts
  <2> TAKE text \in Seq(KeysKnown \cup {NL})
  <2>1. \A i \in DOMAIN text : text[i] \in Keys \cup {NL}
    BY Known
  <2> QED
    BY <2>1, Narrowed DEF KeyTexts
<1> QED
  BY <1>1, KeysAssumption DEF TypeOK

LEMMA InitTypes == WriteInit => Types
<1> SUFFICES ASSUME WriteInit PROVE Types
  OBVIOUS
<1>1. file = Absent \/ file \in Seq(KeysKnown \cup {NL})
  <2>1. CASE file # Absent
    <3>1. file \in KeyTexts /\ file = start
      BY <2>1, StartsAssumption DEF WriteInit
    <3>2. \A i \in DOMAIN file : file[i] \in KeysKnown \cup {NL}
      BY <2>1, <3>1, KeysFrom DEF KeysIn
    <3> QED
      BY <3>1, <3>2, Narrowed DEF KeyTexts
  <2> QED
    BY <2>1
<1>2. \A t \in Threads : Len(calls[t]) \in Nat
  BY DemandsAssumption DEF WriteInit
<1>3. TypeOK
  BY <1>1, <1>2, NoKeys DEF WriteInit, TypeOK
<1> QED
  BY <1>3 DEF WriteInit, Types, Busy

LEMMA StepTypes == Types /\ [WriteNext]_writing => Types'
<1> SUFFICES ASSUME Types, [WriteNext]_writing PROVE Types'
  OBVIOUS
<1>a. CASE UNCHANGED writing
  <2>1. UNCHANGED <<calls, start, active, file, pc, made, auth_keys, line, missing>>
    BY <1>a DEF writing
  <2>2. UNCHANGED KeysKnown /\ \A u \in Threads : UNCHANGED KeysGiven(u)
    BY <2>1 DEF KeysKnown, KeysGiven
  <2>3. TypeOK'
    BY <2>1, <2>2 DEF Types, TypeOK
  <2> QED
    BY <2>1, <2>3 DEF Types, Busy, Working, Data
<1>b. ASSUME NEW t \in Threads, WriteStep(t) PROVE Types'
  <2>1. UNCHANGED <<calls, start, active>> /\ calls \in Demands /\ start \in Starts
        /\ active \subseteq Threads
    BY <1>b DEF WriteStep, stat_absent, write_file_create, write_file_write, read_file,
                compare_line, write_file_append, Types, TypeOK
  <2>2. UNCHANGED KeysKnown /\ \A u \in Threads : UNCHANGED KeysGiven(u)
    BY <2>1 DEF KeysKnown, KeysGiven
  <2>3. Working(t)
    BY <1>b DEF WriteStep, stat_absent, write_file_create, write_file_write, read_file,
                compare_line, write_file_append, Types, Busy
  <2>4. /\ Data(t) \in KeyTexts /\ Data(t) \in Seq(KeysGiven(t) \cup {NL})
        /\ KeysGiven(t) \subseteq KeysKnown /\ made[t] \in Nat /\ made[t] < Len(calls[t])
        /\ t \in active /\ Len(calls[t]) \in Nat
    <3>1. Len(calls[t]) \in Nat
      BY DemandsAssumption DEF Types, TypeOK
    <3> QED
      BY <2>3, <3>1, BusyData DEF Working
  <2>5. /\ pc \in [Threads -> {"idle", "create", "write", "compare"}]
        /\ made \in [Threads -> Nat] /\ line \in [Threads -> Nat]
        /\ auth_keys \in [Threads -> SUBSET KeysKnown] /\ missing \in [Threads -> KeyTexts]
        /\ \A u \in Threads :
              made[u] <= Len(calls[u]) /\ missing[u] \in Seq(KeysGiven(u) \cup {NL})
        /\ file = Absent \/ file \in Seq(KeysKnown \cup {NL})
    BY DEF Types, TypeOK
  <2>6. \A text \in Seq(KeysGiven(t) \cup {NL}) : text \in Seq(KeysKnown \cup {NL})
    <3> TAKE text \in Seq(KeysGiven(t) \cup {NL})
    <3>1. \A i \in DOMAIN text : text[i] \in KeysKnown \cup {NL}
      BY <2>4
    <3> QED
      BY <3>1, Narrowed
  <2>7. \A text \in Seq(KeysKnown \cup {NL}) : text # Absent
    BY FileText DEF Types
  <2>8. CASE stat_absent(t)
    <3>1. TypeOK'
      BY <2>1, <2>2, <2>5, <2>8 DEF stat_absent, TypeOK
    <3> QED
      BY <2>1, <2>3, <2>5, <2>8, <3>1 DEF stat_absent, Types, Busy, Working, Data
  <2>9. CASE write_file_create(t)
    <3>1. file' # Absent /\ file' \in Seq(KeysKnown \cup {NL})
      BY <2>5, <2>7, <2>9, NoKeys DEF write_file_create
    <3>2. TypeOK'
      BY <2>1, <2>2, <2>5, <2>9, <3>1 DEF write_file_create, TypeOK
    <3> QED
      BY <2>1, <2>3, <2>5, <2>9, <3>1, <3>2 DEF write_file_create, Types, Busy, Working, Data
  <2>10. CASE write_file_write(t) \/ write_file_append(t)
    <3>1. file # Absent /\ file \in Seq(KeysKnown \cup {NL}) /\ Return(t)
          /\ UNCHANGED <<line, auth_keys, missing>>
      BY <2>5, <2>10 DEF write_file_write, write_file_append, Types, Busy
    <3>2. file' \in Seq(KeysKnown \cup {NL})
      <4>1. SubSeq(file, Len(Data(t)) + 1, Len(file)) \in Seq(KeysKnown \cup {NL})
        <5>1. Len(Data(t)) \in Nat /\ Len(file) \in Nat
          BY <2>4, <3>1, LenProperties DEF KeyTexts
        <5>2. \A i \in (Len(Data(t)) + 1)..Len(file) : file[i] \in KeysKnown \cup {NL}
          BY <3>1, <5>1
        <5> QED
          BY <5>1, <5>2, SubSeqProperties
      <4>2. CASE write_file_write(t)
        BY <2>4, <2>6, <4>1, <4>2, ConcatProperties DEF write_file_write
      <4>3. CASE write_file_append(t)
        BY <2>5, <2>6, <3>1, <4>3, ConcatProperties DEF write_file_append
      <4> QED
        BY <2>10, <4>2, <4>3
    <3>3. /\ made' = [made EXCEPT ![t] = @ + 1] /\ pc' = [pc EXCEPT ![t] = "idle"]
          /\ file' # Absent
      BY <2>7, <3>1, <3>2 DEF Return
    <3>4. TypeOK'
      <4>1. /\ made' \in [Threads -> Nat] /\ pc' \in [Threads -> {"idle", "create", "write", "compare"}]
            /\ \A u \in Threads : made'[u] <= Len(calls[u])
        <5>1. made' \in [Threads -> Nat] /\ pc' \in [Threads -> {"idle", "create", "write", "compare"}]
          BY <2>4, <2>5, <3>3
        <5>2. made'[t] <= Len(calls[t]) /\ \A u \in Threads : u # t => made'[u] = made[u]
          BY <2>4, <2>5, <3>3
        <5> QED
          BY <2>5, <5>1, <5>2
      <4> QED
        BY <2>1, <2>2, <2>5, <3>1, <3>2, <4>1 DEF TypeOK
    <3> QED
      BY <2>1, <2>4, <2>5, <3>1, <3>3, <3>4 DEF Types, Busy, Working, Data
  <2>11. CASE read_file(t)
    <3>1. KeysIn(file) \subseteq KeysKnown
      BY <2>5, <2>11 DEF read_file, KeysIn
    <3>2. TypeOK'
      BY <2>1, <2>2, <2>5, <2>11, <3>1, NoKeys DEF read_file, TypeOK
    <3>3. Len(Data(t)) \in Nat
      BY <2>4 DEF KeyTexts
    <3> QED
      BY <2>1, <2>3, <2>5, <2>11, <3>2, <3>3 DEF read_file, Types, Busy, Working, Data
  <2>12. CASE compare_line(t)
    <3> DEFINE key == Data(t)[line[t] + 1]
    <3>1. line[t] + 1 \in DOMAIN Data(t) /\ line[t] \in Nat
      BY <2>4, <2>5, <2>12 DEF compare_line, KeyTexts
    <3>2. key \in KeysGiven(t) \cup {NL}
      BY <2>4, <3>1
    <3>3. key # NL => /\ missing[t] \o <<key, NL>> \in KeyTexts
                      /\ missing[t] \o <<key, NL>> \in Seq(KeysGiven(t) \cup {NL})
      <4>1. CASE key # NL
        <5>1. key \in KeysGiven(t) /\ key \in Keys
          BY <2>4, <3>2, <4>1, Known DEF Types
        <5> HIDE DEF key
        <5>2. <<key, NL>> \in KeyTexts /\ <<key, NL>> \in Seq(KeysGiven(t) \cup {NL})
          BY <5>1 DEF KeyTexts
        <5> QED
          BY <2>5, <5>2, ConcatProperties DEF KeyTexts
      <4> QED
        BY <4>1
    <3>4. /\ line' = [line EXCEPT ![t] = @ + 1] /\ UNCHANGED <<file, pc, made, auth_keys>>
          /\ missing' = missing \/ (key # NL /\ missing' = [missing EXCEPT ![t] = @ \o <<key, NL>>])
      BY <2>12 DEF compare_line
    <3> HIDE DEF key
    <3>5. /\ missing' \in [Threads -> KeyTexts]
          /\ \A u \in Threads : missing'[u] \in Seq(KeysGiven(u) \cup {NL})
      BY <2>5, <3>3, <3>4
    <3>6. TypeOK'
      <4>1. line' \in [Threads -> Nat]
        BY <2>5, <3>4
      <4> QED
        BY <2>1, <2>2, <2>5, <3>4, <3>5, <4>1 DEF TypeOK
    <3>7. line[t] + 1 <= Len(Data(t))
      BY <2>4, <2>5, <2>12 DEF compare_line, KeyTexts
    <3> QED
      BY <2>1, <2>3, <2>5, <3>4, <3>6, <3>7 DEF Types, Busy, Working, Data
  <2> QED
    BY <1>b, <2>8, <2>9, <2>10, <2>11, <2>12 DEF WriteStep
<1> QED
  BY <1>a, <1>b DEF WriteNext

(* Every variable always has a value of its type: nothing gets into the file,
   or into what is to be appended to it, but keys that were there or given. *)
THEOREM TypeCorrect == WriteSpec => []TypeOK
<1>1. Types => TypeOK
  BY DEF Types
<1> QED
  BY <1>1, InitTypes, StepTypes, PTL DEF WriteSpec

THEOREM TypesAlways == WriteSpec => []Types
BY InitTypes, StepTypes, PTL DEF WriteSpec

-----------------------------------------------------------------------------
(* A step of one thread leaves the others where they are. *)
LEMMA OtherThreads ==
    ASSUME Types, NEW t \in Threads, WriteStep(t)
    PROVE  /\ UNCHANGED <<calls, start, active>>
           /\ \A u \in Threads : u # t =>
                  /\ pc'[u] = pc[u] /\ made'[u] = made[u] /\ Data(u)' = Data(u)
                  /\ auth_keys'[u] = auth_keys[u] /\ line'[u] = line[u]
                  /\ missing'[u] = missing[u]
<1>0. /\ DOMAIN pc = Threads /\ DOMAIN made = Threads /\ DOMAIN auth_keys = Threads
      /\ DOMAIN line = Threads /\ DOMAIN missing = Threads
  BY DEF Types, TypeOK
<1>1. UNCHANGED <<calls, start, active>>
  BY DEF WriteStep, stat_absent, write_file_create, write_file_write, read_file, compare_line,
         write_file_append
<1>2. \A u \in Threads : u # t =>
          /\ pc'[u] = pc[u] /\ made'[u] = made[u]
          /\ auth_keys'[u] = auth_keys[u] /\ line'[u] = line[u] /\ missing'[u] = missing[u]
  BY <1>0 DEF WriteStep, stat_absent, write_file_create, write_file_write, read_file, compare_line,
              write_file_append, Return
<1> QED
  BY <1>1, <1>2 DEF Data

(* What a thread has compared it has found in the file, or it is going to
   append it, once. *)
ComparedBy(t) ==
    /\ WholeLines(missing[t])
    /\ \A n \in 1..line[t] : Data(t)[n] \in {NL} \cup auth_keys[t] \cup KeysIn(missing[t])
    /\ \A key \in KeysIn(missing[t]) :
           key \notin auth_keys[t] /\ \E n \in 1..line[t] : Data(t)[n] = key
    /\ Distinct(Data(t)) => Distinct(missing[t])

Compared == \A t \in Threads : pc[t] = "compare" => ComparedBy(t)

LEMMA ComparedInit == WriteInit => Compared
BY DEF WriteInit, Compared

LEMMA ComparedStep == Types /\ Compared /\ [WriteNext]_writing => Compared'
<1> SUFFICES ASSUME Types, Compared, [WriteNext]_writing PROVE Compared'
  OBVIOUS
<1>a. CASE UNCHANGED writing
  BY <1>a DEF writing, Compared, ComparedBy, Data
<1>b. ASSUME NEW t \in Threads, WriteStep(t) PROVE Compared'
  <2>1. ASSUME NEW u \in Threads, u # t, pc'[u] = "compare" PROVE ComparedBy(u)'
    BY <1>b, <2>1, OtherThreads DEF Compared, ComparedBy
  <2>2. ASSUME pc'[t] = "compare" PROVE ComparedBy(t)'
    <3>0. /\ DOMAIN pc = Threads /\ DOMAIN auth_keys = Threads
          /\ line \in [Threads -> Nat] /\ missing \in [Threads -> KeyTexts]
      BY DEF Types, TypeOK
    <3>1. read_file(t) \/ compare_line(t)
      BY <1>b, <2>2, <3>0 DEF WriteStep, stat_absent, write_file_create, write_file_write,
                              write_file_append, Return
    <3>2. CASE read_file(t)
      <4>1. line'[t] = 0 /\ missing'[t] = <<>>
        BY <3>0, <3>2 DEF read_file
      <4> QED
        BY <4>1, NoKeys DEF ComparedBy
    <3>3. CASE compare_line(t)
      <4> DEFINE key == Data(t)[line[t] + 1]
      <4>1. /\ pc[t] = "compare" /\ line[t] \in Nat /\ line[t] < Len(Data(t))
            /\ line'[t] = line[t] + 1 /\ auth_keys'[t] = auth_keys[t] /\ Data(t)' = Data(t)
        BY <3>0, <3>3 DEF compare_line, Data
      <4>2. ComparedBy(t)
        BY <4>1 DEF Compared
      <4>3. Data(t) \in KeyTexts /\ missing[t] \in KeyTexts
        BY <3>0, <4>1, BusyData DEF Types, Busy
      <4>4. line[t] + 1 \in DOMAIN Data(t) /\ DOMAIN Data(t) = 1..Len(Data(t))
            /\ key \in Keys \cup {NL}
        BY <4>1, <4>3 DEF KeyTexts
      <4>5. CASE key = NL \/ key \in auth_keys[t]
        <5>1. missing' = missing
          BY <3>3, <4>5 DEF compare_line
        <5>2. \A n \in 1..(line[t] + 1) : n \in 1..line[t] \/ n = line[t] + 1
          BY <4>1
        <5>3. \A n \in 1..line[t] : n \in 1..(line[t] + 1)
          BY <4>1
        <5> QED
          BY <4>1, <4>2, <4>5, <5>1, <5>2, <5>3 DEF ComparedBy
      <4>6. CASE key # NL /\ key \notin auth_keys[t]
        <5>1. missing'[t] = missing[t] \o <<key, NL>>
          BY <3>0, <3>3, <4>6 DEF compare_line
        <5>2. key \in Keys
          BY <4>4, <4>6
        <5>3. Data(t)[line[t] + 1] = key
          OBVIOUS
        <5> HIDE DEF key
        <5>4. /\ <<key, NL>> \in KeyTexts /\ WholeLines(<<key, NL>>)
              /\ KeysIn(<<key, NL>>) = {key} /\ Distinct(<<key, NL>>)
          BY <5>2, KeyLine
        <5>5. KeysIn(missing'[t]) = KeysIn(missing[t]) \cup {key}
          BY <4>3, <5>1, <5>4, Joined
        <5>6. WholeLines(missing'[t])
          BY <4>2, <4>3, <5>1, <5>4, JoinedLines DEF ComparedBy
        <5>7. /\ \A n \in 1..(line[t] + 1) : n \in 1..line[t] \/ n = line[t] + 1
              /\ \A n \in 1..line[t] : n \in 1..(line[t] + 1)
              /\ line[t] + 1 \in 1..(line[t] + 1)
          BY <4>1
        <5>8. \A n \in 1..line'[t] : Data(t)'[n] \in {NL} \cup auth_keys'[t] \cup KeysIn(missing'[t])
          BY <4>1, <4>2, <5>3, <5>5, <5>7 DEF ComparedBy
        <5>9. \A k \in KeysIn(missing'[t]) :
                  k \notin auth_keys'[t] /\ \E n \in 1..line'[t] : Data(t)'[n] = k
          BY <4>1, <4>2, <4>6, <5>3, <5>5, <5>7 DEF ComparedBy
        <5>10. ASSUME Distinct(Data(t)) PROVE Distinct(missing'[t])
          <6>1. key \notin KeysIn(missing[t])
            <7>1. SUFFICES ASSUME key \in KeysIn(missing[t]) PROVE FALSE
              OBVIOUS
            <7>2. PICK n \in 1..line[t] : Data(t)[n] = key
              BY <4>2, <7>1 DEF ComparedBy
            <7>3. n \in DOMAIN Data(t) /\ n # line[t] + 1
              BY <4>1, <4>3, <4>4, <7>2 DEF KeyTexts
            <7> QED
              BY <4>4, <4>6, <5>3, <5>10, <7>2, <7>3 DEF Distinct
          <6>2. Distinct(missing[t])
            BY <4>2, <5>10 DEF ComparedBy
          <6> QED
            BY <4>3, <5>1, <5>4, <6>1, <6>2, JoinedDistinct
        <5> QED
          BY <4>1, <5>6, <5>8, <5>9, <5>10 DEF ComparedBy
      <4> QED
        BY <4>5, <4>6
    <3> QED
      BY <3>1, <3>2, <3>3
  <2> QED
    BY <2>1, <2>2 DEF Compared
<1> QED
  BY <1>a, <1>b DEF WriteNext

THEOREM ComparedAlways == WriteSpec => []Compared
BY ComparedInit, ComparedStep, TypesAlways, PTL DEF WriteSpec

(* At the end of its data everything is in the file read, or will be. *)
LEMMA AllCompared ==
    ASSUME Types, Compared, NEW t \in Threads, pc[t] = "compare", line[t] = Len(Data(t))
    PROVE  KeysIn(Data(t)) \subseteq auth_keys[t] \cup KeysIn(missing[t])
<1>1. Data(t) \in KeyTexts /\ DOMAIN Data(t) = 1..line[t]
  <2>1. Working(t)
    BY DEF Types, Busy
  <2>2. Data(t) \in KeyTexts
    BY <2>1, BusyData
  <2>3. DOMAIN Data(t) = 1..Len(Data(t))
    BY <2>2 DEF KeyTexts
  <2> QED
    BY <2>2, <2>3
<1>2. \A n \in 1..line[t] : Data(t)[n] \in {NL} \cup auth_keys[t] \cup KeysIn(missing[t])
  BY DEF Compared, ComparedBy
<1>3. KeysIn(Data(t)) = {Data(t)[n] : n \in 1..line[t]} \ {NL}
  BY <1>1 DEF KeysIn
<1> QED
  BY <1>2, <1>3

-----------------------------------------------------------------------------
(* The file existed, or the main thread alone writes to it. *)
Ordinary == Existed \/ (start = Absent /\ active \subseteq {"userdata"})

(* Then the file has whole lines, nothing goes from it, and what has been
   written is in it. *)
Intact ==
    Ordinary =>
        /\ file # Absent => WholeLines(file)
        /\ file = Absent => start = Absent /\ \A t \in Threads : made[t] = 0
        /\ \A t \in Threads :
              /\ pc[t] \in {"create", "write"} =>
                     start = Absent /\ made[t] = 0 /\ (file = Absent \/ file = <<>>)
              /\ pc[t] = "compare" => auth_keys[t] \subseteq KeysIn(file)
              /\ \A n \in 1..made[t] : KeysIn(calls[t][n]) \subseteq KeysIn(file)

LEMMA IntactInit == WriteInit => Intact
<1> SUFFICES ASSUME WriteInit PROVE Intact
  OBVIOUS
<1>1. \A t \in Threads : made[t] = 0 /\ pc[t] = "idle" /\ 1..made[t] = {}
  BY DEF WriteInit
<1> QED
  BY <1>1 DEF WriteInit, Intact, Ordinary, Existed

LEMMA IntactStep == Types /\ Compared /\ Intact /\ [WriteNext]_writing => Intact'
<1> SUFFICES ASSUME Types, Compared, Intact, [WriteNext]_writing, Ordinary'
             PROVE  Intact'
  BY DEF Intact
<1>a. CASE UNCHANGED writing
  BY <1>a DEF writing, Intact, Ordinary, Existed
<1>b. ASSUME NEW t \in Threads, WriteStep(t) PROVE Intact'
  <2>1. /\ UNCHANGED <<calls, start, active>>
        /\ \A u \in Threads : u # t =>
               pc'[u] = pc[u] /\ made'[u] = made[u] /\ auth_keys'[u] = auth_keys[u]
    BY <1>b, OtherThreads
  <2>2. Ordinary
    BY <2>1 DEF Ordinary, Existed
  <2>3. /\ file # Absent => WholeLines(file)
        /\ file = Absent => start = Absent /\ \A u \in Threads : made[u] = 0
        /\ \A u \in Threads :
              /\ pc[u] \in {"create", "write"} =>
                     start = Absent /\ made[u] = 0 /\ (file = Absent \/ file = <<>>)
              /\ pc[u] = "compare" => auth_keys[u] \subseteq KeysIn(file)
              /\ \A n \in 1..made[u] : KeysIn(calls[u][n]) \subseteq KeysIn(file)
    BY <2>2 DEF Intact
  <2>4. Working(t)
    BY <1>b DEF WriteStep, stat_absent, write_file_create, write_file_write, read_file,
                compare_line, write_file_append, Types, Busy
  <2>5. /\ Data(t) \in KeyTexts /\ t \in active /\ made[t] \in Nat
        /\ t = "userdata" => WholeLines(Data(t))
        /\ Data(t) = calls[t][made[t] + 1]
    BY <2>4, BusyData DEF Data
  <2>6. ASSUME start = Absent
        PROVE  /\ t = "userdata"
               /\ \A u \in Threads : u # t => pc[u] = "idle" /\ made[u] = 0
    <3>1. active \subseteq {"userdata"}
      BY <2>2, <2>6 DEF Ordinary, Existed
    <3> QED
      BY <2>5, <3>1 DEF Types, Busy, Working
  <2>7. /\ DOMAIN pc = Threads /\ made \in [Threads -> Nat] /\ DOMAIN auth_keys = Threads
        /\ missing[t] \in KeyTexts /\ <<>> # Absent
    BY FileText, NoKeys DEF Types, TypeOK
  <2>8. file # Absent => file \in KeyTexts
    BY FileText DEF Types
  <2>9. CASE stat_absent(t)
    <3>1. UNCHANGED <<file, made, auth_keys>> /\ file = Absent /\ pc'[t] = "create"
      BY <2>7, <2>9 DEF stat_absent
    <3> QED
      BY <2>1, <2>3, <3>1 DEF Intact
  <2>10. CASE write_file_create(t)
    <3>1. UNCHANGED <<made, auth_keys>> /\ pc'[t] = "write" /\ pc[t] = "create"
      BY <2>7, <2>10 DEF write_file_create
    <3>2. start = Absent /\ made[t] = 0 /\ file' = <<>>
      BY <2>3, <2>10, <3>1 DEF write_file_create
    <3>3. \A u \in Threads : made[u] = 0 /\ 1..made[u] = {}
      BY <2>6, <3>2
    <3>4. \A u \in Threads : u # t => pc'[u] = "idle"
      BY <2>1, <2>6, <3>2
    <3> QED
      BY <2>1, <2>7, <3>1, <3>2, <3>3, <3>4, NoKeys DEF Intact
  <2>11. CASE write_file_write(t)
    <3>1. /\ pc'[t] = "idle" /\ pc[t] = "write" /\ made'[t] = made[t] + 1
          /\ file' = Data(t) \o SubSeq(file, Len(Data(t)) + 1, Len(file))
      BY <2>7, <2>11 DEF write_file_write, Return
    <3>2. start = Absent /\ made[t] = 0 /\ file = <<>>
      BY <2>3, <3>1 DEF Types, Busy
    <3>3. file' = Data(t)
      <4>1. Len(Data(t)) \in Nat /\ Len(file) = 0
        BY <2>5, <3>2 DEF KeyTexts
      <4>2. SubSeq(file, Len(Data(t)) + 1, Len(file)) = <<>>
        BY <4>1, SubSeqEmpty
      <4> QED
        BY <2>5, <3>1, <4>2, ConcatEmptySeq DEF KeyTexts
    <3>4. \A u \in Threads : u # t => pc'[u] = "idle" /\ made'[u] = 0 /\ 1..made'[u] = {}
      BY <2>1, <2>6, <3>2
    <3>5. \A n \in 1..made'[t] : KeysIn(calls'[t][n]) \subseteq KeysIn(file')
      <4> TAKE n \in 1..made'[t]
      <4>1. n = 1
        BY <3>1, <3>2
      <4>2. Data(t) = calls[t][1]
        BY <2>5, <3>2
      <4>3. calls'[t][n] = Data(t)
        BY <2>1, <4>1, <4>2
      <4> QED
        BY <3>3, <4>3
    <3>6. WholeLines(file') /\ file' # Absent
      BY <2>5, <2>6, <3>2, <3>3, KeysAssumption
    <3> QED
      BY <3>1, <3>4, <3>5, <3>6 DEF Intact
  <2>12. CASE read_file(t) \/ compare_line(t)
    <3>1. UNCHANGED <<file, made>> /\ pc'[t] = "compare" /\ file # Absent
      BY <2>7, <2>12 DEF read_file, compare_line, Types, Busy
    <3>2. auth_keys'[t] \subseteq KeysIn(file)
      <4>1. CASE read_file(t)
        BY <2>7, <4>1 DEF read_file
      <4>2. CASE compare_line(t)
        BY <2>3, <4>2 DEF compare_line
      <4> QED
        BY <2>12, <4>1, <4>2
    <3> QED
      BY <2>1, <2>3, <3>1, <3>2 DEF Intact
  <2>13. CASE write_file_append(t)
    <3>1. /\ pc'[t] = "idle" /\ pc[t] = "compare" /\ made'[t] = made[t] + 1
          /\ file' = file \o missing[t] /\ UNCHANGED auth_keys /\ line[t] = Len(Data(t))
      BY <2>7, <2>13 DEF write_file_append, Return
    <3>2. file \in KeyTexts /\ WholeLines(file) /\ file # Absent
      BY <2>3, <2>8, <3>1 DEF Types, Busy
    <3>3. WholeLines(missing[t])
      BY <3>1 DEF Compared, ComparedBy
    <3>4. /\ file' \in KeyTexts /\ WholeLines(file') /\ file' # Absent
          /\ KeysIn(file') = KeysIn(file) \cup KeysIn(missing[t])
      BY <2>7, <3>1, <3>2, <3>3, Joined, JoinedLines, KeysAssumption
    <3>5. KeysIn(Data(t)) \subseteq KeysIn(file')
      BY <2>3, <3>1, <3>4, AllCompared
    <3>6. \A n \in 1..made'[t] : KeysIn(calls'[t][n]) \subseteq KeysIn(file')
      <4> TAKE n \in 1..made'[t]
      <4>1. n \in 1..made[t] \/ n = made[t] + 1
        BY <2>5, <3>1
      <4>2. n = made[t] + 1 => calls[t][n] = Data(t)
        BY <2>5
      <4> QED
        BY <2>1, <2>3, <3>4, <3>5, <4>1, <4>2
    <3>7. \A u \in Threads : u # t => pc'[u] \notin {"create", "write"}
      BY <2>1, <2>3, <2>6
    <3>8. \A u \in Threads : u # t /\ pc'[u] = "compare" => auth_keys'[u] \subseteq KeysIn(file')
      BY <2>1, <2>3, <3>4
    <3>9. \A u \in Threads : u # t =>
              \A n \in 1..made'[u] : KeysIn(calls'[u][n]) \subseteq KeysIn(file')
      BY <2>1, <2>3, <3>4
    <3> QED
      BY <3>1, <3>4, <3>6, <3>7, <3>8, <3>9 DEF Intact
  <2> QED
    BY <1>b, <2>9, <2>10, <2>11, <2>12, <2>13 DEF WriteStep
<1> QED
  BY <1>a, <1>b DEF WriteNext

THEOREM IntactAlways == WriteSpec => []Intact
BY IntactInit, IntactStep, ComparedAlways, TypesAlways, PTL DEF WriteSpec

(* No key that is given for a file that existed, its last line ended, is lost,
   however the threads interleave; nor for a new file, if only the main thread
   has keys to write. *)
THEOREM EveryKeyDelivered == WriteSpec => []KeysDeliveredToFile
<1>1. Types /\ Intact => KeysDeliveredToFile
  <2> SUFFICES ASSUME Types, Intact, Ordinary, AllMade,
                      NEW t \in active, NEW key \in KeysGiven(t)
               PROVE  key \in Authorized(file)
    BY DEF KeysDeliveredToFile, KeysDelivered, Ordinary
  <2>1. t \in Threads /\ calls[t] \in Seq(KeyTexts)
    BY DemandsAssumption DEF Types, TypeOK
  <2>2. PICK n \in DOMAIN calls[t] : key \in KeysIn(calls[t][n])
    BY <2>1, KeysFrom
  <2>3. n \in 1..made[t] /\ made[t] # 0
    BY <2>1, <2>2 DEF AllMade
  <2>4. key \in KeysIn(file) /\ file # Absent /\ WholeLines(file)
    BY <2>1, <2>2, <2>3 DEF Intact
  <2>5. file \in KeyTexts
    BY <2>4, FileText DEF Types
  <2> QED
    BY <2>4, <2>5, LinesAuthorized
<1> QED
  BY <1>1, IntactAlways, TypesAlways, PTL

(* Nor is a key that was there: in a file that existed, its last line ended,
   what is authorized stays so. *)
THEOREM AuthorizedStays == WriteSpec => KeysKept
<1>1. Types /\ Types' /\ Intact /\ Intact' /\ [WriteNext]_writing
      => [Existed => Authorized(file) \subseteq Authorized(file')]_writing
  <2> SUFFICES ASSUME Types, Types', Intact, Intact', WriteNext, Existed
               PROVE  Authorized(file) \subseteq Authorized(file')
    OBVIOUS
  <2>1. PICK t \in Threads : WriteStep(t)
    BY DEF WriteNext
  <2>2. start # Absent /\ Ordinary /\ Ordinary' /\ start' = start
    BY <2>1, OtherThreads DEF Existed, Ordinary
  <2>3. /\ file # Absent /\ WholeLines(file) /\ file' # Absent /\ WholeLines(file')
        /\ pc[t] \notin {"create", "write"}
    BY <2>2 DEF Intact
  <2>4. file \in KeyTexts /\ file' \in KeyTexts
    <3>1. file \in Seq(KeysKnown \cup {NL}) /\ file \in KeyTexts
      BY <2>3, FileText DEF Types
    <3>2. file' = file \/ file' = file \o missing[t]
      BY <2>1, <2>3 DEF WriteStep, stat_absent, write_file_create, write_file_write, read_file,
                        compare_line, write_file_append
    <3>3. missing[t] \in KeyTexts
      BY DEF Types, TypeOK
    <3> QED
      BY <3>1, <3>2, <3>3, Joined
  <2>5. file' = file \/ file' = file \o missing[t]
    BY <2>1, <2>3 DEF WriteStep, stat_absent, write_file_create, write_file_write, read_file,
                      compare_line, write_file_append
  <2>6. KeysIn(file) \subseteq KeysIn(file')
    <3>1. missing[t] \in KeyTexts
      BY DEF Types, TypeOK
    <3>2. KeysIn(file \o missing[t]) = KeysIn(file) \cup KeysIn(missing[t])
      BY <2>4, <3>1, Joined
    <3>3. CASE file' = file
      BY <3>3
    <3>4. CASE file' = file \o missing[t]
      BY <3>2, <3>4
    <3> QED
      BY <2>5, <3>3, <3>4
  <2> QED
    BY <2>3, <2>4, <2>6, LinesAuthorized
<1> QED
  BY <1>1, IntactAlways, TypesAlways, PTL DEF WriteSpec, KeysKept

-----------------------------------------------------------------------------
(* A single thread is given no key twice in one call. *)
Undoubled ==
    /\ \A t, u \in active : t = u
    /\ start # Absent => Distinct(start)
    /\ \A t \in active : \A n \in DOMAIN calls[t] : Distinct(calls[t][n])

(* Then it knows what is in the file. *)
Once ==
    Undoubled =>
        /\ file # Absent => Distinct(file)
        /\ \A t \in Threads :
              /\ pc[t] \in {"create", "write"} => file = Absent \/ file = <<>>
              /\ pc[t] = "compare" => auth_keys[t] = KeysIn(file)

LEMMA OnceInit == WriteInit => Once
BY DEF WriteInit, Once, Undoubled

LEMMA OnceStep == Types /\ Compared /\ Once /\ [WriteNext]_writing => Once'
<1> SUFFICES ASSUME Types, Compared, Once, [WriteNext]_writing, Undoubled'
             PROVE  Once'
  BY DEF Once
<1>a. CASE UNCHANGED writing
  BY <1>a DEF writing, Once, Undoubled
<1>b. ASSUME NEW t \in Threads, WriteStep(t) PROVE Once'
  <2>1. UNCHANGED <<calls, start, active>> /\ \A u \in Threads : u # t => pc'[u] = pc[u]
    BY <1>b, OtherThreads
  <2>2. Undoubled
    BY <2>1 DEF Undoubled
  <2>3. Working(t)
    BY <1>b DEF WriteStep, stat_absent, write_file_create, write_file_write, read_file,
                compare_line, write_file_append, Types, Busy
  <2>4. /\ Data(t) \in KeyTexts /\ t \in active /\ Distinct(Data(t))
    BY <2>2, <2>3, BusyData DEF Data, Undoubled
  <2>5. \A u \in Threads : u # t => pc'[u] = "idle"
    BY <2>1, <2>2, <2>4 DEF Undoubled, Types, Busy, Working
  <2>6. /\ DOMAIN pc = Threads /\ DOMAIN auth_keys = Threads /\ missing[t] \in KeyTexts
        /\ file # Absent => file \in KeyTexts
    BY FileText DEF Types, TypeOK
  <2>7. /\ file # Absent => Distinct(file)
        /\ pc[t] \in {"create", "write"} => file = Absent \/ file = <<>>
        /\ pc[t] = "compare" => auth_keys[t] = KeysIn(file)
    BY <2>2 DEF Once
  <2>8. CASE stat_absent(t)
    BY <2>5, <2>6, <2>7, <2>8 DEF stat_absent, Once
  <2>9. CASE write_file_create(t)
    <3>1. file' = <<>> /\ pc'[t] = "write"
      BY <2>6, <2>7, <2>9 DEF write_file_create
    <3> QED
      BY <2>5, <3>1, NoKeys DEF Once
  <2>10. CASE write_file_write(t)
    <3>1. /\ pc'[t] = "idle" /\ file = <<>>
          /\ file' = Data(t) \o SubSeq(file, Len(Data(t)) + 1, Len(file))
      BY <2>6, <2>7, <2>10 DEF write_file_write, Return, Types, Busy
    <3>2. Len(Data(t)) \in Nat /\ Len(file) = 0
      BY <2>4, <3>1 DEF KeyTexts
    <3>3. SubSeq(file, Len(Data(t)) + 1, Len(file)) = <<>>
      BY <3>2, SubSeqEmpty
    <3>4. file' = Data(t)
      BY <2>4, <3>1, <3>3, ConcatEmptySeq DEF KeyTexts
    <3> QED
      BY <2>4, <2>5, <3>1, <3>4 DEF Once
  <2>11. CASE read_file(t)
    <3>1. UNCHANGED file /\ pc'[t] = "compare" /\ auth_keys'[t] = KeysIn(file)
      BY <2>6, <2>11 DEF read_file
    <3> QED
      BY <2>5, <2>7, <3>1 DEF Once
  <2>12. CASE compare_line(t)
    BY <2>5, <2>7, <2>12 DEF compare_line, Once
  <2>13. CASE write_file_append(t)
    <3>1. pc'[t] = "idle" /\ pc[t] = "compare" /\ file' = file \o missing[t] /\ file # Absent
      BY <2>6, <2>13 DEF write_file_append, Return, Types, Busy
    <3>2. /\ Distinct(missing[t])
          /\ \A key \in KeysIn(missing[t]) : key \notin auth_keys[t]
      BY <2>4, <3>1 DEF Compared, ComparedBy
    <3>3. Distinct(file')
      BY <2>6, <2>7, <3>1, <3>2, JoinedDistinct
    <3> QED
      BY <2>5, <3>1, <3>3 DEF Once
  <2> QED
    BY <1>b, <2>8, <2>9, <2>10, <2>11, <2>12, <2>13 DEF WriteStep
<1> QED
  BY <1>a, <1>b DEF WriteNext

THEOREM OnceAlways == WriteSpec => []Once
BY OnceInit, OnceStep, ComparedAlways, TypesAlways, PTL DEF WriteSpec

(* A thread that has the file to itself neither writes a key twice nor one that
   was there, unless a single call is given the key twice. *)
THEOREM NoKeyTwice == WriteSpec => []NoDuplicates
<1>1. Types /\ Once => NoDuplicates
  <2> SUFFICES ASSUME Types, Once, Cardinality(active) <= 1, start # Absent => Distinct(start),
                      \A t \in active : \A n \in DOMAIN calls[t] : Distinct(calls[t][n])
               PROVE  file # Absent => Distinct(file)
    BY DEF NoDuplicates
  <2>1. \A t, u \in active : t = u
    <3>1. IsFiniteSet(active)
      <4>1. IsFiniteSet(Threads)
        <5>1. IsFiniteSet({}) /\ Threads = (({} \cup {"public_keys"}) \cup {"keys"}) \cup {"userdata"}
          BY FS_EmptySet DEF Threads, KeyHandlers
        <5> QED
          BY <5>1, FS_AddElement
      <4> QED
        BY <4>1, FS_Subset DEF Types, TypeOK
    <3>2. SUFFICES ASSUME NEW t \in active, NEW u \in active, t # u PROVE FALSE
      OBVIOUS
    <3>3. {t, u} \subseteq active /\ Cardinality({t, u}) = 2
      <4>1. Cardinality({t}) = 1 /\ IsFiniteSet({t})
        BY FS_Singleton
      <4>2. {t, u} = {t} \cup {u} /\ u \notin {t}
        BY <3>2
      <4>3. Cardinality({t} \cup {u}) = Cardinality({t}) + 1
        BY <4>1, <4>2, FS_AddElement
      <4> QED
        BY <4>1, <4>2, <4>3
    <3>4. Cardinality({t, u}) <= Cardinality(active) /\ Cardinality(active) \in Nat
      BY <3>1, <3>3, FS_Subset, FS_CardinalityType
    <3> QED
      BY <3>3, <3>4
  <2> QED
    BY <2>1 DEF Once, Undoubled
<1> QED
  BY <1>1, OnceAlways, TypesAlways, PTL
-----------------------------------------------------------------------------
(* What the file may hold: what it held, and what is given this time. *)
KeysMeant ==
    (IF start = Absent THEN {} ELSE KeysIn(start)) \cup UNION {KeysGiven(t) : t \in active}

Meant ==
    /\ file # Absent => KeysIn(file) \subseteq KeysMeant
    /\ Existed => KeysIn(start) \subseteq KeysIn(file)

(* The keys of a part of a text are keys of the text. *)
LEMMA KeysOfPart ==
    ASSUME NEW a \in KeyTexts, NEW m \in Nat, NEW n \in Nat, n <= Len(a)
    PROVE  SubSeq(a, m + 1, n) \in KeyTexts /\ KeysIn(SubSeq(a, m + 1, n)) \subseteq KeysIn(a)
<1> DEFINE b == SubSeq(a, m + 1, n)
<1>1. Len(a) \in Nat /\ DOMAIN a = 1..Len(a)
  BY DEF KeyTexts
<1>2. \A i \in (m + 1)..n : i \in DOMAIN a /\ a[i] \in Keys \cup {NL}
  BY <1>1 DEF KeyTexts
<1>3. /\ b \in KeyTexts
      /\ Len(b) = IF m + 1 <= n THEN n - (m + 1) + 1 ELSE 0
      /\ \A i \in 1..(n - (m + 1) + 1) : b[i] = a[(m + 1) + i - 1]
  BY <1>2, SubSeqProperties DEF KeyTexts
<1> HIDE DEF b
<1>4. ASSUME NEW i \in DOMAIN b PROVE \E j \in DOMAIN a : b[i] = a[j]
  <2>1. DOMAIN b = 1..Len(b)
    BY <1>3 DEF KeyTexts
  <2>2. i \in 1..(n - (m + 1) + 1) /\ (m + 1) + i - 1 \in (m + 1)..n
    BY <1>3, <2>1
  <2> QED
    BY <1>2, <1>3, <2>2
<1>5. KeysIn(b) \subseteq KeysIn(a)
  BY <1>4 DEF KeysIn
<1> QED
  BY <1>3, <1>5 DEF b

LEMMA MeantInit == WriteInit => Meant
BY DEF WriteInit, Meant, KeysMeant, Existed

LEMMA MeantStep == Types /\ Intact /\ Meant /\ [WriteNext]_writing => Meant'
<1> SUFFICES ASSUME Types, Intact, Meant, [WriteNext]_writing PROVE Meant'
  OBVIOUS
<1>a. CASE UNCHANGED writing
  <2>1. UNCHANGED <<calls, start, active, file>>
    BY <1>a DEF writing
  <2>2. UNCHANGED KeysMeant
    BY <2>1 DEF KeysMeant, KeysGiven
  <2> QED
    BY <2>1, <2>2 DEF Meant, Existed
<1>b. ASSUME NEW t \in Threads, WriteStep(t) PROVE Meant'
  <2>1. UNCHANGED <<calls, start, active>>
    BY <1>b, OtherThreads
  <2>2. UNCHANGED KeysMeant /\ (Existed' = Existed)
    BY <2>1 DEF KeysMeant, KeysGiven, Existed
  <2>3. Working(t)
    BY <1>b DEF WriteStep, stat_absent, write_file_create, write_file_write, read_file,
                compare_line, write_file_append, Types, Busy
  <2>4. /\ Data(t) \in KeyTexts /\ t \in active
        /\ KeysIn(Data(t)) \subseteq KeysGiven(t)
    BY <2>3, BusyData
  <2>5. KeysGiven(t) \subseteq KeysMeant
    <3> DEFINE all == UNION {KeysGiven(u) : u \in active}
    <3>1. KeysGiven(t) \subseteq all
      BY <2>4, Zenon
    <3>2. all \subseteq KeysMeant
      BY Zenon DEF KeysMeant
    <3> HIDE DEF all
    <3> QED
      BY <3>1, <3>2
  <2>6. missing[t] \in KeyTexts /\ KeysIn(missing[t]) \subseteq KeysGiven(t)
    <3>1. missing[t] \in KeyTexts /\ missing[t] \in Seq(KeysGiven(t) \cup {NL})
      BY DEF Types, TypeOK
    <3>2. \A i \in DOMAIN missing[t] : missing[t][i] \in KeysGiven(t) \cup {NL}
      BY <3>1
    <3> QED
      BY <3>1, <3>2 DEF KeysIn
  <2>7. /\ file # Absent => file \in KeyTexts /\ KeysIn(file) \subseteq KeysMeant
        /\ Existed => KeysIn(start) \subseteq KeysIn(file)
    BY FileText DEF Types, Meant
  <2>8. Existed => pc[t] \notin {"create", "write"} /\ file # Absent
    BY DEF Intact, Ordinary, Existed
  <2>9. CASE UNCHANGED file
    BY <2>1, <2>2, <2>7, <2>9 DEF Meant
  <2>10. CASE write_file_create(t)
    <3>1. ~Existed
      BY <2>8, <2>10 DEF write_file_create
    <3>2. KeysIn(file') \subseteq KeysMeant
      BY <2>7, <2>10, NoKeys DEF write_file_create
    <3> QED
      BY <2>2, <3>1, <3>2 DEF Meant
  <2>11. CASE write_file_write(t)
    <3>1. ~Existed /\ file # Absent
      BY <2>8, <2>11 DEF write_file_write, Types, Busy
    <3> DEFINE rest == SubSeq(file, Len(Data(t)) + 1, Len(file))
    <3>2. rest \in KeyTexts /\ KeysIn(rest) \subseteq KeysIn(file)
      <4>1. Len(Data(t)) \in Nat /\ Len(file) \in Nat /\ Len(file) <= Len(file)
        BY <2>4, <2>7, <3>1 DEF KeyTexts
      <4> QED
        BY <2>7, <3>1, <4>1, KeysOfPart
    <3>3. file' = Data(t) \o rest
      BY <2>11 DEF write_file_write
    <3> HIDE DEF rest
    <3>4. KeysIn(file') \subseteq KeysMeant
      BY <2>4, <2>5, <2>7, <3>1, <3>2, <3>3, Joined
    <3> QED
      BY <2>2, <3>1, <3>4 DEF Meant
  <2>12. CASE write_file_append(t)
    <3>1. file # Absent /\ file' = file \o missing[t]
      BY <2>12 DEF write_file_append, Types, Busy
    <3>2. KeysIn(file') = KeysIn(file) \cup KeysIn(missing[t])
      BY <2>6, <2>7, <3>1, Joined
    <3> QED
      BY <2>1, <2>2, <2>5, <2>6, <2>7, <3>1, <3>2 DEF Meant
  <2> QED
    BY <1>b, <2>9, <2>10, <2>11, <2>12 DEF WriteStep, stat_absent, read_file, compare_line
<1> QED
  BY <1>a, <1>b DEF WriteNext

THEOREM MeantAlways == WriteSpec => []Meant
BY MeantInit, MeantStep, IntactAlways, TypesAlways, PTL DEF WriteSpec

(* In the end, what is authorized in a file that existed is what was, and what
   was given to the threads that had something to write: no key is lost, and
   none comes from anywhere else. *)
Exact ==
    AllMade /\ Existed =>
        Authorized(file) = Authorized(start) \cup UNION {KeysGiven(t) : t \in active}

LEMMA ExactFollows == Types /\ Intact /\ Meant => Exact
<1> SUFFICES ASSUME Types, Intact, Meant, AllMade, Existed
             PROVE  Authorized(file) = Authorized(start) \cup UNION {KeysGiven(t) : t \in active}
  BY DEF Exact
<1>1. start # Absent /\ file # Absent /\ WholeLines(start) /\ WholeLines(file)
  BY DEF Existed, Intact, Ordinary
<1>2. start \in KeyTexts /\ file \in KeyTexts
  BY <1>1, StartsAssumption, FileText DEF Types, TypeOK
<1>3. Authorized(file) = KeysIn(file) /\ Authorized(start) = KeysIn(start)
  BY <1>1, <1>2, LinesAuthorized
<1>4. ASSUME NEW t \in active PROVE KeysGiven(t) \subseteq KeysIn(file)
  <2>1. t \in Threads /\ calls[t] \in Seq(KeyTexts)
    BY DemandsAssumption DEF Types, TypeOK
  <2>2. SUFFICES ASSUME NEW key \in KeysGiven(t) PROVE key \in KeysIn(file)
    OBVIOUS
  <2>3. PICK n \in DOMAIN calls[t] : key \in KeysIn(calls[t][n])
    BY <2>1, KeysFrom
  <2>4. n \in 1..made[t]
    BY <2>1, <2>3 DEF AllMade
  <2> QED
    BY <2>1, <2>3, <2>4 DEF Intact, Ordinary
<1> DEFINE all == UNION {KeysGiven(t) : t \in active}
<1>5. all \subseteq KeysIn(file)
  BY <1>4, Zenon
<1>6. KeysIn(file) \subseteq KeysIn(start) \cup all /\ KeysIn(start) \subseteq KeysIn(file)
  BY <1>1 DEF Meant, KeysMeant
<1> HIDE DEF all
<1>7. Authorized(file) = Authorized(start) \cup all
  BY <1>3, <1>5, <1>6
<1> QED
  BY <1>7 DEF all

THEOREM ExactAlways == WriteSpec => []Exact
BY ExactFollows, MeantAlways, IntactAlways, TypesAlways, PTL
-----------------------------------------------------------------------------
(* json_parse, a recursive function, is what its definition says: there is *)
(* such a function for the values of any depth.                            *)

(* The nodes of a value, if f gives those of the values it is built of. *)
Parse(f, v) ==
    [parsing_array \in BOOLEAN |->
        CASE v.kind = "object" ->
                ObjectNodes(v.names, [i \in DOMAIN v.items |-> f[v.items[i]][FALSE]])
          [] v.kind = "array" -> FlattenSeq([i \in DOMAIN v.items |-> f[v.items[i]][TRUE]])
          [] v.kind = "value" ->
                <<Node(v.text, IF parsing_array THEN <<Node(NULL, <<>>)>> ELSE <<>>)>>]

(* Functions that agree on what a value is built of give it the same nodes. *)
LEMMA ParseSame ==
    ASSUME NEW f, NEW g, NEW v \in Json,
           v.kind # "value" => \A i \in DOMAIN v.items : f[v.items[i]] = g[v.items[i]]
    PROVE  Parse(f, v) = Parse(g, v)
<1>1. v.kind \in {"value", "array", "object"}
  BY JsonAssumption
<1>2. CASE v.kind = "object"
  <2>1. [i \in DOMAIN v.items |-> f[v.items[i]][FALSE]] = [i \in DOMAIN v.items |-> g[v.items[i]][FALSE]]
    BY <1>2
  <2> QED
    BY <1>2, <2>1 DEF Parse
<1>3. CASE v.kind = "array"
  <2>1. [i \in DOMAIN v.items |-> f[v.items[i]][TRUE]] = [i \in DOMAIN v.items |-> g[v.items[i]][TRUE]]
    BY <1>3
  <2> QED
    BY <1>3, <2>1 DEF Parse
<1>4. CASE v.kind = "value"
  BY <1>4 DEF Parse
<1> QED
  BY <1>1, <1>2, <1>3, <1>4

(* The values that are less deep than n, and a function that parses these. *)
Shallow(n) == {v \in Json : Depth[v] < n}
Parses(f, n) == f = [v \in Shallow(n) |-> Parse(f, v)]

(* What a value is built of is less deep than the value. *)
LEMMA ItemsShallow ==
    ASSUME NEW n \in Nat, NEW v \in Shallow(n + 1), v.kind # "value", NEW i \in DOMAIN v.items
    PROVE  v.items[i] \in Shallow(n) /\ v.items[i] \in Shallow(Depth[v])
<1>1. v \in Json /\ v.items \in Seq(Json) /\ Depth[v.items[i]] < Depth[v]
  BY JsonAssumption DEF Shallow
<1>2. v.items[i] \in Json
  BY <1>1
<1>3. Depth[v] \in Nat /\ Depth[v.items[i]] \in Nat /\ Depth[v] < n + 1
  BY <1>1, <1>2, JsonAssumption DEF Shallow
<1> QED
  BY <1>1, <1>2, <1>3 DEF Shallow

LEMMA ParsesExists == ASSUME NEW n \in Nat PROVE \E f : Parses(f, n)
<1> DEFINE S == {m \in Nat : \E f : Parses(f, m)}
<1>1. 0 \in S
  <2>1. Shallow(0) = {}
    BY JsonAssumption DEF Shallow
  <2> DEFINE f == [v \in {} |-> 0]
  <2>2. f = [v \in Shallow(0) |-> Parse(f, v)]
    BY <2>1
  <2>3. Parses(f, 0)
    BY <2>2 DEF Parses
  <2> HIDE DEF f
  <2> QED
    BY <2>3
<1>2. ASSUME NEW m \in Nat, m \in S PROVE m + 1 \in S
  <2>1. PICK f : Parses(f, m)
    BY <1>2
  <2> DEFINE g == [v \in Shallow(m + 1) |-> Parse(f, v)]
  <2>2. ASSUME NEW v \in Shallow(m + 1) PROVE Parse(f, v) = Parse(g, v)
    <3>1. ASSUME v.kind # "value", NEW i \in DOMAIN v.items
          PROVE  f[v.items[i]] = g[v.items[i]]
      <4>1. v.items[i] \in Shallow(m)
        BY <3>1, ItemsShallow
      <4>2. v.items[i] \in Shallow(m + 1)
        <5>1. v.items[i] \in Json /\ Depth[v.items[i]] < m /\ Depth[v.items[i]] \in Nat
          BY <4>1, JsonAssumption DEF Shallow
        <5> QED
          BY <5>1 DEF Shallow
      <4>3. f[v.items[i]] = Parse(f, v.items[i])
        BY <2>1, <4>1 DEF Parses
      <4> QED
        BY <4>2, <4>3
    <3>2. v \in Json
      BY DEF Shallow
    <3> HIDE DEF g
    <3> QED
      BY <3>1, <3>2, ParseSame
  <2>3. g = [v \in Shallow(m + 1) |-> Parse(g, v)]
    BY <2>2
  <2> HIDE DEF g
  <2>4. Parses(g, m + 1)
    BY <2>3 DEF Parses
  <2> QED
    BY <2>4
<1> HIDE DEF S
<1>3. Nat \subseteq S
  BY <1>1, <1>2, Induction
<1> QED
  BY <1>3 DEF S

(* All such functions agree. *)
LEMMA ParsesAgree ==
    ASSUME NEW n \in Nat, NEW m \in Nat, NEW f, NEW g, Parses(f, n), Parses(g, m)
    PROVE  \A v \in Shallow(n) \cap Shallow(m) : f[v] = g[v]
<1> DEFINE S == {d \in Nat : \A v \in Shallow(d) : v \in Shallow(n) \cap Shallow(m) => f[v] = g[v]}
<1>1. 0 \in S
  BY JsonAssumption DEF Shallow
<1>2. ASSUME NEW d \in Nat, d \in S PROVE d + 1 \in S
  <2> SUFFICES ASSUME NEW v \in Shallow(d + 1), v \in Shallow(n) \cap Shallow(m)
               PROVE  f[v] = g[v]
    OBVIOUS
  <2>1. f[v] = Parse(f, v) /\ g[v] = Parse(g, v)
    BY DEF Parses
  <2>2. ASSUME v.kind # "value", NEW i \in DOMAIN v.items
        PROVE  f[v.items[i]] = g[v.items[i]]
    <3>1. v.items[i] \in Shallow(d) /\ v.items[i] \in Shallow(Depth[v])
      BY <2>2, ItemsShallow
    <3>2. v.items[i] \in Shallow(n) \cap Shallow(m)
      <4>1. /\ Depth[v] \in Nat /\ Depth[v] < n /\ Depth[v] < m
            /\ v.items[i] \in Json /\ Depth[v.items[i]] \in Nat /\ Depth[v.items[i]] < Depth[v]
        BY <3>1, JsonAssumption DEF Shallow
      <4> QED
        BY <4>1 DEF Shallow
    <3> QED
      BY <1>2, <3>1, <3>2
  <2>3. v \in Json
    BY DEF Shallow
  <2> QED
    BY <2>1, <2>2, <2>3, ParseSame
<1> HIDE DEF S
<1>3. Nat \subseteq S
  BY <1>1, <1>2, Induction
<1> SUFFICES ASSUME NEW v \in Shallow(n) \cap Shallow(m) PROVE f[v] = g[v]
  OBVIOUS
<1>4. v \in Shallow(n) /\ n \in S
  BY <1>3
<1> QED
  BY <1>4 DEF S

(* So json_parse gives each value the nodes that follow from its items. *)
THEOREM ParsedIs == \A v \in Json : json_parse[v] = Parse(json_parse, v)
<1> DEFINE At(v) == CHOOSE f : Parses(f, Depth[v] + 1)
           F == [v \in Json |-> At(v)[v]]
<1>1. ASSUME NEW v \in Json
      PROVE  Depth[v] \in Nat /\ Depth[v] + 1 \in Nat /\ Parses(At(v), Depth[v] + 1)
  <2>1. Depth[v] \in Nat /\ Depth[v] + 1 \in Nat
    BY JsonAssumption
  <2> QED
    BY <2>1, ParsesExists
<1> HIDE DEF At
<1>2. ASSUME NEW v \in Json PROVE F[v] = Parse(F, v)
  <2>1. v \in Shallow(Depth[v] + 1)
    BY <1>1 DEF Shallow
  <2>2. F[v] = Parse(At(v), v)
    BY <1>1, <2>1 DEF Parses
  <2>3. ASSUME v.kind # "value", NEW i \in DOMAIN v.items
        PROVE  At(v)[v.items[i]] = F[v.items[i]]
    <3>1. PICK w : w = v.items[i]
      OBVIOUS
    <3>2. w \in Shallow(Depth[v])
      BY <1>1, <2>1, <2>3, <3>1, ItemsShallow
    <3>3. w \in Json /\ Depth[w] < Depth[v]
      BY <3>2 DEF Shallow
    <3>4. w \in Shallow(Depth[v] + 1) \cap Shallow(Depth[w] + 1)
      BY <1>1, <3>3 DEF Shallow
    <3>5. At(v)[w] = At(w)[w]
      BY <1>1, <3>3, <3>4, ParsesAgree
    <3> QED
      BY <3>1, <3>3, <3>5
  <2> HIDE DEF F
  <2>4. Parse(At(v), v) = Parse(F, v)
    BY <2>3, ParseSame
  <2> QED
    BY <2>2, <2>4
<1>3. F = [v \in Json |-> Parse(F, v)]
  BY <1>2
<1> HIDE DEF F
<1>4. \E f : f = [v \in Json |-> Parse(f, v)]
  BY <1>3
<1>5. json_parse = [v \in Json |-> Parse(json_parse, v)]
  BY <1>4 DEF json_parse, Parse
<1> QED
  BY <1>5
-----------------------------------------------------------------------------
(* The nodes of values, objects and lists.                                 *)

LEMMA ValueNodes ==
    ASSUME NEW v \in Json, v.kind = "value"
    PROVE  /\ v.text # NULL
           /\ json_parse[v][FALSE] = <<Node(v.text, <<>>)>>
           /\ json_parse[v][TRUE] = <<Node(v.text, <<Node(NULL, <<>>)>>)>>
<1>1. v.text # NULL
  BY JsonAssumption
<1>2. json_parse[v] = Parse(json_parse, v)
  BY ParsedIs
<1>3. \A b \in BOOLEAN :
          Parse(json_parse, v)[b] = <<Node(v.text, IF b THEN <<Node(NULL, <<>>)>> ELSE <<>>)>>
  BY DEF Parse
<1> QED
  BY <1>1, <1>2, <1>3

(* An object: an empty node, and one for each member. *)
LEMMA ObjectParsed ==
    ASSUME NEW v \in Json, v.kind = "object", NEW b \in BOOLEAN
    PROVE  /\ v.items \in Seq(Json) /\ DOMAIN v.names = 1..Len(v.items) /\ Len(v.items) \in Nat
           /\ json_parse[v][b] \in Seq(ToSet(json_parse[v][b]))
           /\ Len(json_parse[v][b]) = Len(v.items) + 1
           /\ json_parse[v][b][1] = Node(NULL, <<>>)
           /\ \A i \in 1..Len(v.items) :
                 json_parse[v][b][i + 1] = Node(v.names[i], json_parse[v.items[i]][FALSE])
<1>1. v.items \in Seq(Json) /\ DOMAIN v.names = DOMAIN v.items
  BY JsonAssumption
<1>2. DOMAIN v.items = 1..Len(v.items) /\ Len(v.items) \in Nat
  BY <1>1
<1> DEFINE k == Len(v.items)
           kids == [i \in DOMAIN v.items |-> json_parse[v.items[i]][FALSE]]
           members == [i \in DOMAIN v.names |-> Node(v.names[i], kids[i])]
           all == <<Node(NULL, <<>>)>> \o members
<1>3. json_parse[v] = Parse(json_parse, v)
  BY ParsedIs
<1>4. Parse(json_parse, v)[b] = ObjectNodes(v.names, kids)
  BY DEF Parse
<1>5. json_parse[v][b] = all
  BY <1>3, <1>4 DEF ObjectNodes
<1>6. members = [i \in 1..k |-> Node(v.names[i], json_parse[v.items[i]][FALSE])]
  BY <1>1, <1>2
<1> DEFINE T == {Node(NULL, <<>>)} \cup {members[i] : i \in 1..k}
<1>7. members \in Seq(T) /\ Len(members) = k
  <2>1. \A i \in 1..k : members[i] \in T
    BY Zenon
  <2>2. DOMAIN members = 1..k /\ members = [i \in DOMAIN members |-> members[i]]
    BY <1>6
  <2>3. k \in Nat
    BY <1>2
  <2> HIDE DEF members, T, k
  <2>4. members \in [1..k -> T]
    BY <2>1, <2>2
  <2> QED
    BY <2>3, <2>4
<1>8. \A i \in 1..k : members[i] = Node(v.names[i], json_parse[v.items[i]][FALSE])
  BY <1>6
<1>9. <<Node(NULL, <<>>)>> \in Seq(T) /\ Len(<<Node(NULL, <<>>)>>) = 1
      /\ <<Node(NULL, <<>>)>>[1] = Node(NULL, <<>>)
  OBVIOUS
<1> HIDE DEF members, T
<1> DEFINE first == <<Node(NULL, <<>>)>>
<1> HIDE DEF first
<1>10. first \in Seq(T) /\ Len(first) = 1 /\ first[1] = Node(NULL, <<>>) /\ all = first \o members
  BY <1>9 DEF first
<1> HIDE DEF all, k
<1>11. k \in Nat
  BY <1>2 DEF k
<1>12. /\ all \in Seq(T) /\ Len(all) = 1 + k
       /\ \A j \in 1..(1 + k) : all[j] = IF j <= 1 THEN first[j] ELSE members[j - 1]
  <2>1. /\ first \o members \in Seq(T) /\ Len(first \o members) = Len(first) + Len(members)
        /\ \A j \in 1..(Len(first) + Len(members)) :
              (first \o members)[j] = IF j <= Len(first) THEN first[j] ELSE members[j - Len(first)]
    BY <1>7, <1>10, ConcatAt
  <2> QED
    BY <1>7, <1>10, <2>1
<1>13. all[1] = Node(NULL, <<>>)
  BY <1>10, <1>11, <1>12
<1>14. ASSUME NEW i \in 1..k
       PROVE  all[i + 1] = Node(v.names[i], json_parse[v.items[i]][FALSE])
  <2>1. i + 1 \in 1..(1 + k) /\ ~(i + 1 <= 1) /\ (i + 1) - 1 = i
    BY <1>11
  <2> QED
    BY <1>8, <1>12, <2>1
<1>15. all \in Seq(ToSet(all)) /\ Len(all) = k + 1
  <2>1. \A j \in DOMAIN all : all[j] \in ToSet(all)
    BY DEF ToSet
  <2> QED
    BY <1>11, <1>12, <2>1, Narrowed
<1> QED
  BY <1>1, <1>2, <1>5, <1>13, <1>14, <1>15 DEF k

(* What is in these nodes. *)
LEMMA ObjectItems ==
    ASSUME NEW v \in Json, v.kind = "object", NEW b \in BOOLEAN
    PROVE  \A node : node \in ToSet(json_parse[v][b]) <=>
               \/ node = Node(NULL, <<>>)
               \/ \E i \in 1..Len(v.items) : node = Node(v.names[i], json_parse[v.items[i]][FALSE])
<1> DEFINE nodes == json_parse[v][b]
           k == Len(v.items)
<1>1. /\ k \in Nat /\ nodes \in Seq(ToSet(nodes)) /\ Len(nodes) = k + 1
      /\ nodes[1] = Node(NULL, <<>>)
      /\ \A i \in 1..k : nodes[i + 1] = Node(v.names[i], json_parse[v.items[i]][FALSE])
  BY ObjectParsed
<1> HIDE DEF nodes, k
<1>2. DOMAIN nodes = 1..(k + 1) /\ 1 \in DOMAIN nodes
  BY <1>1
<1>3. \A i \in 1..k : i + 1 \in DOMAIN nodes
  BY <1>1, <1>2
<1>4. \A j \in DOMAIN nodes : j = 1 \/ (j - 1 \in 1..k /\ (j - 1) + 1 = j)
  BY <1>1, <1>2
<1>5. ASSUME NEW node \in ToSet(nodes)
      PROVE  \/ node = Node(NULL, <<>>)
             \/ \E i \in 1..k : node = Node(v.names[i], json_parse[v.items[i]][FALSE])
  <2>1. PICK j \in DOMAIN nodes : node = nodes[j]
    BY DEF ToSet
  <2> QED
    BY <1>1, <1>4, <2>1
<1>6. Node(NULL, <<>>) \in ToSet(nodes)
  BY <1>1, <1>2, Zenon DEF ToSet
<1>7. ASSUME NEW i \in 1..k PROVE Node(v.names[i], json_parse[v.items[i]][FALSE]) \in ToSet(nodes)
  BY <1>1, <1>3, Zenon DEF ToSet
<1> QED
  BY <1>5, <1>6, <1>7 DEF nodes, k

(* The member of an object with a given name. *)
LEMMA MemberIs ==
    ASSUME NEW v \in Json, v.kind = "object", NEW name, Has(v, name)
    PROVE  /\ Member(v, name) \in Json /\ Member(v, name) \in ToSet(v.items)
           /\ \E i \in 1..Len(v.items) : v.names[i] = Name(name) /\ Member(v, name) = v.items[i]
           /\ \A i \in 1..Len(v.items) : v.names[i] = Name(name) => Member(v, name) = v.items[i]
           /\ Name(name) # NULL
<1>1. /\ v.items \in Seq(Json) /\ DOMAIN v.names = 1..Len(v.items)
      /\ \A i, j \in DOMAIN v.names :
            v.names[i] # NULL /\ (v.names[i] = v.names[j] => i = j)
  BY ObjectParsed, JsonAssumption
<1>2. \E i \in DOMAIN v.names : v.names[i] = Name(name)
  BY DEF Has, ToSet
<1> DEFINE m == CHOOSE i \in DOMAIN v.names : v.names[i] = Name(name)
<1>3. m \in DOMAIN v.names /\ v.names[m] = Name(name)
  BY <1>2
<1>4. Member(v, name) = v.items[m]
  BY DEF Member
<1> HIDE DEF m
<1>5. DOMAIN v.items = 1..Len(v.items) /\ v.items[m] \in Json
  BY <1>1, <1>3
<1>6. v.items[m] \in ToSet(v.items)
  BY <1>1, <1>3, <1>5 DEF ToSet
<1> QED
  BY <1>1, <1>3, <1>4, <1>5, <1>6

(* A handler runs if the document has a member of its name, and is given the
   nodes of this member. *)
LEMMA GivenIs ==
    ASSUME NEW doc \in Json, doc.kind = "object", NEW name, Name(name) # NULL
    PROVE  /\ Named(doc, name) # {} <=> Has(doc, name)
           /\ Has(doc, name) => Given(doc, name) = json_parse[Member(doc, name)][FALSE]
<1>1. \A node : node \in ToSet(json_parse[doc][FALSE]) <=>
          \/ node = Node(NULL, <<>>)
          \/ \E i \in 1..Len(doc.items) :
                node = Node(doc.names[i], json_parse[doc.items[i]][FALSE])
  BY ObjectItems
<1>2. DOMAIN doc.names = 1..Len(doc.items)
  BY ObjectParsed
<1>3. ASSUME NEW node \in Named(doc, name)
      PROVE  Has(doc, name) /\ node = Node(Name(name), json_parse[Member(doc, name)][FALSE])
  <2>1. node \in ToSet(json_parse[doc][FALSE]) /\ node.data = Name(name)
    BY DEF Named
  <2>2. node # Node(NULL, <<>>)
    BY <2>1 DEF Node
  <2>3. PICK i \in 1..Len(doc.items) :
            node = Node(doc.names[i], json_parse[doc.items[i]][FALSE])
    BY <1>1, <2>1, <2>2
  <2>4. doc.names[i] = Name(name)
    BY <2>1, <2>3 DEF Node
  <2>5. Has(doc, name)
    BY <1>2, <2>4 DEF Has, ToSet
  <2>6. Member(doc, name) = doc.items[i]
    BY <2>4, <2>5, MemberIs
  <2> QED
    BY <2>3, <2>4, <2>5, <2>6
<1>4. ASSUME Has(doc, name)
      PROVE  Node(Name(name), json_parse[Member(doc, name)][FALSE]) \in Named(doc, name)
  <2>1. PICK i \in 1..Len(doc.items) :
            doc.names[i] = Name(name) /\ Member(doc, name) = doc.items[i]
    BY <1>4, MemberIs
  <2> DEFINE node == Node(doc.names[i], json_parse[doc.items[i]][FALSE])
  <2>2. node \in ToSet(json_parse[doc][FALSE])
    BY <1>1
  <2>3. node.data = Name(name)
    BY <2>1 DEF Node
  <2>4. node \in Named(doc, name)
    BY <2>2, <2>3 DEF Named
  <2> QED
    BY <2>1, <2>4
<1>5. Has(doc, name) => Given(doc, name) = json_parse[Member(doc, name)][FALSE]
  <2> SUFFICES ASSUME Has(doc, name)
               PROVE  Given(doc, name) = json_parse[Member(doc, name)][FALSE]
    OBVIOUS
  <2>1. (CHOOSE node \in Named(doc, name) : TRUE) \in Named(doc, name)
    BY <1>4
  <2>2. (CHOOSE node \in Named(doc, name) : TRUE)
            = Node(Name(name), json_parse[Member(doc, name)][FALSE])
    BY <1>3, <2>1
  <2>3. Given(doc, name) = Node(Name(name), json_parse[Member(doc, name)][FALSE]).kids
    BY <2>2 DEF Given
  <2> QED
    BY <2>3 DEF Node
<1> QED
  BY <1>3, <1>4, <1>5
-----------------------------------------------------------------------------
(* The keys that the handlers write are those of the document.             *)

(* The texts of the nodes that a handler takes for keys. *)
LEMMA PickedTexts ==
    ASSUME NEW T, NEW nodes \in Seq(T), NEW Keep
    PROVE  ToSet(FlattenSeq([i \in DOMAIN nodes |->
                                IF nodes[i] \in Keep THEN <<FirstText(nodes[i])>> ELSE <<>>]))
           = {FirstText(node) : node \in ToSet(nodes) \cap Keep}
<1> DEFINE texts == {FirstText(nodes[i]) : i \in DOMAIN nodes}
           P == [i \in DOMAIN nodes |->
                    IF nodes[i] \in Keep THEN <<FirstText(nodes[i])>> ELSE <<>>]
<1>1. DOMAIN nodes = 1..Len(nodes) /\ Len(nodes) \in Nat
  OBVIOUS
<1>2. \A i \in DOMAIN nodes : FirstText(nodes[i]) \in texts
  OBVIOUS
<1> HIDE DEF texts
<1>3. \A i \in DOMAIN nodes : P[i] \in Seq(texts)
  BY <1>2
<1>4. DOMAIN P = DOMAIN nodes /\ P = [i \in DOMAIN P |-> P[i]]
  OBVIOUS
<1>5. \A i \in DOMAIN nodes : nodes[i] \in Keep => ToSet(P[i]) = {FirstText(nodes[i])}
  <2> SUFFICES ASSUME NEW i \in DOMAIN nodes, nodes[i] \in Keep
               PROVE  ToSet(P[i]) = {FirstText(nodes[i])}
    OBVIOUS
  <2>1. P[i] = <<FirstText(nodes[i])>>
    OBVIOUS
  <2>2. DOMAIN <<FirstText(nodes[i])>> = {1}
    OBVIOUS
  <2> QED
    BY <2>1, <2>2 DEF ToSet
<1>6. \A i \in DOMAIN nodes : nodes[i] \notin Keep => ToSet(P[i]) = {}
  <2>1. DOMAIN <<>> = {}
    OBVIOUS
  <2> QED
    BY <2>1 DEF ToSet
<1> HIDE DEF P
<1>7. P \in Seq(Seq(texts))
  <2>1. P \in [1..Len(nodes) -> Seq(texts)]
    BY <1>1, <1>3, <1>4
  <2> QED
    BY <1>1, <2>1
<1>8. \A x : x \in ToSet(FlattenSeq(P)) <=> \E i \in DOMAIN nodes : x \in ToSet(P[i])
  BY <1>4, <1>7, FlattenItems
<1>9. \A x : x \in ToSet(FlattenSeq(P)) <=>
          \E i \in DOMAIN nodes : nodes[i] \in Keep /\ x = FirstText(nodes[i])
  <2>1. ASSUME NEW i \in DOMAIN nodes, NEW x
        PROVE  x \in ToSet(P[i]) <=> nodes[i] \in Keep /\ x = FirstText(nodes[i])
    BY <1>5, <1>6
  <2> QED
    BY <1>8, <2>1, Zenon
<1>10. \A node : node \in ToSet(nodes) <=> \E i \in DOMAIN nodes : node = nodes[i]
  BY DEF ToSet
<1>11. ToSet(FlattenSeq(P)) = {FirstText(node) : node \in ToSet(nodes) \cap Keep}
  BY <1>9, <1>10
<1> QED
  BY <1>11 DEF P

(* The text of the node of a member that is a value. *)
LEMMA MemberText ==
    ASSUME NEW v \in Json, v.kind = "value", NEW name
    PROVE  FirstText(Node(name, json_parse[v][FALSE])) = v.text
<1>1. v.text # NULL /\ json_parse[v][FALSE] = <<Node(v.text, <<>>)>>
  BY ValueNodes
<1>2. <<Node(v.text, <<>>)>>[1].data = v.text
  BY DEF Node
<1>3. Node(name, json_parse[v][FALSE]).kids = <<Node(v.text, <<>>)>>
  BY <1>1 DEF Node
<1> QED
  BY <1>1, <1>2, <1>3 DEF FirstText

LEMMA PublicKeysTexts ==
    ASSUME NEW v \in Json, v.kind = "object", \A key \in ToSet(v.items) : key.kind = "value"
    PROVE  ToSet(openstack_metadata_public_keys(json_parse[v][FALSE]))
           = {key.text : key \in ToSet(v.items)}
<1> DEFINE nodes == json_parse[v][FALSE]
           Keep == {node \in ToSet(nodes) : node.data # NULL}
<1>1. /\ nodes \in Seq(ToSet(nodes)) /\ Len(v.items) \in Nat
      /\ v.items \in Seq(Json) /\ DOMAIN v.names = 1..Len(v.items)
      /\ \A i \in DOMAIN v.names : v.names[i] # NULL
  BY ObjectParsed, JsonAssumption
<1>2. \A node : node \in ToSet(nodes) <=>
          \/ node = Node(NULL, <<>>)
          \/ \E i \in 1..Len(v.items) : node = Node(v.names[i], json_parse[v.items[i]][FALSE])
  BY ObjectItems
<1> HIDE DEF nodes
<1>3. \A i \in DOMAIN nodes : (nodes[i] \in Keep) = (nodes[i].data # NULL)
  BY DEF ToSet
<1>4. [i \in DOMAIN nodes |-> IF nodes[i].data = NULL THEN <<>> ELSE <<FirstText(nodes[i])>>]
      = [i \in DOMAIN nodes |-> IF nodes[i] \in Keep THEN <<FirstText(nodes[i])>> ELSE <<>>]
  BY <1>3
<1>5. ToSet(openstack_metadata_public_keys(nodes))
      = {FirstText(node) : node \in ToSet(nodes) \cap Keep}
  <2> HIDE DEF Keep
  <2> QED
    BY <1>1, <1>4, PickedTexts DEF openstack_metadata_public_keys
<1>6. \A node : node \in Keep <=>
          \E i \in 1..Len(v.items) : node = Node(v.names[i], json_parse[v.items[i]][FALSE])
  <2>1. Node(NULL, <<>>).data = NULL
    BY DEF Node
  <2>2. \A i \in 1..Len(v.items) : Node(v.names[i], json_parse[v.items[i]][FALSE]).data # NULL
    BY <1>1 DEF Node
  <2> QED
    BY <1>2, <2>1, <2>2
<1>7. \A i \in 1..Len(v.items) : /\ v.items[i] \in ToSet(v.items)
                                 /\ FirstText(Node(v.names[i], json_parse[v.items[i]][FALSE]))
                                    = v.items[i].text
  <2> TAKE i \in 1..Len(v.items)
  <2>1. i \in DOMAIN v.items /\ v.items[i] \in Json
    BY <1>1
  <2>2. v.items[i] \in ToSet(v.items)
    BY <2>1 DEF ToSet
  <2> QED
    BY <2>1, <2>2, MemberText
<1>8. \A key \in ToSet(v.items) : \E i \in 1..Len(v.items) : key = v.items[i]
  BY <1>1 DEF ToSet
<1>9. Keep \subseteq ToSet(nodes)
  OBVIOUS
<1> HIDE DEF Keep
<1>10. ASSUME NEW x PROVE (\E node \in Keep : x = FirstText(node))
                          <=> \E key \in ToSet(v.items) : x = key.text
  <2>1. ASSUME NEW node \in Keep PROVE \E key \in ToSet(v.items) : FirstText(node) = key.text
    BY <1>6, <1>7
  <2>2. ASSUME NEW key \in ToSet(v.items) PROVE \E node \in Keep : key.text = FirstText(node)
    <3>1. PICK i \in 1..Len(v.items) : key = v.items[i]
      BY <1>8
    <3>2. PICK node : node = Node(v.names[i], json_parse[v.items[i]][FALSE])
      OBVIOUS
    <3>3. node \in Keep /\ FirstText(node) = key.text
      BY <1>6, <1>7, <3>1, <3>2
    <3> QED
      BY <3>3
  <2> QED
    BY <2>1, <2>2
<1>11. {FirstText(node) : node \in ToSet(nodes) \cap Keep} = {key.text : key \in ToSet(v.items)}
  BY <1>9, <1>10
<1> QED
  BY <1>5, <1>11 DEF nodes

(* The nodes of a list are those of its items. *)
LEMMA ArrayParsed ==
    ASSUME NEW v \in Json, v.kind = "array", NEW b \in BOOLEAN
    PROVE  /\ v.items \in Seq(Json)
           /\ json_parse[v][b] = FlattenSeq([i \in DOMAIN v.items |-> json_parse[v.items[i]][TRUE]])
<1>1. v.items \in Seq(Json)
  BY JsonAssumption
<1>2. json_parse[v] = Parse(json_parse, v)
  BY ParsedIs
<1>3. Parse(json_parse, v)[b] = FlattenSeq([i \in DOMAIN v.items |-> json_parse[v.items[i]][TRUE]])
  BY DEF Parse
<1> QED
  BY <1>1, <1>2, <1>3

(* Of a list of objects: the nodes of all the objects. *)
LEMMA ObjectsParsed ==
    ASSUME NEW v \in Json, v.kind = "array", \A w \in ToSet(v.items) : w.kind = "object"
    PROVE  \E T :
              LET P == [i \in DOMAIN v.items |-> json_parse[v.items[i]][TRUE]]
              IN  /\ P \in Seq(Seq(T)) /\ Len(P) = Len(v.items)
                  /\ json_parse[v][FALSE] = FlattenSeq(P)
<1> DEFINE P == [i \in DOMAIN v.items |-> json_parse[v.items[i]][TRUE]]
           T == UNION {ToSet(json_parse[v.items[i]][TRUE]) : i \in DOMAIN v.items}
<1>1. v.items \in Seq(Json) /\ json_parse[v][FALSE] = FlattenSeq(P)
  BY ArrayParsed
<1>2. DOMAIN v.items = 1..Len(v.items) /\ Len(v.items) \in Nat
  BY <1>1
<1>3. ASSUME NEW i \in DOMAIN v.items PROVE json_parse[v.items[i]][TRUE] \in Seq(T)
  <2>1. v.items[i] \in Json /\ v.items[i] \in ToSet(v.items)
    BY <1>1 DEF ToSet
  <2> DEFINE nodes == json_parse[v.items[i]][TRUE]
  <2>2. nodes \in Seq(ToSet(nodes))
    BY <2>1, ObjectParsed
  <2>3. ToSet(nodes) \subseteq T
    BY Zenon
  <2> HIDE DEF nodes, T
  <2>4. \A j \in DOMAIN nodes : nodes[j] \in T
    BY <2>3 DEF ToSet
  <2>5. nodes \in Seq(T)
    BY <2>2, <2>4, Narrowed
  <2> QED
    BY <2>5 DEF nodes
<1>4. P \in Seq(Seq(T)) /\ Len(P) = Len(v.items)
  <2> HIDE DEF T
  <2>1. P \in [1..Len(v.items) -> Seq(T)]
    BY <1>2, <1>3
  <2> HIDE DEF P
  <2> QED
    BY <1>2, <2>1
<1> QED
  BY <1>1, <1>4

LEMMA KeysTexts ==
    ASSUME NEW v \in Json, v.kind = "array",
           \A key \in ToSet(v.items) :
              key.kind = "object" /\ Has(key, "data") /\ Member(key, "data").kind = "value"
    PROVE  ToSet(openstack_metadata_keys(json_parse[v][FALSE]))
           = {Member(key, "data").text : key \in ToSet(v.items)}
<1> DEFINE nodes == json_parse[v][FALSE]
           Keep == {node \in ToSet(nodes) : node.data = Name("data")}
           P == [i \in DOMAIN v.items |-> json_parse[v.items[i]][TRUE]]
<1>1. PICK T : P \in Seq(Seq(T)) /\ Len(P) = Len(v.items) /\ nodes = FlattenSeq(P)
  BY ObjectsParsed
<1>2. v.items \in Seq(Json) /\ DOMAIN P = DOMAIN v.items
      /\ \A i \in DOMAIN v.items : P[i] = json_parse[v.items[i]][TRUE]
  BY ArrayParsed
<1> HIDE DEF P
<1>3. nodes \in Seq(T) /\ \A x : x \in ToSet(nodes) <=> \E i \in DOMAIN P : x \in ToSet(P[i])
  BY <1>1, FlattenType, FlattenItems
<1> HIDE DEF nodes
<1>4. ASSUME NEW i \in DOMAIN v.items
      PROVE  /\ v.items[i] \in ToSet(v.items) /\ v.items[i] \in Json /\ v.items[i].kind = "object"
             /\ \A node : node \in ToSet(P[i]) /\ node.data = Name("data") <=>
                    node = Node(Name("data"), json_parse[Member(v.items[i], "data")][FALSE])
  <2>1. PICK key : key = v.items[i]
    OBVIOUS
  <2>2. key \in ToSet(v.items) /\ key \in Json
    BY <1>2, <2>1 DEF ToSet
  <2>3. key.kind = "object" /\ Has(key, "data")
    BY <2>2
  <2> DEFINE At(j) == Node(key.names[j], json_parse[key.items[j]][FALSE])
             found == Node(Name("data"), json_parse[Member(key, "data")][FALSE])
  <2>4. P[i] = json_parse[key][TRUE]
    BY <1>2, <2>1
  <2>5. \A node : node \in ToSet(P[i]) <=>
            node = Node(NULL, <<>>) \/ \E j \in 1..Len(key.items) : node = At(j)
    BY <2>2, <2>3, <2>4, ObjectItems
  <2>6. /\ \E j \in 1..Len(key.items) : key.names[j] = Name("data") /\ Member(key, "data") = key.items[j]
        /\ \A j \in 1..Len(key.items) : key.names[j] = Name("data") => Member(key, "data") = key.items[j]
        /\ Name("data") # NULL
    BY <2>2, <2>3, MemberIs
  <2>7. \A j \in 1..Len(key.items) : At(j).data = key.names[j]
    BY DEF Node
  <2>8. Node(NULL, <<>>).data = NULL /\ found.data = Name("data")
    BY DEF Node
  <2>9. \A j \in 1..Len(key.items) : key.names[j] = Name("data") => At(j) = found
    BY <2>6
  <2> HIDE DEF At, found
  <2>10. \A node : node \in ToSet(P[i]) /\ node.data = Name("data") => node = found
    BY <2>5, <2>6, <2>7, <2>8, <2>9
  <2>11. found \in ToSet(P[i])
    BY <2>5, <2>6, <2>9
  <2>12. \A node : node \in ToSet(P[i]) /\ node.data = Name("data") <=> node = found
    BY <2>8, <2>10, <2>11
  <2> QED
    BY <2>1, <2>2, <2>3, <2>12 DEF found
<1>5. \A i \in DOMAIN nodes : (nodes[i] \in Keep) = (nodes[i].data = Name("data"))
  BY DEF ToSet
<1>6. [i \in DOMAIN nodes |-> IF nodes[i].data = Name("data") THEN <<FirstText(nodes[i])>> ELSE <<>>]
      = [i \in DOMAIN nodes |-> IF nodes[i] \in Keep THEN <<FirstText(nodes[i])>> ELSE <<>>]
  BY <1>5
<1> DEFINE Key(i) == Node(Name("data"), json_parse[Member(v.items[i], "data")][FALSE])
<1>7. \A node : node \in Keep <=> \E i \in DOMAIN v.items : node = Key(i)
  <2>1. \A i \in DOMAIN v.items : \A node :
            node \in ToSet(P[i]) /\ node.data = Name("data") <=> node = Key(i)
    BY <1>4
  <2> HIDE DEF Key
  <2>2. \A node : node \in Keep <=>
            node.data = Name("data") /\ \E i \in DOMAIN v.items : node \in ToSet(P[i])
    BY <1>2, <1>3
  <2> HIDE DEF Keep
  <2> QED
    BY <2>1, <2>2, Zenon
<1>8. Keep \subseteq ToSet(nodes)
  OBVIOUS
<1> HIDE DEF Keep
<1>9. ToSet(openstack_metadata_keys(nodes)) = {FirstText(node) : node \in ToSet(nodes) \cap Keep}
  BY <1>3, <1>6, PickedTexts DEF openstack_metadata_keys
<1>10. \A i \in DOMAIN v.items : FirstText(Key(i)) = Member(v.items[i], "data").text
  <2> TAKE i \in DOMAIN v.items
  <2>1. v.items[i] \in ToSet(v.items) /\ v.items[i] \in Json
    BY <1>4
  <2>2. Member(v.items[i], "data") \in Json /\ Member(v.items[i], "data").kind = "value"
    BY <2>1, MemberIs
  <2> QED
    BY <2>2, MemberText
<1> HIDE DEF Key
<1>11. /\ \A key \in ToSet(v.items) : \E i \in DOMAIN v.items : key = v.items[i]
       /\ \A i \in DOMAIN v.items : v.items[i] \in ToSet(v.items)
  BY DEF ToSet
<1>12. {FirstText(node) : node \in ToSet(nodes) \cap Keep}
       = {Member(key, "data").text : key \in ToSet(v.items)}
  <2>1. ASSUME NEW node \in Keep
        PROVE  \E key \in ToSet(v.items) : FirstText(node) = Member(key, "data").text
    <3>1. PICK i \in DOMAIN v.items : node = Key(i)
      BY <1>7
    <3> QED
      BY <1>10, <1>11, <3>1
  <2>2. ASSUME NEW key \in ToSet(v.items)
        PROVE  \E node \in Keep : Member(key, "data").text = FirstText(node)
    <3>1. PICK i \in DOMAIN v.items : key = v.items[i]
      BY <1>11
    <3>2. Key(i) \in Keep /\ FirstText(Key(i)) = Member(key, "data").text
      BY <1>7, <1>10, <3>1
    <3> QED
      BY <3>2
  <2> QED
    BY <1>8, <2>1, <2>2
<1> QED
  BY <1>9, <1>12 DEF nodes
-----------------------------------------------------------------------------
(* The handler of "files".                                                 *)

(* f[n] is what the handler has seen after n nodes. *)
After(f, nodes, m) ==
    f = [n \in 0..m |-> IF n = 0 THEN NoFile ELSE Copied(Seen(f[n - 1], nodes[n]))]

LEMMA AfterExists == ASSUME NEW nodes, NEW m \in Nat PROVE \E f : After(f, nodes, m)
<1> DEFINE S == {c \in Nat : \E f : After(f, nodes, c)}
<1>1. 0 \in S
  <2> DEFINE f == [n \in 0..0 |-> NoFile]
  <2>1. f = [n \in 0..0 |-> IF n = 0 THEN NoFile ELSE Copied(Seen(f[n - 1], nodes[n]))]
    OBVIOUS
  <2> HIDE DEF f
  <2> QED
    BY <2>1 DEF After
<1>2. ASSUME NEW c \in Nat, c \in S PROVE c + 1 \in S
  <2>1. PICK f : After(f, nodes, c)
    BY <1>2
  <2> DEFINE last == Copied(Seen(f[c], nodes[c + 1]))
             g == [n \in 0..(c + 1) |-> IF n = c + 1 THEN last ELSE f[n]]
  <2>2. ASSUME NEW n \in 0..(c + 1)
        PROVE  g[n] = IF n = 0 THEN NoFile ELSE Copied(Seen(g[n - 1], nodes[n]))
    <3>1. CASE n = c + 1
      <4>1. n # 0 /\ n - 1 = c /\ n - 1 \in 0..(c + 1) /\ n - 1 # c + 1
        BY <3>1
      <4>2. g[n - 1] = f[c]
        BY <4>1
      <4> QED
        BY <3>1, <4>1, <4>2
    <3>2. CASE n # c + 1
      <4>1. n \in 0..c /\ (n # 0 => n - 1 \in 0..(c + 1) /\ n - 1 # c + 1)
        BY <3>2
      <4>2. f[n] = IF n = 0 THEN NoFile ELSE Copied(Seen(f[n - 1], nodes[n]))
        BY <2>1, <4>1 DEF After
      <4> QED
        BY <3>2, <4>1, <4>2
    <3> QED
      BY <3>1, <3>2
  <2>3. g = [n \in 0..(c + 1) |-> g[n]]
    OBVIOUS
  <2> HIDE DEF g
  <2>4. After(g, nodes, c + 1)
    BY <2>2, <2>3 DEF After
  <2> QED
    BY <2>4
<1> HIDE DEF S
<1>3. Nat \subseteq S
  BY <1>1, <1>2, Induction
<1> QED
  BY <1>3 DEF S

LEMMA FilesAre ==
    ASSUME NEW nodes, Len(nodes) \in Nat
    PROVE  \E f : /\ After(f, nodes, Len(nodes))
                  /\ openstack_metadata_files(nodes) = f[Len(nodes)].copies
<1> DEFINE m == Len(nodes)
           f == CHOOSE g :
                   g = [n \in 0..m |-> IF n = 0 THEN NoFile ELSE Copied(Seen(g[n - 1], nodes[n]))]
<1>1. After(f, nodes, m)
  BY AfterExists DEF After
<1>2. openstack_metadata_files(nodes) = f[m].copies
  BY DEF openstack_metadata_files
<1> HIDE DEF f
<1> QED
  BY <1>1, <1>2

(* A node that belongs to neither member makes the handler forget both. *)
LEMMA SeenOther ==
    ASSUME NEW a, NEW b, NEW c, NEW node,
           node.data # Name("content_path"), node.data # Name("path")
    PROVE  Copied(Seen([content_path |-> a, path |-> b, copies |-> c], node))
           = [content_path |-> <<>>, path |-> <<>>, copies |-> c]
<1>1. Seen([content_path |-> a, path |-> b, copies |-> c], node)
      = [content_path |-> <<>>, path |-> <<>>, copies |-> c]
  BY DEF Seen
<1> QED
  BY <1>1 DEF Copied

(* The names of the two members differ. *)
LEMMA NamesDiffer == Name("content_path") # Name("path")
<1>1. <<"content_path">>[1] = "content_path" /\ <<"path">>[1] = "path" /\ "content_path" # "path"
  OBVIOUS
<1> QED
  BY <1>1, Zenon DEF Name

(* The node of the first member sets it; that of the second sets it too, and
   the file is copied. *)
LEMMA SeenPair ==
    ASSUME NEW x, NEW y, x # <<>>, y # <<>>, NEW c, NEW p, NEW q,
           \/ p = Node(Name("content_path"), <<Node(x, <<>>)>>) /\ q = Node(Name("path"), <<Node(y, <<>>)>>)
           \/ p = Node(Name("path"), <<Node(y, <<>>)>>) /\ q = Node(Name("content_path"), <<Node(x, <<>>)>>)
    PROVE  Copied(Seen(Copied(Seen([content_path |-> <<>>, path |-> <<>>, copies |-> c], p)), q))
           = [content_path |-> x, path |-> y, copies |-> Append(c, <<x, y>>)]
<1> DEFINE none == [content_path |-> <<>>, path |-> <<>>, copies |-> c]
           both == [content_path |-> x, path |-> y, copies |-> c]
<1>1. \A name, v : /\ Node(name, <<Node(v, <<>>)>>).data = name
                   /\ Node(name, <<Node(v, <<>>)>>).kids = <<Node(v, <<>>)>>
                   /\ Node(name, <<Node(v, <<>>)>>).kids # <<>>
                   /\ Node(name, <<Node(v, <<>>)>>).kids[1].data = v
  <2> TAKE name, v
  <2>1. Node(name, <<Node(v, <<>>)>>).data = name
        /\ Node(name, <<Node(v, <<>>)>>).kids = <<Node(v, <<>>)>>
    BY DEF Node
  <2>2. <<Node(v, <<>>)>> # <<>>
    OBVIOUS
  <2>3. <<Node(v, <<>>)>>[1].data = v
    BY DEF Node
  <2> QED
    BY <2>1, <2>2, <2>3
<1>2. Name("content_path") # Name("path")
  BY NamesDiffer
<1>3. CASE p = Node(Name("content_path"), <<Node(x, <<>>)>>) /\ q = Node(Name("path"), <<Node(y, <<>>)>>)
  <2>1. p.data = Name("content_path") /\ p.kids # <<>> /\ p.kids[1].data = x
        /\ q.data = Name("path") /\ q.kids # <<>> /\ q.kids[1].data = y
    BY <1>1, <1>3
  <2>2. Seen(none, p) = [content_path |-> x, path |-> <<>>, copies |-> c]
    BY <1>2, <2>1 DEF Seen
  <2>3. Copied(Seen(none, p)) = [content_path |-> x, path |-> <<>>, copies |-> c]
    BY <2>2 DEF Copied
  <2>4. Seen([content_path |-> x, path |-> <<>>, copies |-> c], q) = both
    BY <1>2, <2>1 DEF Seen
  <2>5. Copied(both) = [content_path |-> x, path |-> y, copies |-> Append(c, <<x, y>>)]
    BY DEF Copied
  <2> QED
    BY <2>3, <2>4, <2>5
<1>4. CASE p = Node(Name("path"), <<Node(y, <<>>)>>) /\ q = Node(Name("content_path"), <<Node(x, <<>>)>>)
  <2>1. p.data = Name("path") /\ p.kids # <<>> /\ p.kids[1].data = y
        /\ q.data = Name("content_path") /\ q.kids # <<>> /\ q.kids[1].data = x
    BY <1>1, <1>4
  <2>2. Seen(none, p) = [content_path |-> <<>>, path |-> y, copies |-> c]
    BY <1>2, <2>1 DEF Seen
  <2>3. Copied(Seen(none, p)) = [content_path |-> <<>>, path |-> y, copies |-> c]
    BY <2>2 DEF Copied
  <2>4. Seen([content_path |-> <<>>, path |-> y, copies |-> c], q) = both
    BY <1>2, <2>1 DEF Seen
  <2>5. Copied(both) = [content_path |-> x, path |-> y, copies |-> Append(c, <<x, y>>)]
    BY DEF Copied
  <2> QED
    BY <2>3, <2>4, <2>5
<1> QED
  BY <1>3, <1>4

(* A file of the document. *)
FileOf(f) == <<Member(f, "content_path").text, Member(f, "path").text>>

OrdinaryFile(f) ==
    /\ f.kind = "object" /\ ToSet(f.names) = {Name("content_path"), Name("path")}
    /\ \A v \in ToSet(f.items) : v.kind = "value" /\ v.text # <<>>

(* Its nodes: an empty one and one for each member, in either order. *)
LEMMA FileNodes ==
    ASSUME NEW f \in Json, OrdinaryFile(f)
    PROVE  LET nodes == json_parse[f][TRUE]
               x == Member(f, "content_path").text
               y == Member(f, "path").text
               p == Node(Name("content_path"), <<Node(x, <<>>)>>)
               q == Node(Name("path"), <<Node(y, <<>>)>>)
           IN  /\ Len(nodes) = 3 /\ nodes[1] = Node(NULL, <<>>)
               /\ x # <<>> /\ y # <<>>
               /\ (nodes[2] = p /\ nodes[3] = q) \/ (nodes[2] = q /\ nodes[3] = p)
<1> DEFINE nodes == json_parse[f][TRUE]
           x == Member(f, "content_path").text
           y == Member(f, "path").text
           p == Node(Name("content_path"), <<Node(x, <<>>)>>)
           q == Node(Name("path"), <<Node(y, <<>>)>>)
           k == Len(f.items)
<1>1. /\ k \in Nat /\ Len(nodes) = k + 1 /\ nodes[1] = Node(NULL, <<>>)
      /\ f.items \in Seq(Json) /\ DOMAIN f.names = 1..k
      /\ \A i \in 1..k : nodes[i + 1] = Node(f.names[i], json_parse[f.items[i]][FALSE])
  BY ObjectParsed DEF OrdinaryFile
<1>2. \A i, j \in 1..k : f.names[i] = f.names[j] => i = j
  BY <1>1, JsonAssumption DEF OrdinaryFile
<1>3. Has(f, "content_path") /\ Has(f, "path")
  BY DEF Has, OrdinaryFile
<1>4. ASSUME NEW name, Has(f, name)
      PROVE  /\ Member(f, name).text # <<>>
             /\ \A i \in 1..k : f.names[i] = Name(name) =>
                    nodes[i + 1] = Node(Name(name), <<Node(Member(f, name).text, <<>>)>>)
  <2>1. /\ Member(f, name) \in Json /\ Member(f, name) \in ToSet(f.items)
        /\ \A i \in 1..k : f.names[i] = Name(name) => Member(f, name) = f.items[i]
    BY <1>4, MemberIs DEF OrdinaryFile
  <2>2. Member(f, name).kind = "value" /\ Member(f, name).text # <<>>
    BY <2>1 DEF OrdinaryFile
  <2>3. json_parse[Member(f, name)][FALSE] = <<Node(Member(f, name).text, <<>>)>>
    BY <2>1, <2>2, ValueNodes
  <2> QED
    BY <1>1, <2>1, <2>2, <2>3
<1>5. /\ x # <<>> /\ \A i \in 1..k : f.names[i] = Name("content_path") => nodes[i + 1] = p
      /\ y # <<>> /\ \A i \in 1..k : f.names[i] = Name("path") => nodes[i + 1] = q
  BY <1>3, <1>4
<1>6. \A i \in 1..k : f.names[i] \in {Name("content_path"), Name("path")}
  BY <1>1 DEF OrdinaryFile, ToSet
<1>7. /\ \E i \in 1..k : f.names[i] = Name("content_path")
      /\ \E i \in 1..k : f.names[i] = Name("path")
  <2>1. Name("content_path") \in ToSet(f.names) /\ Name("path") \in ToSet(f.names)
    BY DEF OrdinaryFile
  <2> QED
    BY <1>1, <2>1 DEF ToSet
<1> HIDE DEF nodes, x, y, p, q, k
<1>8. PICK i \in 1..k : f.names[i] = Name("content_path")
  BY <1>7
<1>9. PICK j \in 1..k : f.names[j] = Name("path")
  BY <1>7
<1>10. i # j
  BY <1>8, <1>9, NamesDiffer
<1>11. \A l \in 1..k : l = i \/ l = j
  BY <1>2, <1>6, <1>8, <1>9
<1>12. k = 2 /\ ((i = 1 /\ j = 2) \/ (i = 2 /\ j = 1))
  <2>1. k >= 2
    BY <1>1, <1>10
  <2>2. (1 = i \/ 1 = j) /\ (2 = i \/ 2 = j)
    <3>1. 1 \in 1..k /\ 2 \in 1..k
      BY <1>1, <2>1
    <3> QED
      BY <1>11, <3>1, Zenon
  <2>3. ~(k >= 3)
    <3>1. SUFFICES ASSUME k >= 3 PROVE FALSE
      OBVIOUS
    <3>2. 3 \in 1..k
      BY <1>1, <3>1
    <3>3. 3 = i \/ 3 = j
      BY <1>11, <3>2, Zenon
    <3> QED
      BY <2>2, <3>3
  <2> QED
    BY <1>1, <1>10, <2>1, <2>2, <2>3
<1>13. nodes[i + 1] = p /\ nodes[j + 1] = q
  BY <1>5, <1>8, <1>9
<1>14. (nodes[2] = p /\ nodes[3] = q) \/ (nodes[2] = q /\ nodes[3] = p)
  BY <1>12, <1>13
<1>15. Len(nodes) = 3
  BY <1>1, <1>12
<1> QED
  BY <1>1, <1>5, <1>14, <1>15 DEF nodes, x, y, p, q
(* The handler copies the files of the list, each to its own path. *)
LEMMA FilesCopied ==
    ASSUME NEW v \in Json, v.kind = "array", \A f \in ToSet(v.items) : OrdinaryFile(f)
    PROVE  openstack_metadata_files(json_parse[v][FALSE])
           = [i \in DOMAIN v.items |-> FileOf(v.items[i])]
<1> DEFINE nodes == json_parse[v][FALSE]
           P == [i \in DOMAIN v.items |-> json_parse[v.items[i]][TRUE]]
           W == [i \in DOMAIN v.items |-> FileOf(v.items[i])]
           m == Len(v.items)
<1>1. /\ v.items \in Seq(Json) /\ DOMAIN v.items = 1..m /\ m \in Nat
      /\ \A i \in 1..m : v.items[i] \in Json /\ OrdinaryFile(v.items[i])
  <2>1. v.items \in Seq(Json)
    BY ArrayParsed
  <2>2. \A i \in DOMAIN v.items : v.items[i] \in ToSet(v.items)
    BY DEF ToSet
  <2> QED
    BY <2>1, <2>2
<1>2. PICK T : P \in Seq(Seq(T)) /\ Len(P) = m /\ nodes = FlattenSeq(P)
  <2>1. \A w \in ToSet(v.items) : w.kind = "object"
    BY DEF OrdinaryFile
  <2> QED
    BY <2>1, ObjectsParsed
<1>3. \A i \in 1..m : P[i] = json_parse[v.items[i]][TRUE]
  BY <1>1
<1>4. DOMAIN P = 1..m
  BY <1>1
<1>5. \A i \in DOMAIN P : Len(P[i]) = 3
  BY <1>1, <1>3, <1>4, FileNodes
<1> HIDE DEF P
<1>6. /\ Len(nodes) = 3 * m
      /\ \A i \in 1..m, j \in 1..3 : nodes[3 * (i - 1) + j] = P[i][j]
  <2> HIDE DEF m, nodes
  <2>1. /\ Len(FlattenSeq(P)) = 3 * Len(P)
        /\ \A i \in DOMAIN P, j \in 1..3 : FlattenSeq(P)[3 * (i - 1) + j] = P[i][j]
    BY <1>2, <1>5, FlattenEven
  <2> QED
    BY <1>2, <1>4, <2>1, Zenon
<1>7. PICK f : After(f, nodes, 3 * m) /\ openstack_metadata_files(nodes) = f[3 * m].copies
  <2>1. 3 * m \in Nat
    BY <1>1
  <2> QED
    BY <1>6, <2>1, FilesAre
<1> HIDE DEF nodes
<1>8. ASSUME NEW n \in Nat, n < 3 * m PROVE f[n + 1] = Copied(Seen(f[n], nodes[n + 1]))
  <2>1. n + 1 \in 0..(3 * m) /\ n + 1 # 0 /\ (n + 1) - 1 = n
    BY <1>1, <1>8
  <2> QED
    BY <1>7, <2>1 DEF After
<1>9. W \in Seq({FileOf(v.items[i]) : i \in 1..m}) /\ Len(W) = m
      /\ \A i \in 1..m : W[i] = FileOf(v.items[i])
  <2>1. W \in [1..m -> {FileOf(v.items[i]) : i \in 1..m}]
    BY <1>1
  <2>2. \A i \in 1..m : W[i] = FileOf(v.items[i])
    BY <1>1
  <2> HIDE DEF W
  <2> QED
    BY <1>1, <2>1, <2>2
<1> HIDE DEF W, m
<1> DEFINE S == {c \in Nat : c <= m => \E a, b :
                    f[3 * c] = [content_path |-> a, path |-> b, copies |-> SubSeq(W, 1, c)]}
<1>10. 0 \in S
  <2>1. SubSeq(W, 1, 0) = <<>>
    BY <1>9
  <2>2. 3 * 0 = 0 /\ 0 \in 0..(3 * m)
    BY <1>1
  <2>3. f[0] = NoFile
    BY <1>7, <2>2 DEF After
  <2> QED
    BY <2>1, <2>2, <2>3 DEF NoFile
<1>11. ASSUME NEW c \in Nat, c \in S PROVE c + 1 \in S
  <2>0. c + 1 \in Nat
    OBVIOUS
  <2> SUFFICES ASSUME c + 1 <= m
               PROVE  \E a, b : f[3 * (c + 1)]
                          = [content_path |-> a, path |-> b, copies |-> SubSeq(W, 1, c + 1)]
    BY <2>0, Zenon
  <2>1. c <= m /\ c + 1 \in 1..m
    BY <1>1
  <2>2. PICK a, b : f[3 * c] = [content_path |-> a, path |-> b, copies |-> SubSeq(W, 1, c)]
    BY <1>11, <2>1
  <2>3. PICK file_c : file_c = v.items[c + 1]
    OBVIOUS
  <2> DEFINE x == Member(file_c, "content_path").text
             y == Member(file_c, "path").text
             p == Node(Name("content_path"), <<Node(x, <<>>)>>)
             q == Node(Name("path"), <<Node(y, <<>>)>>)
             d == SubSeq(W, 1, c)
  <2>4. PICK N : N = P[c + 1]
    OBVIOUS
  <2>5. /\ N[1] = Node(NULL, <<>>) /\ x # <<>> /\ y # <<>>
        /\ (N[2] = p /\ N[3] = q) \/ (N[2] = q /\ N[3] = p)
    <3>1. file_c \in Json /\ OrdinaryFile(file_c)
      BY <1>1, <2>1, <2>3
    <3>2. N = json_parse[file_c][TRUE]
      BY <1>3, <2>1, <2>3, <2>4
    <3> QED
      BY <3>1, <3>2, FileNodes
  <2>6. nodes[3 * c + 1] = N[1] /\ nodes[3 * c + 2] = N[2] /\ nodes[3 * c + 3] = N[3]
    <3>1. \A j \in 1..3 : nodes[3 * ((c + 1) - 1) + j] = N[j]
      BY <1>6, <2>1, <2>4
    <3>2. (c + 1) - 1 = c
      OBVIOUS
    <3>3. \A j \in 1..3 : nodes[3 * c + j] = N[j]
      BY <3>1, <3>2
    <3> QED
      BY <3>3
  <2>7. PICK k \in Nat : k = 3 * c /\ k + 3 <= 3 * m /\ 3 * (c + 1) = k + 3
    <3>1. 3 * c \in Nat /\ 3 * c + 3 <= 3 * m /\ 3 * (c + 1) = 3 * c + 3
      BY <1>1, <2>1
    <3> QED
      BY <3>1
  <2>8. /\ f[k + 1] = Copied(Seen(f[k], nodes[k + 1]))
        /\ f[k + 2] = Copied(Seen(f[k + 1], nodes[k + 2]))
        /\ f[k + 3] = Copied(Seen(f[k + 2], nodes[k + 3]))
    <3>1. k \in Nat /\ k + 1 \in Nat /\ k + 2 \in Nat
          /\ k < 3 * m /\ k + 1 < 3 * m /\ k + 2 < 3 * m
          /\ (k + 1) + 1 = k + 2 /\ (k + 2) + 1 = k + 3
      BY <1>1, <2>7
    <3> QED
      BY <1>8, <3>1
  <2>9. f[k + 1] = [content_path |-> <<>>, path |-> <<>>, copies |-> d]
    <3>1. nodes[k + 1] = Node(NULL, <<>>)
      BY <2>5, <2>6, <2>7
    <3>2. nodes[k + 1].data # Name("content_path") /\ nodes[k + 1].data # Name("path")
      <4>1. Node(NULL, <<>>).data = NULL
        BY DEF Node
      <4> QED
        BY <3>1, <4>1, JsonAssumption
    <3>3. f[k] = [content_path |-> a, path |-> b, copies |-> d]
      BY <2>2, <2>7
    <3> HIDE DEF d
    <3> QED
      BY <2>8, <3>2, <3>3, SeenOther
  <2>10. f[k + 3] = [content_path |-> x, path |-> y, copies |-> Append(d, <<x, y>>)]
    <3>1. nodes[k + 2] = N[2] /\ nodes[k + 3] = N[3]
      BY <2>6, <2>7
    <3>2. f[k + 3] = Copied(Seen(Copied(Seen([content_path |-> <<>>, path |-> <<>>, copies |-> d],
                                             N[2])), N[3]))
      BY <2>8, <2>9, <3>1
    <3> HIDE DEF d, x, y
    <3> QED
      BY <2>5, <3>2, SeenPair
  <2>11. Append(d, <<x, y>>) = SubSeq(W, 1, c + 1)
    <3>1. <<x, y>> = W[c + 1]
      BY <1>9, <2>1, <2>3 DEF FileOf
    <3> HIDE DEF x, y, d
    <3>2. PICK T2 : W \in Seq(T2)
      BY <1>9
    <3>3. SubSeq(W, 1, c + 1) = Append(SubSeq(W, 1, c), W[c + 1])
      BY <1>1, <1>9, <2>1, <3>2, SubSeqLonger
    <3> QED
      BY <3>1, <3>3 DEF d
  <2> HIDE DEF x, y, d
  <2> QED
    BY <2>7, <2>10, <2>11
<1> HIDE DEF S
<1>12. m \in S /\ m <= m
  BY <1>1, <1>10, <1>11, Induction
<1>13. PICK a, b : f[3 * m] = [content_path |-> a, path |-> b, copies |-> SubSeq(W, 1, m)]
  <2>1. m <= m => \E a, b :
            f[3 * m] = [content_path |-> a, path |-> b, copies |-> SubSeq(W, 1, m)]
    BY <1>12, Zenon DEF S
  <2> QED
    BY <1>12, <2>1, Zenon
<1>14. f[3 * m].copies = SubSeq(W, 1, m)
  <2>1. PICK r, d : r = f[3 * m] /\ d = SubSeq(W, 1, m)
    OBVIOUS
  <2>2. r = [content_path |-> a, path |-> b, copies |-> d]
    BY <1>13, <2>1, Zenon
  <2>3. r.copies = d
    BY <2>2
  <2> QED
    BY <2>1, <2>3, Zenon
<1>15. SubSeq(W, 1, m) = W
  BY <1>9
<1> QED
  BY <1>7, <1>14, <1>15 DEF nodes, W

-----------------------------------------------------------------------------
(* The composition: the threads do what SshKeys says, with what the        *)
(* metadata say.                                                           *)

(* What the handlers were started with for a document, and what that of
   "files" does. *)
StartedWith(doc, c, a, done) ==
    /\ doc \in Documents /\ c = CallsOf(doc)
    /\ a \ {"userdata"} = {t \in KeyHandlers : Named(doc, t) # {}}
    /\ IF Named(doc, "files") = {} THEN done = <<>>
       ELSE done \in {NULL, openstack_metadata_files(Given(doc, "files"))}

Started == StartedWith(metadata, calls, active, copied)

LEMMA StartedInit == Init => Started
<1> SUFFICES ASSUME Init PROVE Started
  OBVIOUS
<1>1. PICK others \in SUBSET {"userdata"} :
          active = {t \in KeyHandlers : Named(metadata, t) # {}} \cup others
  BY DEF Init
<1>2. "userdata" \notin KeyHandlers
  BY DEF KeyHandlers
<1>3. active \ {"userdata"} = {t \in KeyHandlers : Named(metadata, t) # {}}
  BY <1>1, <1>2
<1> QED
  BY <1>3 DEF Init, Started, StartedWith

LEMMA NextIsWrite == [Next]_vars => [WriteNext]_writing
BY DEF Next, vars, write_ssh_keys, metadata_files, Finished, WriteNext

LEMMA StartedStep == Types /\ Started /\ [Next]_vars => Started'
<1> SUFFICES ASSUME Types, Started, [Next]_vars PROVE Started'
  OBVIOUS
<1>1. UNCHANGED <<calls, active, metadata>>
  <2>1. CASE \E t \in Threads : write_ssh_keys(t)
    BY <2>1, OtherThreads DEF write_ssh_keys
  <2>2. CASE metadata_files \/ Finished \/ UNCHANGED vars
    BY <2>2 DEF metadata_files, Finished, vars, writing
  <2> QED
    BY <2>1, <2>2 DEF Next
<1>2. UNCHANGED copied \/ metadata_files
  BY DEF Next, vars, write_ssh_keys, Finished
<1>3. StartedWith(metadata, calls, active, copied')
  <2>1. CASE UNCHANGED copied
    BY <2>1, Zenon DEF Started
  <2>2. CASE metadata_files
    <3>1. Named(metadata, "files") # {}
      BY <2>2, JsonAssumption DEF metadata_files, Started, StartedWith
    <3> QED
      BY <2>2, <3>1, Zenon DEF metadata_files, Started, StartedWith
  <2> QED
    BY <1>2, <2>1, <2>2
<1> QED
  BY <1>1, <1>3 DEF Started

(* What the composition does to the keys and to the file is what SshKeys says,
   so that every theorem about the one is a theorem about the other. *)
THEOREM SpecIsWriteSpec == Spec => WriteSpec
<1>1. Init => WriteInit
  BY DEF Init
<1> QED
  BY <1>1, NextIsWrite, PTL DEF Spec, WriteSpec

(* So no key that was given is lost, none is written twice and none that was
   authorized ceases to be, with whatever the metadata say. *)
THEOREM CompositionKeepsKeys ==
    Spec => []TypeOK /\ []KeysDeliveredToFile /\ []NoDuplicates /\ KeysKept
BY SpecIsWriteSpec, TypeCorrect, EveryKeyDelivered, NoKeyTwice, AuthorizedStays, PTL

(* The handlers keep what they were started with, and the handler of "files"
   copies what openstack_metadata_files reads out of its node. *)
THEOREM StartedAlways == Spec => []Started
<1>1. Spec => []Types
  BY SpecIsWriteSpec, TypesAlways, PTL
<1> QED
  BY <1>1, StartedInit, StartedStep, PTL DEF Spec

-----------------------------------------------------------------------------
(* Metadata as OpenStack writes them.                                      *)

LEMMA TextKeys == \A t, key : key \in KeysGiven(t) <=>
                     key # NL /\ \E x \in ToSet(calls[t]) : key \in ToSet(x)
<1>1. \A x, key : key \in KeysIn(x) <=> key # NL /\ key \in ToSet(x)
  BY DEF KeysIn, ToSet
<1>2. \A t, key : key \in KeysGiven(t) <=> \E n \in DOMAIN calls[t] : key \in KeysIn(calls[t][n])
  BY Zenon DEF KeysGiven
<1>3. \A t, x : x \in ToSet(calls[t]) <=> \E n \in DOMAIN calls[t] : x = calls[t][n]
  BY Zenon DEF ToSet
<1> SUFFICES ASSUME NEW t, NEW key
             PROVE  key \in KeysGiven(t) <=> key # NL /\ \E x \in ToSet(calls[t]) : key \in ToSet(x)
  OBVIOUS
<1>4. ASSUME key \in KeysGiven(t) PROVE key # NL /\ \E x \in ToSet(calls[t]) : key \in ToSet(x)
  <2>1. PICK n \in DOMAIN calls[t] : key \in KeysIn(calls[t][n])
    BY <1>2, <1>4, Zenon
  <2>2. key # NL /\ key \in ToSet(calls[t][n]) /\ calls[t][n] \in ToSet(calls[t])
    BY <1>1, <1>3, <2>1, Zenon
  <2> QED
    BY <2>2, Zenon
<1>5. ASSUME key # NL, NEW x \in ToSet(calls[t]), key \in ToSet(x) PROVE key \in KeysGiven(t)
  <2>1. PICK n \in DOMAIN calls[t] : x = calls[t][n]
    BY <1>3, <1>5, Zenon
  <2>2. key \in KeysIn(calls[t][n])
    BY <1>1, <1>5, <2>1
  <2> QED
    BY <1>2, <2>2, Zenon
<1> QED
  BY <1>4, <1>5, Zenon

(* The handler of "public_keys" is given the texts of its members. *)
LEMMA PublicKeysGiven ==
    ASSUME Started, AsOpenStackWrites(metadata), Has(metadata, "public_keys")
    PROVE  \A key : key \in KeysGiven("public_keys") <=>
              key # NL /\ \E v \in ToSet(Member(metadata, "public_keys").items) : key \in ToSet(v.text)
<1> DEFINE v == Member(metadata, "public_keys")
<1>1. metadata \in Json /\ metadata.kind = "object" /\ calls = CallsOf(metadata)
  BY DocumentsAssumption DEF Started, StartedWith
<1>2. Name("public_keys") # NULL
  BY JsonAssumption
<1>3. /\ Named(metadata, "public_keys") # {}
      /\ Given(metadata, "public_keys") = json_parse[v][FALSE]
  BY <1>1, <1>2, GivenIs
<1>4. v \in Json /\ v.kind = "object" /\ \A key \in ToSet(v.items) : key.kind = "value"
  <2>1. v \in Json
    BY <1>1, MemberIs
  <2> QED
    BY <2>1, Zenon DEF AsOpenStackWrites
<1>5. calls["public_keys"] = openstack_metadata_public_keys(json_parse[v][FALSE])
  BY <1>1, <1>3 DEF CallsOf
<1>6. ToSet(calls["public_keys"]) = {key.text : key \in ToSet(v.items)}
  BY <1>4, <1>5, PublicKeysTexts
<1> HIDE DEF v
<1>7. \A x : x \in ToSet(calls["public_keys"]) <=> \E key \in ToSet(v.items) : x = key.text
  BY <1>6, Zenon
<1>8. \A key : key \in KeysGiven("public_keys") <=>
          key # NL /\ \E x \in ToSet(v.items) : key \in ToSet(x.text)
  <2>1. \A key : key \in KeysGiven("public_keys") <=>
            key # NL /\ \E x \in ToSet(calls["public_keys"]) : key \in ToSet(x)
    BY TextKeys, Zenon
  <2> SUFFICES ASSUME NEW key
               PROVE  (\E x \in ToSet(calls["public_keys"]) : key \in ToSet(x))
                      <=> \E x \in ToSet(v.items) : key \in ToSet(x.text)
    BY <2>1, Zenon
  <2>2. ASSUME NEW x \in ToSet(calls["public_keys"]), key \in ToSet(x)
        PROVE  \E y \in ToSet(v.items) : key \in ToSet(y.text)
    BY <1>7, <2>2, Zenon
  <2>3. ASSUME NEW x \in ToSet(v.items), key \in ToSet(x.text)
        PROVE  \E y \in ToSet(calls["public_keys"]) : key \in ToSet(y)
    BY <1>7, <2>3, Zenon
  <2> QED
    BY <2>2, <2>3, Zenon
<1> QED
  BY <1>8 DEF v

(* The handler of "keys" is given the texts of their data. *)
LEMMA KeysTextsGiven ==
    ASSUME Started, AsOpenStackWrites(metadata), Has(metadata, "keys")
    PROVE  \A key : key \in KeysGiven("keys") <=>
              key # NL /\ \E v \in ToSet(Member(metadata, "keys").items) :
                             key \in ToSet(Member(v, "data").text)
<1> DEFINE v == Member(metadata, "keys")
<1>1. metadata \in Json /\ metadata.kind = "object" /\ calls = CallsOf(metadata)
  BY DocumentsAssumption DEF Started, StartedWith
<1>2. Name("keys") # NULL
  BY JsonAssumption
<1>3. Named(metadata, "keys") # {} /\ Given(metadata, "keys") = json_parse[v][FALSE]
  BY <1>1, <1>2, GivenIs
<1>4. /\ v \in Json /\ v.kind = "array"
      /\ \A key \in ToSet(v.items) :
            key.kind = "object" /\ Has(key, "data") /\ Member(key, "data").kind = "value"
  <2>1. v \in Json
    BY <1>1, MemberIs
  <2> QED
    BY <2>1, Zenon DEF AsOpenStackWrites
<1>5. calls["keys"] = openstack_metadata_keys(json_parse[v][FALSE])
  BY <1>1, <1>3 DEF CallsOf
<1>6. ToSet(calls["keys"]) = {Member(key, "data").text : key \in ToSet(v.items)}
  BY <1>4, <1>5, KeysTexts
<1> HIDE DEF v
<1>7. \A x : x \in ToSet(calls["keys"]) <=> \E key \in ToSet(v.items) : x = Member(key, "data").text
  BY <1>6, Zenon
<1>8. \A key : key \in KeysGiven("keys") <=>
          key # NL /\ \E x \in ToSet(v.items) : key \in ToSet(Member(x, "data").text)
  <2>1. \A key : key \in KeysGiven("keys") <=>
            key # NL /\ \E x \in ToSet(calls["keys"]) : key \in ToSet(x)
    BY TextKeys, Zenon
  <2> SUFFICES ASSUME NEW key
               PROVE  (\E x \in ToSet(calls["keys"]) : key \in ToSet(x))
                      <=> \E x \in ToSet(v.items) : key \in ToSet(Member(x, "data").text)
    BY <2>1, Zenon
  <2>2. ASSUME NEW x \in ToSet(calls["keys"]), key \in ToSet(x)
        PROVE  \E y \in ToSet(v.items) : key \in ToSet(Member(y, "data").text)
    BY <1>7, <2>2, Zenon
  <2>3. ASSUME NEW x \in ToSet(v.items), key \in ToSet(Member(x, "data").text)
        PROVE  \E y \in ToSet(calls["keys"]) : key \in ToSet(y)
    BY <1>7, <2>3, Zenon
  <2> QED
    BY <2>2, <2>3, Zenon
<1> QED
  BY <1>8 DEF v

(* The keys that were given are those that the metadata name, and those of the
   user data. *)
LEMMA GivenAreNamed ==
    ASSUME Types, Started, AsOpenStackWrites(metadata)
    PROVE  UNION {KeysGiven(t) : t \in active}
           = KeysOf(metadata) \cup (IF "userdata" \in active THEN KeysGiven("userdata") ELSE {})
<1> DEFINE P(key) == Has(metadata, "public_keys") /\ key \in KeysGiven("public_keys")
           Q(key) == Has(metadata, "keys") /\ key \in KeysGiven("keys")
           U(key) == "userdata" \in active /\ key \in KeysGiven("userdata")
<1>1. \A t \in KeyHandlers : t \in active <=> Has(metadata, t)
  <2>1. metadata \in Json /\ metadata.kind = "object"
        /\ active \ {"userdata"} = {t \in KeyHandlers : Named(metadata, t) # {}}
    BY DocumentsAssumption DEF Started, StartedWith
  <2>2. \A t \in KeyHandlers : t # "userdata" /\ Name(t) # NULL
    BY JsonAssumption DEF KeyHandlers
  <2>3. \A t \in KeyHandlers : Named(metadata, t) # {} <=> Has(metadata, t)
    BY <2>1, <2>2, GivenIs
  <2> QED
    BY <2>1, <2>2, <2>3, Zenon
<1>2. \A key : key \in UNION {KeysGiven(t) : t \in active} <=> \E t \in active : key \in KeysGiven(t)
  BY Zenon
<1>3. active \subseteq {"public_keys", "keys", "userdata"} /\ KeyHandlers = {"public_keys", "keys"}
  BY DEF Types, TypeOK, Threads, KeyHandlers
<1>4. \A key : key \in UNION {KeysGiven(t) : t \in active} <=> P(key) \/ Q(key) \/ U(key)
  BY <1>1, <1>2, <1>3, Zenon
<1>5. \A key : key \in KeysOf(metadata) <=>
          /\ key # NL
          /\ \/ Has(metadata, "public_keys")
                /\ \E v \in ToSet(Member(metadata, "public_keys").items) : key \in ToSet(v.text)
             \/ Has(metadata, "keys")
                /\ \E v \in ToSet(Member(metadata, "keys").items) :
                      key \in ToSet(Member(v, "data").text)
  <2> DEFINE A == IF Has(metadata, "public_keys")
                  THEN ToSet(Member(metadata, "public_keys").items) ELSE {}
             B == IF Has(metadata, "keys")
                  THEN {Member(key, "data") : key \in ToSet(Member(metadata, "keys").items)} ELSE {}
  <2>1. \A v : v \in A <=> Has(metadata, "public_keys")
                            /\ v \in ToSet(Member(metadata, "public_keys").items)
    OBVIOUS
  <2>2. \A v : v \in B <=> Has(metadata, "keys")
                            /\ \E k \in ToSet(Member(metadata, "keys").items) : v = Member(k, "data")
    BY Zenon
  <2>3. KeysOf(metadata) = (UNION {ToSet(v.text) : v \in A \cup B}) \ {NL}
    BY DEF KeysOf
  <2> HIDE DEF A, B
  <2>4. \A key : key \in UNION {ToSet(v.text) : v \in A \cup B} <=>
            \E v : (v \in A \/ v \in B) /\ key \in ToSet(v.text)
    BY Zenon
  <2>5. \A key : key \in KeysOf(metadata) <=>
            key # NL /\ \E v : (v \in A \/ v \in B) /\ key \in ToSet(v.text)
    BY <2>3, <2>4
  <2> QED
    BY <2>1, <2>2, <2>5, Zenon
<1>6. \A key : key \in KeysOf(metadata) <=> P(key) \/ Q(key)
  BY <1>5, PublicKeysGiven, KeysTextsGiven, Zenon
<1>7. \A key : key \in (IF "userdata" \in active THEN KeysGiven("userdata") ELSE {}) <=> U(key)
  OBVIOUS
<1> HIDE DEF P, Q, U
<1> QED
  BY <1>4, <1>6, <1>7

(* The files that were copied are those that the metadata name. *)
LEMMA CopiedAreNamed ==
    ASSUME Started, AsOpenStackWrites(metadata), copied # NULL
    PROVE  copied = FilesOf(metadata)
<1>1. /\ metadata \in Json /\ metadata.kind = "object" /\ Name("files") # NULL
      /\ IF Named(metadata, "files") = {} THEN copied = <<>>
         ELSE copied \in {NULL, openstack_metadata_files(Given(metadata, "files"))}
  BY DocumentsAssumption, JsonAssumption DEF Started, StartedWith
<1>2. CASE ~Has(metadata, "files")
  <2>1. Named(metadata, "files") = {}
    BY <1>1, <1>2, GivenIs
  <2> QED
    BY <1>1, <1>2, <2>1 DEF FilesOf
<1>3. CASE Has(metadata, "files")
  <2> DEFINE v == Member(metadata, "files")
  <2>1. Named(metadata, "files") # {} /\ Given(metadata, "files") = json_parse[v][FALSE]
    BY <1>1, <1>3, GivenIs
  <2>2. v \in Json
    BY <1>1, <1>3, MemberIs
  <2>3. v.kind = "array" /\ \A f \in ToSet(v.items) : OrdinaryFile(f)
    BY <1>3, Zenon DEF AsOpenStackWrites, OrdinaryFile
  <2>4. copied = [i \in DOMAIN v.items |-> FileOf(v.items[i])]
    BY <1>1, <2>1, <2>2, <2>3, FilesCopied
  <2> QED
    BY <1>3, <2>4, Zenon DEF FilesOf, FileOf
<1> QED
  BY <1>2, <1>3

(* Metadata as OpenStack writes them are carried out, whatever the interleaving
   of the handlers: at the end the keys in authorized_keys are those that were
   there, those that the metadata name and those of the user data, and no
   other, and each file was copied to its own path, through json_parse and the
   handlers that walk its nodes. *)
THEOREM MetadataAsWritten == Spec => []MetadataCarriedOut
<1>1. Types /\ Exact /\ Started => MetadataCarriedOut
  <2> SUFFICES ASSUME Types, Exact, Started, AsOpenStackWrites(metadata), AllMade, copied # NULL, Existed
               PROVE  /\ Authorized(file) =
                             Authorized(start) \cup KeysOf(metadata)
                             \cup (IF "userdata" \in active THEN KeysGiven("userdata") ELSE {})
                      /\ copied = FilesOf(metadata)
    BY DEF MetadataCarriedOut
  <2>1. Authorized(file) = Authorized(start) \cup UNION {KeysGiven(t) : t \in active}
    BY DEF Exact
  <2>2. copied = FilesOf(metadata)
    BY CopiedAreNamed
  <2> QED
    BY <2>1, <2>2, GivenAreNamed
<1>2. Spec => []Types /\ []Exact /\ []Started
  BY SpecIsWriteSpec, TypesAlways, ExactAlways, StartedAlways, PTL
<1> QED
  BY <1>1, <1>2, PTL
=============================================================================
