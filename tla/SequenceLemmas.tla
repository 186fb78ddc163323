--------------------------- MODULE SequenceLemmas ---------------------------
(***************************************************************************)
(* What the proofs about the modules need of numbers and of the operators  *)
(* of SequencesExt.                                                        *)
(***************************************************************************)
EXTENDS SequencesExt, SequenceTheorems, WellFoundedInduction, TLAPS

-----------------------------------------------------------------------------
(* Numbers.                                                                *)

(* A set of numbers that is not empty has a least one. *)
LEMMA LeastNumber ==
    ASSUME NEW S \in SUBSET Nat, S # {}
    PROVE  \E k \in S : \A j \in S : ~(j < k)
<1>1. IsWellFoundedOn(OpToRel(<, Nat), Nat)
  BY NatLessThanWellFounded
<1>2. PICK k \in S : \A j \in S : <<j, k>> \notin OpToRel(<, Nat)
  BY <1>1, WFMin
<1> QED
  BY <1>2 DEF OpToRel

(* Induction over a set: the library's theorem takes an operator. *)
LEMMA Induction ==
    ASSUME NEW S, 0 \in S, \A c \in Nat : c \in S => c + 1 \in S
    PROVE  Nat \subseteq S
<1> SUFFICES ASSUME Nat \ S # {} PROVE FALSE
  OBVIOUS
<1>1. PICK k \in Nat \ S : \A j \in Nat \ S : ~(j < k)
  BY LeastNumber
<1>2. k # 0 /\ k - 1 \in Nat /\ k - 1 < k /\ (k - 1) + 1 = k
  BY <1>1
<1> QED
  BY <1>1, <1>2

(* Of bounded numbers, one is the greatest. *)
LEMMA GreatestNumber ==
    ASSUME NEW m \in Nat, NEW S \in SUBSET (1..m), S # {}
    PROVE  \E k \in S : \A j \in S : j <= k
<1> DEFINE R == {d \in Nat : m - d \in S}
<1>1. R # {}
  <2>1. PICK k \in S : TRUE
    OBVIOUS
  <2>2. m - k \in Nat /\ m - (m - k) = k
    BY <2>1
  <2>3. m - k \in R
    BY <2>1, <2>2
  <2> QED
    BY <2>3
<1>3. PICK d \in R : \A e \in R : ~(e < d)
  <2>1. R \in SUBSET Nat
    OBVIOUS
  <2> HIDE DEF R
  <2> QED
    BY <1>1, <2>1, LeastNumber
<1>4. m - d \in S /\ d \in Nat
  BY <1>3
<1>5. ASSUME NEW j \in S
      PROVE  j <= m - d
  <2>1. m - j \in Nat /\ m - (m - j) = j
    OBVIOUS
  <2>2. m - j \in R
    BY <2>1
  <2>3. ~(m - j < d)
    BY <1>3, <1>4, <2>1, <2>2
  <2> QED
    BY <1>4, <2>1, <2>3
<1> QED
  BY <1>4, <1>5

-----------------------------------------------------------------------------
(* Sequences with an item removed, replaced or added.                      *)

(* The items of a concatenation. *)
LEMMA ConcatAt ==
    ASSUME NEW T, NEW x \in Seq(T), NEW y \in Seq(T)
    PROVE  /\ x \o y \in Seq(T) /\ Len(x \o y) = Len(x) + Len(y)
           /\ \A j \in 1..(Len(x) + Len(y)) :
                 (x \o y)[j] = IF j <= Len(x) THEN x[j] ELSE y[j - Len(x)]
OBVIOUS

(* The items that RemoveAt leaves, by their new places. *)
LEMMA RemoveAtProperties ==
    ASSUME NEW T, NEW s \in Seq(T), NEW i \in 1..Len(s)
    PROVE  /\ RemoveAt(s, i) \in Seq(T) /\ Len(RemoveAt(s, i)) = Len(s) - 1
           /\ \A j \in 1..(Len(s) - 1) : RemoveAt(s, i)[j] = IF j < i THEN s[j] ELSE s[j + 1]
<1> DEFINE x == SubSeq(s, 1, i - 1)
           y == SubSeq(s, i + 1, Len(s))
<1>1. /\ Len(s) \in Nat /\ x \in Seq(T) /\ y \in Seq(T)
      /\ Len(x) = i - 1 /\ Len(y) = Len(s) - i
  OBVIOUS
<1>2. /\ \A j \in 1..(i - 1) : x[j] = s[j]
      /\ \A j \in 1..(Len(s) - i) : y[j] = s[i + j]
  OBVIOUS
<1>3. RemoveAt(s, i) = x \o y
  BY DEF RemoveAt
<1> HIDE DEF x, y
<1>4. /\ x \o y \in Seq(T) /\ Len(x \o y) = Len(x) + Len(y)
      /\ \A j \in 1..(Len(x) + Len(y)) :
            (x \o y)[j] = IF j <= Len(x) THEN x[j] ELSE y[j - Len(x)]
  BY <1>1, ConcatAt
<1>5. ASSUME NEW j \in 1..(Len(s) - 1)
      PROVE  RemoveAt(s, i)[j] = IF j < i THEN s[j] ELSE s[j + 1]
  <2>1. j \in 1..(Len(x) + Len(y))
    BY <1>1
  <2>2. CASE j < i
    BY <1>1, <1>2, <1>3, <1>4, <2>1, <2>2
  <2>3. CASE ~(j < i)
    <3>1. j - (i - 1) \in 1..(Len(s) - i) /\ i + (j - (i - 1)) = j + 1 /\ ~(j <= i - 1)
      BY <1>1, <2>3
    <3>2. y[j - (i - 1)] = s[i + (j - (i - 1))]
      BY <1>2, <3>1
    <3>3. RemoveAt(s, i)[j] = y[j - (i - 1)]
      BY <1>1, <1>3, <1>4, <2>1, <3>1
    <3> QED
      BY <2>3, <3>1, <3>2, <3>3
  <2> QED
    BY <2>2, <2>3
<1> QED
  BY <1>1, <1>3, <1>4, <1>5

(* t is s without its i-th item. *)
Shortened(s, i, t) ==
    /\ \A j \in DOMAIN t : \E k \in DOMAIN s :
          k # i /\ s[k] = t[j] /\ k = (IF j < i THEN j ELSE j + 1)
    /\ \A k \in DOMAIN s : k # i => \E j \in DOMAIN t :
          t[j] = s[k] /\ j = (IF k < i THEN k ELSE k - 1)

(* RemoveAt leaves all items but one, and nothing else. *)
LEMMA RemoveAtSet ==
    ASSUME NEW T, NEW s \in Seq(T), NEW i \in 1..Len(s)
    PROVE  Shortened(s, i, RemoveAt(s, i))
<1> DEFINE t == RemoveAt(s, i)
<1>1. /\ Len(s) \in Nat /\ DOMAIN s = 1..Len(s) /\ t \in Seq(T) /\ Len(t) = Len(s) - 1
      /\ \A j \in 1..(Len(s) - 1) : t[j] = IF j < i THEN s[j] ELSE s[j + 1]
  <2>1. Len(s) \in Nat /\ DOMAIN s = 1..Len(s)
    OBVIOUS
  <2>2. /\ t \in Seq(T) /\ Len(t) = Len(s) - 1
        /\ \A j \in 1..(Len(s) - 1) : t[j] = IF j < i THEN s[j] ELSE s[j + 1]
    BY RemoveAtProperties, Zenon
  <2> QED
    BY <2>1, <2>2
<1> HIDE DEF t
<1>2. DOMAIN t = 1..(Len(s) - 1)
  BY <1>1
<1>3. ASSUME NEW j \in DOMAIN t
      PROVE  \E k \in DOMAIN s : k # i /\ s[k] = t[j] /\ k = (IF j < i THEN j ELSE j + 1)
  <2>1. CASE j < i
    BY <1>1, <1>2, <2>1
  <2>2. CASE ~(j < i)
    BY <1>1, <1>2, <2>2
  <2> QED
    BY <2>1, <2>2
<1>4. ASSUME NEW k \in DOMAIN s, k # i
      PROVE  \E j \in DOMAIN t : t[j] = s[k] /\ j = (IF k < i THEN k ELSE k - 1)
  <2>1. CASE k < i
    BY <1>1, <1>2, <2>1
  <2>2. CASE ~(k < i)
    <3>1. k - 1 \in DOMAIN t /\ ~(k - 1 < i) /\ (k - 1) + 1 = k
      BY <1>1, <1>2, <1>4, <2>2
    <3>2. t[k - 1] = s[k]
      BY <1>1, <1>2, <3>1
    <3> QED
      BY <2>2, <3>1, <3>2
  <2> QED
    BY <2>1, <2>2
<1> QED
  BY <1>3, <1>4 DEF t, Shortened

(* A sequence without its last item, and this item. *)
LEMMA FrontLast ==
    ASSUME NEW T, NEW s \in Seq(T), s # <<>>
    PROVE  /\ Front(s) \in Seq(T) /\ Len(Front(s)) = Len(s) - 1 /\ Len(s) \in Nat \ {0}
           /\ \A i \in 1..(Len(s) - 1) : Front(s)[i] = s[i]
           /\ Last(s) = s[Len(s)] /\ Last(s) \in T
<1>1. Len(s) \in Nat \ {0}
  BY EmptySeq
<1>2. Front(s) = SubSeq(s, 1, Len(s) - 1) /\ Last(s) = s[Len(s)]
  BY DEF Front, Last
<1>3. Last(s) \in T
  <2>1. Len(s) \in 1..Len(s)
    BY <1>1
  <2> QED
    BY <1>2, <2>1
<1>4. PICK m \in Nat : Len(s) = m + 1
  BY <1>1
<1>5. /\ SubSeq(s, 1, m) \in Seq(T) /\ Len(SubSeq(s, 1, m)) = m
      /\ \A i \in 1..m : SubSeq(s, 1, m)[i] = s[i]
  BY <1>4
<1> QED
  BY <1>1, <1>2, <1>3, <1>4, <1>5

(* t is s with x for the last item. *)
SameBut(s, x, t) ==
    /\ Len(t) = Len(s) /\ t[Len(s)] = x /\ t # <<>>
    /\ \A i \in 1..(Len(s) - 1) : t[i] = s[i]

(* The last item is replaced. *)
LEMMA Replaced ==
    ASSUME NEW T, NEW s \in Seq(T), s # <<>>, NEW x \in T
    PROVE  SameBut(s, x, Append(Front(s), x)) /\ Append(Front(s), x) \in Seq(T)
<1> DEFINE f == Front(s)
<1>1. /\ f \in Seq(T) /\ Len(f) = Len(s) - 1 /\ Len(s) \in Nat \ {0}
      /\ \A i \in 1..(Len(s) - 1) : f[i] = s[i]
  BY FrontLast
<1> HIDE DEF f
<1>2. /\ Append(f, x) \in Seq(T) /\ Len(Append(f, x)) = Len(f) + 1 /\ Append(f, x)[Len(f) + 1] = x
      /\ \A i \in 1..Len(f) : Append(f, x)[i] = f[i]
  BY <1>1
<1>3. PICK t : t = Append(f, x)
  OBVIOUS
<1>4. SameBut(s, x, t) /\ t \in Seq(T)
  BY <1>1, <1>2, <1>3 DEF SameBut
<1> QED
  BY <1>3, <1>4 DEF f

(* x is w with f for the last item, and one more item g. *)
Deeper(w, f, g, x) ==
    /\ Len(x) = Len(w) + 1 /\ x[Len(w)] = f /\ x[Len(w) + 1] = g /\ x # <<>>
    /\ \A i \in 1..(Len(w) - 1) : x[i] = w[i]

(* The last item is replaced and another one appended, as a step into a child
   does. *)
LEMMA DeeperIs ==
    ASSUME NEW T, NEW w \in Seq(T), w # <<>>, NEW f \in T, NEW g \in T
    PROVE  /\ Deeper(w, f, g, Append(Append(Front(w), f), g))
           /\ Append(Append(Front(w), f), g) \in Seq(T)
<1>1. PICK v : v = Append(Front(w), f)
  OBVIOUS
<1>2. /\ v \in Seq(T) /\ Len(v) = Len(w) /\ v[Len(w)] = f
      /\ \A i \in 1..(Len(w) - 1) : v[i] = w[i]
  BY <1>1, Replaced DEF SameBut
<1>3. Len(w) \in Nat \ {0}
  BY FrontLast
<1>4. PICK x : x = Append(v, g)
  OBVIOUS
<1>5. /\ x \in Seq(T) /\ Len(x) = Len(v) + 1 /\ x[Len(v) + 1] = g /\ x # <<>>
      /\ \A i \in 1..Len(v) : x[i] = v[i]
  BY <1>2, <1>4
<1>6. Deeper(w, f, g, x)
  BY <1>2, <1>3, <1>5 DEF Deeper
<1> QED
  BY <1>1, <1>4, <1>5, <1>6

-----------------------------------------------------------------------------
(* FlattenSeq of a sequence of texts.                                      *)

(* f[i] is the first i texts of s, one after the other, as FlattenSeq
   defines it. *)
Flattens(f, s, c) ==
    f = [i \in 1..c |-> IF i = 1 THEN s[i] ELSE f[i - 1] \o s[i]]

(* There is such a function, so that FlattenSeq's CHOOSE finds one. *)
LEMMA FlattenExists ==
    ASSUME NEW s, NEW m \in Nat
    PROVE  \E f : Flattens(f, s, m)
<1> DEFINE S == {c \in Nat : \E f : Flattens(f, s, c)}
<1>1. 0 \in S
  <2> DEFINE f == [i \in 1..0 |-> 0]
  <2>1. Flattens(f, s, 0)
    BY DEF Flattens
  <2> QED
    BY <2>1
<1>2. ASSUME NEW c \in Nat, c \in S PROVE c + 1 \in S
  <2>1. PICK f : Flattens(f, s, c)
    BY <1>2
  <2> DEFINE g == [i \in 1..(c + 1) |-> IF i = c + 1 THEN IF i = 1 THEN s[i] ELSE f[c] \o s[i]
                                        ELSE f[i]]
  <2>2. ASSUME NEW i \in 1..(c + 1) PROVE g[i] = IF i = 1 THEN s[i] ELSE g[i - 1] \o s[i]
    <3>1. CASE i = c + 1
      <4>1. i # 1 => c \in 1..(c + 1) /\ c # c + 1 /\ i - 1 = c
        BY <3>1
      <4> QED
        BY <3>1, <4>1
    <3>2. CASE i # c + 1
      <4>1. i \in 1..c /\ (i # 1 => i - 1 \in 1..(c + 1) /\ i - 1 # c + 1)
        BY <3>2
      <4>2. f[i] = IF i = 1 THEN s[i] ELSE f[i - 1] \o s[i]
        BY <2>1, <4>1 DEF Flattens
      <4> QED
        BY <3>2, <4>1, <4>2
    <3> QED
      BY <3>1, <3>2
  <2>3. Flattens(g, s, c + 1)
    <3> HIDE DEF g
    <3>1. g = [i \in 1..(c + 1) |-> g[i]]
      BY DEF g
    <3> QED
      BY <2>2, <3>1 DEF Flattens
  <2> HIDE DEF g
  <2> QED
    BY <2>3
<1> HIDE DEF S
<1>3. Nat \subseteq S
  BY <1>1, <1>2, Induction
<1> QED
  BY <1>3 DEF S

(* FlattenSeq is its last value. *)
LEMMA FlattenIs ==
    ASSUME NEW T, NEW s \in Seq(T)
    PROVE  \E f : Flattens(f, s, Len(s)) /\ (FlattenSeq(s) = IF s = <<>> THEN <<>> ELSE f[Len(s)])
<1>1. Len(s) \in Nat /\ (Len(s) = 0) = (s = <<>>)
  OBVIOUS
<1> DEFINE f == CHOOSE g : g = [i \in 1..Len(s) |-> IF i = 1 THEN s[i] ELSE g[i - 1] \o s[i]]
<1>2. Flattens(f, s, Len(s))
  BY <1>1, FlattenExists DEF Flattens
<1>3. FlattenSeq(s) = IF Len(s) = 0 THEN s ELSE f[Len(s)]
  BY DEF FlattenSeq
<1> HIDE DEF f
<1> QED
  BY <1>1, <1>2, <1>3

(* Texts after one another are a text. *)
LEMMA FlattenType ==
    ASSUME NEW T, NEW s \in Seq(Seq(T))
    PROVE  FlattenSeq(s) \in Seq(T)
<1>1. PICK f : Flattens(f, s, Len(s)) /\ (FlattenSeq(s) = IF s = <<>> THEN <<>> ELSE f[Len(s)])
  BY FlattenIs
<1> DEFINE S == {c \in Nat : c \in 1..Len(s) => f[c] \in Seq(T)}
<1>2. 0 \in S
  OBVIOUS
<1>3. ASSUME NEW c \in Nat, c \in S PROVE c + 1 \in S
  <2> SUFFICES ASSUME c + 1 \in 1..Len(s) PROVE f[c + 1] \in Seq(T)
    OBVIOUS
  <2>1. f[c + 1] = IF c + 1 = 1 THEN s[c + 1] ELSE f[(c + 1) - 1] \o s[c + 1]
    BY <1>1 DEF Flattens
  <2>2. s[c + 1] \in Seq(T)
    BY ElementOfSeq
  <2>3. CASE c = 0
    BY <2>1, <2>2, <2>3
  <2>4. CASE c # 0
    <3>1. f[c] \in Seq(T) /\ c + 1 # 1 /\ (c + 1) - 1 = c
      BY <1>3, <2>4
    <3> QED
      BY <2>1, <2>2, <3>1, ConcatProperties
  <2> QED
    BY <2>3, <2>4
<1> HIDE DEF S
<1>4. Nat \subseteq S
  BY <1>2, <1>3, Induction
<1>5. CASE s = <<>>
  BY <1>1, <1>5, EmptySeq
<1>6. CASE s # <<>>
  <2>1. Len(s) \in Nat /\ Len(s) \in 1..Len(s)
    BY <1>6
  <2> QED
    BY <1>1, <1>4, <1>6, <2>1 DEF S
<1> QED
  BY <1>5, <1>6

(* One more text goes to the end. *)
LEMMA FlattenAppend ==
    ASSUME NEW T, NEW s \in Seq(Seq(T)), NEW x \in Seq(T)
    PROVE  FlattenSeq(Append(s, x)) = FlattenSeq(s) \o x
<1> DEFINE t == Append(s, x)
           m == Len(s)
<1>1. /\ t \in Seq(Seq(T)) /\ Len(t) = m + 1 /\ m \in Nat /\ t[m + 1] = x /\ t # <<>>
      /\ \A i \in 1..m : t[i] = s[i]
      /\ (s = <<>>) = (m = 0)
  BY AppendProperties
<1> HIDE DEF t
<1>2. PICK f : Flattens(f, s, m) /\ (FlattenSeq(s) = IF s = <<>> THEN <<>> ELSE f[m])
  BY FlattenIs
<1> HIDE DEF m
<1>3. PICK g : Flattens(g, t, m + 1) /\ (FlattenSeq(t) = IF t = <<>> THEN <<>> ELSE g[m + 1])
  BY <1>1, FlattenIs
<1> DEFINE S == {c \in Nat : c \in 1..m => f[c] = g[c]}
<1>4. 0 \in S
  OBVIOUS
<1>5. ASSUME NEW c \in Nat, c \in S PROVE c + 1 \in S
  <2> SUFFICES ASSUME c + 1 \in 1..m PROVE f[c + 1] = g[c + 1]
    OBVIOUS
  <2>1. f[c + 1] = IF c + 1 = 1 THEN s[c + 1] ELSE f[(c + 1) - 1] \o s[c + 1]
    BY <1>2 DEF Flattens
  <2>2. c + 1 \in 1..(m + 1)
    BY <1>1
  <2>3. g[c + 1] = IF c + 1 = 1 THEN t[c + 1] ELSE g[(c + 1) - 1] \o t[c + 1]
    BY <1>3, <2>2 DEF Flattens
  <2>4. c # 0 => f[c] = g[c] /\ (c + 1) - 1 = c
    BY <1>1, <1>5
  <2> QED
    BY <1>1, <2>1, <2>3, <2>4
<1> HIDE DEF S
<1>6. Nat \subseteq S
  BY <1>4, <1>5, Induction
<1>7. g[m + 1] = IF m + 1 = 1 THEN t[m + 1] ELSE g[(m + 1) - 1] \o t[m + 1]
  <2>1. m + 1 \in 1..(m + 1)
    BY <1>1
  <2> QED
    BY <1>3, <2>1 DEF Flattens
<1>8. FlattenSeq(t) = FlattenSeq(s) \o x
  <2>1. CASE m = 0
    <3>1. FlattenSeq(t) = x /\ FlattenSeq(s) = <<>>
      BY <1>1, <1>2, <1>3, <1>7, <2>1
    <3> QED
      BY <3>1, ConcatEmptySeq
  <2>2. CASE m # 0
    <3>1. f[m] = g[m]
      <4>1. m \in S /\ m \in 1..m
        BY <1>1, <1>6, <2>2
      <4> QED
        BY <4>1 DEF S
    <3>2. m \in Nat
      BY <1>1
    <3>3. m + 1 # 1 /\ (m + 1) - 1 = m
      BY <2>2, <3>2
    <3> QED
      BY <1>1, <1>2, <1>3, <1>7, <2>2, <3>1, <3>3
  <2> QED
    BY <2>1, <2>2
<1> QED
  BY <1>8 DEF t

(* The first items of a sequence, and one more. *)
LEMMA SubSeqLonger ==
    ASSUME NEW T, NEW s \in Seq(T), NEW c \in 0..(Len(s) - 1)
    PROVE  SubSeq(s, 1, c + 1) = Append(SubSeq(s, 1, c), s[c + 1])
<1>1. c + 1 \in 1..Len(s) /\ c + 1 \in Int /\ c \in Int /\ 1 \in 1..Len(s)
  OBVIOUS
<1>2. SubSeq(s, 1, c) \in Seq(T) /\ s[c + 1] \in T
  BY <1>1
<1>3. SubSeq(s, 1, c + 1) = SubSeq(s, 1, (c + 1) - 1) \o <<s[c + 1]>>
  BY <1>1, SubSeqRecursiveSecond
<1>4. (c + 1) - 1 = c
  OBVIOUS
<1> QED
  BY <1>2, <1>3, <1>4, AppendIsConcat

(* The same, for the first texts of a sequence. *)
LEMMA FlattenSingle ==
    ASSUME NEW T, NEW P \in Seq(Seq(T)), NEW c \in 0..(Len(P) - 1)
    PROVE  FlattenSeq(SubSeq(P, 1, c + 1)) = FlattenSeq(SubSeq(P, 1, c)) \o P[c + 1]
<1>1. c + 1 \in 1..Len(P) /\ c \in Int
  OBVIOUS
<1>2. SubSeq(P, 1, c) \in Seq(Seq(T)) /\ P[c + 1] \in Seq(T)
  BY <1>1
<1>3. SubSeq(P, 1, c + 1) = Append(SubSeq(P, 1, c), P[c + 1])
  BY SubSeqLonger
<1> QED
  BY <1>2, <1>3, FlattenAppend

(* Its items are those of the texts. *)
LEMMA FlattenItems ==
    ASSUME NEW T, NEW P \in Seq(Seq(T))
    PROVE  \A x : x \in ToSet(FlattenSeq(P)) <=> \E i \in DOMAIN P : x \in ToSet(P[i])
<1> DEFINE Items(c) == ToSet(FlattenSeq(SubSeq(P, 1, c)))
           S == {c \in Nat : c \in 0..Len(P) =>
                    \A x : x \in Items(c) <=> \E i \in 1..c : x \in ToSet(P[i])}
<1>0. Len(P) \in Nat /\ DOMAIN P = 1..Len(P)
  OBVIOUS
<1>1. 0 \in S
  <2>1. SubSeq(P, 1, 0) = <<>>
    OBVIOUS
  <2>2. FlattenSeq(<<>>) = <<>>
    BY DEF FlattenSeq
  <2>3. Items(0) = {}
    <3>1. DOMAIN <<>> = {}
      OBVIOUS
    <3> QED
      BY <2>1, <2>2, <3>1 DEF ToSet
  <2> QED
    BY <2>3
<1>2. ASSUME NEW c \in Nat, c \in S PROVE c + 1 \in S
  <2>0. c + 1 \in Nat
    OBVIOUS
  <2> SUFFICES ASSUME c + 1 \in 0..Len(P)
               PROVE  \A x : x \in Items(c + 1) <=> \E i \in 1..(c + 1) : x \in ToSet(P[i])
    BY <2>0, Zenon
  <2>1. c \in 0..(Len(P) - 1) /\ c + 1 \in 1..Len(P) /\ c \in 0..Len(P)
    BY <1>0
  <2>2. SubSeq(P, 1, c) \in Seq(Seq(T)) /\ P[c + 1] \in Seq(T)
    BY <2>1
  <2>3. PICK a : a = FlattenSeq(SubSeq(P, 1, c))
    OBVIOUS
  <2>4. a \in Seq(T)
    BY <2>2, <2>3, FlattenType
  <2>5. FlattenSeq(SubSeq(P, 1, c + 1)) = a \o P[c + 1]
    BY <2>1, <2>3, FlattenSingle
  <2>6. PICK b : b = P[c + 1]
    OBVIOUS
  <2>7. ToSet(a \o b) = ToSet(a) \cup ToSet(b)
    <3>1. /\ a \in Seq(T) /\ b \in Seq(T)
          /\ DOMAIN a = 1..Len(a) /\ DOMAIN b = 1..Len(b) /\ Len(a) \in Nat /\ Len(b) \in Nat
      BY <2>2, <2>4, <2>6
    <3>2. /\ DOMAIN (a \o b) = 1..(Len(a) + Len(b))
          /\ \A j \in 1..(Len(a) + Len(b)) :
                (a \o b)[j] = IF j <= Len(a) THEN a[j] ELSE b[j - Len(a)]
      BY <3>1, ConcatAt
    <3>3. \A j \in 1..(Len(a) + Len(b)) : ~(j <= Len(a)) => j - Len(a) \in 1..Len(b)
      BY <3>1
    <3>4. ToSet(a \o b) \subseteq ToSet(a) \cup ToSet(b)
      BY <3>1, <3>2, <3>3 DEF ToSet
    <3>5. ToSet(a) \subseteq ToSet(a \o b)
      BY <3>1, <3>2 DEF ToSet
    <3>6. \A j \in 1..Len(b) : /\ Len(a) + j \in 1..(Len(a) + Len(b))
                               /\ ~(Len(a) + j <= Len(a)) /\ (Len(a) + j) - Len(a) = j
      BY <3>1
    <3>7. ASSUME NEW j \in 1..Len(b) PROVE b[j] \in ToSet(a \o b)
      <4>1. (a \o b)[Len(a) + j] = b[j] /\ Len(a) + j \in DOMAIN (a \o b)
        BY <3>2, <3>6
      <4> QED
        BY <4>1, Zenon DEF ToSet
    <3>8. ToSet(b) \subseteq ToSet(a \o b)
      BY <3>1, <3>7 DEF ToSet
    <3> QED
      BY <3>4, <3>5, <3>8
  <2>8. \A x : x \in ToSet(a) <=> \E i \in 1..c : x \in ToSet(P[i])
    BY <1>2, <2>1, <2>3, Zenon
  <2>9. 1..(c + 1) = (1..c) \cup {c + 1}
    OBVIOUS
  <2>10. Items(c + 1) = ToSet(a) \cup ToSet(P[c + 1])
    BY <2>5, <2>6, <2>7
  <2> QED
    BY <2>8, <2>9, <2>10, Zenon
<1> HIDE DEF S
<1>3. Len(P) \in S
  BY <1>0, <1>1, <1>2, Induction
<1>4. SubSeq(P, 1, Len(P)) = P /\ Len(P) \in 0..Len(P)
  OBVIOUS
<1>5. \A x : x \in Items(Len(P)) <=> \E i \in 1..Len(P) : x \in ToSet(P[i])
  BY <1>3, <1>4, Zenon DEF S
<1> QED
  BY <1>0, <1>4, <1>5, Zenon

(* If the texts all have the same length, the place of an item in its text
   tells its place among them all. *)
LEMMA FlattenEven ==
    ASSUME NEW T, NEW P \in Seq(Seq(T)), \A i \in DOMAIN P : Len(P[i]) = 3
    PROVE  /\ FlattenSeq(P) \in Seq(T) /\ Len(FlattenSeq(P)) = 3 * Len(P)
           /\ \A i \in DOMAIN P, j \in 1..3 : FlattenSeq(P)[3 * (i - 1) + j] = P[i][j]
<1> DEFINE F(c) == FlattenSeq(SubSeq(P, 1, c))
           S == {c \in Nat : c \in 0..Len(P) =>
                    /\ F(c) \in Seq(T) /\ Len(F(c)) = 3 * c
                    /\ \A i \in 1..c, j \in 1..3 : F(c)[3 * (i - 1) + j] = P[i][j]}
<1>0. Len(P) \in Nat /\ DOMAIN P = 1..Len(P)
  OBVIOUS
<1>1. 0 \in S
  <2>1. SubSeq(P, 1, 0) = <<>>
    OBVIOUS
  <2>2. FlattenSeq(<<>>) = <<>>
    BY DEF FlattenSeq
  <2>3. F(0) \in Seq(T) /\ Len(F(0)) = 3 * 0 /\ 1..0 = {}
    <3>1. F(0) = <<>>
      BY <2>1, <2>2
    <3>2. <<>> \in Seq(T) /\ Len(<<>>) = 0 /\ 3 * 0 = 0 /\ 1..0 = {}
      OBVIOUS
    <3> QED
      BY <3>1, <3>2
  <2> QED
    BY <2>3, Zenon
<1>2. ASSUME NEW c \in Nat, c \in S PROVE c + 1 \in S
  <2>0. c + 1 \in Nat
    OBVIOUS
  <2> SUFFICES ASSUME c + 1 \in 0..Len(P)
               PROVE  /\ F(c + 1) \in Seq(T) /\ Len(F(c + 1)) = 3 * (c + 1)
                      /\ \A i \in 1..(c + 1), j \in 1..3 : F(c + 1)[3 * (i - 1) + j] = P[i][j]
    BY <2>0, Zenon
  <2>1. c \in 0..(Len(P) - 1) /\ c + 1 \in 1..Len(P) /\ c \in 0..Len(P)
    BY <1>0
  <2>2. PICK a : a = F(c)
    OBVIOUS
  <2>3. /\ a \in Seq(T) /\ Len(a) = 3 * c
        /\ \A i \in 1..c, j \in 1..3 : a[3 * (i - 1) + j] = P[i][j]
    BY <1>2, <2>1, <2>2
  <2>4. PICK b : b = P[c + 1]
    OBVIOUS
  <2>5. b \in Seq(T) /\ Len(b) = 3
    <3>1. P[c + 1] \in Seq(T)
      BY <2>1
    <3>2. Len(P[c + 1]) = 3
      BY <1>0, <2>1
    <3> QED
      BY <2>4, <3>1, <3>2
  <2>6. F(c + 1) = a \o b
    BY <2>1, <2>2, <2>4, FlattenSingle
  <2>7. PICK f : f = a \o b
    OBVIOUS
  <2>8. /\ f \in Seq(T) /\ Len(f) = 3 * c + 3
        /\ \A j \in 1..(3 * c + 3) : f[j] = IF j <= 3 * c THEN a[j] ELSE b[j - 3 * c]
    <3>1. /\ a \o b \in Seq(T) /\ Len(a \o b) = Len(a) + Len(b)
          /\ \A j \in 1..(Len(a) + Len(b)) :
                (a \o b)[j] = IF j <= Len(a) THEN a[j] ELSE b[j - Len(a)]
      BY <2>3, <2>5, ConcatAt
    <3>2. PICK k \in Nat : k = 3 * c
      OBVIOUS
    <3>3. Len(a) = k /\ Len(b) = 3
      BY <2>3, <2>5, <3>2
    <3>4. /\ f \in Seq(T) /\ Len(f) = k + 3
          /\ \A j \in 1..(k + 3) : f[j] = IF j <= k THEN a[j] ELSE b[j - k]
      BY <2>7, <3>1, <3>3
    <3> QED
      BY <3>2, <3>4
  <2>9. ASSUME NEW i \in 1..(c + 1), NEW j \in 1..3 PROVE f[3 * (i - 1) + j] = P[i][j]
    <3>1. CASE i = c + 1
      <4>1. 3 * (i - 1) + j \in 1..(3 * c + 3) /\ ~(3 * (i - 1) + j <= 3 * c)
            /\ (3 * (i - 1) + j) - 3 * c = j
        BY <3>1
      <4>2. f[3 * (i - 1) + j] = b[j]
        BY <2>8, <4>1
      <4> QED
        BY <2>4, <3>1, <4>2
    <3>2. CASE i # c + 1
      <4>1. i \in 1..c /\ 3 * (i - 1) + j \in 1..(3 * c + 3) /\ 3 * (i - 1) + j <= 3 * c
        BY <3>2
      <4> QED
        BY <2>3, <2>8, <4>1
    <3> QED
      BY <3>1, <3>2
  <2>10. 3 * (c + 1) = 3 * c + 3
    OBVIOUS
  <2> QED
    BY <2>6, <2>7, <2>8, <2>9, <2>10
<1> HIDE DEF S
<1>3. Len(P) \in S
  BY <1>0, <1>1, <1>2, Induction
<1>4. SubSeq(P, 1, Len(P)) = P /\ Len(P) \in 0..Len(P)
  OBVIOUS
<1>5. /\ F(Len(P)) \in Seq(T) /\ Len(F(Len(P))) = 3 * Len(P)
      /\ \A i \in 1..Len(P), j \in 1..3 : F(Len(P))[3 * (i - 1) + j] = P[i][j]
  BY <1>3, <1>4, Zenon DEF S
<1> QED
  BY <1>0, <1>4, <1>5, Zenon

-----------------------------------------------------------------------------
(* Functions that are defined by recursion.                                *)

(* What holds of the first and is passed on holds of the last. *)
LEMMA PassedOn ==
    ASSUME NEW S, NEW k \in Nat, NEW f, f[0] \in S, \A i \in 1..k : f[i - 1] \in S => f[i] \in S
    PROVE  \A i \in 0..k : f[i] \in S
<1> DEFINE R == {c \in Nat : c <= k => f[c] \in S}
<1>1. 0 \in R
  OBVIOUS
<1>2. ASSUME NEW c \in Nat, c \in R PROVE c + 1 \in R
  <2>1. CASE c + 1 <= k
    <3>1. c <= k /\ c + 1 \in 1..k /\ (c + 1) - 1 = c
      BY <2>1
    <3>2. f[c] \in S
      BY <1>2, <3>1
    <3>3. f[c + 1] \in S
      BY <3>1, <3>2
    <3> QED
      BY <3>3
  <2>2. CASE ~(c + 1 <= k)
    BY <2>2
  <2> QED
    BY <2>1, <2>2
<1> HIDE DEF R
<1>3. Nat \subseteq R
  BY <1>1, <1>2, Induction
<1> QED
  BY <1>3 DEF R

(* G takes one step for each number, and f is made by these steps from s. *)
StepsIn(S, k, G) == \A i \in 1..k : \A t \in S : G[i][t] \in S
MadeBySteps(f, s, k, G) == f = [i \in 0..k |-> IF i = 0 THEN s ELSE G[i][f[i - 1]]]

(* There is such a function, and its values stay in S. *)
LEMMA Iterated ==
    ASSUME NEW S, NEW s \in S, NEW k \in Nat, NEW G, StepsIn(S, k, G)
    PROVE  \E f : MadeBySteps(f, s, k, G) /\ \A i \in 0..k : f[i] \in S
<1> DEFINE Is(f, c) == f = [i \in 0..c |-> IF i = 0 THEN s ELSE G[i][f[i - 1]]]
           R == {c \in Nat : \E f : Is(f, c)}
<1>1. 0 \in R
  <2> DEFINE f == [i \in 0..0 |-> s]
  <2>1. f = [i \in 0..0 |-> IF i = 0 THEN s ELSE G[i][f[i - 1]]]
    OBVIOUS
  <2> HIDE DEF f
  <2> QED
    BY <2>1
<1>2. ASSUME NEW c \in Nat, c \in R PROVE c + 1 \in R
  <2>1. PICK f : Is(f, c)
    BY <1>2
  <2> DEFINE last == G[c + 1][f[c]]
             g == [i \in 0..(c + 1) |-> IF i = c + 1 THEN last ELSE f[i]]
  <2>2. ASSUME NEW i \in 0..(c + 1)
        PROVE  g[i] = IF i = 0 THEN s ELSE G[i][g[i - 1]]
    <3>1. CASE i = c + 1
      <4>1. i # 0 /\ i - 1 = c /\ i - 1 \in 0..(c + 1) /\ i - 1 # c + 1
        BY <3>1
      <4>2. g[i - 1] = f[c]
        BY <4>1
      <4> QED
        BY <3>1, <4>1, <4>2
    <3>2. CASE i # c + 1
      <4>1. i \in 0..c /\ (i # 0 => i - 1 \in 0..(c + 1) /\ i - 1 # c + 1)
        BY <3>2
      <4>2. f[i] = IF i = 0 THEN s ELSE G[i][f[i - 1]]
        BY <2>1, <4>1
      <4> QED
        BY <3>2, <4>1, <4>2
    <3> QED
      BY <3>1, <3>2
  <2>3. g = [i \in 0..(c + 1) |-> g[i]]
    OBVIOUS
  <2> HIDE DEF g
  <2>4. Is(g, c + 1)
    BY <2>2, <2>3
  <2> QED
    BY <2>4
<1> HIDE DEF R, Is
<1>3. k \in R
  BY <1>1, <1>2, Induction
<1>4. PICK f : Is(f, k)
  BY <1>3 DEF R
<1>5. f = [i \in 0..k |-> IF i = 0 THEN s ELSE G[i][f[i - 1]]]
  BY <1>4 DEF Is
<1>6. \A i \in 0..k : f[i] \in S
  <2>1. f[0] \in S
    BY <1>5
  <2>2. \A i \in 1..k : f[i] = G[i][f[i - 1]]
    BY <1>5
  <2> QED
    BY <2>1, <2>2, PassedOn DEF StepsIn
<1> QED
  BY <1>5, <1>6 DEF MadeBySteps

(* G makes a value for each number of the values for the greater ones, and f
   is made so. *)
MakesDown(S, N, G) == \A n \in 1..N : \A h \in [(n + 1)..N -> S] : G[n][h] \in S
MadeDown(f, S, N, G) ==
    f \in [1..N -> S] /\ \A n \in 1..N : f[n] = G[n][[m \in (n + 1)..N |-> f[m]]]

(* There is such a function. *)
LEMMA Downwards ==
    ASSUME NEW S, NEW N \in Nat, NEW G, MakesDown(S, N, G)
    PROVE  \E f : MadeDown(f, S, N, G)
<1> DEFINE Is(f, c) == /\ f \in [(N - c + 1)..N -> S]
                       /\ \A n \in (N - c + 1)..N : f[n] = G[n][[m \in (n + 1)..N |-> f[m]]]
           R == {c \in Nat : c <= N => \E f : Is(f, c)}
<1>1. 0 \in R
  <2> DEFINE f == [n \in (N + 1)..N |-> 0]
  <2>1. (N - 0 + 1)..N = {} /\ (N + 1)..N = {}
    OBVIOUS
  <2>2. f \in [{} -> S]
    BY <2>1
  <2>3. Is(f, 0)
    BY <2>1, <2>2
  <2> HIDE DEF f, Is
  <2> QED
    BY <2>3
<1>2. ASSUME NEW c \in Nat, c \in R PROVE c + 1 \in R
  <2>0. c + 1 \in Nat
    OBVIOUS
  <2> SUFFICES ASSUME c + 1 <= N PROVE \E f : Is(f, c + 1)
    BY <2>0, Zenon
  <2>1. PICK f : Is(f, c)
    <3>1. c <= N
      OBVIOUS
    <3> HIDE DEF Is
    <3> QED
      BY <1>2, <3>1
  <2>2. PICK n0 : n0 = N - c
    OBVIOUS
  <2>3. /\ n0 \in 1..N /\ N - c + 1 = n0 + 1 /\ N - (c + 1) + 1 = n0
        /\ n0..N = {n0} \cup ((n0 + 1)..N) /\ n0 \notin (n0 + 1)..N
    BY <2>2
  <2>4. f \in [(n0 + 1)..N -> S] /\ \A n \in (n0 + 1)..N : f[n] = G[n][[m \in (n + 1)..N |-> f[m]]]
    BY <2>1, <2>3
  <2> DEFINE g == [n \in n0..N |-> IF n = n0 THEN G[n0][f] ELSE f[n]]
  <2>5. g \in [n0..N -> S]
    <3>1. n0 \in 1..N /\ f \in [(n0 + 1)..N -> S]
      BY <2>3, <2>4
    <3>2. G[n0][f] \in S
      BY <3>1 DEF MakesDown
    <3> QED
      BY <2>3, <3>1, <3>2
  <2>6. \A n \in (n0 + 1)..N : g[n] = f[n]
    BY <2>3
  <2>7. g[n0] = G[n0][f]
    BY <2>3
  <2> HIDE DEF g
  <2>8. \A n \in n0..N : [m \in (n + 1)..N |-> g[m]] = [m \in (n + 1)..N |-> f[m]]
    <3>1. \A n \in n0..N : \A m \in (n + 1)..N : m \in (n0 + 1)..N
      BY <2>3
    <3> QED
      BY <2>6, <3>1
  <2>9. [m \in (n0 + 1)..N |-> f[m]] = f
    BY <2>4
  <2>10. \A n \in n0..N : g[n] = G[n][[m \in (n + 1)..N |-> g[m]]]
    BY <2>3, <2>4, <2>6, <2>7, <2>8, <2>9
  <2>11. Is(g, c + 1)
    BY <2>3, <2>5, <2>10
  <2> QED
    BY <2>11
<1> HIDE DEF R
<1>3. N \in R
  BY <1>1, <1>2, Induction
<1>4. PICK f : Is(f, N)
  BY <1>3 DEF R
<1>5. N - N + 1 = 1
  OBVIOUS
<1>6. f \in [1..N -> S] /\ \A n \in 1..N : f[n] = G[n][[m \in (n + 1)..N |-> f[m]]]
  BY <1>4, <1>5
<1> QED
  BY <1>6 DEF MadeDown

-----------------------------------------------------------------------------
(* Functions that are made upwards.                                        *)

(* What is ranked below c. *)
Lower(X, R, c) == {w \in X : R[w] < c}

(* G makes a value for each member of X of the values for those of a lower
   rank, and f is made so up to c. *)
MakesUp(X, R, S, G) == \A v \in X : \A h \in [Lower(X, R, R[v]) -> S] : G[v][h] \in S
MadeUp(f, X, R, S, G, c) ==
    /\ f \in [Lower(X, R, c) -> S]
    /\ \A v \in Lower(X, R, c) : f[v] = G[v][[w \in Lower(X, R, R[v]) |-> f[w]]]

LEMMA UpTo ==
    ASSUME NEW X, NEW R \in [X -> Nat], NEW S, NEW G, MakesUp(X, R, S, G), NEW m \in Nat
    PROVE  \E f : MadeUp(f, X, R, S, G, m)
<1> DEFINE D == {c \in Nat : \E f : MadeUp(f, X, R, S, G, c)}
           L(c) == Lower(X, R, c)
<1>1. 0 \in D
  <2>1. L(0) = {}
    BY DEF Lower
  <2> DEFINE f == [v \in {} |-> 0]
  <2>2. f \in [{} -> S]
    OBVIOUS
  <2>3. MadeUp(f, X, R, S, G, 0)
    BY <2>1, <2>2 DEF MadeUp
  <2> HIDE DEF f
  <2> QED
    BY <2>3
<1>2. ASSUME NEW c \in Nat, c \in D PROVE c + 1 \in D
  <2>1. PICK f : MadeUp(f, X, R, S, G, c)
    BY <1>2
  <2>2. f \in [L(c) -> S] /\ \A v \in L(c) : f[v] = G[v][[w \in L(R[v]) |-> f[w]]]
    BY <2>1 DEF MadeUp
  <2>3. ASSUME NEW v \in L(c + 1) PROVE v \in X /\ R[v] \in Nat /\ L(R[v]) \subseteq L(c)
    <3>1. v \in X /\ R[v] \in Nat /\ R[v] < c + 1
      BY DEF Lower
    <3>2. \A w \in X : R[w] \in Nat
      OBVIOUS
    <3> QED
      BY <3>1, <3>2 DEF Lower
  <2>4. L(c) \subseteq L(c + 1)
    <3>1. \A w \in X : R[w] \in Nat
      OBVIOUS
    <3> QED
      BY <3>1 DEF Lower
  <2> DEFINE g == [v \in L(c + 1) |-> G[v][[w \in L(R[v]) |-> f[w]]]]
  <2>5. ASSUME NEW v \in L(c + 1) PROVE g[v] \in S
    <3> DEFINE h == [w \in L(R[v]) |-> f[w]]
    <3> HIDE DEF L
    <3>1. h \in [L(R[v]) -> S]
      BY <2>2, <2>3
    <3>2. v \in X
      BY <2>3
    <3>3. g[v] = G[v][h]
      OBVIOUS
    <3> HIDE DEF h, g
    <3> QED
      BY <3>1, <3>2, <3>3 DEF MakesUp, L
  <2>6. \A v \in L(c) : g[v] = f[v]
    <3> HIDE DEF L
    <3> QED
      BY <2>2, <2>4
  <2>7. ASSUME NEW v \in L(c + 1) PROVE [w \in L(R[v]) |-> g[w]] = [w \in L(R[v]) |-> f[w]]
    <3> HIDE DEF L, g
    <3> QED
      BY <2>3, <2>6
  <2>8. \A v \in L(c + 1) : g[v] = G[v][[w \in L(R[v]) |-> g[w]]]
    <3> HIDE DEF L
    <3>1. \A v \in L(c + 1) : g[v] = G[v][[w \in L(R[v]) |-> f[w]]]
      OBVIOUS
    <3> HIDE DEF g
    <3> QED
      BY <2>7, <3>1
  <2>9. g \in [L(c + 1) -> S]
    <3> HIDE DEF L
    <3>1. g = [v \in L(c + 1) |-> g[v]]
      OBVIOUS
    <3> HIDE DEF g
    <3> QED
      BY <2>5, <3>1
  <2> HIDE DEF g
  <2>10. MadeUp(g, X, R, S, G, c + 1)
    BY <2>8, <2>9 DEF MadeUp
  <2> QED
    BY <2>10
<1> HIDE DEF D
<1>3. m \in D
  BY <1>1, <1>2, Induction
<1> QED
  BY <1>3 DEF D

LEMMA UpAgree ==
    ASSUME NEW X, NEW R \in [X -> Nat], NEW S, NEW G, NEW m \in Nat, NEW k \in Nat, NEW f, NEW g,
           MadeUp(f, X, R, S, G, m), MadeUp(g, X, R, S, G, k)
    PROVE  \A v \in Lower(X, R, m) \cap Lower(X, R, k) : f[v] = g[v]
<1> DEFINE L(c) == Lower(X, R, c)
           D == {c \in Nat : \A v \in L(c) : v \in L(m) /\ v \in L(k) => f[v] = g[v]}
<1>0. \A v \in X : R[v] \in Nat
  OBVIOUS
<1>1. 0 \in D
  BY <1>0 DEF Lower
<1>2. ASSUME NEW c \in Nat, c \in D PROVE c + 1 \in D
  <2> SUFFICES ASSUME NEW v \in L(c + 1), v \in L(m), v \in L(k) PROVE f[v] = g[v]
    OBVIOUS
  <2>1. L(R[v]) \subseteq L(c) /\ L(R[v]) \subseteq L(m) /\ L(R[v]) \subseteq L(k)
    BY <1>0 DEF Lower
  <2>2. \A w \in L(R[v]) : f[w] = g[w]
    <3> HIDE DEF L
    <3> QED
      BY <1>2, <2>1
  <2>3. [w \in L(R[v]) |-> f[w]] = [w \in L(R[v]) |-> g[w]]
    <3> HIDE DEF L
    <3> QED
      BY <2>2
  <2>4. f[v] = G[v][[w \in L(R[v]) |-> f[w]]] /\ g[v] = G[v][[w \in L(R[v]) |-> g[w]]]
    BY DEF MadeUp
  <2> QED
    BY <2>3, <2>4
<1> HIDE DEF D
<1>3. \A c \in Nat : c \in D
  BY <1>1, <1>2, Induction
<1> SUFFICES ASSUME NEW v \in L(m), v \in L(k) PROVE f[v] = g[v]
  OBVIOUS
<1>4. m \in D
  BY <1>3
<1> QED
  BY <1>4 DEF D

(* There is such a function for all of X. *)
LEMMA Upwards ==
    ASSUME NEW X, NEW R \in [X -> Nat], NEW S, NEW G, MakesUp(X, R, S, G)
    PROVE  \E f : f \in [X -> S] /\ \A v \in X : f[v] = G[v][[w \in Lower(X, R, R[v]) |-> f[w]]]
<1> DEFINE At(v) == CHOOSE f : MadeUp(f, X, R, S, G, R[v] + 1)
           F == [v \in X |-> At(v)[v]]
           L(c) == Lower(X, R, c)
<1>1. ASSUME NEW v \in X PROVE R[v] \in Nat /\ R[v] + 1 \in Nat /\ MadeUp(At(v), X, R, S, G, R[v] + 1) /\ v \in L(R[v] + 1)
  <2>1. R[v] \in Nat /\ R[v] + 1 \in Nat
    OBVIOUS
  <2>2. \E f : MadeUp(f, X, R, S, G, R[v] + 1)
    BY <2>1, UpTo
  <2>3. v \in L(R[v] + 1)
    BY <2>1 DEF Lower
  <2> QED
    BY <2>1, <2>2, <2>3
<1> HIDE DEF At
<1>2. ASSUME NEW v \in X, NEW w \in L(R[v]) PROVE At(v)[w] = F[w]
  <2>1. w \in X /\ R[w] < R[v] /\ R[w] \in Nat /\ R[v] \in Nat
    BY DEF Lower
  <2>2. w \in L(R[v] + 1) /\ w \in L(R[w] + 1)
    BY <2>1 DEF Lower
  <2>3. MadeUp(At(v), X, R, S, G, R[v] + 1) /\ MadeUp(At(w), X, R, S, G, R[w] + 1)
        /\ R[v] + 1 \in Nat /\ R[w] + 1 \in Nat
    BY <1>1, <2>1
  <2>4. At(v)[w] = At(w)[w]
    BY <2>2, <2>3, UpAgree
  <2> QED
    BY <2>1, <2>4
<1>3. ASSUME NEW v \in X PROVE F[v] \in S /\ F[v] = G[v][[w \in L(R[v]) |-> F[w]]]
  <2>1. MadeUp(At(v), X, R, S, G, R[v] + 1) /\ v \in L(R[v] + 1)
    BY <1>1
  <2>2. At(v) \in [L(R[v] + 1) -> S] /\ At(v)[v] = G[v][[w \in L(R[v]) |-> At(v)[w]]]
    BY <2>1 DEF MadeUp
  <2>3. F[v] = At(v)[v]
    OBVIOUS
  <2> HIDE DEF F, L
  <2>4. [w \in L(R[v]) |-> At(v)[w]] = [w \in L(R[v]) |-> F[w]]
    BY <1>2
  <2> QED
    BY <2>1, <2>2, <2>3, <2>4
<1>4. F \in [X -> S]
  <2>1. F = [v \in X |-> F[v]]
    OBVIOUS
  <2> HIDE DEF F
  <2> QED
    BY <1>3, <2>1
<1> HIDE DEF F
<1> QED
  BY <1>3, <1>4

(* Numbers that grow at each step grow. *)
LEMMA StepsIncrease ==
    ASSUME NEW m \in Nat, NEW o \in [0..m -> Nat], \A k \in 0..(m - 1) : o[k] < o[k + 1]
    PROVE  \A j, k \in 0..m : j < k => o[j] < o[k]
<1> DEFINE D == {c \in Nat : c \in 0..m => \A j \in 0..m : j < c => o[j] < o[c]}
<1>1. 0 \in D
  OBVIOUS
<1>2. ASSUME NEW c \in Nat, c \in D PROVE c + 1 \in D
  <2> SUFFICES ASSUME c + 1 \in 0..m, NEW j \in 0..m, j < c + 1 PROVE o[j] < o[c + 1]
    OBVIOUS
  <2>1. c \in 0..(m - 1) /\ c \in 0..m /\ (j = c \/ j < c)
    OBVIOUS
  <2>2. o[c] < o[c + 1] /\ o[c] \in Nat /\ o[c + 1] \in Nat /\ o[j] \in Nat
    BY <2>1
  <2>3. j < c => o[j] < o[c]
    BY <1>2, <2>1
  <2>4. \A x, y, z \in Nat : x < y /\ y < z => x < z
    OBVIOUS
  <2> QED
    BY <2>1, <2>2, <2>3, <2>4
<1> HIDE DEF D
<1>3. Nat \subseteq D
  BY <1>1, <1>2, Induction
<1>4. ASSUME NEW j \in 0..m, NEW k \in 0..m, j < k PROVE o[j] < o[k]
  <2>1. k \in Nat /\ k \in 0..m
    OBVIOUS
  <2>2. k \in D
    BY <1>3, <2>1
  <2>3. k \in {c \in Nat : c \in 0..m => \A i \in 0..m : i < c => o[i] < o[c]}
    BY <2>2 DEF D
  <2> QED
    BY <1>4, <2>1, <2>3
<1> QED
  BY <1>4, Zenon

(* A prefix of the rest may join what comes before it. *)
LEMMA ConcatRegroup ==
    ASSUME NEW T, NEW x \in Seq(T), NEW y \in Seq(T), NEW z \in Seq(T)
    PROVE  x \o (y \o z) = (x \o y) \o z
BY ConcatAssociative
=============================================================================
