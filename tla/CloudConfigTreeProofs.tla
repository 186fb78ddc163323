------------------------ MODULE CloudConfigTreeProofs ------------------------
(***************************************************************************)
(* What CloudConfigTree promises for every document: of any depth, with    *)
(* any number of nodes, well-formed or not.  The invariant says that the   *)
(* nodes are a forest in which everything that matters hangs somewhere,    *)
(* how far the document has been read, how the calls of cloud_config_parse *)
(* are nested, and that what the walk of g_node_traverse has left behind   *)
(* is settled: nothing in it has to be moved or removed any more.  The     *)
(* last part follows the keys of a document of one mapping into the tree.  *)
(***************************************************************************)
EXTENDS CloudConfigTree, SequenceLemmas, FiniteSetTheorems

-----------------------------------------------------------------------------
(* The invariant.                                                          *)

(* K[n] are the children of node n: younger than n, and each in one place. *)
Forest(K) ==
    /\ K \in Seq(Seq(2..Len(K)))
    /\ \A p \in DOMAIN K : \A i \in DOMAIN K[p] : p < K[p][i]
    /\ \A p, q \in DOMAIN K : \A i \in DOMAIN K[p] : \A j \in DOMAIN K[q] :
          K[p][i] = K[q][j] => p = q /\ i = j

(* Node n is a child of some node. *)
Hung(K, n) == \E p \in DOMAIN K : \E i \in DOMAIN K[p] : K[p][i] = n

Context ==
    /\ document \in Documents /\ events = EventsOf(document)
    /\ read \in 0..Len(events)
    /\ stage \in {"parse", "simplify", "process"} /\ broken \in BOOLEAN

TreeShape ==
    /\ tree \in [data : Seq(STRING \cup {NULL}), kids : Seq(Seq(Nat))]
    /\ Len(tree.kids) = Len(tree.data) /\ Len(tree.data) > 0
    /\ tree.data[1] # NULL
    /\ Forest(tree.kids)

(* While the document is parsed every node is in the tree; later those are
   that have data or children. *)
Attached ==
    \A n \in Nodes \ {1} :
        stage = "parse" \/ tree.data[n] # NULL \/ tree.kids[n] # <<>> => Hung(tree.kids, n)

(* The nodes are those of the events that have been read, and their data the
   texts of the scalars among them. *)
Numbered ==
    /\ Len(tree.data) = NodeOf(read)
    /\ \A i \in 1..read :
          events[i].type = "scalar" => NodeOf(i) \in Nodes /\ tree.data[NodeOf(i)] = events[i].text
    /\ \A n \in Nodes \ {1} :
          tree.data[n] # NULL => \E i \in 1..read : events[i].type = "scalar" /\ NodeOf(i) = n

Built == Context /\ TreeShape /\ Attached /\ Numbered

CallsOf(N) == [node : N, last_leaf : N, state : States]

(* The last leaf of a caller is the node of the call it has made. *)
Nested(F) ==
    \A i \in 1..(Len(F) - 1) : F[i].last_leaf = F[i + 1].node /\ F[i + 1].node # 1

(* There are as many calls of cloud_config_parse as there are sequences and
   mappings open, and one. *)
Calls ==
    /\ stage = "parse" =>
          /\ read < Len(events)
          /\ frames \in Seq(CallsOf(Nodes)) /\ frames # <<>> /\ Nested(frames)
          /\ Len(frames) = 1 + Number(events, read, Starts) - Number(events, read, {"end"})
    /\ stage # "parse" => frames = <<>>

(* Of the children s of a node, the walk has taken the first k, is at the one
   in C, if any, and goes on with nxt: the others of the k are in V. *)
Passed(s, V, C, nxt, k) ==
    /\ k = Len(s) => nxt = 0
    /\ k # Len(s) => nxt = s[k + 1]
    /\ \A j \in 1..k : s[j] \in V \cup C
    /\ \A c \in C : \E j \in 1..k : s[j] = c

Behind(s, V, C, nxt) == \E k \in 0..Len(s) : Passed(s, V, C, nxt, k)

(* Nothing is left to do for the nodes of V. *)
Good(D, K, V) ==
    \A n \in V :
        /\ \A i \in DOMAIN K[n] : K[n][i] \in V
        /\ D[n] = NULL => K[n] # <<>> /\ \A i \in DOMAIN K[n] : D[K[n][i]] # NULL

WalkType(N) == [node : N, next : N \cup {0}]

Increasing(w) == \A i, j \in 1..Len(w) : i < j => w[i].node < w[j].node

(* The child at which the walk is in its i-th call. *)
On(w, i) == IF i < Len(w) THEN {w[i + 1].node} ELSE {}

Walking(K, V, w) == \A i \in 1..Len(w) : Behind(K[w[i].node], V, On(w, i), w[i].next)

(* The calls of g_node_traverse go down the tree, and what they have left
   behind is settled. *)
WalkOf(N, D, K, w) ==
    /\ w \in Seq(WalkType(N)) /\ w # <<>> /\ w[1].node = 1 /\ Increasing(w)
    /\ \E V \in SUBSET N : Good(D, K, V) /\ Walking(K, V, w)

Walks ==
    /\ stage = "simplify" => WalkOf(Nodes, tree.data, tree.kids, walk)
    /\ stage # "simplify" => walk = <<>>
    /\ stage = "process" => \E V \in SUBSET Nodes : Good(tree.data, tree.kids, V) /\ 1 \in V

TreeInvariant == Built /\ Calls /\ Walks

-----------------------------------------------------------------------------
(* The events read.                                                        *)

(* None of the first 0 events has any type. *)
LEMMA NumberNone ==
    ASSUME NEW s, NEW types
    PROVE  Number(s, 0, types) = 0
<1>1. {j \in 1..0 : s[j].type \in types} = {}
  OBVIOUS
<1> QED
  BY <1>1, FS_EmptySet DEF Number

(* One more event adds one if it has a type of the set. *)
LEMMA NumberNext ==
    ASSUME NEW s, NEW i \in Nat, NEW types
    PROVE  /\ Number(s, i, types) \in Nat
           /\ s[i + 1].type \in types => Number(s, i + 1, types) = Number(s, i, types) + 1
           /\ s[i + 1].type \notin types => Number(s, i + 1, types) = Number(s, i, types)
<1> DEFINE A == {j \in 1..i : s[j].type \in types}
           B == {j \in 1..(i + 1) : s[j].type \in types}
<1>1. IsFiniteSet(A) /\ Cardinality(A) \in Nat
  <2>1. IsFiniteSet(1..i)
    BY FS_Interval
  <2>2. A \subseteq 1..i
    OBVIOUS
  <2>3. IsFiniteSet(A)
    BY <2>1, <2>2, FS_Subset
  <2> QED
    BY <2>3, FS_CardinalityType
<1>2. i + 1 \notin A
  OBVIOUS
<1>3. s[i + 1].type \in types => B = A \cup {i + 1}
  OBVIOUS
<1>4. s[i + 1].type \notin types => B = A
  OBVIOUS
<1> HIDE DEF A, B
<1>5. Cardinality(A \cup {i + 1}) = Cardinality(A) + 1
  BY <1>1, <1>2, FS_AddElement
<1>6. Number(s, i, types) = Cardinality(A) /\ Number(s, i + 1, types) = Cardinality(B)
  BY DEF Number, A, B
<1> QED
  BY <1>1, <1>3, <1>4, <1>5, <1>6

-----------------------------------------------------------------------------
(* Forests: a node is made, unlinked, appended, and moved.                 *)

(* The types of a forest. *)
LEMMA ForestFacts ==
    ASSUME NEW K, Forest(K)
    PROVE  /\ Len(K) \in Nat /\ DOMAIN K = 1..Len(K)
           /\ \A p \in DOMAIN K : /\ K[p] \in Seq(2..Len(K)) /\ DOMAIN K[p] = 1..Len(K[p])
                                  /\ Len(K[p]) \in Nat
           /\ \A p \in DOMAIN K : \A i \in DOMAIN K[p] : K[p][i] \in DOMAIN K /\ K[p][i] # 1
<1>1. Len(K) \in Nat /\ DOMAIN K = 1..Len(K)
  BY DEF Forest
<1>2. ASSUME NEW p \in DOMAIN K
      PROVE  K[p] \in Seq(2..Len(K)) /\ DOMAIN K[p] = 1..Len(K[p]) /\ Len(K[p]) \in Nat
  <2>1. K[p] \in Seq(2..Len(K))
    BY <1>1 DEF Forest
  <2> QED
    BY <2>1
<1>3. ASSUME NEW p \in DOMAIN K, NEW i \in DOMAIN K[p]
      PROVE  K[p][i] \in DOMAIN K /\ K[p][i] # 1
  <2>1. K[p][i] \in 2..Len(K)
    BY <1>2
  <2> QED
    BY <1>1, <2>1
<1> QED
  BY <1>1, <1>2, <1>3

(* K with one more node, the last child of p, and what is true of it then. *)
Grown(K, p) == Append([K EXCEPT ![p] = Append(@, Len(K) + 1)], <<>>)

OneMore(K, L) ==
    /\ Forest(L) /\ Len(L) = Len(K) + 1
    /\ Hung(L, Len(L))
    /\ \A n \in DOMAIN K : Hung(K, n) => Hung(L, n)

(* g_node_append of a new node leaves a forest, and the new node hangs. *)
LEMMA GrowForest ==
    ASSUME NEW K, Forest(K), NEW p \in DOMAIN K
    PROVE  OneMore(K, Grown(K, p))
<1>0. PICK L : L = Grown(K, p)
  OBVIOUS
<1> DEFINE N == Len(K)
           V == 2..(N + 1)
           M == [K EXCEPT ![p] = Append(@, N + 1)]
<1>1. /\ N \in Nat /\ DOMAIN K = 1..N
      /\ \A q \in DOMAIN K : K[q] \in Seq(2..N) /\ DOMAIN K[q] = 1..Len(K[q]) /\ Len(K[q]) \in Nat
      /\ \A q \in DOMAIN K : \A i \in DOMAIN K[q] : K[q][i] \in DOMAIN K /\ K[q][i] # 1
  BY ForestFacts
<1>2. \A q \in DOMAIN K : K[q] \in Seq(V)
  <2>1. 2..N \subseteq 2..(N + 1)
    BY <1>1
  <2> QED
    BY <1>1, <2>1, SeqMonotonic
<1>3. Append(K[p], N + 1) \in Seq(V)
  <2>1. N + 1 \in 2..(N + 1)
    BY <1>1
  <2> QED
    BY <1>2, <2>1
<1> HIDE DEF V, N
<1>4. /\ M \in Seq(Seq(V)) /\ Len(M) = N
      /\ \A q \in DOMAIN K : M[q] = IF q = p THEN Append(K[p], N + 1) ELSE K[q]
  <2>1. M \in [1..N -> Seq(V)]
    BY <1>1, <1>2, <1>3
  <2> QED
    BY <1>1, <2>1
<1> HIDE DEF M
<1>p. N + 1 \in Nat /\ DOMAIN K = 1..N /\ p \in 1..N
  BY <1>1
<1>5. /\ L \in Seq(Seq(V)) /\ Len(L) = N + 1 /\ L[N + 1] = <<>>
      /\ \A q \in DOMAIN K : L[q] = IF q = p THEN Append(K[p], N + 1) ELSE K[q]
  <2>1. L = Append(M, <<>>)
    BY <1>0 DEF M, N, Grown
  <2>2. <<>> \in Seq(V)
    BY EmptySeq
  <2>3. /\ L \in Seq(Seq(V)) /\ Len(L) = N + 1 /\ L[N + 1] = <<>>
        /\ \A q \in 1..N : L[q] = M[q]
    <3> DEFINE T == Seq(V)
    <3>1. M \in Seq(T) /\ <<>> \in T /\ Len(M) = N
      BY <1>4, <2>2
    <3> HIDE DEF T
    <3>2. /\ Append(M, <<>>) \in Seq(T) /\ Len(Append(M, <<>>)) = N + 1
          /\ Append(M, <<>>)[N + 1] = <<>>
          /\ \A q \in 1..N : Append(M, <<>>)[q] = M[q]
      BY <3>1
    <3> QED
      BY <2>1, <3>2 DEF T
  <2> QED
    BY <1>1, <1>4, <2>3
<1>6. /\ \A q \in DOMAIN K : \A i \in DOMAIN K[q] : i \in DOMAIN L[q] /\ L[q][i] = K[q][i]
      /\ Len(K[p]) + 1 \in DOMAIN L[p] /\ L[p][Len(K[p]) + 1] = N + 1
      /\ \A i \in DOMAIN L[p] : i \in DOMAIN K[p] \/ i = Len(K[p]) + 1
      /\ \A q \in DOMAIN K \ {p} : L[q] = K[q]
  <2>1. /\ Len(L[p]) = Len(K[p]) + 1 /\ L[p] \in Seq(V)
        /\ L[p][Len(K[p]) + 1] = N + 1
        /\ \A i \in 1..Len(K[p]) : L[p][i] = K[p][i]
    <3>1. K[p] \in Seq(V) /\ L[p] = Append(K[p], N + 1)
      BY <1>2, <1>5
    <3>2. N + 1 \in V
      BY <1>1 DEF V
    <3> QED
      BY <3>1, <3>2
  <2>2. DOMAIN L[p] = 1..(Len(K[p]) + 1)
    BY <2>1
  <2>3. ASSUME NEW q \in DOMAIN K, NEW i \in DOMAIN K[q]
        PROVE  i \in DOMAIN L[q] /\ L[q][i] = K[q][i]
    <3>1. CASE q = p
      <4>1. i \in 1..Len(K[p]) /\ Len(K[p]) \in Nat
        BY <1>1, <3>1
      <4> QED
        BY <2>1, <2>2, <3>1, <4>1
    <3>2. CASE q # p
      BY <1>5, <3>2
    <3> QED
      BY <3>1, <3>2
  <2>4. /\ Len(K[p]) + 1 \in DOMAIN L[p]
        /\ \A i \in DOMAIN L[p] : i \in DOMAIN K[p] \/ i = Len(K[p]) + 1
    <3>1. Len(K[p]) \in Nat /\ DOMAIN K[p] = 1..Len(K[p])
      BY <1>1
    <3> QED
      BY <2>2, <3>1
  <2>5. \A q \in DOMAIN K \ {p} : L[q] = K[q]
    BY <1>5
  <2> QED
    BY <2>1, <2>3, <2>4, <2>5
<1>7. DOMAIN L = DOMAIN K \cup {N + 1} /\ DOMAIN L[N + 1] = {} /\ N + 1 \notin DOMAIN K
  <2>1. DOMAIN L = 1..(N + 1)
    BY <1>5
  <2> QED
    BY <1>1, <1>5, <2>1
<1>8. ASSUME NEW q \in DOMAIN L, NEW i \in DOMAIN L[q]
      PROVE  /\ q \in DOMAIN K
             /\ \/ i \in DOMAIN K[q] /\ L[q][i] = K[q][i]
                \/ q = p /\ i = Len(K[p]) + 1 /\ L[q][i] = N + 1
  BY <1>6, <1>7
<1>9. \A q \in DOMAIN L : \A i \in DOMAIN L[q] : q < L[q][i]
  <2> SUFFICES ASSUME NEW q \in DOMAIN L, NEW i \in DOMAIN L[q] PROVE q < L[q][i]
    OBVIOUS
  <2>1. q \in DOMAIN K /\ q \in 1..N
    BY <1>1, <1>8
  <2>2. CASE i \in DOMAIN K[q] /\ L[q][i] = K[q][i]
    BY <2>1, <2>2 DEF Forest
  <2>3. CASE L[q][i] = N + 1
    BY <1>1, <2>1, <2>3
  <2> QED
    BY <1>8, <2>2, <2>3
<1>10. ASSUME NEW q \in DOMAIN L, NEW r \in DOMAIN L, NEW i \in DOMAIN L[q], NEW j \in DOMAIN L[r],
              L[q][i] = L[r][j]
       PROVE  q = r /\ i = j
  <2>1. \A s \in DOMAIN K : \A k \in DOMAIN K[s] : K[s][k] # N + 1
    BY <1>1, <1>7
  <2>2. CASE L[q][i] = N + 1
    <3>1. q = p /\ i = Len(K[p]) + 1
      BY <1>8, <2>1, <2>2
    <3>2. r = p /\ j = Len(K[p]) + 1
      <4>1. L[r][j] = N + 1
        BY <1>10, <2>2
      <4> QED
        BY <1>8, <2>1, <4>1
    <3> QED
      BY <3>1, <3>2
  <2>3. CASE L[q][i] # N + 1
    <3>1. q \in DOMAIN K /\ i \in DOMAIN K[q] /\ L[q][i] = K[q][i]
      BY <1>8, <2>3
    <3>2. r \in DOMAIN K /\ j \in DOMAIN K[r] /\ L[r][j] = K[r][j]
      BY <1>8, <1>10, <2>3
    <3>3. \A s, t \in DOMAIN K : \A k \in DOMAIN K[s] : \A l \in DOMAIN K[t] :
              K[s][k] = K[t][l] => s = t /\ k = l
      BY DEF Forest
    <3>4. K[q][i] = K[r][j]
      BY <1>10, <3>1, <3>2
    <3> QED
      BY <3>1, <3>2, <3>3, <3>4
  <2> QED
    BY <2>2, <2>3
<1>11. Forest(L)
  <2>1. L \in Seq(Seq(2..Len(L)))
    BY <1>5 DEF V
  <2> QED
    BY <1>9, <1>10, <2>1 DEF Forest
<1>12. Hung(L, N + 1) /\ \A n \in DOMAIN K : Hung(K, n) => Hung(L, n)
  BY <1>6, <1>7 DEF Hung
<1> QED
  BY <1>0, <1>5, <1>11, <1>12 DEF N, OneMore

(* K without the r-th child of p. *)
Without(K, p, r) == [K EXCEPT ![p] = RemoveAt(@, r)]

(* g_node_unlink leaves a forest, and all but the unlinked node hang as
   before. *)
LEMMA UnlinkForest ==
    ASSUME NEW K, Forest(K), NEW p \in DOMAIN K, NEW r \in DOMAIN K[p],
           NEW L, L = Without(K, p, r)
    PROVE  /\ Forest(L) /\ Len(L) = Len(K) /\ DOMAIN L = DOMAIN K
           /\ ~Hung(L, K[p][r])
           /\ \A n : n # K[p][r] /\ Hung(K, n) => Hung(L, n)
           /\ \A q \in DOMAIN K \ {p} : L[q] = K[q]
           /\ L[p] = RemoveAt(K[p], r)
<1> DEFINE N == Len(K)
           V == 2..N
<1>1. /\ N \in Nat /\ DOMAIN K = 1..N
      /\ \A q \in DOMAIN K : K[q] \in Seq(V) /\ DOMAIN K[q] = 1..Len(K[q]) /\ Len(K[q]) \in Nat
  BY ForestFacts
<1>2. /\ \A q \in DOMAIN K : \A i \in DOMAIN K[q] : q < K[q][i]
      /\ \A q, s \in DOMAIN K : \A i \in DOMAIN K[q] : \A j \in DOMAIN K[s] :
            K[q][i] = K[s][j] => q = s /\ i = j
  BY DEF Forest
<1> HIDE DEF V, N
<1>3. r \in 1..Len(K[p]) /\ K[p] \in Seq(V)
  BY <1>1
<1>4. /\ RemoveAt(K[p], r) \in Seq(V)
      /\ \A j \in DOMAIN RemoveAt(K[p], r) : \E k \in DOMAIN K[p] :
            k # r /\ K[p][k] = RemoveAt(K[p], r)[j] /\ k = (IF j < r THEN j ELSE j + 1)
      /\ \A k \in DOMAIN K[p] : k # r => \E j \in DOMAIN RemoveAt(K[p], r) :
            RemoveAt(K[p], r)[j] = K[p][k] /\ j = (IF k < r THEN k ELSE k - 1)
  <2>1. RemoveAt(K[p], r) \in Seq(V)
    BY <1>3, RemoveAtProperties
  <2>2. Shortened(K[p], r, RemoveAt(K[p], r))
    BY <1>3, RemoveAtSet
  <2> QED
    BY <2>1, <2>2 DEF Shortened
<1>5. /\ L \in Seq(Seq(V)) /\ Len(L) = N /\ DOMAIN L = 1..N
      /\ \A q \in DOMAIN K \ {p} : L[q] = K[q]
      /\ L[p] = RemoveAt(K[p], r)
  <2>1. L \in [1..N -> Seq(V)]
    BY <1>1, <1>4 DEF Without
  <2> QED
    BY <1>1, <2>1 DEF Without
<1>6. ASSUME NEW q \in DOMAIN L, NEW i \in DOMAIN L[q]
      PROVE  \E k \in DOMAIN K[q] :
                /\ K[q][k] = L[q][i] /\ ~(q = p /\ k = r)
                /\ k = IF q # p \/ i < r THEN i ELSE i + 1
  <2>1. CASE q = p
    BY <1>4, <1>5, <2>1
  <2>2. CASE q # p
    BY <1>1, <1>5, <2>2
  <2> QED
    BY <2>1, <2>2
<1>7. \A q \in DOMAIN L : \A i \in DOMAIN L[q] : q < L[q][i]
  BY <1>1, <1>2, <1>5, <1>6
<1>8. ASSUME NEW q \in DOMAIN L, NEW s \in DOMAIN L, NEW i \in DOMAIN L[q], NEW j \in DOMAIN L[s],
             L[q][i] = L[s][j]
      PROVE  q = s /\ i = j
  <2>1. PICK k \in DOMAIN K[q] : /\ K[q][k] = L[q][i] /\ ~(q = p /\ k = r)
                                 /\ k = IF q # p \/ i < r THEN i ELSE i + 1
    BY <1>6
  <2>2. PICK l \in DOMAIN K[s] : /\ K[s][l] = L[s][j] /\ ~(s = p /\ l = r)
                                 /\ l = IF s # p \/ j < r THEN j ELSE j + 1
    BY <1>6
  <2>3. q = s /\ k = l
    BY <1>1, <1>2, <1>5, <1>8, <2>1, <2>2
  <2>4. i \in Nat /\ j \in Nat /\ r \in Nat
    <3>1. L[q] \in Seq(V) /\ L[s] \in Seq(V)
      BY <1>5
    <3> QED
      BY <1>3, <3>1
  <2> QED
    BY <2>1, <2>2, <2>3, <2>4
<1>9. Forest(L)
  <2>1. L \in Seq(Seq(2..Len(L)))
    BY <1>5 DEF V, N
  <2> QED
    BY <1>7, <1>8, <2>1 DEF Forest
<1>10. ~Hung(L, K[p][r])
  <2> SUFFICES ASSUME NEW q \in DOMAIN L, NEW i \in DOMAIN L[q], L[q][i] = K[p][r] PROVE FALSE
    BY DEF Hung
  <2>1. PICK k \in DOMAIN K[q] : K[q][k] = L[q][i] /\ ~(q = p /\ k = r)
    BY <1>6
  <2> QED
    BY <1>1, <1>2, <1>5, <2>1
<1>11. ASSUME NEW n, n # K[p][r], Hung(K, n) PROVE Hung(L, n)
  <2>0. PICK q \in DOMAIN K : \E k \in DOMAIN K[q] : K[q][k] = n
    BY <1>11 DEF Hung
  <2>1. PICK k \in DOMAIN K[q] : K[q][k] = n
    BY <2>0
  <2>2. CASE q = p
    <3>1. PICK j \in DOMAIN L[p] : L[p][j] = K[p][k]
      BY <1>4, <1>5, <1>11, <2>1, <2>2
    <3> QED
      BY <1>1, <1>5, <2>1, <2>2, <3>1 DEF Hung
  <2>3. CASE q # p
    BY <1>1, <1>5, <2>1, <2>3 DEF Hung
  <2> QED
    BY <2>2, <2>3
<1> QED
  BY <1>1, <1>5, <1>9, <1>10, <1>11 DEF N

(* K with c as the last child of p, and what is true of it then. *)
With(K, p, c) == [K EXCEPT ![p] = Append(@, c)]

Appended(K, p, c, L) ==
    /\ Forest(L) /\ Len(L) = Len(K) /\ DOMAIN L = DOMAIN K
    /\ Hung(L, c)
    /\ \A n : Hung(K, n) => Hung(L, n)
    /\ \A q \in DOMAIN K \ {p} : L[q] = K[q]
    /\ L[p] = Append(K[p], c)

(* A node that hangs nowhere, and is younger than p, is appended. *)
LEMMA AppendForest ==
    ASSUME NEW K, Forest(K), NEW p \in DOMAIN K, NEW c \in DOMAIN K, p < c, ~Hung(K, c)
    PROVE  Appended(K, p, c, With(K, p, c))
<1> PICK L : L = With(K, p, c)
  OBVIOUS
<1> DEFINE N == Len(K)
           V == 2..N
<1>1. /\ N \in Nat /\ DOMAIN K = 1..N
      /\ \A q \in DOMAIN K : K[q] \in Seq(V) /\ DOMAIN K[q] = 1..Len(K[q]) /\ Len(K[q]) \in Nat
  BY ForestFacts
<1>2. /\ \A q \in DOMAIN K : \A i \in DOMAIN K[q] : q < K[q][i]
      /\ \A q, s \in DOMAIN K : \A i \in DOMAIN K[q] : \A j \in DOMAIN K[s] :
            K[q][i] = K[s][j] => q = s /\ i = j
  BY DEF Forest
<1>3. c \in V /\ K[p] \in Seq(V)
  BY <1>1
<1> HIDE DEF V, N
<1>4. /\ Append(K[p], c) \in Seq(V) /\ DOMAIN Append(K[p], c) = 1..(Len(K[p]) + 1)
      /\ Append(K[p], c)[Len(K[p]) + 1] = c
      /\ \A i \in 1..Len(K[p]) : Append(K[p], c)[i] = K[p][i]
  BY <1>3
<1>5. /\ L \in Seq(Seq(V)) /\ Len(L) = N /\ DOMAIN L = 1..N
      /\ \A q \in DOMAIN K \ {p} : L[q] = K[q]
      /\ L[p] = Append(K[p], c)
  <2>1. L \in [1..N -> Seq(V)]
    BY <1>1, <1>4 DEF With
  <2> QED
    BY <1>1, <2>1 DEF With
<1>6. ASSUME NEW q \in DOMAIN L, NEW i \in DOMAIN L[q]
      PROVE  \/ i \in DOMAIN K[q] /\ L[q][i] = K[q][i]
             \/ q = p /\ i = Len(K[p]) + 1 /\ L[q][i] = c
  <2>1. CASE q = p
    <3>1. i \in 1..(Len(K[p]) + 1) /\ Len(K[p]) \in Nat /\ DOMAIN K[p] = 1..Len(K[p])
      BY <1>1, <1>4, <1>5, <2>1
    <3> QED
      BY <1>4, <1>5, <2>1, <3>1
  <2>2. CASE q # p
    BY <1>1, <1>5, <2>2
  <2> QED
    BY <2>1, <2>2
<1>7. \A q \in DOMAIN K : \A i \in DOMAIN K[q] : K[q][i] # c
  BY DEF Hung
<1>8. \A q \in DOMAIN L : \A i \in DOMAIN L[q] : q < L[q][i]
  BY <1>1, <1>2, <1>5, <1>6, SMTT(30)
<1>9. ASSUME NEW q \in DOMAIN L, NEW s \in DOMAIN L, NEW i \in DOMAIN L[q], NEW j \in DOMAIN L[s],
             L[q][i] = L[s][j]
      PROVE  q = s /\ i = j
  <2>1. CASE L[q][i] = c
    <3>1. q = p /\ i = Len(K[p]) + 1
      BY <1>1, <1>5, <1>6, <1>7, <2>1
    <3>2. s = p /\ j = Len(K[p]) + 1
      <4>1. s \in DOMAIN K /\ L[s][j] = c
        BY <1>1, <1>5, <1>9, <2>1
      <4> QED
        BY <1>6, <1>7, <4>1
    <3> QED
      BY <3>1, <3>2
  <2>2. CASE L[q][i] # c
    <3>1. i \in DOMAIN K[q] /\ L[q][i] = K[q][i]
      BY <1>6, <2>2
    <3>2. j \in DOMAIN K[s] /\ L[s][j] = K[s][j]
      BY <1>6, <1>9, <2>2
    <3>3. K[q][i] = K[s][j] /\ q \in DOMAIN K /\ s \in DOMAIN K
      BY <1>1, <1>5, <1>9, <3>1, <3>2
    <3> QED
      BY <1>2, <3>1, <3>2, <3>3
  <2> QED
    BY <2>1, <2>2
<1>10. Forest(L)
  <2>1. L \in Seq(Seq(2..Len(L)))
    BY <1>5 DEF V, N
  <2> QED
    BY <1>8, <1>9, <2>1 DEF Forest
<1>11. Hung(L, c)
  <2>1. Len(K[p]) + 1 \in DOMAIN L[p] /\ L[p][Len(K[p]) + 1] = c
    BY <1>1, <1>4, <1>5
  <2> QED
    BY <1>1, <1>5, <2>1 DEF Hung
<1>12. ASSUME NEW n, Hung(K, n) PROVE Hung(L, n)
  <2>0. PICK q \in DOMAIN K : \E k \in DOMAIN K[q] : K[q][k] = n
    BY <1>12 DEF Hung
  <2>1. PICK k \in DOMAIN K[q] : K[q][k] = n
    BY <2>0
  <2>2. k \in DOMAIN L[q] /\ L[q][k] = n
    <3>1. CASE q = p
      <4>1. k \in 1..Len(K[p]) /\ Len(K[p]) \in Nat
        BY <1>1, <2>1, <3>1
      <4> QED
        BY <1>4, <1>5, <2>1, <3>1, <4>1
    <3>2. CASE q # p
      BY <1>5, <2>1, <3>2
    <3> QED
      BY <3>1, <3>2
  <2> QED
    BY <1>1, <1>5, <2>2 DEF Hung
<1> QED
  BY <1>1, <1>5, <1>10, <1>11, <1>12 DEF N, Appended

(* K with the r-th child of n moved behind the children of p, and what is
   true of it then. *)
Relocate(K, p, n, r) == [K EXCEPT ![p] = Append(@, K[n][r]), ![n] = RemoveAt(@, r)]

Relocated(K, p, n, r, L) ==
    /\ Forest(L) /\ Len(L) = Len(K) /\ DOMAIN L = DOMAIN K
    /\ \A m : Hung(K, m) => Hung(L, m)
    /\ \A q \in DOMAIN K \ {p, n} : L[q] = K[q]
    /\ L[p] = Append(K[p], K[n][r]) /\ L[n] = RemoveAt(K[n], r)

(* A child of n is moved to an older node, and hangs there. *)
LEMMA MoveForest ==
    ASSUME NEW K, Forest(K), NEW p \in DOMAIN K, NEW n \in DOMAIN K, p < n,
           NEW r \in DOMAIN K[n]
    PROVE  Relocated(K, p, n, r, Relocate(K, p, n, r))
<1>0. PICK L : L = Relocate(K, p, n, r)
  OBVIOUS
<1> DEFINE c == K[n][r]
           M == Without(K, n, r)
<1>1. /\ Forest(M) /\ Len(M) = Len(K) /\ DOMAIN M = DOMAIN K /\ ~Hung(M, c)
      /\ \A m : m # c /\ Hung(K, m) => Hung(M, m)
      /\ \A q \in DOMAIN K \ {n} : M[q] = K[q]
      /\ M[n] = RemoveAt(K[n], r)
  BY UnlinkForest
<1>2. DOMAIN K \subseteq Nat /\ c \in DOMAIN K /\ n < c /\ p # n /\ p < c
  <2>1. c \in DOMAIN K /\ DOMAIN K = 1..Len(K) /\ Len(K) \in Nat
    BY ForestFacts
  <2>2. n < c
    BY DEF Forest
  <2> QED
    BY <2>1, <2>2
<1>3. L = With(M, p, c)
  <2>1. /\ DOMAIN L = DOMAIN K
        /\ \A q \in DOMAIN K : L[q] = IF q = n THEN RemoveAt(K[n], r)
                                      ELSE IF q = p THEN Append(K[p], c) ELSE K[q]
    BY <1>0, <1>2 DEF Relocate
  <2> QED
    BY <1>0, <1>2, <2>1 DEF With, Without, Relocate
<1> HIDE DEF M, c
<1>4. /\ Forest(L) /\ Len(L) = Len(M) /\ DOMAIN L = DOMAIN M /\ Hung(L, c)
      /\ \A m : Hung(M, m) => Hung(L, m)
      /\ \A q \in DOMAIN M \ {p} : L[q] = M[q]
      /\ L[p] = Append(M[p], c)
  <2>1. p \in DOMAIN M /\ c \in DOMAIN M /\ p < c /\ Forest(M) /\ ~Hung(M, c)
    BY <1>1, <1>2
  <2>2. Appended(M, p, c, With(M, p, c))
    BY <2>1, AppendForest
  <2>3. Appended(M, p, c, L)
    BY <1>3, <2>2, Zenon
  <2> QED
    BY <2>3 DEF Appended
<1> QED
  BY <1>0, <1>1, <1>2, <1>4 DEF c, Relocated

-----------------------------------------------------------------------------
(* The tree and its document.                                              *)

(* The types of the tree. *)
LEMMA TreeShapeFacts ==
    ASSUME TreeShape
    PROVE  /\ Len(tree.data) \in Nat /\ Nodes = 1..Len(tree.data) /\ New \notin Nodes /\ 1 \in Nodes
           /\ DOMAIN tree.kids = Nodes /\ Forest(tree.kids)
           /\ tree = [data |-> tree.data, kids |-> tree.kids]
           /\ \A n \in Nodes : /\ tree.data[n] \in STRING \cup {NULL}
                               /\ tree.kids[n] \in Seq(Nodes \ {1}) /\ DOMAIN tree.kids[n] = 1..Len(tree.kids[n])
                               /\ Len(tree.kids[n]) \in Nat
           /\ \A n \in Nodes : \A i \in DOMAIN tree.kids[n] :
                 tree.kids[n][i] \in Nodes \ {1} /\ n < tree.kids[n][i]
<1>1. /\ tree.data \in Seq(STRING \cup {NULL}) /\ tree.kids \in Seq(Seq(Nat))
      /\ tree = [data |-> tree.data, kids |-> tree.kids]
  BY DEF TreeShape
<1>2. /\ Len(tree.data) \in Nat /\ Nodes = 1..Len(tree.data) /\ New \notin Nodes /\ 1 \in Nodes
      /\ \A n \in Nodes : tree.data[n] \in STRING \cup {NULL}
  BY <1>1 DEF TreeShape, Nodes, New
<1>3. Forest(tree.kids) /\ Len(tree.kids) = Len(tree.data)
  BY DEF TreeShape
<1>4. /\ DOMAIN tree.kids = 1..Len(tree.kids)
      /\ \A p \in DOMAIN tree.kids : /\ tree.kids[p] \in Seq(2..Len(tree.kids))
                                     /\ DOMAIN tree.kids[p] = 1..Len(tree.kids[p])
                                     /\ Len(tree.kids[p]) \in Nat
      /\ \A p \in DOMAIN tree.kids : \A i \in DOMAIN tree.kids[p] :
            tree.kids[p][i] \in DOMAIN tree.kids /\ tree.kids[p][i] # 1
  BY <1>3, ForestFacts
<1>5. \A p \in DOMAIN tree.kids : \A i \in DOMAIN tree.kids[p] : p < tree.kids[p][i]
  BY <1>3 DEF Forest
<1>6. Nodes \ {1} = 2..Len(tree.kids)
  BY <1>2, <1>3
<1> QED
  BY <1>1, <1>2, <1>3, <1>4, <1>5, <1>6

(* GNode's parent is the node of which it is a child. *)
LEMMA ParentIs ==
    ASSUME TreeShape, NEW n, NEW p \in Nodes, NEW i \in DOMAIN tree.kids[p], tree.kids[p][i] = n
    PROVE  Parent(n) = p /\ p < n
<1>1. DOMAIN tree.kids = Nodes /\ \A q \in Nodes : DOMAIN tree.kids[q] = 1..Len(tree.kids[q])
  BY TreeShapeFacts
<1>2. \A q \in Nodes : Contains(tree.kids[q], n) = \E j \in DOMAIN tree.kids[q] : tree.kids[q][j] = n
  BY <1>1 DEF Contains
<1>3. ASSUME NEW q \in Nodes, Contains(tree.kids[q], n) PROVE q = p
  <2>1. PICK j \in DOMAIN tree.kids[q] : tree.kids[q][j] = n
    BY <1>2, <1>3
  <2>2. tree.kids[q][j] = tree.kids[p][i] => q = p
    BY <1>1 DEF TreeShape, Forest
  <2> QED
    BY <2>1, <2>2
<1>4. p \in Nodes /\ Contains(tree.kids[p], n)
  BY <1>2
<1>5. p < n
  BY <1>1 DEF TreeShape, Forest
<1> QED
  BY <1>3, <1>4, <1>5 DEF Parent

(* A forest that is the tree after a step. *)
LEMMA ForestNext ==
    ASSUME NEW L, Forest(L), tree'.kids = L
    PROVE  Forest(tree.kids)' /\ tree'.kids \in Seq(Seq(Nat))
<1>1. Forest(tree.kids)'
  BY DEF Forest
<1>2. Len(L) \in Nat /\ DOMAIN L = 1..Len(L) /\ \A q \in DOMAIN L : L[q] \in Seq(2..Len(L))
  BY ForestFacts
<1>3. 2..Len(L) \subseteq Nat
  OBVIOUS
<1>4. \A q \in DOMAIN L : L[q] \in Seq(Nat)
  BY <1>2, <1>3, SeqMonotonic
<1>5. L \in Seq(Seq(2..Len(L)))
  BY DEF Forest
<1>6. L \in Seq(Seq(Nat))
  BY <1>2, <1>4, <1>5
<1> QED
  BY <1>1, <1>6

(* The types of the events, and where starts and ends may be. *)
LEMMA EventFacts ==
    ASSUME Context
    PROVE  /\ events \in Seq([type : EventTypes, text : STRING]) /\ Len(events) > 0
           /\ Len(events) \in Nat /\ read \in Nat
           /\ \A i \in 1..Len(events) : /\ events[i].type \in EventTypes /\ events[i].text \in STRING
                                        /\ (events[i].type = "stream_end") = (i = Len(events))
                                        /\ Number(events, i, {"end"}) <= Number(events, i, Starts)
<1>1. /\ events \in Seq([type : EventTypes, text : STRING]) /\ Len(events) > 0
      /\ \A i \in 1..Len(events) : (events[i].type = "stream_end") = (i = Len(events))
      /\ \A i \in 1..Len(events) : Number(events, i, {"end"}) <= Number(events, i, Starts)
  BY EventsAssumption DEF Context
<1>2. Len(events) \in Nat /\ read \in Nat
  BY <1>1 DEF Context
<1>3. \A i \in 1..Len(events) : events[i] \in [type : EventTypes, text : STRING]
  <2> DEFINE T == [type : EventTypes, text : STRING]
  <2>1. events \in Seq(T)
    BY <1>1
  <2> HIDE DEF T
  <2>2. \A i \in 1..Len(events) : events[i] \in T
    BY <2>1
  <2> QED
    BY <2>2 DEF T
<1> QED
  BY <1>1, <1>2, <1>3

(* yaml_parser_parse has returned one more event. *)
LEMMA ParseFacts ==
    ASSUME Context, Calls, NEW type, Parse(type)
    PROVE  /\ stage = "parse" /\ read' = read + 1 /\ events' = events /\ document' = document
           /\ read + 1 \in 1..Len(events) /\ events[read + 1].type = type /\ Text \in STRING
           /\ read \in Nat
           /\ type \in EventTypes
           /\ type # "stream_end" => read + 1 < Len(events)
           /\ stage' \in {"parse", "simplify", "process"} => Context'
<1>1. stage = "parse" /\ read' = read + 1 /\ UNCHANGED <<document, events, broken>>
      /\ events[read + 1].type = type
  BY DEF Parse
<1>2. read < Len(events)
  BY <1>1 DEF Calls
<1>3. read + 1 \in 1..Len(events) /\ read \in Nat
  BY <1>2, EventFacts DEF Context
<1>4. Text \in STRING /\ type \in EventTypes /\ (type = "stream_end") = (read + 1 = Len(events))
  BY <1>1, <1>3, EventFacts DEF Text
<1>5. type # "stream_end" => read + 1 < Len(events)
  BY <1>3, <1>4, EventFacts
<1>6. read' \in 0..Len(events)'
  BY <1>1, <1>3
<1>7. stage' \in {"parse", "simplify", "process"} => Context'
  BY <1>1, <1>6 DEF Context
<1> QED
  BY <1>1, <1>3, <1>4, <1>5, <1>7

(* How the event changes the number of sequences and mappings that are open. *)
LEMMA DepthNext ==
    ASSUME Context, Calls, NEW type, Parse(type)
    PROVE  /\ type \in Starts => 1 + Number(events, read + 1, Starts) - Number(events, read + 1, {"end"}) = Len(frames) + 1
           /\ type = "end" => /\ 1 + Number(events, read + 1, Starts) - Number(events, read + 1, {"end"}) = Len(frames) - 1
                              /\ Len(frames) > 1
           /\ type \notin Starts \cup {"end"} =>
                1 + Number(events, read + 1, Starts) - Number(events, read + 1, {"end"}) = Len(frames)
<1> DEFINE S(i) == Number(events, i, Starts)
           E(i) == Number(events, i, {"end"})
<1>1. /\ stage = "parse" /\ read \in Nat /\ read + 1 \in 1..Len(events) /\ events[read + 1].type = type
      /\ Len(frames) = 1 + S(read) - E(read)
  BY ParseFacts DEF Calls
<1>2. /\ S(read) \in Nat
      /\ type \in Starts => S(read + 1) = S(read) + 1
      /\ type \notin Starts => S(read + 1) = S(read)
  BY <1>1, NumberNext
<1>3. /\ E(read) \in Nat
      /\ type = "end" => E(read + 1) = E(read) + 1
      /\ type # "end" => E(read + 1) = E(read)
  BY <1>1, NumberNext
<1>4. E(read + 1) <= S(read + 1)
  BY <1>1, EventFacts
<1>5. "end" \notin Starts
  BY DEF Starts
<1> HIDE DEF S, E
<1>6. /\ type \in Starts => 1 + S(read + 1) - E(read + 1) = Len(frames) + 1
      /\ type = "end" => 1 + S(read + 1) - E(read + 1) = Len(frames) - 1 /\ Len(frames) > 1
      /\ type \notin Starts \cup {"end"} => 1 + S(read + 1) - E(read + 1) = Len(frames)
  BY <1>1, <1>2, <1>3, <1>4, <1>5
<1> QED
  BY <1>6 DEF S, E

(* g_node_append of a new node keeps the tree well-formed. *)
LEMMA GrowKeeps ==
    ASSUME TreeShape, Attached, stage = "parse", stage' = stage,
           NEW p \in Nodes, NEW x \in STRING \cup {NULL}, Grow(x, p)
    PROVE  /\ TreeShape' /\ Attached'
           /\ Nodes' = Nodes \cup {New} /\ New \in Nodes' /\ New # 1 /\ New \notin Nodes
           /\ Len(tree.data)' = New /\ New = Len(tree.data) + 1
           /\ tree'.data[New] = x /\ \A n \in Nodes : tree'.data[n] = tree.data[n]
<1> PICK K, D, L, E : K = tree.kids /\ D = tree.data /\ L = tree'.kids /\ E = tree'.data
  OBVIOUS
<1>1. /\ Forest(K) /\ Len(K) = Len(D) /\ D \in Seq(STRING \cup {NULL}) /\ Len(D) > 0 /\ D[1] # NULL
      /\ Len(D) \in Nat /\ DOMAIN K = 1..Len(D) /\ DOMAIN D = 1..Len(D) /\ p \in DOMAIN K
      /\ New = Len(D) + 1 /\ Nodes = DOMAIN D /\ Nodes' = DOMAIN E
  BY TreeShapeFacts DEF TreeShape, New, Nodes
<1>2. L = Append([K EXCEPT ![p] = Append(@, Len(K) + 1)], <<>>) /\ E = Append(D, x)
      /\ tree' = [data |-> E, kids |-> L]
  BY <1>1 DEF Grow
<1>3. /\ E \in Seq(STRING \cup {NULL}) /\ Len(E) = Len(D) + 1 /\ E[Len(D) + 1] = x
      /\ \A n \in 1..Len(D) : E[n] = D[n]
      /\ DOMAIN E = 1..(Len(D) + 1)
  BY <1>1, <1>2
<1>4. /\ Forest(L) /\ Len(L) = Len(K) + 1
      /\ Hung(L, Len(L))
      /\ \A n \in DOMAIN K : Hung(K, n) => Hung(L, n)
  <2>1. L = Grown(K, p)
    BY <1>2 DEF Grown
  <2>2. OneMore(K, L)
    BY <1>1, <2>1, GrowForest
  <2> QED
    BY <2>2 DEF OneMore
<1>5. L \in Seq(Seq(Nat))
  <2>1. Len(L) \in Nat /\ DOMAIN L = 1..Len(L) /\ \A q \in DOMAIN L : L[q] \in Seq(2..Len(L))
    BY <1>4, ForestFacts
  <2>2. 2..Len(L) \subseteq Nat
    OBVIOUS
  <2>3. \A q \in DOMAIN L : L[q] \in Seq(Nat)
    BY <2>1, <2>2, SeqMonotonic
  <2>4. L \in Seq(Seq(2..Len(L)))
    BY <1>4 DEF Forest
  <2> QED
    BY <2>1, <2>3, <2>4
<1>6. TreeShape'
  <2>1. tree' \in [data : Seq(STRING \cup {NULL}), kids : Seq(Seq(Nat))]
    BY <1>2, <1>3, <1>5
  <2>2. Len(L) = Len(E) /\ Len(E) > 0 /\ E[1] # NULL /\ Forest(L)
    BY <1>1, <1>3, <1>4
  <2> QED
    BY <2>1, <2>2 DEF TreeShape
<1>7. Attached'
  <2>1. \A n \in DOMAIN K : n # 1 => Hung(K, n)
    BY <1>1 DEF Attached
  <2>2. ASSUME NEW n \in DOMAIN E, n # 1
        PROVE  Hung(L, n)
    BY <1>1, <1>3, <1>4, <2>1, <2>2
  <2> QED
    BY <1>1, <2>2 DEF Attached
<1> QED
  BY <1>1, <1>3, <1>6, <1>7

(* A node below p has been made for the event that has been read. *)
Made(p) ==
    /\ Context' /\ TreeShape' /\ Attached' /\ Numbered'
    /\ Nodes \subseteq Nodes' /\ New \in Nodes' /\ New # 1 /\ p \in Nodes'

(* A scalar and the start of a sequence or mapping make one node. *)
LEMMA NodeMade ==
    ASSUME Context, TreeShape, Attached, Numbered, Calls,
           NEW type \in Starts \cup {"scalar"}, Parse(type), stage' = stage,
           NEW p \in Nodes, Grow(IF type = "scalar" THEN Text ELSE NULL, p)
    PROVE  Made(p)
<1> DEFINE x == IF type = "scalar" THEN Text ELSE NULL
<1>1. /\ stage = "parse" /\ read' = read + 1 /\ events' = events
      /\ read + 1 \in 1..Len(events) /\ events[read + 1].type = type /\ Text \in STRING
      /\ read \in Nat /\ Context'
  BY ParseFacts DEF Context
<1>2. x \in STRING \cup {NULL} /\ (type = "scalar" => x = events[read + 1].text) /\ (x # NULL => type = "scalar")
  BY <1>1 DEF Text
<1>3. Grow(x, p)
  OBVIOUS
<1> HIDE DEF x
<1>4. /\ TreeShape' /\ Attached'
      /\ Nodes' = Nodes \cup {New} /\ New \in Nodes' /\ New # 1 /\ New \notin Nodes
      /\ Len(tree.data)' = New /\ New = Len(tree.data) + 1
      /\ tree'.data[New] = x /\ \A n \in Nodes : tree'.data[n] = tree.data[n]
  BY <1>1, <1>2, <1>3, GrowKeeps
<1>5. NodeOf(read + 1) = NodeOf(read) + 1 /\ NodeOf(read) \in Nat
  <2>1. /\ Number(events, read, Starts \cup {"scalar"}) \in Nat
        /\ Number(events, read + 1, Starts \cup {"scalar"}) = Number(events, read, Starts \cup {"scalar"}) + 1
    BY <1>1, NumberNext
  <2> QED
    BY <2>1 DEF NodeOf
<1>6. NodeOf(read + 1) = New
  BY <1>4, <1>5 DEF Numbered
<1>7. \A i : NodeOf(i)' = NodeOf(i)
  BY <1>1 DEF NodeOf
<1>8. Numbered'
  <2>1. (Len(tree.data) = NodeOf(read))'
    BY <1>1, <1>4, <1>6 DEF NodeOf
  <2>2. ASSUME NEW i \in 1..(read + 1), events[i].type = "scalar"
        PROVE  NodeOf(i) \in Nodes' /\ tree'.data[NodeOf(i)] = events[i].text
    <3>1. CASE i = read + 1
      BY <1>1, <1>2, <1>4, <1>6, <2>2, <3>1
    <3>2. CASE i # read + 1
      <4>1. i \in 1..read
        BY <1>1, <3>2
      <4>2. NodeOf(i) \in Nodes /\ tree.data[NodeOf(i)] = events[i].text
        BY <2>2, <4>1 DEF Numbered
      <4> QED
        BY <1>4, <4>2
    <3> QED
      BY <3>1, <3>2
  <2>3. ASSUME NEW n \in Nodes' \ {1}, tree'.data[n] # NULL
        PROVE  \E i \in 1..(read + 1) : events[i].type = "scalar" /\ NodeOf(i) = n
    <3>1. CASE n = New
      BY <1>1, <1>2, <1>4, <1>6, <2>3, <3>1
    <3>2. CASE n # New
      <4>1. n \in Nodes \ {1} /\ tree.data[n] # NULL
        BY <1>4, <2>3, <3>2
      <4>2. PICK i \in 1..read : events[i].type = "scalar" /\ NodeOf(i) = n
        BY <4>1 DEF Numbered
      <4>3. i \in 1..(read + 1)
        BY <1>1
      <4> QED
        BY <4>2, <4>3
    <3> QED
      BY <3>1, <3>2
  <2> QED
    BY <1>1, <1>7, <2>1, <2>2, <2>3 DEF Numbered
<1> QED
  BY <1>1, <1>4, <1>8 DEF Made

(* Any other event makes none. *)
LEMMA NoneMade ==
    ASSUME Context, TreeShape, Attached, Numbered, Calls,
           NEW type \in EventTypes \ (Starts \cup {"scalar"}), Parse(type), UNCHANGED tree,
           stage' = stage \/ stage' = "simplify"
    PROVE  Context' /\ TreeShape' /\ Attached' /\ Numbered'
<1>1. /\ stage = "parse" /\ read' = read + 1 /\ events' = events
      /\ events[read + 1].type = type
      /\ read \in Nat /\ Context'
  BY ParseFacts DEF Context
<1>2. TreeShape' /\ Nodes' = Nodes
  BY DEF TreeShape, Nodes
<1>3. Attached'
  BY <1>1, <1>2 DEF Attached
<1>4. NodeOf(read + 1) = NodeOf(read)
  BY <1>1, NumberNext DEF NodeOf
<1>5. \A i : NodeOf(i)' = NodeOf(i)
  BY <1>1 DEF NodeOf
<1>6. Numbered'
  <2>1. (Len(tree.data) = NodeOf(read))'
    BY <1>1, <1>4 DEF NodeOf, Numbered
  <2>2. ASSUME NEW i \in 1..(read + 1), events[i].type = "scalar"
        PROVE  NodeOf(i) \in Nodes /\ tree.data[NodeOf(i)] = events[i].text
    <3>1. i # read + 1
      BY <1>1, <2>2
    <3>2. i \in 1..read
      BY <1>1, <3>1
    <3> QED
      BY <2>2, <3>2 DEF Numbered
  <2>3. ASSUME NEW n \in Nodes \ {1}, tree.data[n] # NULL
        PROVE  \E i \in 1..(read + 1) : events[i].type = "scalar" /\ NodeOf(i) = n
    <3>1. PICK i \in 1..read : events[i].type = "scalar" /\ NodeOf(i) = n
      BY <2>3 DEF Numbered
    <3>2. i \in 1..(read + 1)
      BY <1>1
    <3> QED
      BY <3>1, <3>2
  <2> QED
    BY <1>1, <1>2, <1>5, <2>1, <2>2, <2>3 DEF Numbered
<1> QED
  BY <1>1, <1>2, <1>3, <1>6

-----------------------------------------------------------------------------
(* Nested calls of cloud_config_parse.                                     *)

(* A call stays one when there are more nodes. *)
LEMMA CallsMonotonic ==
    ASSUME NEW N, NEW M, N \subseteq M
    PROVE  Seq(CallsOf(N)) \subseteq Seq(CallsOf(M))
<1> CallsOf(N) \subseteq CallsOf(M)
  BY DEF CallsOf
<1> QED
  BY SeqMonotonic

(* The innermost call has changed. *)
LEMMA SetFrameKeeps ==
    ASSUME NEW N, NEW F \in Seq(CallsOf(N)), F # <<>>, Nested(F),
           NEW f \in CallsOf(N), f.node = Last(F).node,
           NEW G, G = Append(Front(F), f)
    PROVE  G \in Seq(CallsOf(N)) /\ Len(G) = Len(F) /\ G # <<>> /\ Nested(G)
<1> DEFINE T == CallsOf(N)
<1>1. F \in Seq(T) /\ f \in T /\ Len(F) \in Nat \ {0} /\ Last(F) = F[Len(F)]
  BY FrontLast
<1> HIDE DEF T
<1>2. /\ G \in Seq(T) /\ Len(G) = Len(F) /\ G[Len(F)] = f /\ G # <<>>
      /\ \A i \in 1..(Len(F) - 1) : G[i] = F[i]
  <2>1. SameBut(F, f, G) /\ G \in Seq(T)
    BY <1>1, Replaced
  <2> QED
    BY <2>1 DEF SameBut
<1>3. ASSUME NEW i \in 1..(Len(F) - 1)
      PROVE  G[i].last_leaf = G[i + 1].node /\ G[i + 1].node # 1
  <2>1. G[i] = F[i] /\ F[i].last_leaf = F[i + 1].node /\ F[i + 1].node # 1
    BY <1>2 DEF Nested
  <2>2. CASE i + 1 = Len(F)
    BY <1>1, <1>2, <2>1, <2>2
  <2>3. CASE i + 1 # Len(F)
    <3>1. i + 1 \in 1..(Len(F) - 1)
      BY <1>1, <2>3
    <3> QED
      BY <1>2, <2>1, <3>1
  <2> QED
    BY <2>2, <2>3
<1> QED
  BY <1>2, <1>3 DEF Nested, T

(* G is F with one more call. *)
Called(N, F, G) == G \in Seq(CallsOf(N)) /\ Len(G) = Len(F) + 1 /\ G # <<>> /\ Nested(G)

(* The innermost call makes another one. *)
LEMMA CallKeeps ==
    ASSUME NEW N, NEW F \in Seq(CallsOf(N)), F # <<>>, Nested(F),
           NEW f \in CallsOf(N), f.node = Last(F).node,
           NEW g \in CallsOf(N), g.node = f.last_leaf, g.node # 1
    PROVE  Called(N, F, Append(Append(Front(F), f), g))
<1>0. PICK G : G = Append(Append(Front(F), f), g)
  OBVIOUS
<1> DEFINE T == CallsOf(N)
           H == Append(Front(F), f)
<1>1. H \in Seq(T) /\ Len(H) = Len(F) /\ H # <<>> /\ Nested(H) /\ H[Len(H)] = f /\ Len(H) \in Nat \ {0}
  <2>1. H \in Seq(T) /\ Len(H) = Len(F) /\ H # <<>> /\ Nested(H)
    BY SetFrameKeeps
  <2>2. H[Len(F)] = f
    <3>1. SameBut(F, f, H)
      BY Replaced
    <3> QED
      BY <3>1 DEF SameBut
  <2> QED
    BY <2>1, <2>2
<1> HIDE DEF H, T
<1>2. g \in T
  BY DEF T
<1>3. G = Append(H, g)
  BY <1>0 DEF H
<1>4. /\ G \in Seq(T) /\ Len(G) = Len(H) + 1 /\ G[Len(H) + 1] = g
      /\ \A i \in 1..Len(H) : G[i] = H[i]
  BY <1>1, <1>2, <1>3
<1>5. ASSUME NEW i \in 1..Len(H)
      PROVE  G[i].last_leaf = G[i + 1].node /\ G[i + 1].node # 1
  <2>1. CASE i = Len(H)
    BY <1>1, <1>4, <2>1
  <2>2. CASE i # Len(H)
    <3>1. i + 1 \in 1..Len(H) /\ i \in 1..(Len(H) - 1)
      BY <1>1, <2>2
    <3>2. H[i].last_leaf = H[i + 1].node /\ H[i + 1].node # 1
      BY <1>1, <3>1 DEF Nested
    <3> QED
      BY <1>4, <3>1, <3>2
  <2> QED
    BY <2>1, <2>2
<1>6. Nested(G)
  BY <1>1, <1>4, <1>5 DEF Nested
<1> QED
  BY <1>0, <1>1, <1>4, <1>6 DEF T, Called

(* The innermost call returns. *)
LEMMA ReturnKeeps ==
    ASSUME NEW N, NEW F \in Seq(CallsOf(N)), Nested(F), Len(F) > 1,
           NEW f \in CallsOf(N), f.node = F[Len(F) - 1].node,
           NEW G, G = Append(Front(Front(F)), f)
    PROVE  /\ G \in Seq(CallsOf(N)) /\ Len(G) = Len(F) - 1 /\ G # <<>> /\ Nested(G)
           /\ Last(Front(F)) = F[Len(F) - 1]
<1> DEFINE T == CallsOf(N)
           H == Front(F)
<1>1. F \in Seq(T) /\ F # <<>> /\ Len(F) \in Nat
  OBVIOUS
<1>2. H \in Seq(T) /\ Len(H) = Len(F) - 1 /\ \A i \in 1..(Len(F) - 1) : H[i] = F[i]
  BY <1>1, FrontLast
<1>3. H # <<>> /\ Last(H) = H[Len(H)] /\ H[Len(H)] = F[Len(F) - 1]
  <2>1. H # <<>>
    BY <1>1, <1>2
  <2>2. Last(H) = H[Len(H)]
    BY <1>2, <2>1, FrontLast
  <2> QED
    BY <1>1, <1>2, <2>1, <2>2
<1>4. Nested(H)
  <2>1. \A i \in 1..(Len(H) - 1) : /\ i \in 1..(Len(F) - 1) /\ i + 1 \in 1..(Len(F) - 1)
    BY <1>1, <1>2
  <2> QED
    BY <1>2, <2>1 DEF Nested
<1>5. f.node = Last(H).node
  BY <1>3
<1>6. G = Append(Front(H), f)
  OBVIOUS
<1> HIDE DEF H, T
<1>7. H \in Seq(CallsOf(N))
  BY <1>2 DEF T
<1>8. G \in Seq(CallsOf(N)) /\ Len(G) = Len(H) /\ G # <<>> /\ Nested(G)
  BY <1>3, <1>4, <1>5, <1>6, <1>7, SetFrameKeeps
<1> QED
  BY <1>2, <1>3, <1>8 DEF H

(* The types of the innermost call. *)
LEMMA FrameFacts ==
    ASSUME Built, Calls, stage = "parse"
    PROVE  /\ Frame \in CallsOf(Nodes) /\ Frame.node \in Nodes /\ Frame.last_leaf \in Nodes
           /\ Frame.state \in States /\ Frame = [node |-> Frame.node, last_leaf |-> Frame.last_leaf, state |-> Frame.state]
<1>1. frames \in Seq(CallsOf(Nodes)) /\ frames # <<>>
  BY DEF Calls
<1>2. Frame \in CallsOf(Nodes)
  BY <1>1, FrontLast DEF Frame
<1> QED
  BY <1>2 DEF CallsOf

(* The bits that may be set together. *)
LEMMA StateSteps ==
    ASSUME NEW s \in States
    PROVE  /\ s \cap {"MAP", "SEQ"} \in States /\ (IF "MAP" \in s THEN {"MAP"} ELSE s) \in States
           /\ "SEQ" \notin s => s \cup {"VAL"} \in States
           /\ {"SEQ"} \in States /\ {"MAP"} \in States
BY DEF States

(* 184-194: a scalar leaves the calls nested. *)
LEMMA SetFrameCalls ==
    ASSUME Built, Calls, NEW type \in EventTypes \ (Starts \cup {"end", "stream_end"}), Parse(type), stage' = stage,
           Nodes \subseteq Nodes',
           NEW f \in CallsOf(Nodes'), f.node = Frame.node, SetFrame(f)
    PROVE  Calls'
<1>1. /\ stage = "parse" /\ read + 1 < Len(events) /\ events' = events /\ read' = read + 1
      /\ 1 + Number(events, read + 1, Starts) - Number(events, read + 1, {"end"}) = Len(frames)
  BY ParseFacts, DepthNext DEF Built
<1>2. frames \in Seq(CallsOf(Nodes)) /\ frames # <<>> /\ Nested(frames)
  BY <1>1 DEF Calls
<1>3. frames \in Seq(CallsOf(Nodes'))
  BY <1>2, CallsMonotonic
<1>4. PICK N : N = Nodes'
  OBVIOUS
<1>5. f.node = Last(frames).node /\ frames' = Append(Front(frames), f)
  BY DEF Frame, SetFrame
<1>6. frames' \in Seq(CallsOf(N)) /\ Len(frames') = Len(frames) /\ frames' # <<>> /\ Nested(frames')
  BY <1>2, <1>3, <1>4, <1>5, SetFrameKeeps
<1>7. Nested(frames)' /\ (frames \in Seq(CallsOf(Nodes)))'
  BY <1>4, <1>6 DEF Nested, CallsOf
<1> QED
  BY <1>1, <1>6, <1>7 DEF Calls

(* 196-205, 215-217: so does the start of a sequence or mapping. *)
LEMMA CallCalls ==
    ASSUME Built, Calls, NEW type \in Starts, Parse(type), stage' = stage,
           Nodes \subseteq Nodes',
           NEW f \in CallsOf(Nodes'), f.node = Frame.node, f.last_leaf # 1,
           NEW s \in States, Call(f, s)
    PROVE  Calls'
<1>1. /\ stage = "parse" /\ events' = events /\ read' = read + 1
      /\ 1 + Number(events, read + 1, Starts) - Number(events, read + 1, {"end"}) = Len(frames) + 1
  BY ParseFacts, DepthNext DEF Built
<1>2. read + 1 < Len(events)
  BY ParseFacts DEF Built, Starts
<1>3. frames \in Seq(CallsOf(Nodes)) /\ frames # <<>> /\ Nested(frames)
  BY <1>1 DEF Calls
<1>4. PICK N : N = Nodes'
  OBVIOUS
<1>5. frames \in Seq(CallsOf(N))
  BY <1>3, <1>4, CallsMonotonic
<1>6. PICK g : g = [node |-> f.last_leaf, last_leaf |-> f.last_leaf, state |-> s]
  OBVIOUS
<1>7. g \in CallsOf(N) /\ g.node = f.last_leaf /\ g.node # 1
  BY <1>4, <1>6 DEF CallsOf
<1>8. f.node = Last(frames).node /\ frames' = Append(Append(Front(frames), f), g)
  BY <1>6 DEF Frame, Call
<1>9. frames' \in Seq(CallsOf(N)) /\ Len(frames') = Len(frames) + 1 /\ frames' # <<>> /\ Nested(frames')
  <2>1. f \in CallsOf(N) /\ f.last_leaf # 1
    BY <1>4
  <2>2. Called(N, frames, Append(Append(Front(frames), f), g))
    BY <1>3, <1>5, <1>7, <1>8, <2>1, CallKeeps
  <2> QED
    BY <1>8, <2>2 DEF Called
<1>10. Nested(frames)' /\ (frames \in Seq(CallsOf(Nodes)))'
  BY <1>4, <1>9 DEF Nested, CallsOf
<1> QED
  BY <1>1, <1>2, <1>9, <1>10 DEF Calls

-----------------------------------------------------------------------------
(* Steps of cloud_config_parse.                                            *)

(* 184-194: the invariant after a scalar. *)
LEMMA ScalarKeeps ==
    ASSUME Built, Calls, parse_scalar
    PROVE  Built' /\ Calls'
<1>1. /\ Parse("scalar") /\ stage = "parse" /\ stage' = stage /\ "scalar" \in EventTypes \ (Starts \cup {"end", "stream_end"})
      /\ "scalar" \in Starts \cup {"scalar"}
  BY DEF parse_scalar, Parse, EventTypes, Starts
<1>2. ASSUME NEW p \in Nodes, Grow(Text, p)
      PROVE  Built' /\ Nodes \subseteq Nodes' /\ New \in Nodes'
  <2>1. Grow(IF "scalar" = "scalar" THEN Text ELSE NULL, p)
    BY <1>2
  <2> QED
    BY <1>1, <2>1, NodeMade DEF Built, Made
<1>3. /\ Frame \in CallsOf(Nodes) /\ Frame.node \in Nodes /\ Frame.last_leaf \in Nodes
      /\ Frame.state \in States /\ Frame = [node |-> Frame.node, last_leaf |-> Frame.last_leaf, state |-> Frame.state]
  BY <1>1, FrameFacts
<1>4. ASSUME NEW f, SetFrame(f), f.node = Frame.node, f \in CallsOf(Nodes'), Nodes \subseteq Nodes'
      PROVE  Calls'
  BY <1>1, <1>4, SetFrameCalls
<1>5. CASE "SEQ" \in Frame.state /\ Grow(Text, Frame.node) /\ SetFrame([Frame EXCEPT !.last_leaf = New])
  <2>1. Built' /\ Nodes \subseteq Nodes' /\ New \in Nodes'
    BY <1>2, <1>3, <1>5
  <2>2. PICK f : f = [Frame EXCEPT !.last_leaf = New]
    OBVIOUS
  <2>3. f.node = Frame.node /\ f \in CallsOf(Nodes')
    BY <1>3, <2>1, <2>2 DEF CallsOf
  <2> QED
    BY <1>4, <1>5, <2>1, <2>2, <2>3
<1>6. CASE /\ "SEQ" \notin Frame.state /\ Grow(Text, Frame.last_leaf)
           /\ SetFrame([Frame EXCEPT !.state = @ \cap {"MAP", "SEQ"}])
  <2>1. Built' /\ Nodes \subseteq Nodes' /\ New \in Nodes'
    BY <1>2, <1>3, <1>6
  <2>2. PICK f : f = [Frame EXCEPT !.state = @ \cap {"MAP", "SEQ"}]
    OBVIOUS
  <2>3. Frame.state \cap {"MAP", "SEQ"} \in States
    BY <1>3, StateSteps
  <2>4. f.node = Frame.node /\ f \in CallsOf(Nodes')
    BY <1>3, <2>1, <2>2, <2>3 DEF CallsOf
  <2> QED
    BY <1>4, <1>6, <2>1, <2>2, <2>4
<1>7. CASE /\ Frame.state \cap {"SEQ", "VAL"} = {} /\ Grow(Text, Frame.node)
           /\ SetFrame([Frame EXCEPT !.last_leaf = New, !.state = @ \cup {"VAL"}])
  <2>1. Built' /\ Nodes \subseteq Nodes' /\ New \in Nodes'
    BY <1>2, <1>3, <1>7
  <2>2. PICK f : f = [Frame EXCEPT !.last_leaf = New, !.state = @ \cup {"VAL"}]
    OBVIOUS
  <2>3. Frame.state \cup {"VAL"} \in States
    BY <1>3, <1>7, StateSteps
  <2>4. f.node = Frame.node /\ f \in CallsOf(Nodes')
    BY <1>3, <2>1, <2>2, <2>3 DEF CallsOf
  <2> QED
    BY <1>4, <1>7, <2>1, <2>2, <2>4
<1> QED
  BY <1>5, <1>6, <1>7 DEF parse_scalar

(* 196-205: after the start of a sequence. *)
LEMMA SequenceStartKeeps ==
    ASSUME Built, Calls, parse_sequence_start
    PROVE  Built' /\ Calls'
<1>1. /\ Parse("sequence_start") /\ stage = "parse" /\ stage' = stage /\ "sequence_start" \in Starts
  BY DEF parse_sequence_start, Parse, Starts
<1>2. PICK p : p = IF "SEQ" \in Frame.state THEN Frame.node ELSE Frame.last_leaf
  OBVIOUS
<1>3. /\ Frame \in CallsOf(Nodes) /\ Frame.node \in Nodes /\ Frame.last_leaf \in Nodes
      /\ Frame.state \in States /\ Frame = [node |-> Frame.node, last_leaf |-> Frame.last_leaf, state |-> Frame.state]
  BY <1>1, FrameFacts
<1>4. p \in Nodes /\ Grow(NULL, p)
  BY <1>2, <1>3 DEF parse_sequence_start
<1>5. Built' /\ Nodes \subseteq Nodes' /\ New \in Nodes' /\ New # 1
  <2>1. Grow(IF "sequence_start" = "scalar" THEN Text ELSE NULL, p)
    BY <1>4
  <2> QED
    BY <1>1, <1>4, <2>1, NodeMade DEF Built, Made
<1>6. PICK f : f = [Frame EXCEPT !.last_leaf = New, !.state = IF "MAP" \in @ THEN {"MAP"} ELSE @]
  OBVIOUS
<1>7. (IF "MAP" \in Frame.state THEN {"MAP"} ELSE Frame.state) \in States /\ {"SEQ"} \in States
  BY <1>3, StateSteps
<1>8. f.node = Frame.node /\ f.last_leaf # 1 /\ f \in CallsOf(Nodes')
  BY <1>3, <1>5, <1>6, <1>7 DEF CallsOf
<1>9. Call(f, {"SEQ"})
  BY <1>6 DEF parse_sequence_start
<1> QED
  BY <1>1, <1>5, <1>7, <1>8, <1>9, CallCalls

(* 215-217: after the start of a mapping. *)
LEMMA MappingStartKeeps ==
    ASSUME Built, Calls, parse_mapping_start
    PROVE  Built' /\ Calls'
<1>1. /\ Parse("mapping_start") /\ stage = "parse" /\ stage' = stage /\ "mapping_start" \in Starts
  BY DEF parse_mapping_start, Parse, Starts
<1>2. /\ Frame \in CallsOf(Nodes) /\ Frame.node \in Nodes /\ Frame.last_leaf \in Nodes
      /\ Frame.state \in States /\ Frame = [node |-> Frame.node, last_leaf |-> Frame.last_leaf, state |-> Frame.state]
  BY <1>1, FrameFacts
<1>3. Built' /\ Nodes \subseteq Nodes' /\ New \in Nodes' /\ New # 1
  <2>1. Grow(IF "mapping_start" = "scalar" THEN Text ELSE NULL, Frame.node)
    BY DEF parse_mapping_start
  <2> QED
    BY <1>1, <1>2, <2>1, NodeMade DEF Built, Made
<1>4. PICK f : f = [Frame EXCEPT !.last_leaf = New]
  OBVIOUS
<1>5. f.node = Frame.node /\ f.last_leaf # 1 /\ f \in CallsOf(Nodes')
  BY <1>2, <1>3, <1>4 DEF CallsOf
<1>6. Call(f, {"MAP"}) /\ {"MAP"} \in States
  BY <1>2, <1>4, StateSteps DEF parse_mapping_start
<1> QED
  BY <1>1, <1>3, <1>5, <1>6, CallCalls

(* 211-213, 223-226: after an end, which some call is there for, with a
   caller whose last leaf has a parent. *)
LEMMA EndKeeps ==
    ASSUME Built, Calls, parse_end
    PROVE  Built' /\ Calls'
<1>1. /\ Parse("end") /\ stage = "parse" /\ stage' = stage /\ UNCHANGED tree
      /\ "end" \in EventTypes \ (Starts \cup {"scalar"}) /\ Nodes' = Nodes
  BY DEF parse_end, Parse, EventTypes, Starts, Nodes
<1>2. Built'
  BY <1>1, NoneMade DEF Built
<1>3. /\ read + 1 < Len(events) /\ events' = events /\ read' = read + 1
      /\ 1 + Number(events, read + 1, Starts) - Number(events, read + 1, {"end"}) = Len(frames) - 1
      /\ Len(frames) > 1
  BY <1>1, ParseFacts, DepthNext DEF Built
<1>4. frames \in Seq(CallsOf(Nodes)) /\ Nested(frames) /\ Len(frames) \in Nat
  BY <1>1 DEF Calls
<1>5. PICK c : c = frames[Len(frames) - 1]
  OBVIOUS
<1>6. /\ c \in CallsOf(Nodes) /\ c.last_leaf \in Nodes /\ c.last_leaf # 1
      /\ c = [node |-> c.node, last_leaf |-> c.last_leaf, state |-> c.state]
  <2>1. Len(frames) - 1 \in 1..Len(frames) /\ Len(frames) - 1 \in 1..(Len(frames) - 1)
    BY <1>3, <1>4
  <2>2. c.last_leaf # 1
    BY <1>4, <1>5, <2>1 DEF Nested
  <2>3. c \in CallsOf(Nodes)
    <3> DEFINE T == CallsOf(Nodes)
    <3>1. frames \in Seq(T)
      BY <1>4
    <3> HIDE DEF T
    <3>2. c \in T
      BY <1>5, <2>1, <3>1
    <3> QED
      BY <3>2 DEF T
  <2> QED
    BY <2>2, <2>3 DEF CallsOf
<1>7. Parent(c.last_leaf) \in Nodes
  <2>1. Hung(tree.kids, c.last_leaf)
    BY <1>1, <1>6 DEF Built, Attached
  <2>2. PICK p \in Nodes : \E i \in DOMAIN tree.kids[p] : tree.kids[p][i] = c.last_leaf
    BY <2>1, TreeShapeFacts DEF Hung, Built
  <2> QED
    BY <2>2, ParentIs DEF Built
<1>8. PICK f : f = [c EXCEPT !.last_leaf = Parent(c.last_leaf)]
  OBVIOUS
<1>9. f \in CallsOf(Nodes) /\ f.node = c.node
  BY <1>6, <1>7, <1>8 DEF CallsOf
<1>10. Last(Front(frames)) = c
  BY <1>3, <1>4, <1>5, <1>9, ReturnKeeps
<1>11. frames' = Append(Front(Front(frames)), f)
  BY <1>8, <1>10 DEF parse_end
<1>12. PICK N : N = Nodes
  OBVIOUS
<1>13. frames' \in Seq(CallsOf(N)) /\ Len(frames') = Len(frames) - 1 /\ frames' # <<>> /\ Nested(frames')
  BY <1>3, <1>4, <1>5, <1>9, <1>11, <1>12, ReturnKeeps
<1>14. Nested(frames)' /\ (frames \in Seq(CallsOf(Nodes)))'
  BY <1>1, <1>12, <1>13 DEF Nested, CallsOf
<1> QED
  BY <1>1, <1>2, <1>3, <1>13, <1>14 DEF Calls

(* 237-239: after an event that is ignored. *)
LEMMA IgnoredKeeps ==
    ASSUME Built, Calls, parse_ignored
    PROVE  Built' /\ Calls'
<1>1. /\ Parse("ignored") /\ stage = "parse" /\ stage' = stage /\ UNCHANGED <<tree, frames>>
      /\ "ignored" \in EventTypes \ (Starts \cup {"scalar"}) /\ Nodes' = Nodes
      /\ "ignored" \notin Starts \cup {"end"}
  BY DEF parse_ignored, Parse, EventTypes, Starts, Nodes
<1>2. Built'
  BY <1>1, NoneMade DEF Built
<1>3. /\ read + 1 < Len(events) /\ events' = events /\ read' = read + 1
      /\ 1 + Number(events, read + 1, Starts) - Number(events, read + 1, {"end"}) = Len(frames)
  BY <1>1, ParseFacts, DepthNext DEF Built
<1>4. frames \in Seq(CallsOf(Nodes)) /\ Nested(frames) /\ frames # <<>>
  BY <1>1 DEF Calls
<1>5. Nested(frames)' /\ (frames \in Seq(CallsOf(Nodes)))'
  BY <1>1, <1>4 DEF Nested, CallsOf
<1> QED
  BY <1>1, <1>2, <1>3, <1>4, <1>5 DEF Calls

-----------------------------------------------------------------------------
(* What the walk has left behind of the children of one node.              *)

(* The children of one node: distinct, and none of them 0. *)
Ids(s) ==
    /\ s \in Seq(Nat \ {0})
    /\ \A i, j \in DOMAIN s : s[i] = s[j] => i = j

(* Those of a forest are. *)
LEMMA ForestIds ==
    ASSUME NEW K, Forest(K), NEW n \in DOMAIN K
    PROVE  Ids(K[n])
<1>1. K[n] \in Seq(2..Len(K)) /\ Len(K) \in Nat
  BY ForestFacts
<1>2. 2..Len(K) \subseteq Nat \ {0}
  BY <1>1
<1>3. K[n] \in Seq(Nat \ {0})
  BY <1>1, <1>2, SeqMonotonic
<1>4. \A i, j \in DOMAIN K[n] : K[n][i] = K[n][j] => i = j
  BY DEF Forest
<1> QED
  BY <1>3, <1>4 DEF Ids

(* Their types. *)
LEMMA IdsFacts ==
    ASSUME NEW s, Ids(s)
    PROVE  Len(s) \in Nat /\ DOMAIN s = 1..Len(s) /\ \A i \in 1..Len(s) : s[i] \in Nat /\ s[i] # 0
<1>1. s \in Seq(Nat \ {0})
  BY DEF Ids
<1> QED
  BY <1>1

(* The walk comes to a node. *)
LEMMA BehindStart ==
    ASSUME NEW s, Ids(s), NEW V
    PROVE  Behind(s, V, {}, IF s = <<>> THEN 0 ELSE s[1])
<1>1. Len(s) \in Nat /\ ((Len(s) = 0) <=> (s = <<>>))
  BY EmptySeq DEF Ids
<1>2. Passed(s, V, {}, IF s = <<>> THEN 0 ELSE s[1], 0)
  BY <1>1 DEF Passed
<1> QED
  BY <1>1, <1>2 DEF Behind

(* It goes on to the next child. *)
LEMMA BehindNext ==
    ASSUME NEW s, Ids(s), NEW V, NEW i \in DOMAIN s, Behind(s, V, {}, s[i])
    PROVE  Behind(s, V, {s[i]}, IF i = Len(s) THEN 0 ELSE s[i + 1])
<1>1. Len(s) \in Nat /\ DOMAIN s = 1..Len(s) /\ \A j \in 1..Len(s) : s[j] \in Nat /\ s[j] # 0
  BY IdsFacts
<1>2. PICK k \in 0..Len(s) : Passed(s, V, {}, s[i], k)
  BY DEF Behind
<1>3. k # Len(s) /\ s[i] = s[k + 1] /\ \A j \in 1..k : s[j] \in V
  BY <1>1, <1>2 DEF Passed
<1>4. k + 1 \in DOMAIN s
  <2>1. s \in Seq(Nat \ {0})
    BY DEF Ids
  <2> QED
    BY <1>3, <2>1
<1>5. i = k + 1
  BY <1>3, <1>4 DEF Ids
<1>6. \A j \in 1..i : j \in 1..k \/ j = i
  BY <1>1, <1>5
<1>7. Passed(s, V, {s[i]}, IF i = Len(s) THEN 0 ELSE s[i + 1], i)
  <2>1. \A j \in 1..i : s[j] \in V \cup {s[i]}
    BY <1>3, <1>6
  <2>2. i \in 1..i
    BY <1>1
  <2> QED
    BY <2>1, <2>2 DEF Passed
<1>8. i \in 0..Len(s)
  BY <1>1
<1> QED
  BY <1>7, <1>8 DEF Behind

(* It is through with the children of a node. *)
LEMMA BehindAll ==
    ASSUME NEW s, Ids(s), NEW V
    PROVE  Behind(s, V, {}, 0) <=> \A i \in DOMAIN s : s[i] \in V
<1>1. Len(s) \in Nat /\ DOMAIN s = 1..Len(s) /\ \A j \in 1..Len(s) : s[j] \in Nat /\ s[j] # 0
  BY IdsFacts
<1>2. ASSUME Behind(s, V, {}, 0) PROVE \A i \in DOMAIN s : s[i] \in V
  <2>1. PICK k \in 0..Len(s) : Passed(s, V, {}, 0, k)
    BY <1>2 DEF Behind
  <2>2. k # Len(s) => k + 1 \in 1..Len(s)
    <3>1. Len(s) \in Nat
      BY <1>1
    <3> QED
      BY <3>1
  <2>3. k = Len(s)
    BY <1>1, <2>1, <2>2 DEF Passed
  <2> QED
    BY <1>1, <2>1, <2>3 DEF Passed
<1>3. ASSUME \A i \in DOMAIN s : s[i] \in V PROVE Behind(s, V, {}, 0)
  <2>1. Passed(s, V, {}, 0, Len(s))
    BY <1>1, <1>3 DEF Passed
  <2> QED
    BY <1>1, <2>1 DEF Behind
<1> QED
  BY <1>2, <1>3

(* A settled node is moved behind them. *)
LEMMA BehindAppend ==
    ASSUME NEW s, Ids(s), NEW V, NEW C, NEW nxt, Behind(s, V, C, nxt), NEW c \in V, c \in Nat \ {0}
    PROVE  Behind(Append(s, c), V, C, nxt)
<1>1. Len(s) \in Nat /\ s \in Seq(Nat \ {0})
  BY IdsFacts DEF Ids
<1>2. PICK t : t = Append(s, c)
  OBVIOUS
<1>3. Len(t) = Len(s) + 1 /\ t[Len(s) + 1] = c /\ \A j \in 1..Len(s) : t[j] = s[j]
  BY <1>1, <1>2
<1>4. PICK k \in 0..Len(s) : Passed(s, V, C, nxt, k)
  BY DEF Behind
<1>5. CASE k = Len(s)
  <2>1. nxt = 0 /\ k + 1 \in 0..Len(t) /\ k + 1 = Len(t) /\ t[k + 1] = c
    BY <1>1, <1>3, <1>4, <1>5 DEF Passed
  <2>2. \A j \in 1..(k + 1) : t[j] \in V \cup C
    <3> SUFFICES ASSUME NEW j \in 1..(k + 1) PROVE t[j] \in V \cup C
      OBVIOUS
    <3>1. CASE j = k + 1
      BY <2>1, <3>1
    <3>2. CASE j # k + 1
      <4>1. j \in 1..k /\ j \in 1..Len(s)
        BY <1>1, <3>2
      <4> QED
        BY <1>3, <1>4, <4>1 DEF Passed
    <3> QED
      BY <3>1, <3>2
  <2>3. ASSUME NEW d \in C
        PROVE  \E j \in 1..(k + 1) : t[j] = d
    <3>1. PICK j \in 1..k : s[j] = d
      BY <1>4 DEF Passed
    <3>2. j \in 1..(k + 1) /\ j \in 1..Len(s)
      BY <1>1, <3>1
    <3>3. t[j] = s[j]
      BY <1>3, <3>2
    <3> QED
      BY <3>1, <3>2, <3>3
  <2>4. Passed(t, V, C, nxt, k + 1)
    BY <2>1, <2>2, <2>3 DEF Passed
  <2> QED
    BY <1>2, <2>1, <2>4 DEF Behind
<1>6. CASE k # Len(s)
  <2>1. k \in 0..Len(t) /\ k # Len(t) /\ k + 1 \in 1..Len(s)
    BY <1>1, <1>3, <1>6
  <2>2. nxt = t[k + 1]
    BY <1>3, <1>4, <1>6, <2>1 DEF Passed
  <2>3. \A j \in 1..k : t[j] = s[j]
    BY <1>1, <1>3
  <2>4. Passed(t, V, C, nxt, k)
    BY <1>4, <2>1, <2>2, <2>3 DEF Passed
  <2> QED
    BY <1>2, <2>1, <2>4 DEF Behind
<1> QED
  BY <1>5, <1>6

(* The child at which it was has been dealt with, and stays. *)
LEMMA BehindStays ==
    ASSUME NEW s, NEW V, NEW m, NEW nxt, Behind(s, V, {m}, nxt)
    PROVE  Behind(s, V \cup {m}, {}, nxt)
<1>1. PICK k \in 0..Len(s) : Passed(s, V, {m}, nxt, k)
  BY DEF Behind
<1>2. Passed(s, V \cup {m}, {}, nxt, k)
  BY <1>1 DEF Passed
<1> QED
  BY <1>2 DEF Behind

(* More nodes are settled. *)
LEMMA BehindMore ==
    ASSUME NEW s, NEW V, NEW W, V \subseteq W, NEW C, NEW nxt, Behind(s, V, C, nxt)
    PROVE  Behind(s, W, C, nxt)
<1>1. PICK k \in 0..Len(s) : Passed(s, V, C, nxt, k)
  BY DEF Behind
<1>2. Passed(s, W, C, nxt, k)
  BY <1>1 DEF Passed
<1> QED
  BY <1>2 DEF Behind

(* The child at which it was is gone. *)
LEMMA BehindGone ==
    ASSUME NEW s, Ids(s), NEW V, NEW r \in DOMAIN s, NEW nxt, Behind(s, V, {s[r]}, nxt)
    PROVE  Behind(RemoveAt(s, r), V, {}, nxt)
<1>1. Len(s) \in Nat /\ DOMAIN s = 1..Len(s) /\ s \in Seq(Nat \ {0})
  BY IdsFacts DEF Ids
<1>2. PICK k \in 0..Len(s) : Passed(s, V, {s[r]}, nxt, k)
  BY DEF Behind
<1>3. \A i \in DOMAIN s : s[i] = s[r] => i = r
  BY DEF Ids
<1>4. PICK l \in 1..k : s[l] = s[r]
  BY <1>2 DEF Passed
<1>5. r \in 1..k
  BY <1>1, <1>3, <1>4
<1>6. ASSUME NEW j \in 1..k, j # r PROVE s[j] \in V
  <2>1. s[j] \in V \cup {s[r]}
    BY <1>2 DEF Passed
  <2>2. j \in DOMAIN s
    BY <1>1, <1>2
  <2> QED
    BY <1>3, <1>6, <2>1, <2>2
<1>7. PICK t : t = RemoveAt(s, r)
  OBVIOUS
<1>8. /\ Len(t) = Len(s) - 1
      /\ \A j \in 1..(Len(s) - 1) : t[j] = IF j < r THEN s[j] ELSE s[j + 1]
  <2>1. r \in 1..Len(s)
    BY <1>1
  <2>2. /\ Len(RemoveAt(s, r)) = Len(s) - 1
        /\ \A j \in 1..(Len(s) - 1) : RemoveAt(s, r)[j] = IF j < r THEN s[j] ELSE s[j + 1]
    BY <1>1, <2>1, RemoveAtProperties, Zenon
  <2> QED
    BY <1>7, <2>2, Zenon
<1>9. k - 1 \in 0..Len(t) /\ (k - 1) + 1 = k
  BY <1>1, <1>2, <1>5, <1>8
<1>10. k - 1 = Len(t) => nxt = 0
  <2>1. k - 1 = Len(t) => k = Len(s)
    <3>1. Len(s) \in Nat /\ Len(t) = Len(s) - 1
      BY <1>1, <1>8
    <3> QED
      BY <3>1
  <2> QED
    BY <1>2, <2>1 DEF Passed
<1>11. ASSUME k - 1 # Len(t) PROVE nxt = t[k]
  <2>1. k \in 1..(Len(s) - 1) /\ ~(k < r) /\ k # Len(s)
    <3>1. Len(s) \in Nat /\ Len(t) = Len(s) - 1
      BY <1>1, <1>8
    <3> QED
      BY <1>5, <1>11, <3>1
  <2>2. t[k] = s[k + 1]
    BY <1>8, <2>1
  <2> QED
    BY <1>2, <2>1, <2>2 DEF Passed
<1>12. ASSUME NEW j \in 1..(k - 1)
      PROVE  t[j] \in V
  <2>1. j \in 1..(Len(s) - 1) /\ j \in 1..k /\ j + 1 \in 1..k /\ j \in Nat /\ r \in Nat
    BY <1>1, <1>5
  <2>2. CASE j < r
    <3>1. t[j] = s[j] /\ j # r
      BY <1>8, <2>1, <2>2
    <3> QED
      BY <1>6, <2>1, <3>1
  <2>3. CASE ~(j < r)
    <3>1. t[j] = s[j + 1] /\ j + 1 # r
      BY <1>8, <2>1, <2>3
    <3> QED
      BY <1>6, <2>1, <3>1
  <2> QED
    BY <2>2, <2>3
<1>13. Passed(t, V, {}, nxt, k - 1)
  BY <1>9, <1>10, <1>11, <1>12 DEF Passed
<1> QED
  BY <1>7, <1>9, <1>13 DEF Behind

(* A node is settled if its children are, and it is as it should be. *)
LEMMA GoodMore ==
    ASSUME NEW D, NEW K, NEW V, Good(D, K, V), NEW n,
           \A i \in DOMAIN K[n] : K[n][i] \in V,
           D[n] = NULL => K[n] # <<>> /\ \A i \in DOMAIN K[n] : D[K[n][i]] # NULL
    PROVE  Good(D, K, V \cup {n})
BY DEF Good

(* Settled nodes stay settled when other nodes lose or get children. *)
LEMMA GoodSame ==
    ASSUME NEW D, NEW K, NEW V, Good(D, K, V), NEW L, \A n \in V : L[n] = K[n]
    PROVE  Good(D, L, V)
BY DEF Good

-----------------------------------------------------------------------------
(* The walk.                                                               *)

(* The types of the walk. *)
LEMMA WalkFacts ==
    ASSUME NEW N, NEW D, NEW K, NEW w, WalkOf(N, D, K, w)
    PROVE  /\ Len(w) \in Nat \ {0}
           /\ \A i \in 1..Len(w) : w[i].node \in N /\ w[i].next \in N \cup {0}
           /\ Last(w) = w[Len(w)]
<1> DEFINE T == WalkType(N)
<1>1. w \in Seq(T) /\ w # <<>>
  BY DEF WalkOf
<1> HIDE DEF T
<1>2. Len(w) \in Nat \ {0} /\ Last(w) = w[Len(w)]
  BY <1>1, FrontLast
<1>3. \A i \in 1..Len(w) : w[i] \in T
  BY <1>1
<1> QED
  BY <1>2, <1>3 DEF T, WalkType

(* A call is for a child of the node of its caller. *)
LEMMA WalkChild ==
    ASSUME NEW K, NEW V, NEW w, Walking(K, V, w), NEW i \in 1..Len(w), i < Len(w),
           Ids(K[w[i].node])
    PROVE  \E j \in DOMAIN K[w[i].node] : K[w[i].node][j] = w[i + 1].node
<1> DEFINE s == K[w[i].node]
<1>1. Behind(s, V, {w[i + 1].node}, w[i].next)
  BY DEF Walking, On
<1>2. Ids(s)
  OBVIOUS
<1> HIDE DEF s
<1>3. PICK k \in 0..Len(s) : Passed(s, V, {w[i + 1].node}, w[i].next, k)
  BY <1>1 DEF Behind
<1>4. PICK j \in 1..k : s[j] = w[i + 1].node
  BY <1>3 DEF Passed
<1>5. s \in Seq(Nat \ {0})
  BY <1>2 DEF Ids
<1>6. j \in DOMAIN s
  BY <1>5
<1> QED
  BY <1>4, <1>6 DEF s

(* g_node_traverse is called for the root. *)
LEMMA WalkStart ==
    ASSUME NEW N, NEW D, NEW K, Forest(K), 1 \in N, N = DOMAIN K,
           NEW nxt, nxt = IF K[1] = <<>> THEN 0 ELSE K[1][1]
    PROVE  WalkOf(N, D, K, <<[node |-> 1, next |-> nxt]>>)
<1>1. PICK w : w = <<[node |-> 1, next |-> nxt]>>
  OBVIOUS
<1>2. Len(w) = 1 /\ w[1].node = 1 /\ w[1].next = nxt /\ w # <<>>
  BY <1>1
<1>3. Ids(K[1])
  BY ForestIds
<1>4. nxt \in N \cup {0}
  <2>1. CASE K[1] = <<>>
    BY <2>1
  <2>2. CASE K[1] # <<>>
    <3>1. K[1] \in Seq(2..Len(K)) /\ DOMAIN K = 1..Len(K)
      BY ForestFacts
    <3>2. 1 \in DOMAIN K[1]
      BY <2>2, <3>1
    <3> QED
      BY <2>2, <3>1, <3>2
  <2> QED
    BY <2>1, <2>2
<1>5. w \in Seq(WalkType(N))
  BY <1>1, <1>4 DEF WalkType
<1>6. Increasing(w)
  BY <1>2 DEF Increasing
<1>7. Good(D, K, {})
  BY DEF Good
<1>8. Walking(K, {}, w)
  <2>1. Behind(K[1], {}, {}, nxt)
    BY <1>3, BehindStart
  <2>2. On(w, 1) = {} /\ \A i \in 1..Len(w) : i = 1
    BY <1>2 DEF On
  <2> QED
    BY <1>2, <2>1, <2>2 DEF Walking
<1> QED
  BY <1>1, <1>2, <1>5, <1>6, <1>7, <1>8 DEF WalkOf

(* It goes down to the next child of the node at which it is. *)
LEMMA WalkNext ==
    ASSUME NEW N, NEW D, NEW K, Forest(K), N = DOMAIN K, NEW w, WalkOf(N, D, K, w),
           NEW n, NEW t, n = Last(w).node, t = Last(w).next,
           NEW i \in DOMAIN K[n], K[n][i] = t,
           NEW f, f = [node |-> n, next |-> IF i = Len(K[n]) THEN 0 ELSE K[n][i + 1]],
           NEW g, g = [node |-> t, next |-> IF K[t] = <<>> THEN 0 ELSE K[t][1]]
    PROVE  WalkOf(N, D, K, Append(Append(Front(w), f), g))
<1>1. /\ Len(w) \in Nat \ {0}
      /\ \A j \in 1..Len(w) : w[j].node \in N /\ w[j].next \in N \cup {0}
      /\ Last(w) = w[Len(w)]
  BY WalkFacts
<1>2. /\ w \in Seq(WalkType(N)) /\ w # <<>> /\ w[1].node = 1 /\ Increasing(w)
  BY DEF WalkOf
<1>3. PICK V \in SUBSET N : Good(D, K, V) /\ Walking(K, V, w)
  BY DEF WalkOf
<1>4. n \in N /\ n < t /\ t \in N /\ N = 1..Len(K) /\ Len(K) \in Nat
  <2>1. n \in N /\ DOMAIN K = 1..Len(K) /\ Len(K) \in Nat
    BY <1>1, ForestFacts
  <2>2. t \in DOMAIN K
    BY <2>1, ForestFacts
  <2> QED
    BY <2>1, <2>2 DEF Forest
<1>5. \A m \in N : Ids(K[m]) /\ K[m] \in Seq(N)
  <2> SUFFICES ASSUME NEW m \in N PROVE Ids(K[m]) /\ K[m] \in Seq(N)
    OBVIOUS
  <2>1. K[m] \in Seq(2..Len(K))
    BY ForestFacts
  <2>2. 2..Len(K) \subseteq N
    BY <1>4
  <2> QED
    BY <2>1, <2>2, ForestIds, SeqMonotonic
<1>6. f \in WalkType(N) /\ g \in WalkType(N) /\ f.node = n /\ g.node = t
  <2>1. i # Len(K[n]) => K[n][i + 1] \in N
    <3>1. K[n] \in Seq(N)
      BY <1>4, <1>5
    <3> QED
      BY <3>1
  <2>2. K[t] # <<>> => K[t][1] \in N
    <3>1. K[t] \in Seq(N)
      BY <1>4, <1>5
    <3> QED
      BY <3>1
  <2> QED
    BY <1>4, <2>1, <2>2 DEF WalkType
<1>7. PICK x : x = Append(Append(Front(w), f), g)
  OBVIOUS
<1>8. x \in Seq(WalkType(N)) /\ Deeper(w, f, g, x)
  BY <1>2, <1>6, <1>7, DeeperIs
<1>9. /\ Len(x) = Len(w) + 1 /\ x[Len(w)] = f /\ x[Len(w) + 1] = g /\ x # <<>>
      /\ \A j \in 1..(Len(w) - 1) : x[j] = w[j]
  BY <1>8 DEF Deeper
<1>10. \A j \in 1..Len(w) : x[j].node = w[j].node
  <2> SUFFICES ASSUME NEW j \in 1..Len(w) PROVE x[j].node = w[j].node
    OBVIOUS
  <2>1. CASE j = Len(w)
    BY <1>1, <1>6, <1>9, <2>1
  <2>2. CASE j # Len(w)
    BY <1>1, <1>9, <2>2
  <2> QED
    BY <2>1, <2>2
<1>11. x[1].node = 1
  BY <1>1, <1>2, <1>10
<1>12. Increasing(x)
  <2> SUFFICES ASSUME NEW j \in 1..Len(x), NEW k \in 1..Len(x), j < k
               PROVE  x[j].node < x[k].node
    BY DEF Increasing
  <2>1. j \in 1..Len(w) /\ x[j].node = w[j].node /\ w[j].node \in N
    BY <1>1, <1>9, <1>10
  <2>2. CASE k \in 1..Len(w)
    BY <1>2, <1>10, <2>1, <2>2 DEF Increasing
  <2>3. CASE k = Len(w) + 1
    <3>1. x[k].node = t
      BY <1>6, <1>9, <2>3
    <3>2. w[j].node <= n
      <4>1. CASE j = Len(w)
        BY <1>1, <1>4, <4>1
      <4>2. CASE j # Len(w)
        <5>1. Len(w) \in 1..Len(w) /\ j < Len(w)
          BY <1>1, <2>1, <4>2
        <5>2. w[j].node < w[Len(w)].node
          BY <1>2, <2>1, <5>1 DEF Increasing
        <5> QED
          BY <1>1, <1>4, <2>1, <5>2
      <4> QED
        BY <4>1, <4>2
    <3> QED
      BY <1>4, <2>1, <3>1, <3>2
  <2> QED
    BY <1>1, <1>9, <2>2, <2>3
<1>13. Walking(K, V, x)
  <2> SUFFICES ASSUME NEW j \in 1..Len(x)
               PROVE  Behind(K[x[j].node], V, On(x, j), x[j].next)
    BY DEF Walking
  <2>1. CASE j \in 1..(Len(w) - 1)
    <3>1. /\ j \in 1..Len(w) /\ j + 1 \in 1..Len(w) /\ x[j] = w[j] /\ x[j + 1].node = w[j + 1].node
          /\ j < Len(w) /\ j < Len(x)
      BY <1>1, <1>9, <1>10, <2>1
    <3>2. On(x, j) = On(w, j)
      BY <3>1 DEF On
    <3> QED
      BY <1>3, <3>1, <3>2 DEF Walking
  <2>2. CASE j = Len(w)
    <3>1. Behind(K[n], V, {}, K[n][i])
      <4>1. Len(w) \in 1..Len(w) /\ On(w, Len(w)) = {}
        BY <1>1 DEF On
      <4> QED
        BY <1>1, <1>3, <4>1 DEF Walking
    <3>2. Behind(K[n], V, {t}, IF i = Len(K[n]) THEN 0 ELSE K[n][i + 1])
      BY <1>4, <1>5, <3>1, BehindNext
    <3>3. On(x, j) = {t}
      <4>1. j < Len(x) /\ x[j + 1].node = t
        BY <1>1, <1>6, <1>9, <2>2
      <4> QED
        BY <4>1 DEF On
    <3>4. x[j].node = n /\ x[j].next = IF i = Len(K[n]) THEN 0 ELSE K[n][i + 1]
      BY <1>9, <2>2
    <3> QED
      BY <3>2, <3>3, <3>4
  <2>3. CASE j = Len(w) + 1
    <3>1. On(x, j) = {}
      BY <1>1, <1>9, <2>3 DEF On
    <3>2. Behind(K[t], V, {}, IF K[t] = <<>> THEN 0 ELSE K[t][1])
      BY <1>4, <1>5, BehindStart
    <3>3. x[j].node = t /\ x[j].next = IF K[t] = <<>> THEN 0 ELSE K[t][1]
      BY <1>9, <2>3
    <3> QED
      BY <3>1, <3>2, <3>3
  <2>4. j \in 1..(Len(w) - 1) \/ j = Len(w) \/ j = Len(w) + 1
    BY <1>1, <1>9
  <2> QED
    BY <2>1, <2>2, <2>3, <2>4
<1> QED
  BY <1>3, <1>7, <1>8, <1>9, <1>11, <1>12, <1>13 DEF WalkOf

(* The node that is visited has a caller, unless it is the root. *)
LEMMA WalkParent ==
    ASSUME NEW N, NEW D, NEW K, Forest(K), N = DOMAIN K, NEW w, WalkOf(N, D, K, w),
           NEW n, n = Last(w).node, n # 1,
           NEW p, p = w[Len(w) - 1].node
    PROVE  /\ Len(w) > 1 /\ p \in N /\ n \in N /\ p < n
           /\ \E i \in DOMAIN K[p] : K[p][i] = n
<1>1. /\ Len(w) \in Nat \ {0}
      /\ \A j \in 1..Len(w) : w[j].node \in N /\ w[j].next \in N \cup {0}
      /\ Last(w) = w[Len(w)]
  BY WalkFacts
<1>2. w[1].node = 1 /\ Increasing(w)
  BY DEF WalkOf
<1>3. Len(w) > 1
  BY <1>1, <1>2
<1>4. Len(w) - 1 \in 1..Len(w) /\ Len(w) - 1 < Len(w) /\ (Len(w) - 1) + 1 = Len(w) /\ Len(w) \in 1..Len(w)
  BY <1>1, <1>3
<1>5. p \in N /\ n \in N /\ p < n
  BY <1>1, <1>2, <1>4 DEF Increasing
<1>6. PICK V \in SUBSET N : Walking(K, V, w)
  BY DEF WalkOf
<1>7. Ids(K[w[Len(w) - 1].node])
  BY <1>5, ForestIds
<1>8. \E i \in DOMAIN K[w[Len(w) - 1].node] : K[w[Len(w) - 1].node][i] = w[(Len(w) - 1) + 1].node
  BY <1>4, <1>6, <1>7, WalkChild
<1> QED
  BY <1>1, <1>3, <1>4, <1>5, <1>8

(* The children of the node that is visited are settled. *)
LEMMA VisitedKids ==
    ASSUME NEW N, NEW D, NEW K, Forest(K), N = DOMAIN K, NEW w, WalkOf(N, D, K, w),
           NEW V, Walking(K, V, w),
           NEW n, n = Last(w).node, Last(w).next = 0
    PROVE  n \in N /\ \A i \in DOMAIN K[n] : K[n][i] \in V
<1>1. /\ Len(w) \in Nat \ {0}
      /\ \A j \in 1..Len(w) : w[j].node \in N /\ w[j].next \in N \cup {0}
      /\ Last(w) = w[Len(w)]
  BY WalkFacts
<1>2. n \in N /\ Len(w) \in 1..Len(w)
  BY <1>1
<1>3. Behind(K[n], V, {}, 0)
  <2>1. On(w, Len(w)) = {}
    BY <1>1 DEF On
  <2> QED
    BY <1>1, <1>2, <2>1 DEF Walking
<1>4. Ids(K[n])
  BY <1>2, ForestIds
<1> QED
  BY <1>2, <1>3, <1>4, BehindAll

(* The r-th child of n is moved behind the children of p. *)
Moved(K, L, p, n, r) ==
    /\ L[p] = Append(K[p], K[n][r])
    /\ L[n] = RemoveAt(K[n], r)
    /\ \A q \in DOMAIN K \ {p, n} : L[q] = K[q]

(* A child of the node that is visited is moved to its grandparent: neither
   node is settled yet, and the child is. *)
LEMMA WalkMove ==
    ASSUME NEW N, NEW D, NEW K, Forest(K), N = DOMAIN K, NEW w, WalkOf(N, D, K, w),
           NEW n, n = Last(w).node, Last(w).next = 0, n # 1,
           NEW p, p = w[Len(w) - 1].node,
           NEW r \in DOMAIN K[n], D[n] = NULL, D[K[n][r]] = NULL,
           NEW L, Moved(K, L, p, n, r)
    PROVE  WalkOf(N, D, L, w)
<1>1. /\ Len(w) > 1 /\ p \in N /\ n \in N /\ p < n
      /\ \E i \in DOMAIN K[p] : K[p][i] = n
  BY WalkParent
<1>2. PICK V \in SUBSET N : Good(D, K, V) /\ Walking(K, V, w)
  BY DEF WalkOf
<1>3. \A i \in DOMAIN K[n] : K[n][i] \in V
  BY <1>2, VisitedKids
<1>4. n \notin V
  BY <1>2 DEF Good
<1>5. p \notin V
  BY <1>1, <1>2, <1>4 DEF Good
<1>6. Good(D, L, V)
  <2>1. \A q \in V : L[q] = K[q]
    BY <1>2, <1>4, <1>5 DEF Moved
  <2> QED
    BY <1>2, <2>1, GoodSame
<1>7. /\ Len(w) \in Nat \ {0}
      /\ \A j \in 1..Len(w) : w[j].node \in N /\ w[j].next \in N \cup {0}
      /\ Last(w) = w[Len(w)]
  BY WalkFacts
<1>8. /\ w \in Seq(WalkType(N)) /\ w # <<>> /\ w[1].node = 1 /\ Increasing(w)
  BY DEF WalkOf
<1>9. N \subseteq Nat \ {0} /\ K[n][r] \in N
  <2>1. Len(K) \in Nat /\ N = 1..Len(K)
    BY ForestFacts
  <2>2. K[n][r] \in N
    BY <1>1, ForestFacts
  <2> QED
    BY <2>1, <2>2
<1>10. Walking(L, V, w)
  <2> SUFFICES ASSUME NEW j \in 1..Len(w)
               PROVE  Behind(L[w[j].node], V, On(w, j), w[j].next)
    BY DEF Walking
  <2>1. Behind(K[w[j].node], V, On(w, j), w[j].next)
    BY <1>2 DEF Walking
  <2>2. CASE j = Len(w)
    <3>1. w[j].node = n /\ w[j].next = 0 /\ On(w, j) = {}
      BY <1>7, <2>2 DEF On
    <3>2. K[n] \in Seq(N)
      <4>1. K[n] \in Seq(2..Len(K)) /\ Len(K) \in Nat /\ N = 1..Len(K)
        BY <1>1, ForestFacts
      <4>2. 2..Len(K) \subseteq N
        BY <4>1
      <4> QED
        BY <4>1, <4>2, SeqMonotonic
    <3>3. Shortened(K[n], r, L[n]) /\ r \in 1..Len(K[n])
      <4>1. r \in 1..Len(K[n])
        BY <3>2
      <4> QED
        BY <3>2, <4>1, RemoveAtSet DEF Moved
    <3>4. \A i \in DOMAIN L[n] : L[n][i] \in V
      BY <1>3, <3>3 DEF Shortened
    <3>5. Ids(L[n])
      <4>1. L[n] \in Seq(Nat \ {0})
        <5>1. K[n] \in Seq(Nat \ {0})
          BY <1>9, <3>2, SeqMonotonic
        <5> QED
          BY <3>3, <5>1, RemoveAtProperties DEF Moved
      <4>2. ASSUME NEW i \in DOMAIN L[n], NEW k \in DOMAIN L[n], L[n][i] = L[n][k]
            PROVE  i = k
        <5>1. PICK a \in DOMAIN K[n] : K[n][a] = L[n][i] /\ a = (IF i < r THEN i ELSE i + 1) /\ a # r
          BY <3>3 DEF Shortened
        <5>2. PICK b \in DOMAIN K[n] : K[n][b] = L[n][k] /\ b = (IF k < r THEN k ELSE k + 1) /\ b # r
          BY <3>3 DEF Shortened
        <5>3. a = b
          <6>1. K[n][a] = K[n][b]
            BY <4>2, <5>1, <5>2
          <6>2. Ids(K[n])
            BY <1>1, ForestIds
          <6> QED
            BY <6>1, <6>2 DEF Ids
        <5>4. i \in Nat /\ k \in Nat /\ r \in Nat
          BY <3>3, <4>1, SMTT(30)
        <5> QED
          BY <5>1, <5>2, <5>3, <5>4
      <4> QED
        BY <4>1, <4>2 DEF Ids
    <3> QED
      BY <3>1, <3>4, <3>5, BehindAll
  <2>3. CASE j = Len(w) - 1
    <3>1. w[j].node = p /\ Ids(K[p])
      BY <1>1, <2>3, ForestIds
    <3>2. K[n][r] \in V /\ K[n][r] \in Nat \ {0}
      BY <1>3, <1>9
    <3>3. Behind(Append(K[p], K[n][r]), V, On(w, j), w[j].next)
      BY <2>1, <3>1, <3>2, BehindAppend
    <3> QED
      BY <3>1, <3>3 DEF Moved
  <2>4. CASE j < Len(w) - 1
    <3>1. /\ Len(w) - 1 \in 1..Len(w) /\ Len(w) \in 1..Len(w) /\ j < Len(w)
      BY <1>7, <2>4
    <3>2. w[j].node < p /\ w[j].node < n
      BY <1>7, <1>8, <2>4, <3>1 DEF Increasing
    <3>3. w[j].node \in N \ {p, n}
      BY <1>1, <1>7, <1>9, <3>2
    <3> QED
      BY <2>1, <3>3 DEF Moved
  <2> QED
    BY <1>7, <2>2, <2>3, <2>4
<1> QED
  BY <1>2, <1>6, <1>8, <1>10 DEF WalkOf

(* The innermost call has returned. *)
LEMMA WalkFront ==
    ASSUME NEW N, NEW D, NEW K, NEW w, WalkOf(N, D, K, w), Len(w) > 1,
           NEW v, v = Front(w)
    PROVE  /\ v \in Seq(WalkType(N)) /\ v # <<>> /\ v[1].node = 1 /\ Increasing(v)
           /\ Len(v) = Len(w) - 1 /\ Len(w) \in Nat
           /\ \A j \in 1..Len(v) : v[j] = w[j] /\ (j < Len(v) => On(v, j) = On(w, j))
           /\ On(v, Len(v)) = {} /\ On(w, Len(v)) = {Last(w).node}
<1>1. /\ w \in Seq(WalkType(N)) /\ w # <<>> /\ w[1].node = 1 /\ Increasing(w)
  BY DEF WalkOf
<1>2. /\ v \in Seq(WalkType(N)) /\ Len(v) = Len(w) - 1 /\ Len(w) \in Nat \ {0}
      /\ \A i \in 1..(Len(w) - 1) : v[i] = w[i]
      /\ Last(w) = w[Len(w)]
  BY <1>1, FrontLast
<1>3. v # <<>> /\ v[1].node = 1
  BY <1>1, <1>2
<1>4. Increasing(v)
  BY <1>1, <1>2 DEF Increasing
<1>5. ASSUME NEW j \in 1..Len(v), j < Len(v)
      PROVE  On(v, j) = On(w, j)
  <2>1. j < Len(w) /\ j + 1 \in 1..(Len(w) - 1)
    BY <1>2, <1>5
  <2>2. v[j + 1] = w[j + 1]
    BY <1>2, <2>1
  <2> QED
    BY <1>5, <2>1, <2>2 DEF On
<1>6. On(v, Len(v)) = {}
  BY <1>2 DEF On
<1>7. On(w, Len(v)) = {Last(w).node}
  BY <1>2 DEF On
<1> QED
  BY <1>2, <1>3, <1>4, <1>5, <1>6, <1>7

(* p has lost its r-th child. *)
Lost(K, L, p, r) ==
    /\ L[p] = RemoveAt(K[p], r)
    /\ \A q \in DOMAIN K \ {p} : L[q] = K[q]

(* The node that is visited goes: it is not settled, nor is its parent. *)
LEMMA WalkGone ==
    ASSUME NEW N, NEW D, NEW K, Forest(K), N = DOMAIN K, NEW w, WalkOf(N, D, K, w),
           NEW n, n = Last(w).node, n # 1, D[n] = NULL, K[n] = <<>>,
           NEW p, p = w[Len(w) - 1].node,
           NEW r \in DOMAIN K[p], K[p][r] = n,
           NEW L, Lost(K, L, p, r)
    PROVE  WalkOf(N, D, L, Front(w))
<1>1. /\ Len(w) > 1 /\ p \in N /\ n \in N /\ p < n
  BY WalkParent
<1>2. PICK V \in SUBSET N : Good(D, K, V) /\ Walking(K, V, w)
  BY DEF WalkOf
<1>3. PICK v : v = Front(w)
  OBVIOUS
<1>4. /\ v \in Seq(WalkType(N)) /\ v # <<>> /\ v[1].node = 1 /\ Increasing(v)
      /\ Len(v) = Len(w) - 1 /\ Len(w) \in Nat
      /\ \A j \in 1..Len(v) : v[j] = w[j] /\ (j < Len(v) => On(v, j) = On(w, j))
      /\ On(v, Len(v)) = {} /\ On(w, Len(v)) = {n}
  BY <1>1, <1>3, WalkFront
<1>5. n \notin V /\ p \notin V
  <2>1. n \notin V
    BY <1>2 DEF Good
  <2> QED
    BY <1>2, <2>1 DEF Good
<1>6. Good(D, L, V)
  <2>1. \A q \in V : L[q] = K[q]
    BY <1>2, <1>5 DEF Lost
  <2> QED
    BY <1>2, <2>1, GoodSame
<1>7. \A j \in 1..Len(w) : w[j].node \in N
  BY WalkFacts
<1>8. N \subseteq Nat
  BY ForestFacts, SMTT(30)
<1>9. Increasing(w)
  BY DEF WalkOf
<1>10. Walking(L, V, v)
  <2> SUFFICES ASSUME NEW j \in 1..Len(v)
               PROVE  Behind(L[v[j].node], V, On(v, j), v[j].next)
    BY DEF Walking
  <2>1. Behind(K[w[j].node], V, On(w, j), w[j].next) /\ v[j] = w[j] /\ j \in 1..Len(w)
    BY <1>2, <1>4 DEF Walking
  <2>2. CASE j = Len(v)
    <3>1. w[j].node = p /\ On(w, j) = {n} /\ On(v, j) = {} /\ Ids(K[p])
      BY <1>1, <1>4, <2>2, ForestIds
    <3>2. Behind(K[p], V, {K[p][r]}, w[j].next)
      BY <2>1, <3>1
    <3>3. Behind(RemoveAt(K[p], r), V, {}, w[j].next)
      BY <3>1, <3>2, BehindGone
    <3> QED
      BY <2>1, <3>1, <3>3 DEF Lost
  <2>3. CASE j # Len(v)
    <3>1. j < Len(v) /\ j < Len(w) - 1 /\ Len(w) - 1 \in 1..Len(w)
      BY <1>1, <1>4, <2>3
    <3>2. w[j].node < p
      BY <1>9, <2>1, <3>1 DEF Increasing
    <3>3. w[j].node \in N \ {p}
      BY <1>1, <1>7, <1>8, <2>1, <3>2
    <3> QED
      BY <1>4, <2>1, <3>1, <3>3 DEF Lost
  <2> QED
    BY <2>2, <2>3
<1> QED
  BY <1>2, <1>3, <1>4, <1>6, <1>10 DEF WalkOf

(* The node that is visited stays: it is settled then, and so is the root in
   the end. *)
LEMMA WalkStays ==
    ASSUME NEW N, NEW D, NEW K, Forest(K), N = DOMAIN K, NEW w, WalkOf(N, D, K, w),
           NEW n, n = Last(w).node, Last(w).next = 0,
           D[n] = NULL => K[n] # <<>> /\ \A i \in DOMAIN K[n] : D[K[n][i]] # NULL
    PROVE  /\ Len(w) # 1 => WalkOf(N, D, K, Front(w))
           /\ Len(w) = 1 => \E V \in SUBSET N : Good(D, K, V) /\ 1 \in V
<1>1. PICK V \in SUBSET N : Good(D, K, V) /\ Walking(K, V, w)
  BY DEF WalkOf
<1>2. n \in N /\ \A i \in DOMAIN K[n] : K[n][i] \in V
  BY <1>1, VisitedKids
<1>3. PICK W : W = V \cup {n}
  OBVIOUS
<1>4. W \in SUBSET N /\ Good(D, K, W) /\ n \in W /\ V \subseteq W
  BY <1>1, <1>2, <1>3, GoodMore
<1>5. Len(w) \in Nat \ {0} /\ Last(w) = w[Len(w)]
  BY WalkFacts
<1>6. ASSUME Len(w) = 1 PROVE \E X \in SUBSET N : Good(D, K, X) /\ 1 \in X
  <2>1. n = 1
    BY <1>5, <1>6 DEF WalkOf
  <2> QED
    BY <1>4, <2>1
<1>7. ASSUME Len(w) # 1 PROVE WalkOf(N, D, K, Front(w))
  <2>1. PICK v : v = Front(w)
    OBVIOUS
  <2>2. /\ v \in Seq(WalkType(N)) /\ v # <<>> /\ v[1].node = 1 /\ Increasing(v)
        /\ Len(v) = Len(w) - 1 /\ Len(w) \in Nat
        /\ \A j \in 1..Len(v) : v[j] = w[j] /\ (j < Len(v) => On(v, j) = On(w, j))
        /\ On(v, Len(v)) = {} /\ On(w, Len(v)) = {n}
    <3>1. Len(w) > 1
      <4>1. \A m \in Nat \ {0} : m # 1 => m > 1
        OBVIOUS
      <4> QED
        BY <1>5, <1>7, <4>1
    <3> QED
      BY <2>1, <3>1, WalkFront
  <2>3. Walking(K, W, v)
    <3> SUFFICES ASSUME NEW j \in 1..Len(v)
                 PROVE  Behind(K[v[j].node], W, On(v, j), v[j].next)
      BY DEF Walking
    <3>1. Behind(K[w[j].node], V, On(w, j), w[j].next) /\ v[j] = w[j]
      BY <1>1, <2>2 DEF Walking
    <3>2. CASE j = Len(v)
      <4>1. Behind(K[w[j].node], V, {n}, w[j].next) /\ On(v, j) = {}
        BY <2>2, <3>1, <3>2
      <4>2. Behind(K[w[j].node], V \cup {n}, {}, w[j].next)
        BY <4>1, BehindStays
      <4> QED
        BY <1>3, <3>1, <4>1, <4>2
    <3>3. CASE j # Len(v)
      <4>1. On(v, j) = On(w, j)
        BY <2>2, <3>3
      <4>2. Behind(K[w[j].node], W, On(w, j), w[j].next)
        BY <1>4, <3>1, BehindMore
      <4> QED
        BY <3>1, <4>1, <4>2
    <3> QED
      BY <3>2, <3>3
  <2> QED
    BY <1>4, <2>1, <2>2, <2>3 DEF WalkOf
<1> QED
  BY <1>6, <1>7

(* The tree and the walk after a step. *)
LEMMA WalkOfNext ==
    ASSUME NEW N, NEW D, NEW K, NEW w, WalkOf(N, D, K, w),
           Nodes' = N, tree'.data = D, tree'.kids = K, walk' = w
    PROVE  WalkOf(Nodes, tree.data, tree.kids, walk)'
<1>1. WalkOf(Nodes', tree'.data, tree'.kids, walk')
  OBVIOUS
<1> QED
  BY <1>1, Zenon DEF WalkOf, Walking, Good, Increasing, On, Behind, Passed

-----------------------------------------------------------------------------
(* The end of cloud_config_parse, and steps of cloud_config_simplify.      *)

(* The outermost call of cloud_config_parse has returned. *)
LEMMA ReturnsKeeps ==
    ASSUME TreeShape, ParseReturns
    PROVE  Calls' /\ Walks'
<1>1. frames' = <<>> /\ stage' = "simplify" /\ tree' = tree
  BY DEF ParseReturns
<1>2. PICK N, D, K : N = Nodes /\ D = tree.data /\ K = tree.kids
  OBVIOUS
<1>3. Forest(K) /\ N = DOMAIN K /\ 1 \in N
  BY <1>2, TreeShapeFacts
<1>4. PICK nxt : nxt = IF K[1] = <<>> THEN 0 ELSE K[1][1]
  OBVIOUS
<1>5. walk' = <<[node |-> 1, next |-> nxt]>>
  BY <1>2, <1>4 DEF ParseReturns, Enter, First
<1>6. WalkOf(N, D, K, walk')
  BY <1>3, <1>4, <1>5, WalkStart
<1>7. WalkOf(Nodes, tree.data, tree.kids, walk)'
  <2>1. Nodes' = N /\ tree'.data = D /\ tree'.kids = K
    BY <1>1, <1>2 DEF Nodes
  <2> QED
    BY <1>6, <2>1, WalkOfNext
<1>8. Calls'
  BY <1>1 DEF Calls
<1> QED
  BY <1>1, <1>7, <1>8 DEF Walks

(* 228-230: the invariant after the end of the stream. *)
LEMMA StreamEndKeeps ==
    ASSUME TreeInvariant, parse_stream_end
    PROVE  TreeInvariant'
<1>1. Parse("stream_end") /\ ParseReturns /\ UNCHANGED tree /\ stage' = "simplify"
      /\ "stream_end" \in EventTypes \ (Starts \cup {"scalar"})
  BY DEF parse_stream_end, ParseReturns, EventTypes, Starts
<1>2. Built'
  BY <1>1, NoneMade DEF TreeInvariant, Built
<1>3. Calls' /\ Walks'
  BY <1>1, ReturnsKeeps DEF TreeInvariant, Built
<1> QED
  BY <1>2, <1>3 DEF TreeInvariant

(* 177-180: after an error, at any event. *)
LEMMA ErrorKeeps ==
    ASSUME TreeInvariant, parse_error
    PROVE  TreeInvariant'
<1>1. ParseReturns /\ UNCHANGED <<tree, document, events, read>> /\ stage' = "simplify" /\ broken' = TRUE
      /\ stage = "parse"
  BY DEF parse_error, ParseReturns
<1>2. Context'
  BY <1>1 DEF TreeInvariant, Built, Context
<1>3. TreeShape'
  BY <1>1 DEF TreeInvariant, Built, TreeShape
<1>4. Attached'
  BY <1>1 DEF TreeInvariant, Built, Attached, Nodes
<1>5. Numbered'
  BY <1>1 DEF TreeInvariant, Built, Numbered, Nodes, NodeOf
<1>6. Calls' /\ Walks'
  BY <1>1, ReturnsKeeps DEF TreeInvariant, Built
<1> QED
  BY <1>2, <1>3, <1>4, <1>5, <1>6 DEF TreeInvariant, Built

(* What cloud_config_simplify does not touch. *)
LEMMA Simplifying ==
    ASSUME TreeInvariant, stage = "simplify", stage' \in {"simplify", "process"},
           UNCHANGED <<document, events, read, frames, broken>>,
           tree'.data = tree.data
    PROVE  Context' /\ Numbered' /\ Calls' /\ Nodes' = Nodes
<1>1. Nodes' = Nodes
  BY DEF Nodes
<1>2. Context'
  BY DEF TreeInvariant, Built, Context
<1>3. Numbered'
  BY <1>1 DEF TreeInvariant, Built, Numbered, NodeOf
<1>4. Calls'
  BY DEF TreeInvariant, Calls
<1> QED
  BY <1>1, <1>2, <1>3, <1>4

(* The node at which the walk is. *)
LEMMA NodeFacts ==
    ASSUME TreeInvariant, stage = "simplify"
    PROVE  /\ WalkOf(Nodes, tree.data, tree.kids, walk)
           /\ Forest(tree.kids) /\ Nodes = DOMAIN tree.kids
           /\ Len(walk) \in Nat \ {0} /\ Node \in Nodes /\ Top.next \in Nodes \cup {0}
           /\ Node = Last(walk).node /\ Top.next = Last(walk).next
<1>1. /\ WalkOf(Nodes, tree.data, tree.kids, walk)
      /\ Forest(tree.kids) /\ Nodes = DOMAIN tree.kids
  BY TreeShapeFacts DEF TreeInvariant, Built, Walks
<1>2. /\ Len(walk) \in Nat \ {0}
      /\ \A i \in 1..Len(walk) : walk[i].node \in Nodes /\ walk[i].next \in Nodes \cup {0}
      /\ Last(walk) = walk[Len(walk)]
  BY <1>1, WalkFacts
<1>3. Len(walk) \in 1..Len(walk)
  BY <1>2
<1> QED
  BY <1>1, <1>2, <1>3 DEF Node, Top

(* The invariant after a step of g_node_traverse. *)
LEMMA TraverseKeeps ==
    ASSUME TreeInvariant, g_node_traverse
    PROVE  TreeInvariant'
<1>1. /\ stage = "simplify" /\ stage' = stage /\ Top.next # 0
      /\ UNCHANGED <<document, events, read, frames, broken, tree>>
  BY DEF g_node_traverse
<1>2. Context' /\ Numbered' /\ Calls' /\ Nodes' = Nodes
  BY <1>1, Simplifying
<1>3. TreeShape' /\ Attached'
  BY <1>1, <1>2 DEF TreeInvariant, Built, TreeShape, Attached
<1>4. PICK N, D, K, w : N = Nodes /\ D = tree.data /\ K = tree.kids /\ w = walk
  OBVIOUS
<1>5. WalkOf(N, D, K, w) /\ Forest(K) /\ N = DOMAIN K
  BY <1>1, <1>4, NodeFacts
<1>6. PICK n, t : n = Last(w).node /\ t = Last(w).next
  OBVIOUS
<1>7. n = Node /\ t = Top.next /\ w[Len(w)] = Top
  <2>1. Last(w) = w[Len(w)]
    BY <1>5, WalkFacts
  <2> QED
    BY <1>4, <1>6, <2>1 DEF Node, Top
<1>8. PICK i \in DOMAIN K[n] :
        /\ K[n][i] = t
        /\ walk' = Append(Append(Front(w), [Top EXCEPT !.next = NextSibling(n, i)]), Enter(t))
  BY <1>4, <1>7 DEF g_node_traverse
<1>9. PICK f, g : /\ f = [node |-> n, next |-> IF i = Len(K[n]) THEN 0 ELSE K[n][i + 1]]
                  /\ g = [node |-> t, next |-> IF K[t] = <<>> THEN 0 ELSE K[t][1]]
  OBVIOUS
<1>10. Enter(t) = g
  BY <1>4, <1>9 DEF Enter, First
<1>11. [Top EXCEPT !.next = NextSibling(n, i)] = f
  <2>1. Top = [node |-> n, next |-> t]
    <3>1. w \in Seq(WalkType(N)) /\ w # <<>>
      BY <1>5 DEF WalkOf
    <3>2. Last(w) \in WalkType(N)
      BY <3>1, FrontLast
    <3> QED
      BY <1>4, <1>6, <3>2 DEF WalkType, Top
  <2> QED
    BY <1>4, <1>9, <2>1 DEF NextSibling
<1>12. WalkOf(N, D, K, walk')
  <2>1. WalkOf(N, D, K, Append(Append(Front(w), f), g))
    BY <1>5, <1>6, <1>8, <1>9, WalkNext
  <2> QED
    BY <1>8, <1>10, <1>11, <2>1
<1>13. Walks'
  <2>1. Nodes' = N /\ tree'.data = D /\ tree'.kids = K
    BY <1>1, <1>2, <1>4
  <2>2. WalkOf(Nodes, tree.data, tree.kids, walk)'
    BY <1>12, <2>1, WalkOfNext
  <2> QED
    BY <1>1, <2>2 DEF Walks
<1> QED
  BY <1>2, <1>3, <1>13 DEF TreeInvariant, Built

(* The node that is visited, if it has no data, and its parent. *)
LEMMA VisitedParent ==
    ASSUME TreeInvariant, stage = "simplify", tree.data[Node] = NULL
    PROVE  /\ Node # 1 /\ Len(walk) > 1 /\ Parent(Node) = walk[Len(walk) - 1].node
           /\ Parent(Node) \in Nodes /\ Node \in Nodes /\ Parent(Node) < Node
           /\ \E i \in DOMAIN tree.kids[Parent(Node)] : tree.kids[Parent(Node)][i] = Node
<1>1. /\ WalkOf(Nodes, tree.data, tree.kids, walk)
      /\ Forest(tree.kids) /\ Nodes = DOMAIN tree.kids /\ Node = Last(walk).node
  BY NodeFacts
<1>2. Node # 1
  BY DEF TreeInvariant, Built, TreeShape
<1>3. PICK N, D, K, w, n, p : /\ N = Nodes /\ D = tree.data /\ K = tree.kids /\ w = walk /\ n = Node
                              /\ p = walk[Len(walk) - 1].node
  OBVIOUS
<1>4. /\ Len(w) > 1 /\ p \in N /\ n \in N /\ p < n
      /\ \E i \in DOMAIN K[p] : K[p][i] = n
  BY <1>1, <1>2, <1>3, WalkParent
<1>5. Parent(Node) = p
  <2>1. PICK i \in DOMAIN tree.kids[p] : tree.kids[p][i] = Node
    BY <1>3, <1>4
  <2>2. p \in Nodes
    BY <1>3, <1>4
  <2> QED
    BY <2>1, <2>2, ParentIs DEF TreeInvariant, Built
<1> QED
  BY <1>2, <1>3, <1>4, <1>5

(* 280-293: after a child has been moved. *)
LEMMA ChildKeeps ==
    ASSUME TreeInvariant, simplify_child
    PROVE  TreeInvariant'
<1>1. /\ stage = "simplify" /\ stage' = stage /\ Top.next = 0
      /\ UNCHANGED <<document, events, read, frames, broken, walk>>
  BY DEF simplify_child, Visiting
<1>2. PICK r \in DOMAIN tree.kids[Node] :
        /\ LastToMove(r)
        /\ tree' = [tree EXCEPT !.kids[Parent(Node)] = Append(@, tree.kids[Node][r]),
                                !.kids[Node] = RemoveAt(@, r)]
  BY DEF simplify_child
<1>3. tree.data[Node] = NULL /\ tree.data[tree.kids[Node][r]] = NULL
  BY <1>2 DEF LastToMove
<1>4. /\ Node # 1 /\ Len(walk) > 1 /\ Parent(Node) = walk[Len(walk) - 1].node
      /\ Parent(Node) \in Nodes /\ Node \in Nodes /\ Parent(Node) < Node
      /\ \E i \in DOMAIN tree.kids[Parent(Node)] : tree.kids[Parent(Node)][i] = Node
  BY <1>1, <1>3, VisitedParent
<1>5. PICK N, D, K, w, n, p : /\ N = Nodes /\ D = tree.data /\ K = tree.kids /\ w = walk
                              /\ n = Node /\ p = Parent(Node)
  OBVIOUS
<1>6. WalkOf(N, D, K, w) /\ Forest(K) /\ N = DOMAIN K /\ n = Last(w).node /\ Last(w).next = 0
  BY <1>1, <1>5, NodeFacts
<1>7. /\ n # 1 /\ p = w[Len(w) - 1].node /\ p \in DOMAIN K /\ n \in DOMAIN K /\ p < n
      /\ r \in DOMAIN K[n] /\ D[n] = NULL /\ D[K[n][r]] = NULL
      /\ \E i \in DOMAIN K[p] : K[p][i] = n
  BY <1>2, <1>3, <1>4, <1>5, <1>6
<1>8. PICK L : L = [K EXCEPT ![p] = Append(@, K[n][r]), ![n] = RemoveAt(@, r)]
  OBVIOUS
<1>9. tree' = [data |-> D, kids |-> L]
  <2>1. tree = [data |-> D, kids |-> K]
    BY <1>5, TreeShapeFacts DEF TreeInvariant, Built
  <2>2. p # n
    BY <1>4, <1>5, <1>6, <1>7, ForestFacts
  <2> QED
    BY <1>2, <1>5, <1>8, <2>1, <2>2
<1>10. /\ Forest(L) /\ Len(L) = Len(K) /\ DOMAIN L = DOMAIN K
       /\ \A m : Hung(K, m) => Hung(L, m)
       /\ \A q \in DOMAIN K \ {p, n} : L[q] = K[q]
       /\ L[p] = Append(K[p], K[n][r]) /\ L[n] = RemoveAt(K[n], r)
  <2>1. Relocated(K, p, n, r, Relocate(K, p, n, r))
    BY <1>6, <1>7, MoveForest
  <2>2. L = Relocate(K, p, n, r)
    BY <1>8 DEF Relocate
  <2> QED
    BY <2>1, <2>2 DEF Relocated
<1>11. tree'.data = D /\ tree'.kids = L
  BY <1>9
<1>12. Context' /\ Numbered' /\ Calls' /\ Nodes' = Nodes
  BY <1>1, <1>5, <1>11, Simplifying
<1>13. TreeShape'
  <2>1. Len(L) = Len(D) /\ Len(D) > 0 /\ D[1] # NULL /\ D \in Seq(STRING \cup {NULL})
    BY <1>5, <1>10 DEF TreeInvariant, Built, TreeShape
  <2>2. Forest(tree.kids)' /\ L \in Seq(Seq(Nat))
    BY <1>10, <1>11, ForestNext
  <2> QED
    BY <1>9, <2>1, <2>2 DEF TreeShape
<1>14. Attached'
  <2> SUFFICES ASSUME NEW m \in N \ {1}, D[m] # NULL \/ L[m] # <<>>
               PROVE  Hung(L, m)
    BY <1>1, <1>5, <1>11, <1>12 DEF Attached, Hung
  <2>1. D[m] # NULL \/ K[m] # <<>>
    <3>1. CASE m = p
      BY <1>7, <3>1
    <3>2. CASE m = n
      BY <1>7, <3>2
    <3>3. CASE m \notin {p, n}
      BY <1>6, <1>10, <3>3
    <3> QED
      BY <3>1, <3>2, <3>3
  <2>2. Hung(K, m)
    BY <1>5, <2>1 DEF TreeInvariant, Built, Attached
  <2> QED
    BY <1>10, <2>2
<1>15. Walks'
  <2>1. Moved(K, L, p, n, r)
    BY <1>10 DEF Moved
  <2>2. WalkOf(N, D, L, w)
    BY <1>6, <1>7, <2>1, WalkMove
  <2>3. WalkOf(Nodes, tree.data, tree.kids, walk)'
    BY <1>1, <1>5, <1>11, <1>12, <2>2, WalkOfNext
  <2> QED
    BY <1>1, <2>3 DEF Walks
<1> QED
  BY <1>12, <1>13, <1>14, <1>15 DEF TreeInvariant, Built

(* 295-300: after an empty node has been removed. *)
LEMMA EmptyKeeps ==
    ASSUME TreeInvariant, simplify_node, tree.data[Node] = NULL /\ tree.kids[Node] = <<>>
    PROVE  TreeInvariant'
<1>1. /\ stage = "simplify" /\ Top.next = 0 /\ walk' = Front(walk)
      /\ stage' = (IF Len(walk) = 1 THEN "process" ELSE "simplify")
      /\ UNCHANGED <<document, events, read, frames, broken>>
  BY DEF simplify_node, Visiting, Return
<1>2. /\ Node # 1 /\ Len(walk) > 1 /\ Parent(Node) = walk[Len(walk) - 1].node
      /\ Parent(Node) \in Nodes /\ Node \in Nodes /\ Parent(Node) < Node
  BY <1>1, VisitedParent
<1>3. stage' = "simplify"
  <2>1. Len(walk) # 1
    <3>1. \A m \in Nat : m > 1 => m # 1
      OBVIOUS
    <3> QED
      BY <1>1, <1>2, <3>1, NodeFacts
  <2> QED
    BY <1>1, <2>1
<1>4. PICK r \in DOMAIN tree.kids[Parent(Node)] :
        /\ tree.kids[Parent(Node)][r] = Node
        /\ tree' = [tree EXCEPT !.kids[Parent(Node)] = RemoveAt(@, r)]
  BY DEF simplify_node
<1>5. PICK N, D, K, w, n, p : /\ N = Nodes /\ D = tree.data /\ K = tree.kids /\ w = walk
                              /\ n = Node /\ p = Parent(Node)
  OBVIOUS
<1>6. WalkOf(N, D, K, w) /\ Forest(K) /\ N = DOMAIN K /\ n = Last(w).node
  BY <1>1, <1>5, NodeFacts
<1>7. /\ n # 1 /\ p = w[Len(w) - 1].node /\ p \in DOMAIN K /\ n \in DOMAIN K
      /\ r \in DOMAIN K[p] /\ K[p][r] = n /\ D[n] = NULL /\ K[n] = <<>>
  BY <1>2, <1>4, <1>5, <1>6
<1>8. PICK L : L = Without(K, p, r)
  OBVIOUS
<1>9. tree' = [data |-> D, kids |-> L]
  <2>1. tree = [data |-> D, kids |-> K]
    BY <1>5, TreeShapeFacts DEF TreeInvariant, Built
  <2> QED
    BY <1>4, <1>5, <1>8, <2>1 DEF Without
<1>10. /\ Forest(L) /\ Len(L) = Len(K) /\ DOMAIN L = DOMAIN K
       /\ \A m : m # n /\ Hung(K, m) => Hung(L, m)
       /\ \A q \in DOMAIN K \ {p} : L[q] = K[q]
       /\ L[p] = RemoveAt(K[p], r)
  BY <1>6, <1>7, <1>8, UnlinkForest
<1>11. tree'.data = D /\ tree'.kids = L
  BY <1>9
<1>12. Context' /\ Numbered' /\ Calls' /\ Nodes' = Nodes
  BY <1>1, <1>3, <1>5, <1>11, Simplifying
<1>13. TreeShape'
  <2>1. Len(L) = Len(D) /\ Len(D) > 0 /\ D[1] # NULL /\ D \in Seq(STRING \cup {NULL})
    BY <1>5, <1>10 DEF TreeInvariant, Built, TreeShape
  <2>2. Forest(tree.kids)' /\ L \in Seq(Seq(Nat))
    BY <1>10, <1>11, ForestNext
  <2> QED
    BY <1>9, <2>1, <2>2 DEF TreeShape
<1>14. Attached'
  <2> SUFFICES ASSUME NEW m \in N \ {1}, D[m] # NULL \/ L[m] # <<>>
               PROVE  Hung(L, m)
    BY <1>3, <1>5, <1>11, <1>12 DEF Attached, Hung
  <2>1. p # n
    <3>1. p < n /\ p \in Nat
      <4>1. DOMAIN K = 1..Len(K) /\ p \in DOMAIN K
        BY <1>6, <1>7, ForestFacts
      <4> QED
        BY <1>2, <1>5, <4>1
    <3> QED
      BY <3>1
  <2>2. m # n
    BY <1>7, <1>10, <2>1
  <2>3. D[m] # NULL \/ K[m] # <<>>
    <3>1. CASE m = p
      BY <1>7, <3>1
    <3>2. CASE m # p
      BY <1>6, <1>10, <3>2
    <3> QED
      BY <3>1, <3>2
  <2>4. Hung(K, m)
    BY <1>5, <2>3 DEF TreeInvariant, Built, Attached
  <2> QED
    BY <1>10, <2>2, <2>4
<1>15. Walks'
  <2>1. WalkOf(N, D, L, Front(w))
    <3>1. Lost(K, L, p, r)
      BY <1>10 DEF Lost
    <3> QED
      BY <1>6, <1>7, <3>1, WalkGone
  <2>2. WalkOf(Nodes, tree.data, tree.kids, walk)'
    BY <1>1, <1>5, <1>11, <1>12, <2>1, WalkOfNext
  <2> QED
    BY <1>3, <2>2 DEF Walks
<1> QED
  BY <1>12, <1>13, <1>14, <1>15 DEF TreeInvariant, Built

(* 276-279: after the visit of a node that stays: no child is left to move,
   as the last one of those would be moved. *)
LEMMA StaysKeeps ==
    ASSUME TreeInvariant, simplify_node, ~(tree.data[Node] = NULL /\ tree.kids[Node] = <<>>)
    PROVE  TreeInvariant'
<1>1. /\ stage = "simplify" /\ Top.next = 0 /\ walk' = Front(walk)
      /\ stage' = (IF Len(walk) = 1 THEN "process" ELSE "simplify")
      /\ ~\E i \in DOMAIN tree.kids[Node] : LastToMove(i)
      /\ UNCHANGED <<document, events, read, frames, broken, tree>>
  BY DEF simplify_node, Visiting, Return
<1>2. PICK N, D, K, w, n : /\ N = Nodes /\ D = tree.data /\ K = tree.kids /\ w = walk /\ n = Node
  OBVIOUS
<1>3. /\ WalkOf(N, D, K, w) /\ Forest(K) /\ N = DOMAIN K /\ n = Last(w).node /\ Last(w).next = 0
      /\ n \in N
  BY <1>1, <1>2, NodeFacts
<1>4. ASSUME D[n] = NULL
      PROVE  \A i \in DOMAIN K[n] : D[K[n][i]] # NULL
  <2>1. PICK m \in Nat : m = Len(K[n]) /\ DOMAIN K[n] = 1..m
    BY <1>3, ForestFacts
  <2> DEFINE S == {i \in 1..m : D[K[n][i]] = NULL}
  <2>2. S = {}
    <3> SUFFICES ASSUME S # {} PROVE FALSE
      OBVIOUS
    <3>1. PICK k \in S : \A j \in S : j <= k
      BY GreatestNumber
    <3>2. \A j \in (k + 1)..m : j \notin S
      BY <3>1
    <3>3. \A j \in (k + 1)..m : D[K[n][j]] # NULL
      <4>1. k \in Nat
        BY <3>1
      <4> QED
        BY <3>2, <4>1
    <3>4. LastToMove(k)
      BY <1>2, <1>4, <2>1, <3>1, <3>3 DEF LastToMove
    <3> QED
      BY <1>1, <1>2, <2>1, <3>1, <3>4
  <2> QED
    BY <2>1, <2>2
<1>5. D[n] = NULL => K[n] # <<>> /\ \A i \in DOMAIN K[n] : D[K[n][i]] # NULL
  BY <1>2, <1>4
<1>6. /\ Len(w) # 1 => WalkOf(N, D, K, Front(w))
      /\ Len(w) = 1 => \E V \in SUBSET N : Good(D, K, V) /\ 1 \in V
  BY <1>3, <1>5, WalkStays
<1>7. tree'.data = D /\ tree'.kids = K /\ stage' \in {"simplify", "process"}
  BY <1>1, <1>2
<1>8. Context' /\ Numbered' /\ Calls' /\ Nodes' = Nodes
  BY <1>1, <1>2, <1>7, Simplifying
<1>9. TreeShape'
  BY <1>1 DEF TreeInvariant, Built, TreeShape
<1>10. Attached'
  BY <1>1, <1>7, <1>8 DEF TreeInvariant, Built, Attached
<1>11. Walks'
  <2>1. CASE Len(w) = 1
    <3>1. stage' = "process" /\ walk' = <<>>
      <4>1. w \in Seq(WalkType(N)) /\ w # <<>>
        BY <1>3 DEF WalkOf
      <4>2. Front(w) \in Seq(WalkType(N)) /\ Len(Front(w)) = 0
        BY <2>1, <4>1, FrontLast
      <4>3. Front(w) = <<>>
        BY <4>2
      <4> QED
        BY <1>1, <1>2, <2>1, <4>3
    <3>2. PICK V \in SUBSET N : Good(D, K, V) /\ 1 \in V
      BY <1>6, <2>1
    <3>3. Good(tree.data, tree.kids, V)'
      BY <1>7, <3>2 DEF Good
    <3> QED
      BY <1>2, <1>8, <3>1, <3>2, <3>3 DEF Walks
  <2>2. CASE Len(w) # 1
    <3>1. WalkOf(Nodes, tree.data, tree.kids, walk)'
      BY <1>1, <1>2, <1>6, <1>7, <1>8, <2>2, WalkOfNext
    <3> QED
      BY <1>1, <1>2, <2>2, <3>1 DEF Walks
  <2> QED
    BY <2>1, <2>2
<1> QED
  BY <1>8, <1>9, <1>10, <1>11 DEF TreeInvariant, Built

-----------------------------------------------------------------------------
(* Theorems.                                                               *)

(* The invariant holds when cloud_config_parse is called. *)
LEMMA InitInv ==
    ASSUME TreeInit
    PROVE  TreeInvariant
<1> USE DEF TreeInit
<1>1. EventsOf(document) \in Seq([type : EventTypes, text : STRING]) /\ Len(EventsOf(document)) > 0
  BY EventsAssumption
<1>2. Len(events) \in Nat /\ Len(events) > 0
  <2>1. Len(EventsOf(document)) \in Nat
    BY <1>1
  <2> QED
    BY <1>1, <2>1
<1>3. Context
  <2>1. read \in 0..Len(events)
    <3>1. read = 0
      OBVIOUS
    <3>2. \A m \in Nat : 0 \in 0..m
      OBVIOUS
    <3> QED
      BY <1>2, <3>1, <3>2, Zenon
  <2>2. /\ document \in Documents /\ events = EventsOf(document)
        /\ stage \in {"parse", "simplify", "process"} /\ broken \in BOOLEAN
    BY Zenon
  <2> QED
    BY <2>1, <2>2, Zenon DEF Context
<1>4. /\ tree.data = <<FileName>> /\ tree.kids = <<(<<>>)>> /\ Len(tree.data) = 1 /\ Len(tree.kids) = 1
      /\ Nodes = {1} /\ DOMAIN tree.kids = {1} /\ tree.kids[1] = <<>> /\ tree.data[1] = FileName
  BY DEF Nodes
<1>5. Forest(tree.kids)
  <2>1. tree.kids \in Seq(Seq(2..Len(tree.kids)))
    <3>1. <<>> \in Seq(2..Len(tree.kids))
      BY EmptySeq
    <3> QED
      BY <1>4, <3>1
  <2>2. \A p \in DOMAIN tree.kids : DOMAIN tree.kids[p] = {}
    BY <1>4
  <2> QED
    BY <2>1, <2>2 DEF Forest
<1>6. TreeShape
  <2>1. tree.data \in Seq(STRING \cup {NULL}) /\ tree.kids \in Seq(Seq(Nat))
    <3>1. <<>> \in Seq(Nat)
      BY EmptySeq
    <3>2. <<(<<>>)>> \in Seq(Seq(Nat))
      BY <3>1
    <3>3. <<FileName>> \in Seq(STRING \cup {NULL})
      BY DataAssumption
    <3> QED
      BY <1>4, <3>2, <3>3, Zenon
  <2>2. tree \in [data : Seq(STRING \cup {NULL}), kids : Seq(Seq(Nat))]
    BY <2>1
  <2>3. tree.data[1] # NULL
    BY <1>4, DataAssumption
  <2> QED
    BY <1>4, <1>5, <2>2, <2>3 DEF TreeShape
<1>7. Attached
  BY <1>4 DEF Attached
<1>8. Numbered
  <2>1. Number(events, 0, Starts \cup {"scalar"}) = 0
    BY NumberNone
  <2>2. NodeOf(read) = 1
    BY <2>1 DEF NodeOf
  <2>3. 1..read = {}
    OBVIOUS
  <2> QED
    BY <1>4, <2>2, <2>3 DEF Numbered
<1>9. Calls
  <2>1. Number(events, 0, Starts) = 0 /\ Number(events, 0, {"end"}) = 0
    BY NumberNone
  <2>2. Len(frames) = 1 /\ frames # <<>> /\ frames \in Seq(CallsOf(Nodes))
    BY <1>4 DEF CallsOf, States
  <2>3. Nested(frames)
    BY <2>2 DEF Nested
  <2> QED
    BY <1>2, <2>1, <2>2, <2>3 DEF Calls
<1>10. Walks
  BY DEF Walks
<1> QED
  BY <1>3, <1>6, <1>7, <1>8, <1>9, <1>10 DEF TreeInvariant, Built

(* Every step keeps it. *)
LEMMA NextInv ==
    ASSUME TreeInvariant, [TreeNext]_treeVars
    PROVE  TreeInvariant'
<1>1. ASSUME stage = "parse", stage' = stage, walk' = walk, Built', Calls'
      PROVE  TreeInvariant'
  BY <1>1 DEF TreeInvariant, Walks
<1>2. CASE parse_scalar
  BY <1>1, <1>2, ScalarKeeps DEF TreeInvariant, parse_scalar, Parse
<1>3. CASE parse_sequence_start
  BY <1>1, <1>3, SequenceStartKeeps DEF TreeInvariant, parse_sequence_start, Parse
<1>4. CASE parse_mapping_start
  BY <1>1, <1>4, MappingStartKeeps DEF TreeInvariant, parse_mapping_start, Parse
<1>5. CASE parse_end
  BY <1>1, <1>5, EndKeeps DEF TreeInvariant, parse_end, Parse
<1>6. CASE parse_ignored
  BY <1>1, <1>6, IgnoredKeeps DEF TreeInvariant, parse_ignored, Parse
<1>7. CASE parse_stream_end
  BY <1>7, StreamEndKeeps
<1>8. CASE parse_error
  BY <1>8, ErrorKeeps
<1>9. CASE g_node_traverse
  BY <1>9, TraverseKeeps
<1>10. CASE simplify_child
  BY <1>10, ChildKeeps
<1>11. CASE simplify_node
  BY <1>11, EmptyKeeps, StaysKeeps
<1>12. CASE UNCHANGED treeVars
  <2>1. UNCHANGED <<document, events, read, frames, tree, walk, stage, broken>>
    BY <1>12 DEF treeVars
  <2>2. Built' /\ Calls'
    BY <2>1 DEF TreeInvariant, Built, Context, TreeShape, Attached, Numbered, NodeOf, Nodes, Calls
  <2>3. Walks'
    <3>1. Nodes' = Nodes
      BY <2>1 DEF Nodes
    <3>2. PICK N, D, K, w : N = Nodes /\ D = tree.data /\ K = tree.kids /\ w = walk
      OBVIOUS
    <3>3. ASSUME stage = "simplify"
          PROVE  WalkOf(Nodes, tree.data, tree.kids, walk)'
      <4>1. WalkOf(N, D, K, w)
        BY <3>2, <3>3 DEF TreeInvariant, Walks
      <4>2. Nodes' = N /\ tree'.data = D /\ tree'.kids = K /\ walk' = w
        BY <2>1, <3>1, <3>2
      <4> QED
        BY <4>1, <4>2, WalkOfNext
    <3>4. ASSUME stage = "process"
          PROVE  (\E V \in SUBSET Nodes : Good(tree.data, tree.kids, V) /\ 1 \in V)'
      <4>1. PICK V \in SUBSET Nodes : Good(tree.data, tree.kids, V) /\ 1 \in V
        BY <3>4 DEF TreeInvariant, Walks
      <4>2. Good(tree.data, tree.kids, V)'
        BY <2>1, <4>1 DEF Good
      <4> QED
        BY <3>1, <4>1, <4>2
    <3> QED
      BY <2>1, <3>3, <3>4 DEF TreeInvariant, Walks
  <2> QED
    BY <2>2, <2>3 DEF TreeInvariant
<1> QED
  BY <1>2, <1>3, <1>4, <1>5, <1>6, <1>7, <1>8, <1>9, <1>10, <1>11, <1>12
  DEF TreeNext, cloud_config_parse, cloud_config_simplify

(* The invariant holds for every document. *)
THEOREM TreeInvariantHolds == TreeSpec => []TreeInvariant
<1>1. TreeInit => TreeInvariant
  BY InitInv
<1>2. TreeInvariant /\ [TreeNext]_treeVars => TreeInvariant'
  BY NextInv
<1> QED
  BY <1>1, <1>2, PTL DEF TreeSpec

(* The types are part of the invariant. *)
LEMMA TypesFollow ==
    ASSUME TreeInvariant
    PROVE  TreeTypeOK
<1>1. Context /\ TreeShape /\ Calls /\ Walks
  BY DEF TreeInvariant, Built
<1>2. tree.data \in Seq(STRING \cup {NULL}) /\ Len(tree.kids) = Len(tree.data)
  BY <1>1 DEF TreeShape
<1>3. tree.kids \in Seq(Seq(Nodes \ {1}))
  <2>1. Nodes \ {1} = 2..Len(tree.kids)
    BY <1>1, <1>2, TreeShapeFacts
  <2>2. tree.kids \in Seq(Seq(2..Len(tree.kids)))
    BY <1>1 DEF TreeShape, Forest
  <2> QED
    BY <2>1, <2>2
<1>4. frames \in Seq([node : Nodes, last_leaf : Nodes, state : States]) /\ (stage = "parse") = (frames # <<>>)
  <2>1. CASE stage = "parse"
    BY <1>1, <2>1 DEF Calls, CallsOf
  <2>2. CASE stage # "parse"
    BY <1>1, <2>2 DEF Calls
  <2> QED
    BY <2>1, <2>2
<1>5. walk \in Seq([node : Nodes, next : Nodes \cup {0}]) /\ (stage = "simplify") = (walk # <<>>)
  <2>1. CASE stage = "simplify"
    BY <1>1, <2>1 DEF Walks, WalkOf, WalkType
  <2>2. CASE stage # "simplify"
    BY <1>1, <2>2 DEF Walks
  <2> QED
    BY <2>1, <2>2
<1> QED
  BY <1>1, <1>2, <1>3, <1>4, <1>5 DEF TreeTypeOK, Context

(* The tree, the calls of cloud_config_parse and those of g_node_traverse
   have their types, and there are calls exactly in their stage. *)
THEOREM TypeCorrect == TreeSpec => []TreeTypeOK
<1>1. TreeInvariant => TreeTypeOK
  BY TypesFollow
<1> QED
  BY <1>1, TreeInvariantHolds, PTL

(* A node that hangs is below an older one, and nowhere else. *)
LEMMA HungInTree ==
    ASSUME TreeShape, NEW n \in Nodes, Hung(tree.kids, n)
    PROVE  InTree(n)
<1>1. DOMAIN tree.kids = Nodes /\ Nodes = 1..Len(tree.data) /\ Len(tree.data) \in Nat
  BY TreeShapeFacts
<1>2. PICK p \in Nodes : \E i \in DOMAIN tree.kids[p] : tree.kids[p][i] = n
  BY <1>1 DEF Hung
<1>3. PICK i \in DOMAIN tree.kids[p] : tree.kids[p][i] = n
  BY <1>2
<1>4. p < n
  BY <1>1, <1>3 DEF TreeShape, Forest
<1>5. p \in 1..(n - 1)
  BY <1>1, <1>4
<1>6. \A q \in Nodes : \A j \in DOMAIN tree.kids[q] : tree.kids[q][j] = n => q = p /\ j = i
  BY <1>1, <1>3 DEF TreeShape, Forest
<1> QED
  BY <1>3, <1>5, <1>6 DEF InTree

(* Each scalar that has been read is the data of one node, no other node has
   data, and the node is in the tree, and all that is above it, while
   cloud_config_parse builds it, while cloud_config_simplify moves and
   destroys nodes, and however the document ends. *)
THEOREM EveryScalarKept == TreeSpec => []ScalarsKept
<1>1. TreeInvariant => ScalarsKept
  <2> SUFFICES ASSUME TreeInvariant PROVE ScalarsKept
    OBVIOUS
  <2>1. \A n \in Nodes \ {1} : tree.data[n] # NULL \/ tree.kids[n] # <<>> => InTree(n)
    BY HungInTree DEF TreeInvariant, Built, Attached
  <2> QED
    BY <2>1 DEF TreeInvariant, Built, Numbered, ScalarsKept
<1> QED
  BY <1>1, TreeInvariantHolds, PTL

(* In the end all nodes with children are settled: the oldest one that is not
   would have a parent that is. *)
LEMMA Settled ==
    ASSUME TreeInvariant, NEW V \in SUBSET Nodes, Good(tree.data, tree.kids, V), 1 \in V
    PROVE  \A p \in Nodes : tree.kids[p] # <<>> => p \in V
<1>1. /\ DOMAIN tree.kids = Nodes /\ Nodes = 1..Len(tree.data) /\ Len(tree.data) \in Nat
      /\ \A p \in Nodes : \A i \in DOMAIN tree.kids[p] : p < tree.kids[p][i]
      /\ \A p \in Nodes : DOMAIN tree.kids[p] = 1..Len(tree.kids[p]) /\ Len(tree.kids[p]) \in Nat
  BY TreeShapeFacts DEF TreeInvariant, Built
<1> DEFINE S == {p \in Nodes : tree.kids[p] # <<>> /\ p \notin V}
<1>2. S = {}
  <2> SUFFICES ASSUME S # {} PROVE FALSE
    OBVIOUS
  <2>1. S \in SUBSET Nat
    BY <1>1
  <2>2. PICK p \in S : \A q \in S : ~(q < p)
    <3> HIDE DEF S
    <3> QED
      BY <2>1, LeastNumber
  <2>3. p \in Nodes \ {1} /\ tree.kids[p] # <<>>
    BY <2>2
  <2>4. Hung(tree.kids, p)
    BY <2>3 DEF TreeInvariant, Built, Attached
  <2>5. PICK q \in Nodes : \E i \in DOMAIN tree.kids[q] : tree.kids[q][i] = p
    BY <1>1, <2>4 DEF Hung
  <2>6. PICK i \in DOMAIN tree.kids[q] : tree.kids[q][i] = p
    BY <2>5
  <2>7. q < p /\ tree.kids[q] # <<>>
    BY <1>1, <2>6
  <2>8. q \in V
    BY <2>2, <2>7
  <2>9. p \in V
    BY <2>6, <2>8 DEF Good
  <2> QED
    BY <2>2, <2>9
<1> QED
  BY <1>2

(* When the handlers are called a node without data has children, and all of
   them have data: one walk of cloud_config_simplify is enough, for every
   document. *)
THEOREM TreeSimplified == TreeSpec => []SimplifiedTree
<1>1. TreeInvariant => SimplifiedTree
  <2> SUFFICES ASSUME TreeInvariant, stage = "process",
                      NEW p \in Nodes, NEW n \in ToSet(tree.kids[p]), tree.data[n] = NULL
               PROVE  /\ tree.kids[n] # <<>>
                      /\ \A c \in ToSet(tree.kids[n]) : tree.data[c] # NULL
    BY DEF SimplifiedTree
  <2>1. PICK V \in SUBSET Nodes : Good(tree.data, tree.kids, V) /\ 1 \in V
    BY DEF TreeInvariant, Walks
  <2>2. PICK i \in DOMAIN tree.kids[p] : tree.kids[p][i] = n
    BY DEF ToSet
  <2>3. tree.kids[p] # <<>>
    BY <2>2
  <2>4. p \in V
    BY <2>1, <2>3, Settled
  <2>5. n \in V
    BY <2>1, <2>2, <2>4 DEF Good
  <2>6. tree.kids[n] # <<>> /\ \A j \in DOMAIN tree.kids[n] : tree.data[tree.kids[n][j]] # NULL
    BY <2>1, <2>5 DEF Good
  <2> QED
    BY <2>6 DEF ToSet
<1> QED
  BY <1>1, TreeInvariantHolds, PTL

-----------------------------------------------------------------------------
(* Where the keys of a document stand among its events, and their nodes.   *)

(* How many sequences and mappings are open after the first i events. *)
DepthAt(s, i) == Number(s, i, Starts) - Number(s, i, {"end"})

(* The node made for the i-th event, as NodeOf gives it. *)
Numbering(s, i) == 1 + Number(s, i, Starts \cup {"scalar"})

(* The events are those of one mapping.  o[k] is the place of its k-th key,
   the start of the mapping being the 0-th, and its end the one behind the
   last; a key is followed by one scalar, or by a sequence that is open until
   the next key. *)
Single(s, o, k) == o[k + 1] = o[k] + 2 /\ s[o[k] + 1].type = "scalar"
Opened(s, o, k) ==
    /\ s[o[k] + 1].type = "sequence_start"
    /\ \A j \in (o[k] + 1)..(o[k + 1] - 2) : DepthAt(s, j) >= 2
Layout(s, n, o) ==
    /\ n \in Nat /\ o \in [0..(n + 1) -> Nat]
    /\ o[0] = 1 /\ o[1] = 2 /\ o[n + 1] = Len(s) - 1
    /\ \A j, k \in 0..(n + 1) : j < k => o[j] < o[k]
    /\ s[1].type = "mapping_start" /\ s[o[n + 1]].type = "end"
    /\ \A k \in 1..n : s[o[k]].type = "scalar" /\ o[k] + 1 < o[k + 1] /\ (Single(s, o, k) \/ Opened(s, o, k))
    /\ \A k \in 0..n : DepthAt(s, o[k]) = 1 /\ DepthAt(s, o[k + 1] - 1) = 1

(* The node of the k-th key. *)
KeyNode(s, o, k) == Numbering(s, o[k])

LEMMA NumberingNext ==
    ASSUME NEW s, NEW i \in Nat
    PROVE  /\ Numbering(s, i) \in Nat \ {0}
           /\ s[i + 1].type \in Starts \cup {"scalar"} => Numbering(s, i + 1) = Numbering(s, i) + 1
           /\ s[i + 1].type \notin Starts \cup {"scalar"} => Numbering(s, i + 1) = Numbering(s, i)
<1> DEFINE types == Starts \cup {"scalar"}
<1>1. /\ Number(s, i, types) \in Nat
      /\ s[i + 1].type \in types => Number(s, i + 1, types) = Number(s, i, types) + 1
      /\ s[i + 1].type \notin types => Number(s, i + 1, types) = Number(s, i, types)
  BY NumberNext
<1> QED
  BY <1>1 DEF Numbering

LEMMA NumberingGrows ==
    ASSUME NEW s, NEW i \in Nat, NEW j \in Nat, i <= j
    PROVE  Numbering(s, i) <= Numbering(s, j)
<1> DEFINE S == {d \in Nat : Numbering(s, i) <= Numbering(s, i + d)}
<1>1. 0 \in S
  <2>1. i + 0 = i /\ Numbering(s, i) \in Nat
    BY NumberingNext
  <2> QED
    BY <2>1
<1>2. ASSUME NEW d \in Nat, d \in S PROVE d + 1 \in S
  <2>1. i + d \in Nat /\ i + (d + 1) = (i + d) + 1
    OBVIOUS
  <2>2. /\ Numbering(s, i) \in Nat /\ Numbering(s, i + d) \in Nat /\ Numbering(s, (i + d) + 1) \in Nat
        /\ Numbering(s, i + d) <= Numbering(s, (i + d) + 1)
    BY <2>1, NumberingNext
  <2> QED
    BY <1>2, <2>1, <2>2
<1> HIDE DEF S
<1>3. Nat \subseteq S
  BY <1>1, <1>2, Induction
<1>4. j - i \in S /\ i + (j - i) = j
  BY <1>3
<1> QED
  BY <1>4 DEF S

(* The nodes of keys are numbered in their order, and the last event before a
   key belongs to an older node. *)
LEMMA KeyNodes ==
    ASSUME NEW s, NEW n, NEW o, Layout(s, n, o)
    PROVE  /\ n \in Nat /\ KeyNode(s, o, 0) = 2
           /\ \A k \in 0..n : KeyNode(s, o, k) \in Nat /\ KeyNode(s, o, k) >= 2 /\ o[k] \in Nat
           /\ \A j, k \in 0..n : j < k => KeyNode(s, o, j) < KeyNode(s, o, k) /\ o[j] < o[k]
<1>1. /\ n \in Nat /\ o[0] = 1 /\ \A k \in 0..(n + 1) : o[k] \in Nat
      /\ \A j, k \in 0..(n + 1) : j < k => o[j] < o[k]
  BY DEF Layout
<1>2. KeyNode(s, o, 0) = 2
  <2>1. s[0 + 1].type \in Starts \cup {"scalar"} /\ 0 + 1 = 1
    BY DEF Layout, Starts
  <2>2. Numbering(s, 0) = 1
    BY NumberNone DEF Numbering
  <2>3. Numbering(s, 1) = 2
    BY <2>1, <2>2, NumberingNext
  <2> QED
    BY <1>1, <2>3 DEF KeyNode
<1>3. ASSUME NEW j \in 0..n, NEW k \in 0..n, j < k PROVE KeyNode(s, o, j) < KeyNode(s, o, k)
  <2>1. k \in 1..n /\ j \in 0..(n + 1) /\ k \in 0..(n + 1)
    BY <1>1, <1>3
  <2>2. o[j] \in Nat /\ o[k] \in Nat /\ o[j] < o[k] /\ s[o[k]].type = "scalar"
    BY <1>1, <1>3, <2>1 DEF Layout
  <2>3. o[k] - 1 \in Nat /\ (o[k] - 1) + 1 = o[k] /\ o[j] <= o[k] - 1
    BY <2>2
  <2>4. Numbering(s, o[k]) = Numbering(s, o[k] - 1) + 1 /\ Numbering(s, o[k] - 1) \in Nat
    BY <2>2, <2>3, NumberingNext
  <2>5. Numbering(s, o[j]) <= Numbering(s, o[k] - 1) /\ Numbering(s, o[j]) \in Nat
    BY <2>2, <2>3, NumberingGrows, NumberingNext
  <2> QED
    BY <2>4, <2>5 DEF KeyNode
<1>4. ASSUME NEW k \in 0..n PROVE KeyNode(s, o, k) \in Nat /\ KeyNode(s, o, k) >= 2
  <2>1. k \in 0..(n + 1) /\ o[k] \in Nat
    BY <1>1
  <2>2. KeyNode(s, o, k) \in Nat
    BY <2>1, NumberingNext DEF KeyNode
  <2>3. 0 \in 0..n /\ (k # 0 => 0 < k)
    BY <1>1
  <2>4. k # 0 => KeyNode(s, o, 0) < KeyNode(s, o, k)
    BY <1>3, <2>3
  <2> QED
    BY <1>2, <2>2, <2>4
<1>5. \A k \in 0..n : k \in 0..(n + 1)
  BY <1>1
<1> QED
  BY <1>1, <1>2, <1>3, <1>4, <1>5

-----------------------------------------------------------------------------
(* What has been made of the keys and the calls after r events.            *)

(* The children of the mapping are the first b keys, and nothing below them
   is a child of anything older. *)
KeysAre(s, o, b, K, r) ==
    /\ K[1] = <<2>>
    /\ K[2] = [k \in 1..b |-> KeyNode(s, o, k)]
    /\ \A k \in 1..b : Single(s, o, k) /\ r > o[k] => K[KeyNode(s, o, k)] = <<KeyNode(s, o, k) + 1>>
    /\ \A p \in 1..KeyNode(s, o, b) : \A i \in DOMAIN K[p] : K[p][i] <= KeyNode(s, o, b) + 1

(* The second call is the one for the mapping; the calls in it are for what
   stands below the b-th key. *)
Inner(s, o, b, F) ==
    /\ Len(F) >= 2 /\ F[2].node = 2
    /\ \A j \in 3..Len(F) :
          /\ F[j].node > KeyNode(s, o, b) /\ F[j].last_leaf > KeyNode(s, o, b)
          /\ j # 3 => F[j].node > KeyNode(s, o, b) + 1

Within(s, o, b, K, r, F) ==
    /\ o[b] <= r /\ r < o[b + 1] /\ KeysAre(s, o, b, K, r) /\ Inner(s, o, b, F)
    /\ r = o[b] /\ b # 0 =>
          /\ F[2].state = {"MAP", "VAL"} /\ F[2].last_leaf = KeyNode(s, o, b)
          /\ K[KeyNode(s, o, b)] = <<>>
    /\ r # o[b] \/ b = 0 => F[2].state = {"MAP"}

ParsedTo(s, n, o, K, r, F) ==
    \/ r = 0 /\ F = <<[node |-> 1, last_leaf |-> 1, state |-> {}]>> /\ K = << <<>> >>
    \/ \E b \in 0..n : Within(s, o, b, K, r, F)
    \/ r = o[n + 1] /\ KeysAre(s, o, n, K, r)

(* A new node goes behind the children of p, and nothing else changes. *)
OneGrown(K, L, p, new) ==
    /\ new \in Nat /\ \A q \in DOMAIN K : q < new
    /\ L[p] = Append(K[p], new) /\ L[new] = <<>>
    /\ \A q \in DOMAIN K : q # p => L[q] = K[q]
    /\ DOMAIN L = DOMAIN K \cup {new}

(* The children of nodes that are numbered below new. *)
KidsBelow(K, new) == new \in Nat /\ DOMAIN K = 1..(new - 1) /\ \A q \in DOMAIN K : K[q] \in Seq(1..(new - 1))

LEMMA GrownIs ==
    ASSUME Built, Calls, NEW type \in Starts \cup {"scalar"}, Parse(type), NEW p \in Nodes, NEW x, Grow(x, p)
    PROVE  /\ OneGrown(tree.kids, tree'.kids, p, New) /\ KidsBelow(tree.kids, New)
           /\ DOMAIN tree.kids = Nodes /\ Nodes = 1..(New - 1)
           /\ New = Numbering(events, read + 1) /\ New = Numbering(events, read) + 1
<1>1. /\ Len(tree.data) \in Nat /\ Nodes = 1..Len(tree.data) /\ DOMAIN tree.kids = Nodes
      /\ \A q \in Nodes : tree.kids[q] \in Seq(Nodes \ {1})
      /\ Len(tree.kids) = Len(tree.data) /\ tree.kids \in Seq(Seq(Nat))
  BY TreeShapeFacts DEF Built, TreeShape
<1>2. Len(tree.data) = Numbering(events, read)
  BY DEF Built, Numbered, NodeOf, Numbering
<1>3. read \in Nat /\ events[read + 1].type = type
  BY ParseFacts DEF Built
<1>4. New = Numbering(events, read) + 1 /\ New = Numbering(events, read + 1)
  BY <1>2, <1>3, NumberingNext DEF New
<1>5. PICK K, m : K = [tree.kids EXCEPT ![p] = Append(@, New)] /\ m = Len(tree.data)
  OBVIOUS
<1>6. New = m + 1 /\ m \in Nat /\ DOMAIN tree.kids = 1..m
  BY <1>1, <1>5 DEF New
<1>7. K[p] = Append(tree.kids[p], New) /\ \A q \in DOMAIN tree.kids : q # p => K[q] = tree.kids[q]
  BY <1>1, <1>5
<1>8. Len(K) = m /\ DOMAIN K = 1..m /\ K \in Seq(Seq(Nat))
  <2>1. Append(tree.kids[p], New) \in Seq(Nat)
    BY <1>1, <1>6
  <2> QED
    BY <1>1, <1>5, <2>1
<1>9. tree'.kids = Append(K, <<>>)
  BY <1>5 DEF Grow
<1>10. /\ DOMAIN tree'.kids = 1..(m + 1) /\ tree'.kids[m + 1] = <<>>
       /\ \A q \in 1..m : tree'.kids[q] = K[q]
  BY <1>8, <1>9
<1>11. OneGrown(tree.kids, tree'.kids, p, New)
  <2>1. New \in Nat /\ (\A q \in 1..m : q < New) /\ 1..(m + 1) = (1..m) \cup {New}
    BY <1>6
  <2>2. tree'.kids[New] = <<>> /\ DOMAIN tree'.kids = DOMAIN tree.kids \cup {New}
    BY <1>6, <1>10, <2>1
  <2>3. \A q \in DOMAIN tree.kids : tree'.kids[q] = K[q]
    BY <1>6, <1>10
  <2>4. p \in DOMAIN tree.kids
    BY <1>1
  <2> QED
    BY <1>6, <1>7, <2>1, <2>2, <2>3, <2>4, Zenon DEF OneGrown
<1>12. Nodes = 1..(New - 1)
  BY <1>1, <1>5, <1>6
<1>13. \A q \in Nodes : tree.kids[q] \in Seq(Nodes)
  BY <1>1
<1>14. KidsBelow(tree.kids, New)
  <2>1. New \in Nat /\ DOMAIN tree.kids = 1..(New - 1)
    BY <1>1, <1>6, <1>12
  <2> QED
    BY <1>1, <1>12, <1>13, <2>1, Zenon DEF KidsBelow
<1> QED
  BY <1>1, <1>4, <1>11, <1>12, <1>14

-----------------------------------------------------------------------------
(* What a new node does to the keys.                                       *)

(* The children of a node are those there were and, below p, the new one. *)
LEMMA GrownKids ==
    ASSUME NEW K, NEW L, NEW p, NEW new, KidsBelow(K, new), p \in DOMAIN K, OneGrown(K, L, p, new)
    PROVE  /\ \A q \in 1..(new - 1) : \A i \in DOMAIN L[q] :
                  \/ i \in DOMAIN K[q] /\ L[q][i] = K[q][i] /\ L[q][i] \in 1..(new - 1)
                  \/ q = p /\ L[q][i] = new
           /\ DOMAIN L[new] = {}
<1>1. new \in Nat /\ DOMAIN K = 1..(new - 1) /\ \A q \in DOMAIN K : K[q] \in Seq(1..(new - 1))
  BY DEF KidsBelow
<1>2. /\ L[p] = Append(K[p], new) /\ L[new] = <<>>
      /\ \A q \in DOMAIN K : q # p => L[q] = K[q]
  BY DEF OneGrown
<1>3. ASSUME NEW q \in 1..(new - 1), NEW i \in DOMAIN L[q]
      PROVE  \/ i \in DOMAIN K[q] /\ L[q][i] = K[q][i] /\ L[q][i] \in 1..(new - 1)
             \/ q = p /\ L[q][i] = new
  <2>1. PICK x : x = K[q]
    OBVIOUS
  <2>2. x \in Seq(1..(new - 1)) /\ \A j \in DOMAIN x : x[j] \in 1..(new - 1)
    BY <1>1, <2>1
  <2>3. CASE q # p
    BY <1>1, <1>2, <1>3, <2>1, <2>2, <2>3
  <2>4. CASE q = p
    <3>1. PICK y : y = Append(x, new)
      OBVIOUS
    <3>2. L[q] = y
      BY <1>2, <2>1, <2>4, <3>1
    <3>3. \A j \in DOMAIN y : (j \in DOMAIN x /\ y[j] = x[j]) \/ y[j] = new
      BY <2>2, <3>1
    <3>4. i \in DOMAIN y
      BY <1>3, <3>2
    <3> QED
      BY <2>1, <2>2, <2>4, <3>2, <3>3, <3>4, Zenon
  <2> QED
    BY <2>3, <2>4
<1>4. DOMAIN L[new] = {}
  BY <1>2
<1> QED
  BY <1>3, <1>4

(* The start of the mapping. *)
LEMMA KeysFirst ==
    ASSUME NEW s, NEW n, NEW o, Layout(s, n, o), NEW L, OneGrown(<< <<>> >>, L, 1, 2)
    PROVE  KeysAre(s, o, 0, L, 1)
<1>1. KeyNode(s, o, 0) = 2
  BY KeyNodes
<1>2. L[1] = <<2>> /\ L[2] = <<>>
  <2>1. << <<>> >>[1] = <<>> /\ Append(<<>>, 2) = <<2>>
    OBVIOUS
  <2> QED
    BY <2>1 DEF OneGrown
<1>3. 1..0 = {} /\ 1..2 = {1, 2}
  OBVIOUS
<1>4. L[2] = [k \in 1..0 |-> KeyNode(s, o, k)]
  BY <1>2, <1>3
<1>5. \A p \in {1, 2} : \A i \in DOMAIN L[p] : L[p][i] <= 2 + 1
  <2>1. \A i \in DOMAIN <<2>> : <<2>>[i] = 2
    OBVIOUS
  <2>2. \A i \in DOMAIN L[1] : L[1][i] <= 2 + 1
    BY <1>2, <2>1
  <2>3. DOMAIN L[2] = {}
    BY <1>2
  <2> QED
    BY <2>2, <2>3
<1> QED
  BY <1>1, <1>2, <1>3, <1>4, <1>5 DEF KeysAre

(* A node below something younger than the key leaves keys alone. *)
LEMMA KeysInside ==
    ASSUME NEW s, NEW n, NEW o, Layout(s, n, o), NEW b \in 0..n, NEW r \in Nat,
           NEW K, NEW L, NEW p, NEW new, KidsBelow(K, new), p \in DOMAIN K, OneGrown(K, L, p, new),
           KeysAre(s, o, b, K, r), p > KeyNode(s, o, b), o[b] < r
    PROVE  KeysAre(s, o, b, L, r + 1)
<1> DEFINE N(k) == KeyNode(s, o, k)
<1>1. /\ n \in Nat /\ \A k \in 0..n : N(k) \in Nat /\ N(k) >= 2 /\ o[k] \in Nat
      /\ \A j, k \in 0..n : j < k => N(j) < N(k) /\ o[j] < o[k]
  BY KeyNodes
<1> HIDE DEF N
<1>2. /\ new \in Nat /\ DOMAIN K = 1..(new - 1) /\ p \in Nat /\ p < new /\ N(b) < p
      /\ \A q \in DOMAIN K : q # p => L[q] = K[q]
  BY DEF OneGrown, KidsBelow, N
<1>3. \A q \in 1..N(b) : q \in DOMAIN K /\ q # p /\ L[q] = K[q]
  <2>1. N(b) \in Nat
    BY <1>1
  <2>2. \A q \in 1..N(b) : q \in 1..(new - 1) /\ q # p
    BY <1>2, <2>1
  <2> QED
    BY <1>2, <2>2
<1>4. L[1] = <<2>> /\ L[2] = [k \in 1..b |-> N(k)]
  BY <1>1, <1>3 DEF KeysAre, N
<1>5. ASSUME NEW k \in 1..b, Single(s, o, k), r + 1 > o[k] PROVE L[N(k)] = <<N(k) + 1>>
  <2>1. k \in 0..n /\ (k # b => k < b)
    BY <1>1
  <2>2. o[k] < r /\ N(k) \in 1..N(b)
    BY <1>1, <2>1
  <2>3. K[N(k)] = <<N(k) + 1>>
    BY <1>5, <2>2 DEF KeysAre, N
  <2> QED
    BY <1>3, <2>2, <2>3
<1>6. \A q \in 1..N(b) : \A i \in DOMAIN L[q] : L[q][i] <= N(b) + 1
  BY <1>3 DEF KeysAre, N
<1> QED
  BY <1>4, <1>5, <1>6 DEF KeysAre, N

(* The next key. *)
LEMMA KeysNext ==
    ASSUME NEW s, NEW n, NEW o, Layout(s, n, o), NEW b \in 0..(n - 1), NEW r \in Nat, r + 1 = o[b + 1],
           NEW K, NEW L, NEW new, KidsBelow(K, new), 2 \in DOMAIN K, OneGrown(K, L, 2, new),
           KeysAre(s, o, b, K, r), new = KeyNode(s, o, b + 1)
    PROVE  KeysAre(s, o, b + 1, L, r + 1) /\ L[KeyNode(s, o, b + 1)] = <<>>
<1> DEFINE N(k) == KeyNode(s, o, k)
<1>a. /\ n \in Nat /\ \A k \in 0..n : N(k) \in Nat /\ N(k) >= 2 /\ o[k] \in Nat
      /\ \A j, k \in 0..n : j < k => N(j) < N(k) /\ o[j] < o[k]
  BY KeyNodes
<1>1. b \in Nat /\ b \in 0..n /\ b + 1 \in 0..n /\ o[b] < o[b + 1]
  <2>1. b \in Nat /\ b \in 0..n /\ b + 1 \in 0..n /\ b < b + 1
    BY <1>a
  <2> QED
    BY <1>a, <2>1
<1>2. new = N(b + 1)
  OBVIOUS
<1> HIDE DEF N
<1>3. /\ new \in Nat /\ DOMAIN K = 1..(new - 1) /\ L[new] = <<>> /\ L[2] = Append(K[2], new)
      /\ \A q \in DOMAIN K : q # 2 => L[q] = K[q]
  BY DEF OneGrown, KidsBelow
<1>4. L[1] = <<2>>
  BY <1>3 DEF KeysAre
<1>5. L[2] = [k \in 1..(b + 1) |-> N(k)]
  <2>1. PICK x : x = [k \in 1..b |-> N(k)]
    OBVIOUS
  <2>2. K[2] = x
    BY <2>1 DEF KeysAre, N
  <2>3. x \in Seq(Nat) /\ Len(x) = b
    <3>1. \A k \in 1..b : N(k) \in Nat
      BY <1>a, <1>1
    <3> QED
      BY <1>a, <1>1, <2>1, <3>1
  <2>4. PICK y : y = Append(x, new)
    OBVIOUS
  <2>5. y \in Seq(Nat) /\ DOMAIN y = 1..(b + 1) /\ y[b + 1] = new /\ \A k \in 1..b : y[k] = x[k]
    <3>1. x \in Seq(Nat) /\ Len(x) = b /\ b \in Nat /\ new \in Nat
      BY <1>1, <1>3, <2>3
    <3>2. y = Append(x, new)
      BY <2>4
    <3> QED
      BY <3>1, <3>2
  <2>6. \A k \in 1..(b + 1) : y[k] = N(k)
    BY <1>a, <1>1, <1>2, <2>1, <2>5
  <2>7. y = [k \in 1..(b + 1) |-> N(k)]
    BY <2>5, <2>6
  <2> QED
    BY <1>3, <2>2, <2>4, <2>7
<1>6. ASSUME NEW k \in 1..(b + 1), Single(s, o, k), r + 1 > o[k] PROVE L[N(k)] = <<N(k) + 1>>
  <2>1. k \in 1..b
    BY <1>a, <1>1, <1>6
  <2>2. k \in 0..n /\ (k # b => k < b) /\ k < b + 1 /\ b \in 0..n
    BY <1>a, <1>1, <2>1
  <2>3. k = b => o[k + 1] = o[k] + 2
    BY <1>6 DEF Single
  <2>4. r > o[k]
    BY <1>a, <1>1, <2>2, <2>3
  <2>5. N(k) \in DOMAIN K /\ N(k) # 2
    <3>1. N(k) < new /\ N(k) \in Nat /\ 0 \in 0..n /\ 0 < k
      BY <1>a, <1>1, <1>2, <2>1, <2>2
    <3>2. N(0) = 2 /\ N(0) < N(k)
      BY <1>a, <1>1, <2>2, <3>1, KeyNodes DEF N
    <3> QED
      BY <1>3, <3>1, <3>2
  <2>6. K[N(k)] = <<N(k) + 1>>
    BY <1>6, <2>1, <2>4 DEF KeysAre, N
  <2> QED
    BY <1>3, <2>5, <2>6
<1>7. \A q \in 1..new : \A i \in DOMAIN L[q] : L[q][i] <= new + 1
  <2>1. \A q \in 1..(new - 1) : \A i \in DOMAIN L[q] : L[q][i] \in 1..(new - 1) \/ L[q][i] = new
    BY GrownKids
  <2>2. DOMAIN L[new] = {}
    BY <1>3
  <2>3. \A q \in 1..new : q = new \/ q \in 1..(new - 1)
    BY <1>3
  <2>4. ASSUME NEW q \in 1..new, NEW i \in DOMAIN L[q] PROVE L[q][i] <= new + 1
    <3>1. q \in 1..(new - 1)
      BY <2>2, <2>3, <2>4
    <3>2. L[q][i] \in 1..(new - 1) \/ L[q][i] = new
      BY <2>1, <2>4, <3>1
    <3> QED
      BY <1>3, <3>2
  <2> QED
    BY <2>4
<1> QED
  BY <1>2, <1>3, <1>4, <1>5, <1>6, <1>7 DEF KeysAre, N

(* The value of a key. *)
LEMMA KeysValue ==
    ASSUME NEW s, NEW n, NEW o, Layout(s, n, o), NEW b \in 1..n, NEW r \in Nat, r = o[b],
           NEW K, NEW L, NEW new, KidsBelow(K, new), KeyNode(s, o, b) \in DOMAIN K,
           OneGrown(K, L, KeyNode(s, o, b), new),
           KeysAre(s, o, b, K, r), new = KeyNode(s, o, b) + 1, K[KeyNode(s, o, b)] = <<>>
    PROVE  KeysAre(s, o, b, L, r + 1)
<1> DEFINE N(k) == KeyNode(s, o, k)
<1>a. /\ n \in Nat /\ \A k \in 0..n : N(k) \in Nat /\ N(k) >= 2 /\ o[k] \in Nat
      /\ \A j, k \in 0..n : j < k => N(j) < N(k) /\ o[j] < o[k]
  BY KeyNodes
<1>1. b \in Nat /\ b \in 0..n /\ N(b) \in Nat /\ N(b) >= 2
  BY <1>a
<1>2. new = N(b) + 1 /\ L[N(b)] = Append(K[N(b)], new) /\ K[N(b)] = <<>>
  BY DEF OneGrown
<1>3. N(0) = 2
  BY KeyNodes
<1> HIDE DEF N
<1>4. /\ new \in Nat /\ DOMAIN K = 1..(new - 1)
      /\ \A q \in DOMAIN K : q # N(b) => L[q] = K[q]
  BY DEF OneGrown, KidsBelow, N
<1>5. N(b) > 2 /\ 0 \in 0..n
  BY <1>a, <1>1, <1>3
<1>6. L[N(b)] = <<N(b) + 1>>
  BY <1>2
<1>7. L[1] = <<2>> /\ L[2] = [k \in 1..b |-> N(k)]
  <2>1. /\ 1 \in DOMAIN K /\ 2 \in DOMAIN K /\ 1 # N(b) /\ 2 # N(b)
    BY <1>1, <1>2, <1>4, <1>5
  <2>2. K[1] = <<2>> /\ K[2] = [k \in 1..b |-> N(k)]
    BY DEF KeysAre, N
  <2> QED
    BY <1>4, <2>1, <2>2, Zenon
<1>8. ASSUME NEW k \in 1..b, Single(s, o, k) PROVE L[N(k)] = <<N(k) + 1>>
  <2>1. CASE k = b
    BY <1>6, <2>1
  <2>2. CASE k # b
    <3>1. k \in 0..n /\ k < b
      BY <1>a, <1>1, <2>2
    <3>2. N(k) < N(b) /\ o[k] < r /\ N(k) \in Nat /\ N(k) >= 2
      BY <1>a, <1>1, <3>1
    <3>3. K[N(k)] = <<N(k) + 1>>
      BY <1>8, <3>2 DEF KeysAre, N
    <3>4. N(k) \in DOMAIN K /\ N(k) # N(b)
      BY <1>a, <1>1, <1>2, <1>4, <3>2
    <3> QED
      BY <1>4, <3>3, <3>4
  <2> QED
    BY <2>1, <2>2
<1>9. \A q \in 1..N(b) : \A i \in DOMAIN L[q] : L[q][i] <= N(b) + 1
  <2>1. \A q \in 1..(new - 1) : \A i \in DOMAIN L[q] : L[q][i] \in 1..(new - 1) \/ L[q][i] = new
    BY GrownKids
  <2>2. N(b) = new - 1 /\ N(b) \in Nat
    BY <1>a, <1>1, <1>2
  <2> QED
    BY <1>2, <2>1, <2>2
<1> QED
  BY <1>7, <1>8, <1>9 DEF KeysAre, N

-----------------------------------------------------------------------------
(* What an event does to the calls.                                        *)

LEMMA AnyReplaced ==
    ASSUME NEW T, NEW s \in Seq(T), s # <<>>, NEW x
    PROVE  SameBut(s, x, Append(Front(s), x))
<1>1. s \in Seq(T \cup {x})
  OBVIOUS
<1> QED
  BY <1>1, Replaced

LEMMA AnyDeeper ==
    ASSUME NEW T, NEW s \in Seq(T), s # <<>>, NEW x, NEW y
    PROVE  Deeper(s, x, y, Append(Append(Front(s), x), y))
<1>1. s \in Seq(T \cup {x, y})
  OBVIOUS
<1> QED
  BY <1>1, DeeperIs

(* How deep the calls are nested. *)
LEMMA FramesAre ==
    ASSUME TreeInvariant, stage = "parse"
    PROVE  /\ frames \in Seq(CallsOf(Nodes)) /\ frames # <<>> /\ Len(frames) \in Nat \ {0}
           /\ Frame = frames[Len(frames)] /\ Len(frames) = 1 + DepthAt(events, read)
           /\ \A i \in 1..(Len(frames) - 1) : frames[i].last_leaf = frames[i + 1].node
           /\ \A i \in 1..Len(frames) : frames[i].node \in Nodes /\ frames[i].last_leaf \in Nodes
                                        /\ frames[i] = [node |-> frames[i].node, last_leaf |-> frames[i].last_leaf,
                                                        state |-> frames[i].state]
           /\ read \in Nat /\ read < Len(events)
<1>1. /\ read < Len(events) /\ frames \in Seq(CallsOf(Nodes)) /\ frames # <<>> /\ Nested(frames)
      /\ Len(frames) = 1 + Number(events, read, Starts) - Number(events, read, {"end"})
  BY DEF TreeInvariant, Calls
<1>2. Len(frames) \in Nat \ {0} /\ Frame = frames[Len(frames)]
  BY <1>1, FrontLast DEF Frame
<1>3. read \in Nat
  BY DEF TreeInvariant, Built, Context
<1>4. Number(events, read, Starts) \in Nat /\ Number(events, read, {"end"}) \in Nat
  BY <1>3, NumberNext
<1>5. Len(frames) = 1 + DepthAt(events, read)
  BY <1>1, <1>4 DEF DepthAt
<1>6. \A i \in 1..Len(frames) : frames[i] \in CallsOf(Nodes)
  BY <1>1
<1>7. ASSUME NEW i \in 1..Len(frames)
      PROVE  frames[i].node \in Nodes /\ frames[i].last_leaf \in Nodes
             /\ frames[i] = [node |-> frames[i].node, last_leaf |-> frames[i].last_leaf, state |-> frames[i].state]
  BY <1>6 DEF CallsOf
<1>8. \A i \in 1..(Len(frames) - 1) : frames[i].last_leaf = frames[i + 1].node
  BY <1>1 DEF Nested
<1> QED
  BY <1>1, <1>2, <1>3, <1>5, <1>7, <1>8, Zenon

Reading(n, o) == TreeInvariant /\ ~broken /\ stage = "parse" /\ Layout(events, n, o)

(* yaml_parser_parse returns an event, and the action is the one for it. *)
LEMMA ActionIs ==
    ASSUME NEW n, NEW o, Reading(n, o), cloud_config_parse, ~broken'
    PROVE  /\ read' = read + 1 /\ read \in Nat /\ events' = events
           /\ events[read + 1].type = "scalar" => parse_scalar
           /\ events[read + 1].type = "sequence_start" => parse_sequence_start
           /\ events[read + 1].type = "mapping_start" => parse_mapping_start
           /\ events[read + 1].type = "end" => parse_end
           /\ events[read + 1].type = "ignored" => parse_ignored
           /\ events[read + 1].type = "stream_end" => parse_stream_end
           /\ events[read + 1].type \in EventTypes
           /\ stage' = IF events[read + 1].type = "stream_end" THEN "simplify" ELSE "parse"
<1>1. ~parse_error
  BY DEF parse_error
<1>2. read \in Nat /\ read < Len(events) /\ stage = "parse"
  BY FramesAre DEF Reading
<1>3. events[read + 1].type \in EventTypes
  <2>1. Context
    BY DEF Reading, TreeInvariant, Built
  <2>2. read + 1 \in 1..Len(events)
    BY <1>2, <2>1, EventFacts
  <2> QED
    BY <2>1, <2>2, EventFacts
<1>4. \/ parse_scalar /\ events[read + 1].type = "scalar" /\ stage' = stage
      \/ parse_sequence_start /\ events[read + 1].type = "sequence_start" /\ stage' = stage
      \/ parse_mapping_start /\ events[read + 1].type = "mapping_start" /\ stage' = stage
      \/ parse_end /\ events[read + 1].type = "end" /\ stage' = stage
      \/ parse_ignored /\ events[read + 1].type = "ignored" /\ stage' = stage
      \/ parse_stream_end /\ events[read + 1].type = "stream_end" /\ stage' = "simplify"
  BY <1>1 DEF cloud_config_parse, parse_scalar, parse_sequence_start, parse_mapping_start, parse_end,
              parse_ignored, parse_stream_end, Parse, ParseReturns
<1>5. read' = read + 1 /\ events' = events
  BY <1>4 DEF parse_scalar, parse_sequence_start, parse_mapping_start, parse_end,
              parse_ignored, parse_stream_end, Parse
<1>6. \A t \in {"scalar", "sequence_start", "mapping_start", "end", "ignored"} : t # "stream_end"
  OBVIOUS
<1> QED
  BY <1>2, <1>3, <1>4, <1>5

(* 215-217: the mapping starts. *)
LEMMA ParseStart ==
    ASSUME NEW n, NEW o, Reading(n, o), cloud_config_parse, ~broken',
           read = 0, frames = <<[node |-> 1, last_leaf |-> 1, state |-> {}]>>, tree.kids = << <<>> >>
    PROVE  Within(events, o, 0, tree'.kids, read', frames')
<1>1. /\ events[read + 1].type = "mapping_start" /\ o[0] = 1 /\ o[1] = 2 /\ read + 1 = 1
  BY DEF Reading, Layout
<1>2. parse_mapping_start /\ read' = 1
  BY <1>1, ActionIs
<1>3. /\ Frame = [node |-> 1, last_leaf |-> 1, state |-> {}] /\ Len(frames) = 1
      /\ frames \in Seq(CallsOf(Nodes)) /\ frames # <<>>
  <2>1. Frame = frames[Len(frames)] /\ frames \in Seq(CallsOf(Nodes)) /\ frames # <<>>
    BY FramesAre DEF Reading
  <2>2. Len(frames) = 1 /\ frames[1] = [node |-> 1, last_leaf |-> 1, state |-> {}]
    OBVIOUS
  <2> QED
    BY <2>1, <2>2
<1>4. Grow(NULL, 1) /\ Parse("mapping_start") /\ 1 \in Nodes
  <2>1. 1 \in Nodes
    BY TreeShapeFacts DEF Reading, TreeInvariant, Built
  <2> QED
    BY <1>2, <1>3, <2>1 DEF parse_mapping_start
<1>5. New = 2 /\ OneGrown(tree.kids, tree'.kids, 1, New)
  <2>1. New = Numbering(events, read) + 1 /\ OneGrown(tree.kids, tree'.kids, 1, New)
    BY <1>4, GrownIs DEF Reading, TreeInvariant, Starts
  <2>2. Numbering(events, 0) = 1
    BY NumberNone DEF Numbering
  <2> QED
    BY <2>1, <2>2
<1>6. KeysAre(events, o, 0, tree'.kids, 1)
  BY <1>5, KeysFirst DEF Reading
<1>7. PICK f, g : f = [Frame EXCEPT !.last_leaf = New]
                  /\ g = [node |-> f.last_leaf, last_leaf |-> f.last_leaf, state |-> {"MAP"}]
  OBVIOUS
<1>8. frames' = Append(Append(Front(frames), f), g)
  BY <1>2, <1>7 DEF parse_mapping_start, Call
<1>9. Len(frames') = 2 /\ frames'[2] = g
  <2>1. Deeper(frames, f, g, frames')
    BY <1>3, <1>8, AnyDeeper
  <2> QED
    BY <1>3, <2>1 DEF Deeper
<1>10. g.node = 2 /\ g.state = {"MAP"}
  BY <1>3, <1>5, <1>7
<1>11. Inner(events, o, 0, frames')
  BY <1>9, <1>10 DEF Inner
<1> QED
  BY <1>1, <1>2, <1>6, <1>9, <1>10, <1>11 DEF Within

(* The places of a key and of what follows. *)
LEMMA PlaceFacts ==
    ASSUME NEW n, NEW o, Reading(n, o), NEW b \in 0..n
    PROVE  /\ n \in Nat /\ b \in Nat /\ o[b] \in Nat /\ o[b + 1] \in Nat /\ o[b] < o[b + 1]
           /\ b # 0 => o[b] + 1 < o[b + 1]
           /\ o[b + 1] <= Len(events) - 1 /\ Len(events) \in Nat
<1>1. /\ n \in Nat /\ o \in [0..(n + 1) -> Nat] /\ o[n + 1] = Len(events) - 1
      /\ \A j, k \in 0..(n + 1) : j < k => o[j] < o[k]
      /\ \A k \in 1..n : o[k] + 1 < o[k + 1]
  BY DEF Reading, Layout
<1>2. b \in 0..(n + 1) /\ b + 1 \in 0..(n + 1) /\ n + 1 \in 0..(n + 1) /\ b \in Nat /\ b < b + 1
      /\ (b + 1 = n + 1 \/ b + 1 < n + 1)
  BY <1>1
<1>3. o[b] \in Nat /\ o[b + 1] \in Nat /\ o[b] < o[b + 1] /\ o[n + 1] \in Nat
  BY <1>1, <1>2
<1>4. o[b + 1] = o[n + 1] \/ o[b + 1] < o[n + 1]
  <2>1. CASE b + 1 = n + 1
    BY <2>1
  <2>2. CASE b + 1 < n + 1
    BY <1>1, <1>2, <2>2
  <2> QED
    BY <1>2, <2>1, <2>2
<1>5. b # 0 => o[b] + 1 < o[b + 1]
  BY <1>1
<1>6. Len(events) \in Nat
  BY EventFacts DEF Reading, TreeInvariant, Built
<1> QED
  BY <1>1, <1>2, <1>3, <1>4, <1>5, <1>6

(* The calls when the mapping is the innermost. *)
LEMMA AtMapping ==
    ASSUME NEW n, NEW o, Reading(n, o), NEW b \in 0..n, Inner(events, o, b, frames), DepthAt(events, read) = 1
    PROVE  /\ Len(frames) = 2 /\ Frame = frames[2] /\ Frame.node = 2 /\ 2 \in Nodes
           /\ frames \in Seq(CallsOf(Nodes)) /\ frames # <<>>
           /\ Frame = [node |-> 2, last_leaf |-> Frame.last_leaf, state |-> Frame.state]
           /\ Frame.last_leaf \in Nodes
<1>1. /\ frames \in Seq(CallsOf(Nodes)) /\ frames # <<>>
      /\ Frame = frames[Len(frames)] /\ Len(frames) = 1 + DepthAt(events, read)
      /\ \A i \in 1..Len(frames) : frames[i].node \in Nodes /\ frames[i].last_leaf \in Nodes
                                   /\ frames[i] = [node |-> frames[i].node, last_leaf |-> frames[i].last_leaf,
                                                   state |-> frames[i].state]
  BY FramesAre DEF Reading
<1>2. Len(frames) = 2 /\ 2 \in 1..2
  BY <1>1
<1>3. frames[2].node = 2
  BY DEF Inner
<1> QED
  BY <1>1, <1>2, <1>3

(* 191-193: a key. *)
LEMMA ParseKey ==
    ASSUME NEW n, NEW o, Reading(n, o), cloud_config_parse, ~broken',
           NEW b \in 0..(n - 1), Within(events, o, b, tree.kids, read, frames), read + 1 = o[b + 1]
    PROVE  Within(events, o, b + 1, tree'.kids, read', frames')
<1>0. b \in 0..n /\ b + 1 \in 0..n /\ b + 1 \in 1..n /\ b + 1 # 0
  <2>1. n \in Nat
    BY DEF Reading, Layout
  <2> QED
    BY <2>1
<1>1. o[b + 1] \in Nat /\ o[b + 1] < o[b + 1 + 1] /\ (b # 0 => o[b] + 1 < o[b + 1]) /\ read \in Nat
  BY <1>0, PlaceFacts, FramesAre DEF Reading
<1>2. events[read + 1].type = "scalar" /\ DepthAt(events, read) = 1
  <2>1. events[o[b + 1]].type = "scalar" /\ DepthAt(events, o[b + 1] - 1) = 1
    BY <1>0 DEF Reading, Layout
  <2> QED
    BY <1>1, <2>1
<1>3. parse_scalar /\ read' = read + 1
  BY <1>2, ActionIs
<1>4. KeysAre(events, o, b, tree.kids, read) /\ Inner(events, o, b, frames) /\ frames[2].state = {"MAP"}
  BY <1>1 DEF Within
<1>5. /\ Frame = frames[2] /\ Frame.node = 2 /\ 2 \in Nodes /\ Len(frames) = 2
      /\ frames \in Seq(CallsOf(Nodes)) /\ frames # <<>>
      /\ Frame = [node |-> 2, last_leaf |-> Frame.last_leaf, state |-> Frame.state]
  BY <1>0, <1>2, <1>4, AtMapping
<1>6. "SEQ" \notin Frame.state /\ "VAL" \notin Frame.state
  BY <1>4, <1>5
<1>7. PICK f : f = [Frame EXCEPT !.last_leaf = New, !.state = @ \cup {"VAL"}]
  OBVIOUS
<1>8. Grow(Text, 2) /\ SetFrame(f) /\ Parse("scalar")
  BY <1>3, <1>5, <1>6, <1>7 DEF parse_scalar
<1>9. /\ OneGrown(tree.kids, tree'.kids, 2, New) /\ KidsBelow(tree.kids, New) /\ 2 \in DOMAIN tree.kids
      /\ New = KeyNode(events, o, b + 1)
  BY <1>5, <1>8, GrownIs DEF Reading, TreeInvariant, KeyNode
<1>10. KeysAre(events, o, b + 1, tree'.kids, read + 1) /\ tree'.kids[KeyNode(events, o, b + 1)] = <<>>
  BY <1>1, <1>4, <1>9, KeysNext DEF Reading
<1>11. Len(frames') = 2 /\ frames'[2] = f
  <2>1. SameBut(frames, f, frames')
    BY <1>5, <1>8, AnyReplaced DEF SetFrame
  <2> QED
    BY <1>5, <2>1 DEF SameBut
<1>12. f.node = 2 /\ f.last_leaf = KeyNode(events, o, b + 1) /\ f.state = {"MAP", "VAL"}
  BY <1>4, <1>5, <1>7, <1>9
<1>13. Inner(events, o, b + 1, frames')
  BY <1>11, <1>12 DEF Inner
<1> QED
  BY <1>0, <1>1, <1>3, <1>10, <1>11, <1>12, <1>13 DEF Within

(* 187-189: the scalar of a key. *)
LEMMA ParseValue ==
    ASSUME NEW n, NEW o, Reading(n, o), cloud_config_parse, ~broken',
           NEW b \in 1..n, Within(events, o, b, tree.kids, read, frames), read = o[b], Single(events, o, b)
    PROVE  Within(events, o, b, tree'.kids, read', frames')
<1>0. b \in 0..n /\ b # 0
  OBVIOUS
<1>1. o[b] \in Nat /\ o[b] + 1 < o[b + 1] /\ read \in Nat
  BY <1>0, PlaceFacts, FramesAre DEF Reading
<1>2. events[read + 1].type = "scalar" /\ DepthAt(events, read) = 1
  BY <1>0 DEF Single, Reading, Layout
<1>3. parse_scalar /\ read' = read + 1
  BY <1>2, ActionIs
<1>4. /\ KeysAre(events, o, b, tree.kids, read) /\ Inner(events, o, b, frames)
      /\ frames[2].state = {"MAP", "VAL"} /\ frames[2].last_leaf = KeyNode(events, o, b)
      /\ tree.kids[KeyNode(events, o, b)] = <<>>
  BY <1>0 DEF Within
<1>5. /\ Frame = frames[2] /\ Frame.node = 2 /\ Len(frames) = 2 /\ Frame.last_leaf \in Nodes
      /\ frames \in Seq(CallsOf(Nodes)) /\ frames # <<>>
      /\ Frame = [node |-> 2, last_leaf |-> Frame.last_leaf, state |-> Frame.state]
  BY <1>0, <1>2, <1>4, AtMapping
<1>6. "SEQ" \notin Frame.state /\ "VAL" \in Frame.state
  BY <1>4, <1>5
<1>7. PICK f : f = [Frame EXCEPT !.state = @ \cap {"MAP", "SEQ"}]
  OBVIOUS
<1>8. Grow(Text, KeyNode(events, o, b)) /\ SetFrame(f) /\ Parse("scalar")
  BY <1>3, <1>4, <1>5, <1>6, <1>7 DEF parse_scalar
<1>9. /\ OneGrown(tree.kids, tree'.kids, KeyNode(events, o, b), New) /\ KidsBelow(tree.kids, New)
      /\ KeyNode(events, o, b) \in DOMAIN tree.kids /\ New = KeyNode(events, o, b) + 1
  BY <1>4, <1>5, <1>8, GrownIs DEF Reading, TreeInvariant, KeyNode
<1>10. KeysAre(events, o, b, tree'.kids, read + 1)
  BY <1>1, <1>4, <1>9, KeysValue DEF Reading
<1>11. Len(frames') = 2 /\ frames'[2] = f
  <2>1. SameBut(frames, f, frames')
    BY <1>5, <1>8, AnyReplaced DEF SetFrame
  <2> QED
    BY <1>5, <2>1 DEF SameBut
<1>12. f.node = 2 /\ f.state = {"MAP"}
  BY <1>4, <1>5, <1>7
<1>13. Inner(events, o, b, frames')
  BY <1>11, <1>12 DEF Inner
<1> QED
  BY <1>0, <1>1, <1>3, <1>10, <1>11, <1>12, <1>13 DEF Within

(* 196-205: the sequence of a key starts. *)
LEMMA ParseOpen ==
    ASSUME NEW n, NEW o, Reading(n, o), cloud_config_parse, ~broken',
           NEW b \in 1..n, Within(events, o, b, tree.kids, read, frames), read = o[b], Opened(events, o, b)
    PROVE  Within(events, o, b, tree'.kids, read', frames')
<1>0. b \in 0..n /\ b # 0
  OBVIOUS
<1>1. o[b] \in Nat /\ o[b] + 1 < o[b + 1] /\ read \in Nat
  BY <1>0, PlaceFacts, FramesAre DEF Reading
<1>2. events[read + 1].type = "sequence_start" /\ DepthAt(events, read) = 1
  BY <1>0 DEF Opened, Reading, Layout
<1>3. parse_sequence_start /\ read' = read + 1
  BY <1>2, ActionIs
<1>4. /\ KeysAre(events, o, b, tree.kids, read) /\ Inner(events, o, b, frames)
      /\ frames[2].state = {"MAP", "VAL"} /\ frames[2].last_leaf = KeyNode(events, o, b)
      /\ tree.kids[KeyNode(events, o, b)] = <<>>
  BY <1>0 DEF Within
<1>5. /\ Frame = frames[2] /\ Frame.node = 2 /\ Len(frames) = 2 /\ Frame.last_leaf \in Nodes
      /\ frames \in Seq(CallsOf(Nodes)) /\ frames # <<>>
      /\ Frame = [node |-> 2, last_leaf |-> Frame.last_leaf, state |-> Frame.state]
  BY <1>0, <1>2, <1>4, AtMapping
<1>6. "SEQ" \notin Frame.state
  BY <1>4, <1>5
<1>7. PICK f, g : f = [Frame EXCEPT !.last_leaf = New, !.state = IF "MAP" \in @ THEN {"MAP"} ELSE @]
                  /\ g = [node |-> f.last_leaf, last_leaf |-> f.last_leaf, state |-> {"SEQ"}]
  OBVIOUS
<1>8. /\ Grow(NULL, KeyNode(events, o, b)) /\ Parse("sequence_start")
      /\ frames' = Append(Append(Front(frames), f), g)
  BY <1>3, <1>4, <1>5, <1>6, <1>7 DEF parse_sequence_start, Call
<1>9. /\ OneGrown(tree.kids, tree'.kids, KeyNode(events, o, b), New) /\ KidsBelow(tree.kids, New)
      /\ KeyNode(events, o, b) \in DOMAIN tree.kids /\ New = KeyNode(events, o, b) + 1
  BY <1>4, <1>5, <1>8, GrownIs DEF Reading, TreeInvariant, KeyNode, Starts
<1>10. KeysAre(events, o, b, tree'.kids, read + 1)
  BY <1>1, <1>4, <1>9, KeysValue DEF Reading
<1>11. Len(frames') = 3 /\ frames'[2] = f /\ frames'[3] = g
  <2>1. Deeper(frames, f, g, frames')
    BY <1>5, <1>8, AnyDeeper
  <2> QED
    BY <1>5, <2>1 DEF Deeper
<1>12. f.node = 2 /\ f.state = {"MAP"} /\ g.node = New /\ g.last_leaf = New
  BY <1>4, <1>5, <1>7
<1>13. Inner(events, o, b, frames')
  <2>1. KeyNode(events, o, b) \in Nat
    BY <1>0, KeyNodes DEF Reading
  <2>2. 3..3 = {3}
    OBVIOUS
  <2> QED
    BY <1>9, <1>11, <1>12, <2>1, <2>2 DEF Inner
<1> QED
  BY <1>0, <1>1, <1>3, <1>10, <1>11, <1>12, <1>13 DEF Within

-----------------------------------------------------------------------------
(* Below a sequence.                                                       *)

(* Events that make no node leave keys alone. *)
LEMMA KeysLonger ==
    ASSUME NEW s, NEW n, NEW o, Layout(s, n, o), NEW b \in 0..n, NEW r \in Nat, o[b] < r, NEW K, KeysAre(s, o, b, K, r)
    PROVE  KeysAre(s, o, b, K, r + 1)
<1>1. ASSUME NEW k \in 1..b PROVE o[k] < r
  <2>1. n \in Nat /\ \A j, i \in 0..n : j < i => o[j] < o[i] /\ o[j] \in Nat /\ o[i] \in Nat
    BY KeyNodes
  <2>2. k \in 0..n /\ (k = b \/ k < b)
    BY <2>1
  <2> QED
    BY <2>1, <2>2
<1> QED
  BY <1>1 DEF KeysAre

LEMMA InnerReplaced ==
    ASSUME NEW s, NEW o, NEW b, NEW F, NEW G, NEW f, Inner(s, o, b, F), Len(F) \in Nat, Len(F) >= 3, SameBut(F, f, G),
           f.node = F[Len(F)].node, f.last_leaf > KeyNode(s, o, b)
    PROVE  Inner(s, o, b, G) /\ G[2] = F[2]
<1>1. Len(G) = Len(F) /\ G[Len(F)] = f /\ \A i \in 1..(Len(F) - 1) : G[i] = F[i]
  BY DEF SameBut
<1>2. G[2] = F[2]
  BY <1>1
<1>3. ASSUME NEW j \in 3..Len(G)
      PROVE  /\ G[j].node > KeyNode(s, o, b) /\ G[j].last_leaf > KeyNode(s, o, b)
             /\ j # 3 => G[j].node > KeyNode(s, o, b) + 1
  <2>1. /\ F[j].node > KeyNode(s, o, b) /\ F[j].last_leaf > KeyNode(s, o, b)
        /\ j # 3 => F[j].node > KeyNode(s, o, b) + 1
    BY <1>1 DEF Inner
  <2>2. CASE j = Len(F)
    BY <1>1, <2>1, <2>2
  <2>3. CASE j # Len(F)
    <3>1. G[j] = F[j]
      BY <1>1, <2>3
    <3> QED
      BY <2>1, <3>1
  <2> QED
    BY <2>2, <2>3
<1> QED
  BY <1>1, <1>2, <1>3 DEF Inner

LEMMA InnerDeeper ==
    ASSUME NEW s, NEW o, NEW b, NEW F, NEW G, NEW f, NEW g, Inner(s, o, b, F), Len(F) \in Nat, Len(F) >= 3,
           Deeper(F, f, g, G), f.node = F[Len(F)].node, f.last_leaf > KeyNode(s, o, b),
           g.node > KeyNode(s, o, b), g.node > KeyNode(s, o, b) + 1, g.last_leaf > KeyNode(s, o, b)
    PROVE  Inner(s, o, b, G) /\ G[2] = F[2]
<1>1. /\ Len(G) = Len(F) + 1 /\ G[Len(F)] = f /\ G[Len(F) + 1] = g
      /\ \A i \in 1..(Len(F) - 1) : G[i] = F[i]
  BY DEF Deeper
<1>2. G[2] = F[2]
  BY <1>1
<1>3. ASSUME NEW j \in 3..Len(G)
      PROVE  /\ G[j].node > KeyNode(s, o, b) /\ G[j].last_leaf > KeyNode(s, o, b)
             /\ j # 3 => G[j].node > KeyNode(s, o, b) + 1
  <2>1. CASE j = Len(F) + 1
    BY <1>1, <2>1
  <2>2. CASE j = Len(F)
    <3>1. /\ F[j].node > KeyNode(s, o, b) /\ (j # 3 => F[j].node > KeyNode(s, o, b) + 1)
      BY <2>2 DEF Inner
    <3> QED
      BY <1>1, <2>2, <3>1
  <2>3. CASE j # Len(F) /\ j # Len(F) + 1
    <3>1. G[j] = F[j] /\ j \in 3..Len(F)
      BY <1>1, <2>3
    <3> QED
      BY <3>1 DEF Inner
  <2> QED
    BY <2>1, <2>2, <2>3
<1> QED
  BY <1>1, <1>2, <1>3 DEF Inner

(* Where the events below the sequence of the b-th key are. *)
Below(n, o, b) ==
    /\ Reading(n, o) /\ b \in 1..n /\ Within(events, o, b, tree.kids, read, frames)
    /\ o[b] < read /\ read + 1 < o[b + 1]

LEMMA BelowFacts ==
    ASSUME NEW n, NEW o, NEW b, Below(n, o, b)
    PROVE  /\ b \in 0..n /\ read \in Nat /\ read + 1 < Len(events)
           /\ o[b] \in Nat /\ o[b + 1] \in Nat
           /\ Len(frames) \in Nat /\ Len(frames) >= 3 /\ frames[2].state = {"MAP"}
           /\ KeysAre(events, o, b, tree.kids, read) /\ Inner(events, o, b, frames)
           /\ KeyNode(events, o, b) \in Nat
           /\ Frame = frames[Len(frames)]
           /\ Frame.node \in Nodes /\ Frame.last_leaf \in Nodes
           /\ Frame.node > KeyNode(events, o, b) /\ Frame.last_leaf > KeyNode(events, o, b)
           /\ Frame = [node |-> Frame.node, last_leaf |-> Frame.last_leaf, state |-> Frame.state]
           /\ frames \in Seq(CallsOf(Nodes)) /\ frames # <<>>
           /\ New \in Nat /\ New > KeyNode(events, o, b) + 1 /\ Nodes = 1..(New - 1)
           /\ \A i \in 1..(Len(frames) - 1) : frames[i].last_leaf = frames[i + 1].node
<1>1. b \in 0..n /\ b \in 1..n /\ Reading(n, o) /\ n \in Nat
  <2>1. b \in 1..n /\ Reading(n, o)
    BY DEF Below
  <2>2. n \in Nat
    BY <2>1 DEF Reading, Layout
  <2> QED
    BY <2>1, <2>2
<1>2. /\ o[b] \in Nat /\ o[b + 1] \in Nat /\ o[b + 1] <= Len(events) - 1 /\ Len(events) \in Nat /\ read \in Nat
      /\ o[b] < read /\ read + 1 < o[b + 1]
  BY <1>1, PlaceFacts, FramesAre DEF Below, Reading
<1>3. Opened(events, o, b)
  <2>1. Single(events, o, b) => FALSE
    BY <1>2 DEF Single
  <2> QED
    BY <1>1, <2>1 DEF Reading, Layout
<1>4. DepthAt(events, read) >= 2
  <2>1. read \in (o[b] + 1)..(o[b + 1] - 2)
    BY <1>2
  <2> QED
    BY <1>3, <2>1 DEF Opened
<1>5. /\ frames \in Seq(CallsOf(Nodes)) /\ frames # <<>> /\ Len(frames) \in Nat \ {0}
      /\ Frame = frames[Len(frames)] /\ Len(frames) = 1 + DepthAt(events, read)
      /\ \A i \in 1..(Len(frames) - 1) : frames[i].last_leaf = frames[i + 1].node
      /\ \A i \in 1..Len(frames) : frames[i].node \in Nodes /\ frames[i].last_leaf \in Nodes
                                   /\ frames[i] = [node |-> frames[i].node, last_leaf |-> frames[i].last_leaf,
                                                   state |-> frames[i].state]
  BY <1>1, FramesAre DEF Reading
<1>6. Len(frames) >= 3
  <2>1. DepthAt(events, read) \in Int
    <3>1. Number(events, read, Starts) \in Nat /\ Number(events, read, {"end"}) \in Nat
      BY <1>2, NumberNext
    <3> QED
      BY <3>1 DEF DepthAt
  <2> QED
    BY <1>4, <1>5, <2>1
<1>7. KeysAre(events, o, b, tree.kids, read) /\ Inner(events, o, b, frames) /\ frames[2].state = {"MAP"}
  BY <1>1, <1>2 DEF Below, Within
<1>8. Len(frames) \in 3..Len(frames) /\ Len(frames) \in 1..Len(frames)
  BY <1>5, <1>6
<1>9. Frame.node > KeyNode(events, o, b) /\ Frame.last_leaf > KeyNode(events, o, b)
  BY <1>5, <1>7, <1>8 DEF Inner
<1>10. KeyNode(events, o, b) \in Nat
  BY <1>1, KeyNodes DEF Reading
<1>11. New \in Nat /\ Nodes = 1..(New - 1)
  BY <1>1, TreeShapeFacts DEF New, Reading, TreeInvariant, Built
<1>12. Frame.node \in Nodes /\ Frame.last_leaf \in Nodes
  BY <1>5, <1>8
<1>13. New > KeyNode(events, o, b) + 1
  BY <1>9, <1>10, <1>11, <1>12
<1>14. Frame = [node |-> Frame.node, last_leaf |-> Frame.last_leaf, state |-> Frame.state]
  BY <1>5, <1>8
<1>15. Len(frames) \in Nat /\ read + 1 < Len(events)
  BY <1>2, <1>5
<1> QED
  BY <1>1, <1>2, <1>5, <1>6, <1>7, <1>9, <1>10, <1>11, <1>12, <1>13, <1>14, <1>15, Zenon

(* An inner call has returned, and f is what its caller has become. *)
Returned(F, f, G) ==
    /\ Len(G) = Len(F) - 1 /\ G[Len(F) - 1] = f
    /\ \A i \in 1..(Len(F) - 2) : G[i] = F[i]

LEMMA ReturnedIs ==
    ASSUME NEW T, NEW F \in Seq(T), Len(F) > 1, NEW f
    PROVE  Returned(F, f, Append(Front(Front(F)), f))
<1>1. PICK H : H = Front(F)
  OBVIOUS
<1>2. F # <<>> /\ Len(F) \in Nat
  OBVIOUS
<1>3. H \in Seq(T) /\ Len(H) = Len(F) - 1 /\ \A i \in 1..(Len(F) - 1) : H[i] = F[i]
  BY <1>1, <1>2, FrontLast
<1>4. H # <<>>
  BY <1>2, <1>3
<1>5. SameBut(H, f, Append(Front(H), f))
  BY <1>3, <1>4, AnyReplaced
<1>6. PICK G : G = Append(Front(H), f)
  OBVIOUS
<1>7. Len(G) = Len(H) /\ G[Len(H)] = f /\ \A i \in 1..(Len(H) - 1) : G[i] = H[i]
  BY <1>5, <1>6 DEF SameBut
<1>8. \A i \in 1..(Len(F) - 2) : i \in 1..(Len(F) - 1) /\ i \in 1..(Len(H) - 1)
  BY <1>2, <1>3
<1>9. Returned(F, f, G)
  BY <1>2, <1>3, <1>7, <1>8 DEF Returned
<1> QED
  BY <1>1, <1>6, <1>9

(* The last leaf of the caller is the parent of the node that was its last
   leaf. *)
LEMMA EndIs ==
    ASSUME TreeInvariant, parse_end
    PROVE  /\ tree' = tree /\ Len(frames) \in Nat /\ Len(frames) > 1
           /\ \E p \in Nodes : \E f :
                 /\ \E i \in DOMAIN tree.kids[p] : tree.kids[p][i] = frames[Len(frames) - 1].last_leaf
                 /\ f.node = frames[Len(frames) - 1].node /\ f.last_leaf = p
                 /\ f.state = frames[Len(frames) - 1].state
                 /\ Returned(frames, f, frames')
<1>1. Parse("end") /\ stage = "parse" /\ tree' = tree /\ Built /\ Calls
  BY DEF parse_end, Parse, TreeInvariant
<1>2. Len(frames) > 1
  BY <1>1, DepthNext DEF Built
<1>3. /\ frames \in Seq(CallsOf(Nodes)) /\ frames # <<>> /\ Len(frames) \in Nat
      /\ \A i \in 1..(Len(frames) - 1) : frames[i].last_leaf = frames[i + 1].node
      /\ \A i \in 1..Len(frames) : frames[i].node \in Nodes /\ frames[i].last_leaf \in Nodes
                                   /\ frames[i] = [node |-> frames[i].node, last_leaf |-> frames[i].last_leaf,
                                                   state |-> frames[i].state]
  BY <1>1, FramesAre
<1>4. PICK c : c = frames[Len(frames) - 1]
  OBVIOUS
<1>5. /\ c.last_leaf \in Nodes \ {1}
      /\ c = [node |-> c.node, last_leaf |-> c.last_leaf, state |-> c.state]
  <2>1. Len(frames) - 1 \in 1..Len(frames) /\ Len(frames) - 1 \in 1..(Len(frames) - 1)
    BY <1>2, <1>3
  <2>2. Nested(frames)
    BY <1>1 DEF Calls
  <2>3. c.last_leaf # 1
    BY <1>4, <2>1, <2>2 DEF Nested
  <2> QED
    BY <1>3, <1>4, <2>1, <2>3
<1>6. PICK p \in Nodes : \E i \in DOMAIN tree.kids[p] : tree.kids[p][i] = c.last_leaf
  <2>1. Hung(tree.kids, c.last_leaf)
    BY <1>1, <1>5 DEF Built, Attached
  <2> QED
    BY <1>1, <2>1, TreeShapeFacts DEF Hung, Built
<1>7. Parent(c.last_leaf) = p
  BY <1>1, <1>6, ParentIs DEF Built
<1>8. PICK f : f = [c EXCEPT !.last_leaf = Parent(c.last_leaf)]
  OBVIOUS
<1>9. f.node = c.node /\ f.last_leaf = p /\ f.state = c.state
  BY <1>5, <1>7, <1>8
<1>10. Last(Front(frames)) = c
  <2>1. PICK H : H = Front(frames)
    OBVIOUS
  <2>2. H \in Seq(CallsOf(Nodes)) /\ Len(H) = Len(frames) - 1 /\ \A i \in 1..(Len(frames) - 1) : H[i] = frames[i]
    BY <1>3, <2>1, FrontLast
  <2>3. H # <<>> /\ Len(H) \in 1..(Len(frames) - 1)
    BY <1>2, <1>3, <2>2
  <2>4. Last(H) = H[Len(H)]
    BY <2>2, <2>3, FrontLast
  <2> QED
    BY <1>4, <2>1, <2>2, <2>3, <2>4
<1>11. frames' = Append(Front(Front(frames)), f)
  BY <1>8, <1>10 DEF parse_end
<1>12. Returned(frames, f, frames')
  BY <1>2, <1>3, <1>11, ReturnedIs
<1> QED
  BY <1>1, <1>2, <1>3, <1>4, <1>6, <1>9, <1>12

LEMMA InnerReturned ==
    ASSUME NEW s, NEW o, NEW b, NEW F, NEW G, NEW f, Inner(s, o, b, F), Len(F) \in Nat, Len(F) >= 3, Returned(F, f, G),
           f.node = F[Len(F) - 1].node, Len(F) = 3 \/ f.last_leaf > KeyNode(s, o, b),
           f.state = F[Len(F) - 1].state
    PROVE  Inner(s, o, b, G) /\ G[2].state = F[2].state
<1>1. Len(G) = Len(F) - 1 /\ G[Len(F) - 1] = f /\ \A i \in 1..(Len(F) - 2) : G[i] = F[i]
  BY DEF Returned
<1>2. G[2].state = F[2].state /\ G[2].node = F[2].node
  <2>1. CASE Len(F) = 3
    BY <1>1, <2>1
  <2>2. CASE Len(F) > 3
    BY <1>1, <2>2
  <2>3. Len(F) = 3 \/ Len(F) > 3
    <3>1. \A m \in Nat : m >= 3 => m = 3 \/ m > 3
      OBVIOUS
    <3> QED
      BY <3>1
  <2> QED
    BY <2>1, <2>2, <2>3
<1>3. ASSUME NEW j \in 3..Len(G)
      PROVE  /\ G[j].node > KeyNode(s, o, b) /\ G[j].last_leaf > KeyNode(s, o, b)
             /\ j # 3 => G[j].node > KeyNode(s, o, b) + 1
  <2>0. Len(F) > 3 /\ j \in 3..Len(F)
    BY <1>1
  <2>1. /\ F[j].node > KeyNode(s, o, b) /\ F[j].last_leaf > KeyNode(s, o, b)
        /\ j # 3 => F[j].node > KeyNode(s, o, b) + 1
    BY <2>0 DEF Inner
  <2>2. CASE j = Len(F) - 1
    <3>1. Len(F) # 3 /\ j = Len(F) - 1 /\ G[j] = f /\ F[j].node = f.node
      BY <1>1, <2>0, <2>2
    <3> QED
      BY <2>1, <3>1
  <2>3. CASE j # Len(F) - 1
    <3>1. G[j] = F[j]
      BY <1>1, <2>3
    <3> QED
      BY <2>1, <3>1
  <2> QED
    BY <2>2, <2>3
<1>4. Len(G) >= 2 /\ F[2].node = 2
  BY <1>1 DEF Inner
<1> QED
  BY <1>2, <1>3, <1>4 DEF Inner

(* What is left to show of a step below a sequence. *)
LEMMA BelowNext ==
    ASSUME NEW n, NEW o, NEW b, Below(n, o, b), NEW K, NEW F, KeysAre(events, o, b, K, read + 1),
           Inner(events, o, b, F), F[2].state = {"MAP"}
    PROVE  Within(events, o, b, K, read + 1, F)
<1>1. read \in Nat /\ o[b] \in Nat /\ o[b + 1] \in Nat
  BY BelowFacts
<1>2. o[b] <= read + 1 /\ read + 1 < o[b + 1] /\ read + 1 # o[b]
  BY <1>1 DEF Below
<1> QED
  BY <1>2 DEF Within

LEMMA BelowScalar ==
    ASSUME NEW n, NEW o, NEW b, Below(n, o, b), parse_scalar
    PROVE  Within(events, o, b, tree'.kids, read + 1, frames')
<1>1. /\ b \in 0..n /\ read \in Nat /\ Len(frames) \in Nat /\ Len(frames) >= 3 /\ frames[2].state = {"MAP"}
      /\ KeysAre(events, o, b, tree.kids, read) /\ Inner(events, o, b, frames)
      /\ KeyNode(events, o, b) \in Nat /\ Frame = frames[Len(frames)]
      /\ Frame.node \in Nodes /\ Frame.last_leaf \in Nodes
      /\ Frame.node > KeyNode(events, o, b) /\ Frame.last_leaf > KeyNode(events, o, b)
      /\ Frame = [node |-> Frame.node, last_leaf |-> Frame.last_leaf, state |-> Frame.state]
      /\ frames \in Seq(CallsOf(Nodes)) /\ frames # <<>>
      /\ New \in Nat /\ New > KeyNode(events, o, b) + 1
  BY BelowFacts
<1>2. New > KeyNode(events, o, b)
  BY <1>1
<1>3. PICK p, f :
          p \in {Frame.node, Frame.last_leaf} /\ Grow(Text, p) /\ SetFrame(f) /\ f.node = Frame.node /\ f.last_leaf \in {New, Frame.last_leaf}
  <2>1. /\ [Frame EXCEPT !.last_leaf = New].node = Frame.node /\ [Frame EXCEPT !.last_leaf = New].last_leaf = New
        /\ [Frame EXCEPT !.state = @ \cap {"MAP", "SEQ"}].node = Frame.node
        /\ [Frame EXCEPT !.state = @ \cap {"MAP", "SEQ"}].last_leaf = Frame.last_leaf
        /\ [Frame EXCEPT !.last_leaf = New, !.state = @ \cup {"VAL"}].node = Frame.node
        /\ [Frame EXCEPT !.last_leaf = New, !.state = @ \cup {"VAL"}].last_leaf = New
    BY <1>1
  <2> QED
    BY <2>1, Zenon DEF parse_scalar
<1>4. p \in Nodes /\ p > KeyNode(events, o, b) /\ f.last_leaf > KeyNode(events, o, b)
  BY <1>1, <1>2, <1>3
<1>5. Parse("scalar")
  BY DEF parse_scalar
<1>6. OneGrown(tree.kids, tree'.kids, p, New) /\ KidsBelow(tree.kids, New) /\ p \in DOMAIN tree.kids
  BY <1>3, <1>4, <1>5, GrownIs DEF Below, Reading, TreeInvariant
<1>7. KeysAre(events, o, b, tree'.kids, read + 1)
  BY <1>1, <1>4, <1>6, KeysInside DEF Below, Reading
<1>8. SameBut(frames, f, frames')
  BY <1>1, <1>3, AnyReplaced DEF SetFrame
<1>9. Inner(events, o, b, frames') /\ frames'[2] = frames[2]
  BY <1>1, <1>3, <1>4, <1>8, InnerReplaced
<1> QED
  BY <1>1, <1>7, <1>9, BelowNext

LEMMA BelowStart ==
    ASSUME NEW n, NEW o, NEW b, Below(n, o, b), parse_sequence_start \/ parse_mapping_start
    PROVE  Within(events, o, b, tree'.kids, read + 1, frames')
<1>1. /\ b \in 0..n /\ read \in Nat /\ Len(frames) \in Nat /\ Len(frames) >= 3 /\ frames[2].state = {"MAP"}
      /\ KeysAre(events, o, b, tree.kids, read) /\ Inner(events, o, b, frames)
      /\ KeyNode(events, o, b) \in Nat /\ Frame = frames[Len(frames)]
      /\ Frame.node \in Nodes /\ Frame.last_leaf \in Nodes
      /\ Frame.node > KeyNode(events, o, b) /\ Frame.last_leaf > KeyNode(events, o, b)
      /\ Frame = [node |-> Frame.node, last_leaf |-> Frame.last_leaf, state |-> Frame.state]
      /\ frames \in Seq(CallsOf(Nodes)) /\ frames # <<>>
      /\ New \in Nat /\ New > KeyNode(events, o, b) + 1
  BY BelowFacts
<1>2. New > KeyNode(events, o, b)
  BY <1>1
<1>3. PICK p, f, st :
          /\ p \in {Frame.node, Frame.last_leaf}
          /\ Grow(NULL, p) /\ f.node = Frame.node /\ f.last_leaf = New /\ Call(f, st)
  <2>1. \A x : /\ [Frame EXCEPT !.last_leaf = New, !.state = x].node = Frame.node
               /\ [Frame EXCEPT !.last_leaf = New, !.state = x].last_leaf = New
    BY <1>1
  <2>2. [Frame EXCEPT !.last_leaf = New].node = Frame.node /\ [Frame EXCEPT !.last_leaf = New].last_leaf = New
    BY <1>1
  <2>3. CASE parse_sequence_start
    <3>1. PICK x : x = IF "MAP" \in Frame.state THEN {"MAP"} ELSE Frame.state
      OBVIOUS
    <3>2. PICK f : f = [Frame EXCEPT !.last_leaf = New, !.state = x]
      OBVIOUS
    <3>3. f = [Frame EXCEPT !.last_leaf = New, !.state = IF "MAP" \in @ THEN {"MAP"} ELSE @]
      BY <1>1, <3>1, <3>2
    <3>4. Call(f, {"SEQ"}) /\ (Grow(NULL, Frame.node) \/ Grow(NULL, Frame.last_leaf))
      BY <2>3, <3>3 DEF parse_sequence_start
    <3>5. f.node = Frame.node /\ f.last_leaf = New
      BY <2>1, <3>2
    <3>6. PICK p : p \in {Frame.node, Frame.last_leaf} /\ Grow(NULL, p)
      BY <3>4
    <3>7. /\ p \in {Frame.node, Frame.last_leaf}
          /\ Grow(NULL, p) /\ f.node = Frame.node /\ f.last_leaf = New /\ Call(f, {"SEQ"})
      BY <3>4, <3>5, <3>6
    <3> QED
      BY <3>7
  <2>4. CASE parse_mapping_start
    <3>1. PICK f : f = [Frame EXCEPT !.last_leaf = New]
      OBVIOUS
    <3>2. Call(f, {"MAP"}) /\ (Grow(NULL, Frame.node) \/ Grow(NULL, Frame.last_leaf))
      BY <2>4, <3>1 DEF parse_mapping_start
    <3>3. PICK p : p \in {Frame.node, Frame.last_leaf} /\ Grow(NULL, p)
      BY <3>2
    <3>4. /\ p \in {Frame.node, Frame.last_leaf}
          /\ Grow(NULL, p) /\ f.node = Frame.node /\ f.last_leaf = New /\ Call(f, {"MAP"})
      BY <2>2, <3>1, <3>2, <3>3
    <3> QED
      BY <3>4
  <2> QED
    BY <2>3, <2>4
<1>4. p \in Nodes /\ p > KeyNode(events, o, b)
  BY <1>1, <1>3
<1>5. PICK type \in Starts : Parse(type)
  BY DEF parse_sequence_start, parse_mapping_start, Starts
<1>6. OneGrown(tree.kids, tree'.kids, p, New) /\ KidsBelow(tree.kids, New) /\ p \in DOMAIN tree.kids
  BY <1>3, <1>4, <1>5, GrownIs DEF Below, Reading, TreeInvariant
<1>7. KeysAre(events, o, b, tree'.kids, read + 1)
  BY <1>1, <1>4, <1>6, KeysInside DEF Below, Reading
<1>8. PICK g : g = [node |-> f.last_leaf, last_leaf |-> f.last_leaf, state |-> st]
  OBVIOUS
<1>9. g.node = New /\ g.last_leaf = New
  BY <1>3, <1>8
<1>10. Deeper(frames, f, g, frames')
  BY <1>1, <1>3, <1>8, AnyDeeper DEF Call
<1>11. Inner(events, o, b, frames') /\ frames'[2] = frames[2]
  BY <1>1, <1>2, <1>3, <1>9, <1>10, InnerDeeper
<1> QED
  BY <1>1, <1>7, <1>11, BelowNext

(* 211-213, 223-226: the end of a sequence or mapping. *)
LEMMA BelowEnd ==
    ASSUME NEW n, NEW o, NEW b, Below(n, o, b), parse_end
    PROVE  Within(events, o, b, tree'.kids, read + 1, frames')
<1>1. /\ b \in 0..n /\ read \in Nat /\ Len(frames) \in Nat /\ Len(frames) >= 3 /\ frames[2].state = {"MAP"}
      /\ KeysAre(events, o, b, tree.kids, read) /\ Inner(events, o, b, frames)
      /\ KeyNode(events, o, b) \in Nat /\ New \in Nat /\ Nodes = 1..(New - 1)
      /\ \A i \in 1..(Len(frames) - 1) : frames[i].last_leaf = frames[i + 1].node
  BY BelowFacts
<1>2. PICK p, f :
        /\ p \in Nodes
        /\ \E i \in DOMAIN tree.kids[p] : tree.kids[p][i] = frames[Len(frames) - 1].last_leaf
        /\ f.node = frames[Len(frames) - 1].node /\ f.last_leaf = p
        /\ f.state = frames[Len(frames) - 1].state
        /\ Returned(frames, f, frames')
  BY EndIs DEF Below, Reading
<1>3. tree' = tree
  BY EndIs DEF Below, Reading
<1>4. ASSUME Len(frames) > 3 PROVE p > KeyNode(events, o, b)
  <2>0. Len(frames) \in Nat
    BY <1>1
  <2>1. Len(frames) \in 3..Len(frames) /\ Len(frames) # 3 /\ Len(frames) - 1 \in 1..(Len(frames) - 1)
    <3>1. \A m \in Nat : m > 3 => m \in 3..m /\ m # 3 /\ m - 1 \in 1..(m - 1)
      OBVIOUS
    <3> QED
      BY <1>4, <2>0, <3>1
  <2>2. frames[Len(frames)].node > KeyNode(events, o, b) + 1
    BY <1>1, <2>1 DEF Inner
  <2>3. frames[Len(frames) - 1].last_leaf = frames[(Len(frames) - 1) + 1].node
    BY <1>1, <2>1
  <2>4. (Len(frames) - 1) + 1 = Len(frames)
    BY <1>1
  <2>5. PICK x : x = frames[Len(frames)].node
    OBVIOUS
  <2>6. x > KeyNode(events, o, b) + 1 /\ \E i \in DOMAIN tree.kids[p] : tree.kids[p][i] = x
    BY <1>2, <2>2, <2>3, <2>4, <2>5
  <2>7. PICK i \in DOMAIN tree.kids[p] : tree.kids[p][i] = x
    BY <2>6
  <2>8. SUFFICES ASSUME p \in 1..KeyNode(events, o, b) PROVE FALSE
    BY <1>1, <1>2, <2>8
  <2>9. x <= KeyNode(events, o, b) + 1
    BY <1>1, <2>7, <2>8 DEF KeysAre
  <2>10. x \in Nodes
    <3>1. Len(frames) \in 1..Len(frames)
      BY <1>1
    <3> QED
      BY <2>5, <3>1, FramesAre DEF Below, Reading
  <2> QED
    BY <1>1, <2>6, <2>9, <2>10
<1>5. Inner(events, o, b, frames') /\ frames'[2].state = frames[2].state
  <2>1. /\ f.node = frames[Len(frames) - 1].node /\ f.state = frames[Len(frames) - 1].state
        /\ Returned(frames, f, frames')
    BY <1>2
  <2>g. PICK G : G = frames'
    OBVIOUS
  <2>2. Len(frames) = 3 \/ f.last_leaf > KeyNode(events, o, b)
    <3>1. \A m \in Nat : m >= 3 => m = 3 \/ m > 3
      OBVIOUS
    <3>2. Len(frames) = 3 \/ Len(frames) > 3
      BY <1>1, <3>1
    <3> QED
      BY <1>2, <1>4, <3>2
  <2>3. Inner(events, o, b, frames) /\ Len(frames) \in Nat /\ Len(frames) >= 3
    BY <1>1
  <2>4. Inner(events, o, b, G) /\ G[2].state = frames[2].state
    BY <2>1, <2>2, <2>3, <2>g, InnerReturned
  <2> QED
    BY <2>g, <2>4
<1>6. KeysAre(events, o, b, tree'.kids, read + 1)
  BY <1>1, <1>3, KeysLonger DEF Below, Reading
<1> QED
  BY <1>1, <1>5, <1>6, BelowNext

(* 237-239. *)
LEMMA BelowIgnored ==
    ASSUME NEW n, NEW o, NEW b, Below(n, o, b), parse_ignored
    PROVE  Within(events, o, b, tree'.kids, read + 1, frames')
<1>1. /\ b \in 0..n /\ read \in Nat /\ frames[2].state = {"MAP"}
      /\ KeysAre(events, o, b, tree.kids, read) /\ Inner(events, o, b, frames)
  BY BelowFacts
<1>2. tree' = tree /\ frames' = frames
  BY DEF parse_ignored
<1>3. KeysAre(events, o, b, tree'.kids, read + 1)
  BY <1>1, <1>2, KeysLonger DEF Below, Reading
<1> QED
  BY <1>1, <1>2, <1>3, BelowNext

(* Every event below a sequence. *)
LEMMA ParseBelow ==
    ASSUME NEW n, NEW o, NEW b, Below(n, o, b), cloud_config_parse, ~broken'
    PROVE  Within(events, o, b, tree'.kids, read', frames')
<1>1. Reading(n, o)
  BY DEF Below
<1>2. /\ read' = read + 1 /\ read \in Nat
      /\ events[read + 1].type = "scalar" => parse_scalar
      /\ events[read + 1].type = "sequence_start" => parse_sequence_start
      /\ events[read + 1].type = "mapping_start" => parse_mapping_start
      /\ events[read + 1].type = "end" => parse_end
      /\ events[read + 1].type = "ignored" => parse_ignored
      /\ events[read + 1].type \in EventTypes
  BY <1>1, ActionIs
<1>3. events[read + 1].type # "stream_end"
  <2>1. read + 1 < Len(events) /\ Context
    BY BelowFacts DEF Below, Reading, TreeInvariant, Built
  <2>2. read + 1 \in 1..Len(events) /\ read + 1 # Len(events)
    BY <1>2, <2>1, EventFacts
  <2> QED
    BY <2>1, <2>2, EventFacts
<1>4. parse_scalar \/ (parse_sequence_start \/ parse_mapping_start) \/ parse_end \/ parse_ignored
  BY <1>2, <1>3 DEF EventTypes, Starts
<1> QED
  BY <1>2, <1>4, BelowScalar, BelowStart, BelowEnd, BelowIgnored

(* 211-213, 223-226: the end of the mapping. *)
LEMMA ParseClose ==
    ASSUME NEW n, NEW o, Reading(n, o), cloud_config_parse, ~broken',
           Within(events, o, n, tree.kids, read, frames), read + 1 = o[n + 1]
    PROVE  read' = o[n + 1] /\ KeysAre(events, o, n, tree'.kids, read')
<1>1. n \in 0..n /\ n \in Nat
  <2>1. n \in Nat
    BY DEF Reading, Layout
  <2> QED
    BY <2>1
<1>2. events[read + 1].type = "end"
  BY DEF Reading, Layout
<1>3. parse_end /\ read' = read + 1 /\ read \in Nat
  BY <1>2, ActionIs
<1>4. tree' = tree /\ KeysAre(events, o, n, tree.kids, read)
  BY <1>3 DEF parse_end, Within
<1>5. CASE n = 0
  <2>1. 1..0 = {}
    OBVIOUS
  <2> QED
    BY <1>3, <1>4, <1>5, <2>1 DEF KeysAre
<1>6. CASE n # 0
  <2>1. o[n] \in Nat /\ o[n] + 1 < o[n + 1] /\ o[n + 1] \in Nat
    BY <1>1, <1>6, PlaceFacts
  <2>2. o[n] < read
    BY <1>3, <2>1
  <2>3. KeysAre(events, o, n, tree.kids, read + 1)
    BY <1>1, <1>3, <1>4, <2>2, KeysLonger DEF Reading
  <2> QED
    BY <1>3, <1>4, <2>3
<1> QED
  BY <1>5, <1>6

(* The keys and their values, when the mapping has been read: while the tree
   is simplified a mapping without keys goes. *)
KeysDone(s, n, o, K) ==
    /\ K[1] = <<2>> \/ (n = 0 /\ K[1] = <<>>)
    /\ K[2] = [k \in 1..n |-> KeyNode(s, o, k)]
    /\ \A k \in 1..n : Single(s, o, k) => K[KeyNode(s, o, k)] = <<KeyNode(s, o, k) + 1>>

(* 228-230: the end of the stream. *)
LEMMA ParseDone ==
    ASSUME NEW n, NEW o, Reading(n, o), cloud_config_parse, ~broken',
           read = o[n + 1], KeysAre(events, o, n, tree.kids, read)
    PROVE  stage' = "simplify" /\ read' = Len(events) /\ KeysDone(events, n, o, tree'.kids)
<1>1. n \in Nat /\ o[n + 1] = Len(events) - 1 /\ Len(events) \in Nat /\ Len(events) > 0 /\ n \in 0..n /\ Context
  <2>1. n \in Nat /\ o[n + 1] = Len(events) - 1 /\ Context
    BY DEF Reading, Layout, TreeInvariant, Built
  <2> QED
    BY <2>1, EventFacts
<1>2. read + 1 = Len(events)
  BY <1>1
<1>3. events[read + 1].type = "stream_end"
  <2>1. Len(events) \in 1..Len(events)
    BY <1>1
  <2>2. (events[Len(events)].type = "stream_end") = (Len(events) = Len(events))
    BY <1>1, <2>1, EventFacts
  <2> QED
    BY <1>2, <2>2
<1>4. parse_stream_end /\ read' = read + 1 /\ stage' = "simplify"
  BY <1>3, ActionIs
<1>5. tree' = tree
  BY <1>4 DEF parse_stream_end, ParseReturns
<1>6. ASSUME NEW k \in 1..n PROVE read > o[k]
  <2>1. k \in 0..(n + 1) /\ n + 1 \in 0..(n + 1) /\ k < n + 1
    BY <1>1
  <2>2. o[k] < o[n + 1] /\ o[k] \in Nat /\ o[n + 1] \in Nat
    BY <2>1 DEF Reading, Layout
  <2> QED
    BY <2>2
<1>7. KeysDone(events, n, o, tree.kids)
  BY <1>6 DEF KeysAre, KeysDone
<1> QED
  BY <1>2, <1>4, <1>5, <1>7

(* Every event of such a document. *)
LEMMA ParsedNext ==
    ASSUME NEW n, NEW o, Reading(n, o), cloud_config_parse, ~broken',
           ParsedTo(events, n, o, tree.kids, read, frames)
    PROVE  /\ stage' = "parse" => ParsedTo(events, n, o, tree'.kids, read', frames')
           /\ stage' # "parse" => read' = Len(events) /\ KeysDone(events, n, o, tree'.kids)
<1>1. n \in Nat /\ 0 \in 0..n
  <2>1. n \in Nat
    BY DEF Reading, Layout
  <2> QED
    BY <2>1
<1>2. CASE read = 0 /\ frames = <<[node |-> 1, last_leaf |-> 1, state |-> {}]>> /\ tree.kids = << <<>> >>
  <2>1. Within(events, o, 0, tree'.kids, read', frames')
    BY <1>2, ParseStart
  <2>2. stage' = "parse"
    <3>1. events[read + 1].type = "mapping_start"
      BY <1>2 DEF Reading, Layout
    <3> QED
      BY <3>1, ActionIs
  <2> QED
    BY <1>1, <2>1, <2>2 DEF ParsedTo
<1>3. CASE read = o[n + 1] /\ KeysAre(events, o, n, tree.kids, read)
  BY <1>3, ParseDone
<1>4. ASSUME NEW b \in 0..n, Within(events, o, b, tree.kids, read, frames)
      PROVE  /\ stage' = "parse" /\ ParsedTo(events, n, o, tree'.kids, read', frames')
  <2>1. /\ b \in Nat /\ o[b] \in Nat /\ o[b + 1] \in Nat /\ o[b] < o[b + 1] /\ read \in Nat
        /\ b # 0 => o[b] + 1 < o[b + 1]
        /\ o[b + 1] <= Len(events) - 1 /\ Len(events) \in Nat
    BY PlaceFacts, FramesAre DEF Reading
  <2>2. o[b] <= read /\ read < o[b + 1]
    BY <1>4 DEF Within
  <2>3. stage' = "parse"
    <3>1. read + 1 \in 1..Len(events) /\ read + 1 # Len(events)
      BY <2>1, <2>2
    <3>2. events[read + 1].type # "stream_end"
      BY <3>1, EventFacts DEF Reading, TreeInvariant, Built
    <3> QED
      BY <3>2, ActionIs
  <2>4. ASSUME Within(events, o, b, tree'.kids, read', frames') PROVE ParsedTo(events, n, o, tree'.kids, read', frames')
    BY <2>4 DEF ParsedTo
  <2>5. CASE read + 1 = o[b + 1] /\ b # n
    <3>1. b \in 0..(n - 1) /\ b + 1 \in 0..n
      BY <1>1, <2>5
    <3>2. Within(events, o, b + 1, tree'.kids, read', frames')
      BY <1>4, <2>5, <3>1, ParseKey
    <3> QED
      BY <2>3, <3>1, <3>2 DEF ParsedTo
  <2>6. CASE read + 1 = o[b + 1] /\ b = n
    BY <1>4, <2>3, <2>6, ParseClose DEF ParsedTo
  <2>7. CASE read + 1 # o[b + 1] /\ read # o[b]
    <3>1. b # 0
      <4>1. o[0] = 1 /\ o[1] = 2
        BY DEF Reading, Layout
      <4>2. b = 0 => o[b] = 1 /\ o[b + 1] = 2
        BY <4>1
      <4> QED
        BY <2>1, <2>2, <2>7, <4>2
    <3>2. o[b] < read /\ read + 1 < o[b + 1] /\ b \in 1..n
      BY <1>1, <2>1, <2>2, <2>7, <3>1
    <3>3. Below(n, o, b)
      BY <1>4, <3>2 DEF Below
    <3> QED
      BY <2>3, <2>4, <3>3, ParseBelow
  <2>8. CASE read + 1 # o[b + 1] /\ read = o[b]
    <3>1. b # 0
      <4>1. o[0] = 1 /\ o[1] = 2
        BY DEF Reading, Layout
      <4>2. b = 0 => o[b] = 1 /\ o[b + 1] = 2
        BY <4>1
      <4> QED
        BY <2>1, <2>8, <4>2
    <3>2. b \in 1..n
      BY <1>1, <3>1
    <3>3. Single(events, o, b) \/ Opened(events, o, b)
      BY <3>2 DEF Reading, Layout
    <3>4. Within(events, o, b, tree'.kids, read', frames')
      BY <1>4, <2>8, <3>2, <3>3, ParseValue, ParseOpen
    <3> QED
      BY <2>3, <2>4, <3>4
  <2> QED
    BY <2>5, <2>6, <2>7, <2>8
<1> QED
  BY <1>2, <1>3, <1>4 DEF ParsedTo

-----------------------------------------------------------------------------
(* The keys while the tree is simplified.                                  *)

(* Keys and single values have data. *)
LEMMA KeysHaveData ==
    ASSUME Built, NEW n, NEW o, Layout(events, n, o), read = Len(events)
    PROVE  /\ 2 \in Nodes /\ n \in Nat
           /\ \A k \in 1..n :
                 /\ KeyNode(events, o, k) \in Nodes
                 /\ tree.data[KeyNode(events, o, k)] = events[o[k]].text
                 /\ tree.data[KeyNode(events, o, k)] # NULL
                 /\ Single(events, o, k) =>
                       /\ KeyNode(events, o, k) + 1 \in Nodes
                       /\ tree.data[KeyNode(events, o, k) + 1] = events[o[k] + 1].text
                       /\ tree.data[KeyNode(events, o, k) + 1] # NULL
<1>1. /\ Len(events) \in Nat /\ Nodes = 1..Len(tree.data) /\ Context /\ TreeShape /\ Numbered
  BY EventFacts, TreeShapeFacts DEF Built
<1>2. /\ n \in Nat /\ o[0] = 1 /\ o[n + 1] = Len(events) - 1
      /\ \A j \in 0..(n + 1) : o[j] \in Nat
      /\ \A j, k \in 0..(n + 1) : j < k => o[j] < o[k]
  BY DEF Layout
<1>3. ASSUME NEW k \in 1..n PROVE o[k] \in 1..Len(events) /\ o[k] + 1 \in 1..Len(events) /\ o[k] \in Nat
  <2>1. k \in 0..(n + 1) /\ n + 1 \in 0..(n + 1) /\ k < n + 1 /\ 0 < k /\ 0 \in 0..(n + 1)
    BY <1>2
  <2>2. o[k] < o[n + 1] /\ o[0] < o[k] /\ o[k] \in Nat /\ o[n + 1] \in Nat
    BY <1>2, <2>1
  <2> QED
    BY <1>1, <1>2, <2>2
<1>4. \A i \in 1..Len(events) :
          events[i].type = "scalar" =>
              /\ Numbering(events, i) \in Nodes /\ tree.data[Numbering(events, i)] = events[i].text
              /\ tree.data[Numbering(events, i)] # NULL
  <2>1. \A i \in 1..Len(events) :
          events[i].type = "scalar" =>
              Numbering(events, i) \in Nodes /\ tree.data[Numbering(events, i)] = events[i].text
    BY <1>1 DEF Numbered, NodeOf, Numbering
  <2>2. \A i \in 1..Len(events) : events[i].text \in STRING
    BY <1>1, EventFacts
  <2> QED
    BY <2>1, <2>2, DataAssumption
<1>5. 2 \in Nodes
  <2>1. Len(tree.data) = Numbering(events, Len(events))
    BY <1>1 DEF Numbered, NodeOf, Numbering
  <2>2. KeyNode(events, o, 0) = 2
    BY KeyNodes
  <2>3. 0 \in 0..(n + 1) /\ n + 1 \in 0..(n + 1) /\ 0 < n + 1
    BY <1>2
  <2>4. o[0] < o[n + 1] /\ o[n + 1] \in Nat
    BY <1>2, <2>3
  <2>5. 1 <= Len(events)
    BY <1>1, <1>2, <2>4
  <2>6. Numbering(events, 1) <= Numbering(events, Len(events))
    BY <1>1, <2>5, NumberingGrows
  <2>7. Numbering(events, 1) = 2
    BY <1>2, <2>2 DEF KeyNode
  <2>8. Numbering(events, Len(events)) \in Nat
    BY <1>1, NumberingNext
  <2> QED
    BY <1>1, <2>1, <2>6, <2>7, <2>8
<1>6. ASSUME NEW k \in 1..n
      PROVE  /\ KeyNode(events, o, k) \in Nodes
             /\ tree.data[KeyNode(events, o, k)] = events[o[k]].text
             /\ tree.data[KeyNode(events, o, k)] # NULL
  <2>1. events[o[k]].type = "scalar"
    BY DEF Layout
  <2> QED
    BY <1>3, <1>4, <2>1 DEF KeyNode
<1>7. ASSUME NEW k \in 1..n, Single(events, o, k)
      PROVE  /\ KeyNode(events, o, k) + 1 \in Nodes
             /\ tree.data[KeyNode(events, o, k) + 1] = events[o[k] + 1].text
             /\ tree.data[KeyNode(events, o, k) + 1] # NULL
  <2>1. events[o[k] + 1].type = "scalar"
    BY <1>7 DEF Single
  <2>2. Numbering(events, o[k] + 1) = KeyNode(events, o, k) + 1
    BY <1>3, <2>1, NumberingNext DEF KeyNode
  <2> QED
    BY <1>3, <1>4, <2>1, <2>2
<1> QED
  BY <1>2, <1>5, <1>6, <1>7

(* cloud_config_simplify leaves the children of a node alone, if all of them
   have data; a node without data that is the only child of another goes, or
   stays. *)
LEMMA KidsStay ==
    ASSUME TreeInvariant, cloud_config_simplify, NEW q \in Nodes,
           \A i \in DOMAIN tree.kids[q] : tree.data[tree.kids[q][i]] # NULL
    PROVE  tree'.kids[q] = tree.kids[q]
<1>1. TreeShape
  BY DEF TreeInvariant, Built
<1>2. /\ tree = [data |-> tree.data, kids |-> tree.kids] /\ DOMAIN tree.kids = Nodes
  BY <1>1, TreeShapeFacts
<1>3. stage = "simplify"
  BY DEF cloud_config_simplify, g_node_traverse, simplify_child, simplify_node, Visiting
<1>4. ASSUME tree.data[Node] = NULL PROVE Parent(Node) # q
  BY <1>3, <1>4, VisitedParent
<1>5. PICK D, K : D = tree.data /\ K = tree.kids /\ tree = [data |-> D, kids |-> K]
  BY <1>2
<1>6. CASE g_node_traverse
  BY <1>6 DEF g_node_traverse
<1>7. CASE simplify_child
  <2>1. PICK r \in DOMAIN tree.kids[Node] :
        /\ LastToMove(r)
        /\ tree' = [tree EXCEPT !.kids[Parent(Node)] = Append(@, tree.kids[Node][r]),
                                !.kids[Node] = RemoveAt(@, r)]
    BY <1>7 DEF simplify_child
  <2>2. tree.data[Node] = NULL /\ tree.data[tree.kids[Node][r]] = NULL
    BY <2>1 DEF LastToMove
  <2>3. Node # q /\ Parent(Node) # q
    BY <1>4, <2>2
  <2>4. PICK p, m, x : p = Parent(Node) /\ m = Node /\ x = tree.kids[Node][r]
    OBVIOUS
  <2>5. tree' = [tree EXCEPT !.kids[p] = Append(@, x), !.kids[m] = RemoveAt(@, r)]
    BY <2>1, <2>4
  <2>6. tree'.kids = [K EXCEPT ![p] = Append(@, x), ![m] = RemoveAt(@, r)]
    BY <1>5, <2>5
  <2> QED
    BY <1>2, <1>5, <2>3, <2>4, <2>6
<1>8. CASE simplify_node
  <2>1. CASE tree.data[Node] = NULL /\ tree.kids[Node] = <<>>
    <3>1. PICK r \in DOMAIN tree.kids[Parent(Node)] :
             tree' = [tree EXCEPT !.kids[Parent(Node)] = RemoveAt(@, r)]
      BY <1>8, <2>1 DEF simplify_node
    <3>2. PICK p : p = Parent(Node)
      OBVIOUS
    <3>3. tree'.kids = [K EXCEPT ![p] = RemoveAt(@, r)]
      BY <1>5, <3>1, <3>2
    <3> QED
      BY <1>2, <1>4, <1>5, <2>1, <3>2, <3>3
  <2>2. CASE ~(tree.data[Node] = NULL /\ tree.kids[Node] = <<>>)
    BY <1>8, <2>2 DEF simplify_node
  <2> QED
    BY <2>1, <2>2
<1> QED
  BY <1>6, <1>7, <1>8 DEF cloud_config_simplify

LEMMA OnlyKid ==
    ASSUME TreeInvariant, cloud_config_simplify, NEW c \in Nodes, tree.kids[1] = <<c>>,
           \A i \in DOMAIN tree.kids[c] : tree.data[tree.kids[c][i]] # NULL
    PROVE  tree'.kids[1] = <<c>> \/ (tree'.kids[1] = <<>> /\ tree.kids[c] = <<>>)
<1>1. TreeShape
  BY DEF TreeInvariant, Built
<1>2. /\ tree = [data |-> tree.data, kids |-> tree.kids] /\ DOMAIN tree.kids = Nodes /\ 1 \in Nodes
      /\ tree.data[1] # NULL
  BY <1>1, TreeShapeFacts DEF TreeShape
<1>3. stage = "simplify"
  BY DEF cloud_config_simplify, g_node_traverse, simplify_child, simplify_node, Visiting
<1>4. ASSUME tree.data[Node] = NULL, Parent(Node) = 1 PROVE Node = c
  <2>1. \E i \in DOMAIN tree.kids[1] : tree.kids[1][i] = Node
    BY <1>3, <1>4, VisitedParent
  <2>2. \A i \in DOMAIN <<c>> : <<c>>[i] = c
    OBVIOUS
  <2> QED
    BY <2>1, <2>2
<1>5. PICK D, K : D = tree.data /\ K = tree.kids /\ tree = [data |-> D, kids |-> K]
  BY <1>2
<1>6. CASE g_node_traverse
  BY <1>6 DEF g_node_traverse
<1>7. CASE simplify_child
  <2>1. PICK r \in DOMAIN tree.kids[Node] :
        /\ LastToMove(r)
        /\ tree' = [tree EXCEPT !.kids[Parent(Node)] = Append(@, tree.kids[Node][r]),
                                !.kids[Node] = RemoveAt(@, r)]
    BY <1>7 DEF simplify_child
  <2>2. tree.data[Node] = NULL /\ tree.data[tree.kids[Node][r]] = NULL
    BY <2>1 DEF LastToMove
  <2>3. Node # 1 /\ Parent(Node) # 1
    <3>1. Node # c
      BY <2>2
    <3> QED
      BY <1>2, <1>4, <2>2, <3>1
  <2>4. PICK p, m, x : p = Parent(Node) /\ m = Node /\ x = tree.kids[Node][r]
    OBVIOUS
  <2>5. tree' = [tree EXCEPT !.kids[p] = Append(@, x), !.kids[m] = RemoveAt(@, r)]
    BY <2>1, <2>4
  <2>6. tree'.kids = [K EXCEPT ![p] = Append(@, x), ![m] = RemoveAt(@, r)]
    BY <1>5, <2>5
  <2>7. tree'.kids[1] = K[1]
    BY <1>2, <1>5, <2>3, <2>4, <2>6
  <2> QED
    BY <1>5, <2>7
<1>8. CASE simplify_node
  <2>1. CASE tree.data[Node] = NULL /\ tree.kids[Node] = <<>>
    <3>1. PICK r \in DOMAIN tree.kids[Parent(Node)] :
             /\ tree.kids[Parent(Node)][r] = Node
             /\ tree' = [tree EXCEPT !.kids[Parent(Node)] = RemoveAt(@, r)]
      BY <1>8, <2>1 DEF simplify_node
    <3>2. PICK p : p = Parent(Node)
      OBVIOUS
    <3>3. tree'.kids = [K EXCEPT ![p] = RemoveAt(@, r)]
      BY <1>5, <3>1, <3>2
    <3>4. CASE p = 1
      <4>1. Node = c /\ tree.kids[c] = <<>>
        BY <1>4, <2>1, <3>2, <3>4
      <4>2. tree'.kids[1] = RemoveAt(<<c>>, r)
        BY <1>2, <1>5, <3>3, <3>4
      <4>3. <<c>> \in Seq(Nodes) /\ Len(<<c>>) = 1 /\ r \in 1..Len(<<c>>)
        <5>1. r \in DOMAIN <<c>>
          BY <3>1, <3>2, <3>4
        <5> QED
          BY <5>1
      <4>s. PICK s : s = <<c>>
        OBVIOUS
      <4>t. s \in Seq(Nodes) /\ Len(s) = 1 /\ r \in 1..Len(s)
        BY <4>3, <4>s
      <4>4. RemoveAt(s, r) \in Seq(Nodes) /\ Len(RemoveAt(s, r)) = 0
        <5>1. RemoveAt(s, r) \in Seq(Nodes) /\ Len(RemoveAt(s, r)) = Len(s) - 1
          BY <4>t, RemoveAtProperties
        <5> QED
          BY <4>t, <5>1
      <4>5. PICK y : y = RemoveAt(s, r)
        OBVIOUS
      <4>6. y = <<>>
        BY <4>4, <4>5
      <4> QED
        BY <4>1, <4>2, <4>s, <4>5, <4>6
    <3>5. CASE p # 1
      <4>1. tree'.kids[1] = K[1]
        BY <1>2, <1>5, <3>3, <3>5
      <4> QED
        BY <1>5, <4>1
    <3> QED
      BY <3>4, <3>5
  <2>2. CASE ~(tree.data[Node] = NULL /\ tree.kids[Node] = <<>>)
    BY <1>8, <2>2 DEF simplify_node
  <2> QED
    BY <2>1, <2>2
<1> QED
  BY <1>6, <1>7, <1>8 DEF cloud_config_simplify

LEMMA KeysStay ==
    ASSUME TreeInvariant, cloud_config_simplify, NEW n, NEW o, Layout(events, n, o), read = Len(events),
           KeysDone(events, n, o, tree.kids)
    PROVE  KeysDone(events, n, o, tree'.kids)
<1>1. /\ 2 \in Nodes /\ n \in Nat
      /\ \A k \in 1..n :
            /\ KeyNode(events, o, k) \in Nodes
            /\ tree.data[KeyNode(events, o, k)] # NULL
            /\ Single(events, o, k) => tree.data[KeyNode(events, o, k) + 1] # NULL
  BY KeysHaveData DEF TreeInvariant
<1>2. 1 \in Nodes
  BY TreeShapeFacts DEF TreeInvariant, Built
<1>3. PICK x : x = [k \in 1..n |-> KeyNode(events, o, k)]
  OBVIOUS
<1>4. tree.kids[2] = x
  BY <1>3 DEF KeysDone
<1>5. \A i \in DOMAIN tree.kids[2] : tree.data[tree.kids[2][i]] # NULL
  BY <1>1, <1>3, <1>4
<1>6. tree'.kids[2] = x
  BY <1>1, <1>4, <1>5, KidsStay
<1>7. ASSUME NEW k \in 1..n, Single(events, o, k)
      PROVE  tree'.kids[KeyNode(events, o, k)] = <<KeyNode(events, o, k) + 1>>
  <2>1. PICK q : q = KeyNode(events, o, k)
    OBVIOUS
  <2>2. tree.kids[q] = <<q + 1>> /\ q \in Nodes /\ tree.data[q + 1] # NULL
    BY <1>1, <1>7, <2>1 DEF KeysDone
  <2>3. \A i \in DOMAIN <<q + 1>> : <<q + 1>>[i] = q + 1
    OBVIOUS
  <2>4. \A i \in DOMAIN tree.kids[q] : tree.data[tree.kids[q][i]] # NULL
    BY <2>2, <2>3
  <2>5. tree'.kids[q] = <<q + 1>>
    BY <2>2, <2>4, KidsStay
  <2> QED
    BY <2>1, <2>5
<1>8. tree'.kids[1] = <<2>> \/ (n = 0 /\ tree'.kids[1] = <<>>)
  <2>1. CASE tree.kids[1] = <<2>>
    <3>1. tree'.kids[1] = <<2>> \/ (tree'.kids[1] = <<>> /\ tree.kids[2] = <<>>)
      BY <1>1, <1>5, <2>1, OnlyKid
    <3>2. x = <<>> => n = 0
      <4>1. DOMAIN x = 1..n
        BY <1>3
      <4>2. DOMAIN <<>> = {}
        OBVIOUS
      <4>3. n # 0 => 1 \in 1..n
        BY <1>1
      <4> QED
        BY <4>1, <4>2, <4>3
    <3> QED
      BY <1>4, <3>1, <3>2
  <2>2. CASE n = 0 /\ tree.kids[1] = <<>>
    <3>1. DOMAIN <<>> = {}
      OBVIOUS
    <3>2. tree'.kids[1] = tree.kids[1]
      BY <1>2, <2>2, <3>1, KidsStay
    <3> QED
      BY <2>2, <3>2
  <2> QED
    BY <2>1, <2>2 DEF KeysDone
<1> QED
  BY <1>3, <1>6, <1>7, <1>8 DEF KeysDone

-----------------------------------------------------------------------------
(* For every document of one mapping.                                      *)

Mapped ==
    \A n, o :
        Layout(events, n, o) /\ ~broken =>
            /\ stage = "parse" => ParsedTo(events, n, o, tree.kids, read, frames)
            /\ stage # "parse" => read = Len(events) /\ KeysDone(events, n, o, tree.kids)

LEMMA MappedInit == TreeInit => Mapped
BY DEF TreeInit, Mapped, ParsedTo

LEMMA MappedNext ==
    ASSUME TreeInvariant, Mapped, [TreeNext]_treeVars
    PROVE  Mapped'
<1>1. CASE UNCHANGED treeVars
  <2>1. /\ events' = events /\ broken' = broken /\ stage' = stage /\ tree' = tree /\ read' = read
        /\ frames' = frames
    BY <1>1 DEF treeVars
  <2> QED
    BY <2>1 DEF Mapped
<1>2. CASE TreeNext
  <2> SUFFICES ASSUME NEW n, NEW o, Layout(events', n, o), ~broken'
               PROVE  /\ stage' = "parse" => ParsedTo(events', n, o, tree'.kids, read', frames')
                      /\ stage' # "parse" => read' = Len(events') /\ KeysDone(events', n, o, tree'.kids)
    BY DEF Mapped
  <2>1. events' = events
    BY <1>2 DEF TreeNext, cloud_config_parse, cloud_config_simplify, parse_scalar, parse_sequence_start,
            parse_mapping_start, parse_end, parse_ignored, parse_stream_end, parse_error, Parse, g_node_traverse,
            simplify_child, simplify_node
  <2>2. CASE cloud_config_parse
    <3>1. stage = "parse" /\ ~broken
      BY <2>2 DEF cloud_config_parse, parse_scalar, parse_sequence_start,
            parse_mapping_start, parse_end, parse_ignored, parse_stream_end, parse_error, Parse
    <3>2. Reading(n, o) /\ ParsedTo(events, n, o, tree.kids, read, frames)
      BY <2>1, <3>1 DEF Reading, Mapped
    <3> QED
      BY <2>1, <2>2, <3>2, ParsedNext
  <2>3. CASE cloud_config_simplify
    <3>1. stage = "simplify" /\ broken' = broken /\ read' = read /\ stage' # "parse"
      BY <2>3 DEF cloud_config_simplify, g_node_traverse, simplify_child, simplify_node, Visiting, Return
    <3>2. read = Len(events) /\ KeysDone(events, n, o, tree.kids)
      BY <2>1, <3>1 DEF Mapped
    <3> QED
      BY <2>1, <2>3, <3>1, <3>2, KeysStay
  <2> QED
    BY <1>2, <2>2, <2>3 DEF TreeNext
<1> QED
  BY <1>1, <1>2

(* Of a document that is one mapping of scalars and sequences, the nodes that
   cloud_config_parse makes for the keys are the children of the mapping's
   node, in order and nothing else with them, and a scalar is the only child
   of its key; cloud_config_simplify leaves them as they are, whatever it moves
   below them. *)
THEOREM MappedAlways == TreeSpec => []Mapped
<1>1. TreeInit => Mapped
  BY MappedInit
<1>2. TreeInvariant /\ Mapped /\ [TreeNext]_treeVars => Mapped'
  BY MappedNext
<1> QED
  BY <1>1, <1>2, TreeInvariantHolds, PTL DEF TreeSpec
=============================================================================
