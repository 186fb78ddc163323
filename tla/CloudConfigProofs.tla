-------------------------- MODULE CloudConfigProofs --------------------------
(***************************************************************************)
(* What CloudConfig promises for every document: that its handlers never   *)
(* come to the NULL of a sequence where they print a text, that they wait  *)
(* for the network as the blocks tell them, and, of a document that is one *)
(* mapping of scalars and sequences, that its blocks are the keys that     *)
(* were written, so that what the blocks tell is what the document says.   *)
(***************************************************************************)
EXTENDS CloudConfigDocument, CloudConfigTreeProofs

-----------------------------------------------------------------------------
(* The tree that is handled.                                               *)

(* Nodes without data that are below a node of V have children with data. *)
TidyAt(V) ==
    /\ V \subseteq Nodes /\ 1 \in V
    /\ \A n \in V : \A i \in DOMAIN Kids(n) : Kids(n)[i] \in V
    /\ \A n \in V : Data(n) = NULL => Kids(n) # <<>> /\ \A i \in DOMAIN Kids(n) : Data(Kids(n)[i]) # NULL

LEMMA TidyTree == ASSUME TreeInvariant, stage = "process" PROVE \E V : TidyAt(V)
<1>1. PICK V \in SUBSET Nodes : Good(tree.data, tree.kids, V) /\ 1 \in V
  BY DEF TreeInvariant, Walks
<1>2. TidyAt(V)
  BY <1>1 DEF TidyAt, Good, Kids, Data
<1> QED
  BY <1>2

Numbers == Len(tree.data)

LEMMA HandledNodes ==
    ASSUME TreeInvariant
    PROVE  /\ Numbers \in Nat /\ Nodes = 1..Numbers
           /\ \A n \in Nodes : /\ Data(n) \in STRING \cup {NULL}
                               /\ Kids(n) \in Seq(Nodes)
                               /\ \A i \in DOMAIN Kids(n) : Kids(n)[i] \in Nodes /\ n < Kids(n)[i]
<1>1. TreeShape
  BY DEF TreeInvariant, Built
<1>2. /\ Numbers \in Nat /\ Nodes = 1..Numbers /\ DOMAIN tree.kids = Nodes /\ Forest(tree.kids)
      /\ \A n \in Nodes : tree.data[n] \in STRING \cup {NULL}
  BY <1>1, TreeShapeFacts DEF Numbers
<1>3. \A n \in Nodes : /\ tree.kids[n] \in Seq(2..Len(tree.kids)) /\ DOMAIN tree.kids[n] = 1..Len(tree.kids[n])
                       /\ \A i \in DOMAIN tree.kids[n] : tree.kids[n][i] \in Nodes
  BY <1>2, ForestFacts
<1>4. \A n \in Nodes : \A i \in DOMAIN tree.kids[n] : n < tree.kids[n][i]
  BY <1>2 DEF Forest
<1>5. ASSUME NEW n \in Nodes PROVE tree.kids[n] \in Seq(Nodes)
  <2>1. PICK k : k = tree.kids[n]
    OBVIOUS
  <2>2. k \in Seq(2..Len(tree.kids)) /\ \A i \in DOMAIN k : k[i] \in Nodes
    BY <1>3, <2>1, Zenon
  <2>3. k \in Seq(Nodes)
    BY <2>2
  <2> QED
    BY <2>1, <2>3
<1>6. ASSUME NEW n \in Nodes
      PROVE  /\ Data(n) \in STRING \cup {NULL} /\ Kids(n) \in Seq(Nodes)
             /\ \A i \in DOMAIN Kids(n) : Kids(n)[i] \in Nodes /\ n < Kids(n)[i]
  BY <1>2, <1>3, <1>4, <1>5, Zenon DEF Kids, Data
<1> QED
  BY <1>2, <1>6, Zenon

-----------------------------------------------------------------------------
(* The leaves.                                                             *)

LeavesFrom(f, n) ==
    IF Leaf(n) THEN <<Data(n)>> ELSE FlattenSeq([i \in DOMAIN Kids(n) |-> f[Kids(n)[i]]])

(* Leaves is what its definition says: a node is older than its children. *)
LEMMA LeavesAre ==
    ASSUME TreeInvariant
    PROVE  \A n \in Nodes : Leaves[n] = LeavesFrom(Leaves, n)
<1> DEFINE S == Seq(STRING \cup {NULL})
           N == Numbers
           G == [n \in 1..N |-> [h \in [(n + 1)..N -> S] |-> LeavesFrom(h, n)]]
<1>1. N \in Nat /\ Nodes = 1..N
  BY HandledNodes
<1>2. ASSUME NEW n \in 1..N, NEW h \in [(n + 1)..N -> S] PROVE G[n][h] \in S
  <2>1. /\ Data(n) \in STRING \cup {NULL} /\ Kids(n) \in Seq(Nodes)
        /\ \A i \in DOMAIN Kids(n) : Kids(n)[i] \in Nodes /\ n < Kids(n)[i]
    BY <1>1, HandledNodes
  <2>2. \A i \in DOMAIN Kids(n) : Kids(n)[i] \in (n + 1)..N
    BY <1>1, <2>1
  <2> DEFINE P == [i \in DOMAIN Kids(n) |-> h[Kids(n)[i]]]
  <2>3. P \in Seq(S)
    <3>1. \A i \in DOMAIN Kids(n) : h[Kids(n)[i]] \in S
      BY <2>2
    <3> HIDE DEF S
    <3> QED
      BY <2>1, <3>1
  <2>4. FlattenSeq(P) \in S
    BY <2>3, FlattenType
  <2>5. LeavesFrom(h, n) \in S
    <3> HIDE DEF P
    <3>1. <<Data(n)>> \in S
      BY <2>1
    <3> QED
      BY <2>4, <3>1 DEF LeavesFrom, P
  <2> HIDE DEF S
  <2> QED
    BY <2>5
<1>3. PICK f : MadeDown(f, S, N, G)
  <2> HIDE DEF G, S
  <2>1. MakesDown(S, N, G)
    BY <1>2, Zenon DEF MakesDown
  <2> QED
    BY <1>1, <2>1, Downwards, Zenon
<1>4. ASSUME NEW n \in 1..N PROVE f[n] = LeavesFrom(f, n)
  <2> DEFINE h == [m \in (n + 1)..N |-> f[m]]
  <2>1. h \in [(n + 1)..N -> S]
    <3> HIDE DEF S
    <3>1. \A m \in (n + 1)..N : m \in 1..N
      BY <1>1
    <3> QED
      BY <1>3, <3>1 DEF MadeDown
  <2>2. f[n] = LeavesFrom(h, n)
    <3> HIDE DEF S, h
    <3>1. G[n][h] = LeavesFrom(h, n)
      BY <2>1
    <3>2. f[n] = G[n][h]
      BY <1>3 DEF h, MadeDown
    <3> QED
      BY <3>1, <3>2
  <2>3. \A i \in DOMAIN Kids(n) : Kids(n)[i] \in (n + 1)..N
    BY <1>1, HandledNodes
  <2>4. [i \in DOMAIN Kids(n) |-> h[Kids(n)[i]]] = [i \in DOMAIN Kids(n) |-> f[Kids(n)[i]]]
    BY <2>3
  <2> HIDE DEF h
  <2>5. LeavesFrom(h, n) = LeavesFrom(f, n)
    BY <2>4 DEF LeavesFrom
  <2> QED
    BY <2>2, <2>5
<1> HIDE DEF G, S
<1>5. f = [n \in Nodes |-> LeavesFrom(f, n)]
  BY <1>1, <1>3, <1>4 DEF MadeDown
<1>6. \E g : g = [n \in Nodes |-> LeavesFrom(g, n)]
  BY <1>5
<1>7. Leaves = [n \in Nodes |-> LeavesFrom(Leaves, n)]
  BY <1>6 DEF Leaves, LeavesFrom
<1> QED
  BY <1>7

WordLists == Seq(STRING) \ {<<>>}

(* A node of the tree that is handled has leaves, and they have data. *)
LEMMA LeavesHaveData ==
    ASSUME TreeInvariant, NEW V, TidyAt(V)
    PROVE  \A n \in V : n \in Nodes /\ Leaves[n] \in WordLists
<1> DEFINE Bad == {n \in V : Leaves[n] \notin WordLists}
<1>1. V \subseteq 1..Numbers /\ Nodes = 1..Numbers /\ Numbers \in Nat
  BY HandledNodes DEF TidyAt
<1> SUFFICES ASSUME Bad # {} PROVE FALSE
  BY <1>1
<1>2. PICK n \in Bad : \A m \in Bad : m <= n
  <2>1. Bad \in SUBSET (1..Numbers)
    BY <1>1
  <2> HIDE DEF Bad
  <2> QED
    BY <1>1, <2>1, GreatestNumber
<1>3. n \in V /\ n \in Nodes /\ Leaves[n] \notin WordLists /\ Leaves[n] = LeavesFrom(Leaves, n)
  BY <1>1, <1>2, LeavesAre
<1>4. /\ Kids(n) \in Seq(Nodes) /\ Data(n) \in STRING \cup {NULL}
      /\ \A i \in DOMAIN Kids(n) : Kids(n)[i] \in V /\ n < Kids(n)[i]
  BY <1>3, HandledNodes DEF TidyAt
<1>5. CASE Leaf(n)
  <2>1. Data(n) # NULL
    BY <1>3, <1>5 DEF TidyAt, Leaf
  <2>2. Leaves[n] = <<Data(n)>> /\ Data(n) \in STRING
    BY <1>3, <1>4, <1>5, <2>1 DEF LeavesFrom
  <2>3. <<Data(n)>> \in WordLists
    BY <2>2 DEF WordLists
  <2> QED
    BY <1>3, <2>2, <2>3
<1>6. CASE ~Leaf(n)
  <2> DEFINE P == [i \in DOMAIN Kids(n) |-> Leaves[Kids(n)[i]]]
  <2>1. \A i \in DOMAIN Kids(n) : Leaves[Kids(n)[i]] \in WordLists
    <3> SUFFICES ASSUME NEW i \in DOMAIN Kids(n), Leaves[Kids(n)[i]] \notin WordLists PROVE FALSE
      OBVIOUS
    <3>1. PICK k : k = Kids(n)[i]
      OBVIOUS
    <3>2. k \in Bad /\ n < k /\ n \in Nat /\ k \in Nat
      BY <1>1, <1>3, <1>4, <3>1
    <3> QED
      BY <1>2, <3>2
  <2>2. P \in Seq(Seq(STRING)) /\ 1 \in DOMAIN P /\ P[1] # <<>>
    <3>1. Len(Kids(n)) \in Nat /\ DOMAIN Kids(n) = 1..Len(Kids(n)) /\ Len(Kids(n)) # 0
      BY <1>4, <1>6 DEF Leaf
    <3> QED
      BY <2>1, <3>1 DEF WordLists
  <2>3. Leaves[n] = FlattenSeq(P)
    BY <1>3, <1>6 DEF LeavesFrom
  <2> HIDE DEF P
  <2>4. FlattenSeq(P) \in Seq(STRING)
    BY <2>2, FlattenType
  <2>5. FlattenSeq(P) # <<>>
    <3>1. \A x : x \in ToSet(FlattenSeq(P)) <=> \E i \in DOMAIN P : x \in ToSet(P[i])
      BY <2>2, FlattenItems
    <3>2. P[1] \in Seq(STRING) /\ Len(P[1]) \in Nat /\ Len(P[1]) # 0 /\ 1 \in DOMAIN P[1]
      BY <2>2
    <3>3. P[1][1] \in ToSet(P[1])
      BY <3>2 DEF ToSet
    <3>4. P[1][1] \in ToSet(FlattenSeq(P))
      BY <2>2, <3>1, <3>3
    <3>5. ToSet(<<>>) = {}
      BY DEF ToSet
    <3> QED
      BY <3>4, <3>5
  <2> QED
    BY <1>3, <2>3, <2>4, <2>5 DEF WordLists
<1> QED
  BY <1>5, <1>6

-----------------------------------------------------------------------------
(* Handlers that have nothing to do with the wait.                         *)

EffectsIn(kinds) == {e \in EffectType : e.block = block + 1 /\ e.do \in kinds}

LoudKinds == {"install", "upgrade"}
QuietKinds == Kinds \ {"wait", "install", "upgrade"}

(* The nodes that stand for a user or an option of one in a block of users, and
   the names that they give. *)
Givers(n) ==
    {k \in ToSet(Kids(n)) : Data(k) # NULL}
    \cup UNION {ToSet(Kids(m)) : m \in {k \in ToSet(Kids(n)) : Data(k) = NULL}}
NamesOf(k) == ToSet(Names(k)) \ {NULL}
Named(n) == UNION {NamesOf(k) : k \in Givers(n)}

(* The names that the blocks of users give among the first c blocks, and what
   the buffer with the name may hold after them. *)
UsersNamed(c) == UNION {Named(Blocks[j]) : j \in {k \in 1..c : Data(Blocks[k]) = "users"}}
Buffered(c) == {""} \cup UsersNamed(c)
Authorized(c) == {DefaultUser} \cup UsersNamed(c - 1)

(* Of them, keys are for nobody but those whom blocks before have named. *)
QuietEffects == {e \in EffectsIn(QuietKinds) : e.do = "authorize" => e.subject \in Authorized(e.block)}

(* What a handler may make of s that does not touch the wait. *)
Quiet(s) ==
    {t \in ModuleState : /\ t.wait = s.wait
                         /\ t.current \in {s.current} \cup Buffered(block + 1)
                         /\ \E E \in Seq(QuietEffects) : t.effects = s.effects \o E}

LEMMA EffectIs ==
    ASSUME block \in Nat, NEW kinds \in SUBSET Kinds, NEW do \in kinds, NEW subject \in Strings,
           NEW args \in Seq(Strings)
    PROVE  Effect(do, subject, args) \in EffectsIn(kinds)
<1>1. PICK b \in Nat : b = block + 1
  OBVIOUS
<1>2. [block |-> b, do |-> do, subject |-> subject, args |-> args] \in EffectType
  BY DEF EffectType
<1> QED
  BY <1>1, <1>2 DEF EffectsIn, Effect

(* More effects at the end. *)
LEMMA DoIs ==
    ASSUME NEW s \in ModuleState, NEW E \in Seq(EffectType)
    PROVE  /\ Do(s, E) \in ModuleState /\ Do(s, E).effects = s.effects \o E /\ Do(s, E).wait = s.wait
           /\ Do(s, E).current = s.current
           /\ s.effects \in Seq(EffectType)
<1>1. s.effects \in Seq(EffectType)
  BY DEF ModuleState
<1>2. PICK F \in Seq(EffectType) : F = s.effects \o E
  BY <1>1, ConcatAt, Zenon
<1>3. Do(s, E) = [s EXCEPT !.effects = F]
  BY <1>2 DEF Do, ModuleState
<1> QED
  BY <1>1, <1>2, <1>3 DEF ModuleState

LEMMA QuietSame ==
    ASSUME NEW s \in ModuleState, NEW t \in ModuleState, t.wait = s.wait, t.effects = s.effects,
           t.current \in {s.current} \cup Buffered(block + 1)
    PROVE  t \in Quiet(s)
<1>1. s.effects \in Seq(EffectType)
  BY DEF ModuleState
<1>2. s.effects = s.effects \o <<>> /\ <<>> \in Seq(QuietEffects)
  BY <1>1, ConcatEmptySeq
<1> QED
  BY <1>2 DEF Quiet

LEMMA QuietDo ==
    ASSUME NEW s \in ModuleState, NEW E \in Seq(QuietEffects)
    PROVE  Do(s, E) \in Quiet(s)
<1>1. E \in Seq(EffectType)
  BY DEF QuietEffects, EffectsIn
<1> QED
  BY <1>1, DoIs DEF Quiet

LEMMA QuietTwice ==
    ASSUME NEW s \in ModuleState, NEW t \in Quiet(s), NEW u \in Quiet(t)
    PROVE  u \in Quiet(s)
<1>1. /\ t \in ModuleState /\ t.wait = s.wait /\ t.current \in {s.current} \cup Buffered(block + 1)
      /\ u \in ModuleState /\ u.wait = t.wait /\ u.current \in {s.current} \cup Buffered(block + 1)
  BY DEF Quiet
<1>2. PICK E \in Seq(QuietEffects) : t.effects = s.effects \o E
  BY DEF Quiet
<1>3. PICK F \in Seq(QuietEffects) : u.effects = t.effects \o F
  BY DEF Quiet
<1>4. s.effects \in Seq(EffectType) /\ E \in Seq(EffectType) /\ F \in Seq(EffectType)
  BY DEF ModuleState, QuietEffects, EffectsIn
<1>5. (s.effects \o E) \o F = s.effects \o (E \o F)
  <2>1. PICK T, x : T = EffectType /\ x = s.effects
    OBVIOUS
  <2>2. x \in Seq(T) /\ E \in Seq(T) /\ F \in Seq(T)
    BY <1>4, <2>1
  <2>3. (x \o E) \o F = x \o (E \o F)
    BY <2>2, ConcatAssociative
  <2> QED
    BY <2>1, <2>3
<1>6. E \o F \in Seq(QuietEffects)
  <2> HIDE DEF EffectsIn
  <2> QED
    OBVIOUS
<1> QED
  BY <1>1, <1>2, <1>3, <1>5, <1>6 DEF Quiet

-----------------------------------------------------------------------------
(* What handlers read of the tree.                                         *)

LEMMA ReadNode ==
    ASSUME TreeInvariant, NEW V, TidyAt(V), NEW n \in V
    PROVE  /\ n \in Nodes /\ Data(n) \in STRING \cup {NULL} /\ Kids(n) \in Seq(V)
           /\ Leaves[n] \in Seq(Strings) /\ Leaves[n] # <<>> /\ Leaves[n][1] \in Strings
           /\ ~Leaf(n) => First(n) \in V /\ ValueOf(n) \in STRING \cup {NULL}
           /\ Data(n) = NULL => /\ ~Leaf(n) /\ ValueOf(n) \in STRING
                                /\ \A i \in DOMAIN Kids(n) : Data(Kids(n)[i]) \in STRING
<1>1. /\ n \in Nodes /\ V \subseteq Nodes /\ Leaves[n] \in WordLists
      /\ \A m \in V : Data(m) \in STRING \cup {NULL}
  BY HandledNodes, LeavesHaveData DEF TidyAt
<1>2. Kids(n) \in Seq(Nodes) /\ \A i \in DOMAIN Kids(n) : Kids(n)[i] \in V
  BY <1>1, HandledNodes DEF TidyAt
<1>3. Kids(n) \in Seq(V)
  BY <1>2
<1>4. Leaves[n] \in Seq(Strings) /\ Leaves[n] # <<>> /\ Leaves[n][1] \in Strings
  <2>1. PICK l : l = Leaves[n]
    OBVIOUS
  <2>2. l \in Seq(STRING) /\ l # <<>>
    BY <1>1, <2>1 DEF WordLists
  <2>3. l \in Seq(Strings) /\ 1 \in DOMAIN l
    <3>1. \A x \in STRING : x \in Strings
      BY DEF Strings
    <3>2. Len(l) \in Nat /\ DOMAIN l = 1..Len(l) /\ Len(l) # 0 /\ \A i \in DOMAIN l : l[i] \in STRING
      BY <2>2
    <3>3. l = [i \in 1..Len(l) |-> l[i]] /\ \A i \in 1..Len(l) : l[i] \in Strings
      BY <2>2, <3>1, <3>2
    <3>4. [i \in 1..Len(l) |-> l[i]] \in Seq(Strings)
      BY <3>2, <3>3
    <3> QED
      BY <3>2, <3>3, <3>4
  <2>4. l[1] \in Strings
    BY <2>3
  <2> QED
    BY <2>1, <2>2, <2>3, <2>4
<1>5. ~Leaf(n) => 1 \in DOMAIN Kids(n) /\ First(n) = Kids(n)[1] /\ ValueOf(n) = Data(Kids(n)[1])
  <2>1. PICK k : k = Kids(n)
    OBVIOUS
  <2>2. k \in Seq(V) /\ (k # <<>> => 1 \in DOMAIN k)
    BY <1>3, <2>1
  <2> QED
    BY <2>1, <2>2 DEF Leaf, First, ValueOf, Kids
<1>6. Data(n) = NULL => ~Leaf(n) /\ \A i \in DOMAIN Kids(n) : Data(Kids(n)[i]) # NULL
  BY DEF TidyAt, Leaf
<1>7. \A i \in DOMAIN Kids(n) : Data(Kids(n)[i]) \in STRING \cup {NULL}
  BY <1>1, <1>2
<1> QED
  BY <1>1, <1>2, <1>3, <1>4, <1>5, <1>6, <1>7, Zenon

LEMMA FoundNode ==
    ASSUME TreeInvariant, NEW V, TidyAt(V), NEW n \in V, NEW key, cloud_config_find(n, key) # {}
    PROVE  /\ One(cloud_config_find(n, key)) \in V
           /\ Leaves[One(cloud_config_find(n, key))] \in Seq(Strings)
           /\ ValueOf(One(cloud_config_find(n, key))) \in STRING \cup {NULL}
<1>1. PICK k : k = One(cloud_config_find(n, key))
  OBVIOUS
<1>2. k \in cloud_config_find(n, key)
  BY <1>1 DEF One
<1>3. PICK i \in DOMAIN Kids(n) : k = Kids(n)[i] /\ ~Leaf(Kids(n)[i])
  BY <1>2 DEF cloud_config_find
<1>4. k \in V /\ ~Leaf(k)
  BY <1>3 DEF TidyAt
<1>5. Leaves[k] \in Seq(Strings) /\ ValueOf(k) \in STRING \cup {NULL}
  BY <1>4, ReadNode
<1> QED
  BY <1>1, <1>4, <1>5

LEMMA ItemsAre ==
    ASSUME TreeInvariant, NEW V, TidyAt(V), NEW n \in V
    PROVE  Items(n) \in Seq({m \in V : Data(m) \in STRING})
<1> DEFINE W == {m \in V : Data(m) \in STRING}
           item(i) == IF Data(Kids(n)[i]) = NULL THEN Kids(Kids(n)[i]) ELSE <<Kids(n)[i]>>
           P == [i \in DOMAIN Kids(n) |-> item(i)]
<1>1. Kids(n) \in Seq(V) /\ \A i \in DOMAIN Kids(n) : Kids(n)[i] \in V
  BY ReadNode DEF TidyAt
<1>2. ASSUME NEW i \in DOMAIN Kids(n) PROVE item(i) \in Seq(W)
  <2>1. PICK k \in V : k = Kids(n)[i]
    BY <1>1
  <2>2. CASE Data(k) = NULL
    <3>1. Kids(k) \in Seq(V) /\ \A j \in DOMAIN Kids(k) : Data(Kids(k)[j]) \in STRING
      BY <2>2, ReadNode
    <3>2. \A j \in DOMAIN Kids(k) : Kids(k)[j] \in W
      BY <3>1 DEF TidyAt
    <3> HIDE DEF W
    <3>3. Kids(k) \in Seq(W)
      BY <3>1, <3>2
    <3> QED
      BY <2>1, <2>2, <3>3
  <2>3. CASE Data(k) # NULL
    <3>1. k \in W
      BY <2>3, ReadNode
    <3> HIDE DEF W
    <3>2. <<k>> \in Seq(W)
      BY <3>1
    <3> QED
      BY <2>1, <2>3, <3>2
  <2> QED
    BY <2>2, <2>3
<1>3. P \in Seq(Seq(W))
  <2> HIDE DEF W, item
  <2> QED
    BY <1>1, <1>2
<1>4. Items(n) = FlattenSeq(P)
  BY DEF Items
<1> HIDE DEF P, W
<1>5. FlattenSeq(P) \in Seq(W)
  BY <1>3, FlattenType
<1> QED
  BY <1>4, <1>5 DEF W

-----------------------------------------------------------------------------
(* The handlers.                                                           *)

LEMMA QuietEffect ==
    ASSUME block \in Nat, NEW do \in QuietKinds, do # "authorize", NEW subject \in Strings, NEW args \in Seq(Strings)
    PROVE  Effect(do, subject, args) \in QuietEffects
<1>1. QuietKinds \in SUBSET Kinds
  BY DEF QuietKinds
<1>2. Effect(do, subject, args).do = do
  BY DEF Effect
<1> QED
  BY <1>1, <1>2, EffectIs DEF QuietEffects

(* One text or none is a list of texts. *)
LEMMA SmallTexts ==
    /\ <<>> \in Seq(Strings)
    /\ \A x \in Strings : <<x>> \in Seq(Strings)
<1>1. ASSUME NEW T PROVE <<>> \in Seq(T) /\ \A x \in T : <<x>> \in Seq(T)
  OBVIOUS
<1> QED
  BY <1>1

LEMMA WhenQuiet ==
    ASSUME NEW condition, NEW e, condition => e \in QuietEffects
    PROVE  When(condition, e) \in Seq(QuietEffects)
<1>1. ASSUME NEW T PROVE <<>> \in Seq(T) /\ \A x \in T : <<x>> \in Seq(T)
  OBVIOUS
<1> QED
  BY <1>1, Zenon DEF When

LEMMA HostnameQuiet ==
    ASSUME TreeInvariant, block \in Nat, NEW V, TidyAt(V), NEW n \in V, NEW s \in ModuleState
    PROVE  hostname_handler(n, s) \in Quiet(s)
<1>1. Effect("hostname", Leaves[n][1], <<>>) \in QuietEffects
  <2>1. Leaves[n][1] \in Strings
    BY ReadNode
  <2>2. "hostname" \in QuietKinds
    BY DEF QuietKinds, Kinds
  <2> QED
    BY <2>1, <2>2, SmallTexts, QuietEffect
<1>2. PICK e \in QuietEffects : e = Effect("hostname", Leaves[n][1], <<>>)
  BY <1>1
<1>3. <<e>> \in Seq(QuietEffects)
  <2> HIDE DEF EffectsIn
  <2> QED
    OBVIOUS
<1> QED
  BY <1>2, <1>3, QuietDo DEF hostname_handler

LEMMA KeysQuiet ==
    ASSUME TreeInvariant, block \in Nat, NEW V, TidyAt(V), NEW n \in V, NEW s \in ModuleState,
           s.current \in Buffered(block)
    PROVE  ssh_authorized_keys_handler(n, s) \in Quiet(s)
<1> DEFINE user == IF s.first THEN s.current ELSE DefaultUser
           E == When(user # "", Effect("authorize", user, Leaves[n]))
<1>1. user \in Strings
  BY TextsAssumption DEF ModuleState, Strings
<1>2. user # "" => user \in Authorized(block + 1)
  <2>1. (block + 1) - 1 = block
    OBVIOUS
  <2> QED
    BY <2>1 DEF Buffered, Authorized
<1>3. ASSUME user # "" PROVE Effect("authorize", user, Leaves[n]) \in QuietEffects
  <2>1. Leaves[n] \in Seq(Strings)
    BY ReadNode
  <2>2. "authorize" \in QuietKinds /\ QuietKinds \in SUBSET Kinds
    BY DEF QuietKinds, Kinds
  <2> HIDE DEF user
  <2>3. Effect("authorize", user, Leaves[n]) \in EffectsIn(QuietKinds)
    BY <1>1, <2>1, <2>2, EffectIs
  <2>4. LET e == Effect("authorize", user, Leaves[n]) IN e.subject = user /\ e.block = block + 1
    BY DEF Effect
  <2> QED
    BY <1>2, <1>3, <2>3, <2>4 DEF QuietEffects
<1>4. E \in Seq(QuietEffects)
  BY <1>3, WhenQuiet
<1>5. ssh_authorized_keys_handler(n, s) = Do(s, E)
  BY DEF ssh_authorized_keys_handler
<1> HIDE DEF E
<1> QED
  BY <1>4, <1>5, QuietDo

(* The effects that items have, one after the other. *)
LEMMA GroupsQuiet ==
    ASSUME TreeInvariant, block \in Nat, NEW V, TidyAt(V), NEW n \in V, NEW s \in ModuleState
    PROVE  groups_handler(n, s) \in Quiet(s)
<1> DEFINE Q == QuietEffects
           P == [i \in DOMAIN Items(n) |-> groups_item(Items(n)[i])]
<1>1. "group" \in QuietKinds /\ "member" \in QuietKinds
  BY DEF QuietKinds, Kinds
<1>2. ASSUME NEW m \in V, Data(m) \in STRING PROVE groups_item(m) \in Seq(Q)
  <2>1. Data(m) \in Strings
    BY <1>2 DEF Strings
  <2>2. Effect("group", Data(m), <<>>) \in Q
    BY <1>1, <2>1, SmallTexts, QuietEffect
  <2>3. PICK l : l = Items(m)
    OBVIOUS
  <2>4. l \in Seq({k \in V : Data(k) \in STRING})
    BY <2>3, ItemsAre
  <2>5. Len(l) \in Nat /\ DOMAIN l = 1..Len(l) /\ \A j \in DOMAIN l : Data(l[j]) \in STRING
    BY <2>4
  <2>6. \A j \in DOMAIN l : Effect("member", Data(m), <<Data(l[j])>>) \in Q
    <3> SUFFICES ASSUME NEW j \in DOMAIN l PROVE Effect("member", Data(m), <<Data(l[j])>>) \in Q
      OBVIOUS
    <3>1. Data(l[j]) \in Strings
      BY <2>5 DEF Strings
    <3> QED
      BY <1>1, <2>1, <3>1, SmallTexts, QuietEffect
  <2> HIDE DEF Q
  <2>7. [j \in DOMAIN l |-> Effect("member", Data(m), <<Data(l[j])>>)] \in Seq(Q)
    BY <2>5, <2>6
  <2>8. <<Effect("group", Data(m), <<>>)>> \in Seq(Q)
    BY <2>2
  <2>9. groups_item(m) =
            <<Effect("group", Data(m), <<>>)>> \o [j \in DOMAIN l |-> Effect("member", Data(m), <<Data(l[j])>>)]
    BY <2>3 DEF groups_item
  <2> QED
    BY <2>7, <2>8, <2>9, ConcatAt, Zenon
<1>3. P \in Seq(Seq(Q))
  <2>1. PICK l : l = Items(n)
    OBVIOUS
  <2>2. l \in Seq({k \in V : Data(k) \in STRING})
    BY <2>1, ItemsAre
  <2>3. Len(l) \in Nat /\ DOMAIN l = 1..Len(l) /\ \A j \in DOMAIN l : l[j] \in V /\ Data(l[j]) \in STRING
    BY <2>2
  <2> HIDE DEF Q
  <2>4. \A j \in DOMAIN l : groups_item(l[j]) \in Seq(Q)
    BY <1>2, <2>3
  <2> QED
    BY <2>1, <2>3, <2>4
<1> HIDE DEF P
<1>4. FlattenSeq(P) \in Seq(Q)
  BY <1>3, FlattenType
<1> QED
  BY <1>4, QuietDo DEF groups_handler, P

LEMMA EnvarQuiet ==
    ASSUME TreeInvariant, block \in Nat, NEW V, TidyAt(V), NEW n \in V, NEW s \in ModuleState
    PROVE  envar_handler(n, s) \in Quiet(s)
<1> DEFINE Q == QuietEffects
           P == [i \in DOMAIN Items(n) |-> envar_item(Items(n)[i])]
<1>1. "export" \in QuietKinds
  BY DEF QuietKinds, Kinds
<1>2. ASSUME NEW m \in V, Data(m) \in STRING PROVE envar_item(m) \in Seq(Q)
  <2>1. Data(m) \in Strings
    BY <1>2 DEF Strings
  <2>2. PICK l : l = Items(m)
    OBVIOUS
  <2>3. l \in Seq({k \in V : Data(k) \in STRING})
    BY <2>2, ItemsAre
  <2>4. Len(l) \in Nat /\ DOMAIN l = 1..Len(l) /\ \A j \in DOMAIN l : Data(l[j]) \in STRING
    BY <2>3
  <2>5. \A j \in DOMAIN l : Effect("export", Data(m), <<Data(l[j])>>) \in Q
    <3> SUFFICES ASSUME NEW j \in DOMAIN l PROVE Effect("export", Data(m), <<Data(l[j])>>) \in Q
      OBVIOUS
    <3>1. Data(l[j]) \in Strings
      BY <2>4 DEF Strings
    <3> QED
      BY <1>1, <2>1, <3>1, SmallTexts, QuietEffect
  <2> HIDE DEF Q
  <2>6. [j \in DOMAIN l |-> Effect("export", Data(m), <<Data(l[j])>>)] \in Seq(Q)
    BY <2>4, <2>5
  <2> QED
    BY <2>2, <2>6 DEF envar_item
<1>3. P \in Seq(Seq(Q))
  <2>1. PICK l : l = Items(n)
    OBVIOUS
  <2>2. l \in Seq({k \in V : Data(k) \in STRING})
    BY <2>1, ItemsAre
  <2>3. Len(l) \in Nat /\ DOMAIN l = 1..Len(l) /\ \A j \in DOMAIN l : l[j] \in V /\ Data(l[j]) \in STRING
    BY <2>2
  <2> HIDE DEF Q
  <2>4. \A j \in DOMAIN l : envar_item(l[j]) \in Seq(Q)
    BY <1>2, <2>3
  <2> QED
    BY <2>1, <2>3, <2>4
<1> HIDE DEF P
<1>4. FlattenSeq(P) \in Seq(Q)
  BY <1>3, FlattenType
<1> QED
  BY <1>4, QuietDo DEF envar_handler, P

LEMMA ServiceQuiet ==
    ASSUME TreeInvariant, block \in Nat, NEW V, TidyAt(V), NEW n \in V, NEW s \in ModuleState
    PROVE  service_handler(n, s) \in Quiet(s)
<1> DEFINE Q == QuietEffects
           P == [i \in DOMAIN Kids(n) |-> service_item(Kids(n)[i])]
<1>1. "systemctl" \in QuietKinds
  BY DEF QuietKinds, Kinds
<1>2. ASSUME NEW k \in V PROVE service_item(k) \in Seq(Q)
  <2> DEFINE unit == IF Data(k) = NULL THEN First(k) ELSE k
  <2>1. PICK m \in V : m = unit
    BY ReadNode
  <2>2. PICK l : l = Leaves[m]
    OBVIOUS
  <2>3. l \in Seq(Strings) /\ Data(m) \in STRING \cup {NULL}
    BY <2>2, ReadNode
  <2>4. Len(l) \in Nat /\ DOMAIN l = 1..Len(l) /\ \A j \in DOMAIN l : l[j] \in Strings
    BY <2>3
  <2>5. ASSUME Data(m) \in Actions, NEW j \in DOMAIN l PROVE Effect("systemctl", Data(m), <<l[j]>>) \in Q
    <3>1. Data(m) \in STRING
      <4>1. CASE Data(k) = NULL
        <5>1. m = First(k) /\ ValueOf(k) \in STRING
          BY <2>1, <4>1, ReadNode
        <5> QED
          BY <5>1 DEF ValueOf
      <4>2. CASE Data(k) # NULL
        BY <2>1, <2>3, <4>2
      <4> QED
        BY <4>1, <4>2
    <3>2. Data(m) \in Strings /\ l[j] \in Strings
      BY <2>4, <3>1 DEF Strings
    <3> QED
      BY <1>1, <3>2, SmallTexts, QuietEffect
  <2> HIDE DEF Q
  <2>6. CASE Leaf(m) \/ Data(m) \notin Actions
    <3>1. service_item(k) = <<>>
      BY <2>1, <2>6 DEF service_item
    <3>2. <<>> \in Seq(Q)
      OBVIOUS
    <3> QED
      BY <3>1, <3>2
  <2>7. CASE ~(Leaf(m) \/ Data(m) \notin Actions)
    <3>1. service_item(k) = [j \in DOMAIN l |-> Effect("systemctl", Data(m), <<l[j]>>)]
      BY <2>1, <2>2, <2>7 DEF service_item
    <3>2. [j \in DOMAIN l |-> Effect("systemctl", Data(m), <<l[j]>>)] \in Seq(Q)
      BY <2>4, <2>5, <2>7
    <3> QED
      BY <3>1, <3>2
  <2> QED
    BY <2>6, <2>7
<1>3. P \in Seq(Seq(Q))
  <2>1. PICK l : l = Kids(n)
    OBVIOUS
  <2>2. l \in Seq(V)
    BY <2>1, ReadNode
  <2>3. Len(l) \in Nat /\ DOMAIN l = 1..Len(l) /\ \A j \in DOMAIN l : l[j] \in V
    BY <2>2
  <2> HIDE DEF Q
  <2>4. \A j \in DOMAIN l : service_item(l[j]) \in Seq(Q)
    BY <1>2, <2>3
  <2> QED
    BY <2>1, <2>3, <2>4
<1> HIDE DEF P
<1>4. FlattenSeq(P) \in Seq(Q)
  BY <1>3, FlattenType
<1> QED
  BY <1>4, QuietDo DEF service_handler, P

LEMMA FileQuiet ==
    ASSUME TreeInvariant, block \in Nat, NEW V, TidyAt(V), NEW n \in V, NEW s \in ModuleState
    PROVE  write_files_item(s, n) \in Quiet(s)
<1> DEFINE content == cloud_config_find(n, "content")
           path == cloud_config_find(n, "path")
           permissions == cloud_config_find(n, "permissions")
           owner == cloud_config_find(n, "owner")
           to == ValueOf(One(path))
           text == ValueOf(One(content))
           unreadable == text = NULL \/ (permissions # {} /\ ValueOf(One(permissions)) = NULL)
           c == [s EXCEPT !.crashed = TRUE]
           d == [s EXCEPT !.crashed = unreadable]
           E == <<Effect("write", to, IF text = NULL THEN <<>> ELSE <<text>>)>>
                \o When(~unreadable /\ owner # {} /\ ValueOf(One(owner)) # NULL,
                        Effect("chown", to, <<ValueOf(One(owner))>>))
<1>1. CASE s.crashed \/ content = {} \/ path = {}
  <2>1. write_files_item(s, n) = s
    BY <1>1 DEF write_files_item
  <2> QED
    BY <2>1, QuietSame
<1>2. CASE ~s.crashed /\ content # {} /\ path # {} /\ to = NULL
  <2>1. write_files_item(s, n) = c
    BY <1>2 DEF write_files_item
  <2>2. c \in ModuleState /\ c.wait = s.wait /\ c.effects = s.effects /\ c.current = s.current
    BY DEF ModuleState
  <2> HIDE DEF c
  <2> QED
    BY <2>1, <2>2, QuietSame
<1>3. CASE ~s.crashed /\ content # {} /\ path # {} /\ to # NULL
  <2>1. write_files_item(s, n) = Do(d, E)
    BY <1>3 DEF write_files_item
  <2>2. d \in ModuleState /\ d.wait = s.wait /\ d.effects = s.effects /\ d.current = s.current
    <3>1. unreadable \in BOOLEAN
      OBVIOUS
    <3> HIDE DEF unreadable
    <3> QED
      BY <3>1 DEF ModuleState
  <2>3. "write" \in QuietKinds /\ "chown" \in QuietKinds
    BY DEF QuietKinds, Kinds
  <2>4. to \in Strings /\ text \in Strings \cup {NULL}
    <3>1. to \in STRING \cup {NULL} /\ text \in STRING \cup {NULL}
      BY <1>3, FoundNode
    <3> QED
      BY <1>3, <3>1 DEF Strings
  <2>5. <<Effect("write", to, IF text = NULL THEN <<>> ELSE <<text>>)>> \in Seq(QuietEffects)
    <3>1. (IF text = NULL THEN <<>> ELSE <<text>>) \in Seq(Strings)
      BY <2>4, SmallTexts
    <3>2. PICK x, y : x = to /\ y = (IF text = NULL THEN <<>> ELSE <<text>>)
      OBVIOUS
    <3>3. Effect("write", x, y) \in QuietEffects
      BY <2>3, <2>4, <3>1, <3>2, QuietEffect
    <3>4. <<Effect("write", x, y)>> \in Seq(QuietEffects)
      <4> HIDE DEF EffectsIn
      <4> QED
        BY <3>3
    <3> QED
      BY <3>2, <3>4
  <2>6. When(~unreadable /\ owner # {} /\ ValueOf(One(owner)) # NULL,
             Effect("chown", to, <<ValueOf(One(owner))>>)) \in Seq(QuietEffects)
    <3>1. ASSUME owner # {}, ValueOf(One(owner)) # NULL
          PROVE  Effect("chown", to, <<ValueOf(One(owner))>>) \in QuietEffects
      <4>1. ValueOf(One(owner)) \in Strings
        <5>1. ValueOf(One(owner)) \in STRING \cup {NULL}
          BY <3>1, FoundNode
        <5> QED
          BY <3>1, <5>1 DEF Strings
      <4>2. PICK x, y : x = to /\ y = ValueOf(One(owner))
        OBVIOUS
      <4>3. Effect("chown", x, <<y>>) \in QuietEffects
        BY <2>3, <2>4, <4>1, <4>2, SmallTexts, QuietEffect
      <4> QED
        BY <4>2, <4>3
    <3> QED
      BY <3>1, WhenQuiet
  <2>7. E \in Seq(QuietEffects)
    BY <2>5, <2>6, ConcatAt, Zenon
  <2> HIDE DEF E, d
  <2>8. Do(d, E) \in Quiet(d) /\ d \in Quiet(s)
    BY <2>2, <2>7, QuietDo, QuietSame
  <2> QED
    BY <2>1, <2>8, QuietTwice
<1> QED
  BY <1>1, <1>2, <1>3

LEMMA FilesQuiet ==
    ASSUME TreeInvariant, block \in Nat, NEW V, TidyAt(V), NEW n \in V, NEW s \in ModuleState
    PROVE  write_files_handler(n, s) \in Quiet(s)
<1>1. PICK l : l = Kids(n)
  OBVIOUS
<1>2. l \in Seq(V)
  BY <1>1, ReadNode
<1>3. PICK k \in Nat : k = Len(l) /\ \A i \in 1..k : l[i] \in V
  BY <1>2
<1> DEFINE S == Quiet(s)
           G == [i \in 1..k |-> [t \in S |-> write_files_item(t, l[i])]]
           after == CHOOSE f : f = [i \in 0..k |-> IF i = 0 THEN s ELSE write_files_item(f[i - 1], l[i])]
<1>4. s \in S
  BY QuietSame
<1>5. ASSUME NEW i \in 1..k, NEW t \in S PROVE write_files_item(t, l[i]) \in S
  <2>1. t \in ModuleState /\ l[i] \in V
    BY <1>3 DEF Quiet
  <2>2. write_files_item(t, l[i]) \in Quiet(t)
    BY <2>1, FileQuiet
  <2> QED
    BY <2>2, QuietTwice
<1> HIDE DEF S
<1>6. StepsIn(S, k, G)
  BY <1>5 DEF StepsIn
<1>7. PICK f : MadeBySteps(f, s, k, G) /\ \A i \in 0..k : f[i] \in S
  <2> HIDE DEF G
  <2> QED
    BY <1>4, <1>6, Iterated
<1>8. f = [i \in 0..k |-> IF i = 0 THEN s ELSE write_files_item(f[i - 1], l[i])]
  <2>1. \A i \in 1..k : i - 1 \in 0..k
    OBVIOUS
  <2>2. \A i \in 1..k : G[i][f[i - 1]] = write_files_item(f[i - 1], l[i])
    BY <1>7, <2>1
  <2> HIDE DEF G
  <2>3. \A i \in 0..k : i = 0 \/ i \in 1..k
    OBVIOUS
  <2> QED
    BY <1>7, <2>2, <2>3 DEF MadeBySteps
<1>9. after = [i \in 0..k |-> IF i = 0 THEN s ELSE write_files_item(after[i - 1], l[i])]
  BY <1>8
<1>10. write_files_handler(n, s) = after[k]
  BY <1>1, <1>3 DEF write_files_handler, ForEach
<1> HIDE DEF after
<1>11. after[0] = s /\ \A i \in 1..k : after[i] = write_files_item(after[i - 1], l[i])
  BY <1>9
<1>12. \A i \in 0..k : after[i] \in S
  BY <1>4, <1>5, <1>11, PassedOn
<1> QED
  BY <1>10, <1>12 DEF S

(* The names that a node gives. *)
LEMMA NamesAre ==
    ASSUME TreeInvariant, NEW V, TidyAt(V), NEW k \in V
    PROVE  /\ Names(k) \in Seq(STRING \cup {NULL})
           /\ Names(k) # <<>> => Names(k)[1] \in STRING \cup {NULL}
<1>1. ASSUME NEW T PROVE <<>> \in Seq(T) /\ \A x \in T : <<x>> \in Seq(T) /\ <<x>>[1] = x
  OBVIOUS
<1>2. Data(k) \in STRING \cup {NULL} /\ (~Leaf(k) => ValueOf(k) \in STRING \cup {NULL})
  BY ReadNode
<1> QED
  BY <1>1, <1>2, Zenon DEF Names

LEMMA OptionQuiet ==
    ASSUME TreeInvariant, NEW V, TidyAt(V), NEW k \in V, NEW s \in ModuleState,
           NamesOf(k) \subseteq Buffered(block + 1)
    PROVE  users_option(s, k) \in Quiet(s)
<1>1. CASE Names(k) = <<>>
  BY <1>1, QuietSame DEF users_option
<1>2. CASE Names(k) # <<>>
  <2>1. PICK name : name = Names(k)[1]
    OBVIOUS
  <2>2. name \in STRING \cup {NULL}
    BY <1>2, <2>1, NamesAre
  <2> DEFINE t == [s EXCEPT !.current = IF name = NULL THEN @ ELSE name, !.first = TRUE]
  <2>3. /\ t \in ModuleState /\ t.wait = s.wait /\ t.effects = s.effects
        /\ t.current = IF name = NULL THEN s.current ELSE name
    BY <2>2 DEF ModuleState, Strings
  <2>5. name # NULL => name \in Buffered(block + 1)
    <3>1. name \in ToSet(Names(k))
      <4>1. PICK x : x = Names(k)
        OBVIOUS
      <4>2. x \in Seq(STRING \cup {NULL}) /\ x # <<>>
        BY <1>2, <4>1, NamesAre
      <4>3. 1 \in DOMAIN x
        BY <4>2
      <4> QED
        BY <2>1, <4>1, <4>3 DEF ToSet
    <3> QED
      BY <3>1 DEF NamesOf
  <2>4. users_option(s, k) = t
    BY <1>2, <2>1 DEF users_option, users_add_username
  <2> HIDE DEF t
  <2> QED
    BY <2>3, <2>4, <2>5, QuietSame
<1> QED
  BY <1>1, <1>2

LEMMA OptionsQuiet ==
    ASSUME TreeInvariant, NEW V, TidyAt(V), NEW n \in V, NEW s \in ModuleState,
           \A i \in DOMAIN Kids(n) : NamesOf(Kids(n)[i]) \subseteq Buffered(block + 1)
    PROVE  ForEach(users_option, s, Kids(n)) \in Quiet(s)
<1>1. PICK l : l = Kids(n)
  OBVIOUS
<1>2. l \in Seq(V)
  BY <1>1, ReadNode
<1>3. PICK k \in Nat : k = Len(l) /\ \A i \in 1..k : l[i] \in V
  BY <1>2
<1> DEFINE S == Quiet(s)
           G == [i \in 1..k |-> [t \in S |-> users_option(t, l[i])]]
           after == CHOOSE f : f = [i \in 0..k |-> IF i = 0 THEN s ELSE users_option(f[i - 1], l[i])]
<1>4. s \in S
  BY QuietSame
<1>5. ASSUME NEW i \in 1..k, NEW t \in S PROVE users_option(t, l[i]) \in S
  <2>1. t \in ModuleState /\ l[i] \in V /\ NamesOf(l[i]) \subseteq Buffered(block + 1)
    BY <1>1, <1>2, <1>3 DEF Quiet
  <2>2. users_option(t, l[i]) \in Quiet(t)
    BY <2>1, OptionQuiet
  <2> QED
    BY <2>2, QuietTwice
<1> HIDE DEF S
<1>6. StepsIn(S, k, G)
  BY <1>5 DEF StepsIn
<1>7. PICK f : MadeBySteps(f, s, k, G) /\ \A i \in 0..k : f[i] \in S
  <2> HIDE DEF G
  <2> QED
    BY <1>4, <1>6, Iterated
<1>8. f = [i \in 0..k |-> IF i = 0 THEN s ELSE users_option(f[i - 1], l[i])]
  <2>1. \A i \in 1..k : i - 1 \in 0..k
    OBVIOUS
  <2>2. \A i \in 1..k : G[i][f[i - 1]] = users_option(f[i - 1], l[i])
    BY <1>7, <2>1
  <2> HIDE DEF G
  <2>3. \A i \in 0..k : i = 0 \/ i \in 1..k
    OBVIOUS
  <2> QED
    BY <1>7, <2>2, <2>3 DEF MadeBySteps
<1>9. after = [i \in 0..k |-> IF i = 0 THEN s ELSE users_option(after[i - 1], l[i])]
  BY <1>8
<1>10. ForEach(users_option, s, Kids(n)) = after[k]
  BY <1>1, <1>3 DEF ForEach
<1> HIDE DEF after
<1>11. after[0] = s /\ \A i \in 1..k : after[i] = users_option(after[i - 1], l[i])
  BY <1>9
<1>12. \A i \in 0..k : after[i] \in S
  BY <1>4, <1>5, <1>11, PassedOn
<1> QED
  BY <1>10, <1>12 DEF S

(* A definition adds a user, and what goes with it. *)
LEMMA DefinitionQuiet ==
    ASSUME TreeInvariant, block \in Nat, NEW V, TidyAt(V), NEW n \in V, NEW s \in ModuleState, NEW b,
           \A i \in DOMAIN Kids(n) : NamesOf(Kids(n)[i]) \subseteq Buffered(block + 1)
    PROVE  users_definition(s, n, b) \in Quiet(s)
<1> DEFINE Q == QuietEffects
           s0 == [s EXCEPT !.current = ""]
           named == ForEach(users_option, s0, Kids(n))
           user == named.current
           name(i) == [j \in DOMAIN Names(Kids(n)[i]) |-> Printed(Names(Kids(n)[i])[j])]
           names == FlattenSeq([i \in DOMAIN Kids(n) |-> name(i)])
           lock == cloud_config_find(n, "lock-passwd")
           inactive == cloud_config_find(n, "inactive")
           keys == cloud_config_find(n, "ssh-authorized-keys")
           sudo == cloud_config_find(n, "sudo")
           b1 == IF lock = {} THEN b ELSE cloud_config_bool(ValueOf(One(lock)), b)
           E1 == <<Effect("useradd", user, names)>>
           E2 == When(lock # {} /\ b1, Effect("lock", user, <<>>))
           E3 == When(inactive # {} /\ cloud_config_bool(ValueOf(One(inactive)), b1),
                      Effect("deactivate", user, <<>>))
           E4 == When(keys # {}, Effect("user_keys", user, Leaves[One(keys)]))
           E5 == When(sudo # {}, Effect("sudo", user, Leaves[One(sudo)]))
<1>1. /\ s0 \in ModuleState /\ s0.wait = s.wait /\ s0.effects = s.effects
      /\ s0.current \in Buffered(block + 1)
  BY DEF ModuleState, Strings, Buffered
<1>2. s0 \in Quiet(s)
  <2> HIDE DEF s0
  <2> QED
    BY <1>1, QuietSame
<1>3. named \in Quiet(s0)
  <2> HIDE DEF s0
  <2> QED
    BY <1>1, OptionsQuiet
<1>4. named \in Quiet(s)
  <2> HIDE DEF s0, named
  <2> QED
    BY <1>2, <1>3, QuietTwice
<1>5. named \in ModuleState /\ user \in Strings
  <2> HIDE DEF named
  <2> QED
    BY <1>4 DEF Quiet, ModuleState
<1> HIDE DEF named
<1>6. {"useradd", "lock", "deactivate", "user_keys", "sudo"} \subseteq QuietKinds
  BY DEF QuietKinds, Kinds
<1>7. names \in Seq(Strings)
  <2>1. PICK l : l = Kids(n)
    OBVIOUS
  <2>2. l \in Seq(V)
    BY <2>1, ReadNode
  <2>3. Len(l) \in Nat /\ DOMAIN l = 1..Len(l) /\ \A i \in DOMAIN l : l[i] \in V
    BY <2>2
  <2>4. ASSUME NEW i \in DOMAIN l PROVE name(i) \in Seq(Strings)
    <3>1. PICK x : x = Names(l[i])
      OBVIOUS
    <3>2. x \in Seq(STRING \cup {NULL})
      BY <2>3, <3>1, NamesAre
    <3>3. Len(x) \in Nat /\ DOMAIN x = 1..Len(x) /\ \A j \in DOMAIN x : x[j] \in STRING \cup {NULL}
      BY <3>2
    <3>4. \A j \in DOMAIN x : Printed(x[j]) \in Strings
      BY <3>3 DEF Printed, Strings
    <3>5. [j \in DOMAIN x |-> Printed(x[j])] \in Seq(Strings)
      BY <3>3, <3>4
    <3> QED
      BY <2>1, <3>1, <3>5
  <2> DEFINE P == [i \in DOMAIN l |-> name(i)]
  <2>5. P \in Seq(Seq(Strings))
    <3> HIDE DEF name
    <3> QED
      BY <2>3, <2>4
  <2>6. names = FlattenSeq(P)
    BY <2>1
  <2> HIDE DEF P, names
  <2>7. FlattenSeq(P) \in Seq(Strings)
    BY <2>5, FlattenType
  <2> QED
    BY <2>6, <2>7
<1> HIDE DEF user, names
<1>8. E1 \in Seq(Q)
  <2>1. Effect("useradd", user, names) \in Q
    BY <1>5, <1>6, <1>7, QuietEffect
  <2> HIDE DEF Q
  <2> QED
    BY <2>1
<1>9. E2 \in Seq(Q) /\ E3 \in Seq(Q)
  <2>1. Effect("lock", user, <<>>) \in Q /\ Effect("deactivate", user, <<>>) \in Q
    BY <1>5, <1>6, SmallTexts, QuietEffect
  <2> QED
    BY <2>1, WhenQuiet
<1>10. E4 \in Seq(Q)
  <2>1. ASSUME keys # {} PROVE Effect("user_keys", user, Leaves[One(keys)]) \in Q
    <3>1. PICK x : x = Leaves[One(keys)]
      OBVIOUS
    <3>2. x \in Seq(Strings)
      BY <2>1, <3>1, FoundNode
    <3>3. Effect("user_keys", user, x) \in Q
      BY <1>5, <1>6, <3>2, QuietEffect
    <3> QED
      BY <3>1, <3>3
  <2> QED
    BY <2>1, WhenQuiet
<1>11. E5 \in Seq(Q)
  <2>1. ASSUME sudo # {} PROVE Effect("sudo", user, Leaves[One(sudo)]) \in Q
    <3>1. PICK x : x = Leaves[One(sudo)]
      OBVIOUS
    <3>2. x \in Seq(Strings)
      BY <2>1, <3>1, FoundNode
    <3>3. Effect("sudo", user, x) \in Q
      BY <1>5, <1>6, <3>2, QuietEffect
    <3> QED
      BY <3>1, <3>3
  <2> QED
    BY <2>1, WhenQuiet
<1>12. users_definition(s, n, b) = IF user = "" THEN named ELSE Do(named, E1 \o E2 \o E3 \o E4 \o E5)
  BY DEF users_definition, named, user, names
<1> HIDE DEF E1, E2, E3, E4, E5, Q
<1>13. E1 \o E2 \o E3 \o E4 \o E5 \in Seq(Q)
  <2>1. E1 \o E2 \in Seq(Q)
    BY <1>8, <1>9
  <2>2. E1 \o E2 \o E3 \in Seq(Q)
    BY <1>9, <2>1
  <2>3. E1 \o E2 \o E3 \o E4 \in Seq(Q)
    BY <1>10, <2>2
  <2> QED
    BY <1>11, <2>3
<1>14. Do(named, E1 \o E2 \o E3 \o E4 \o E5) \in Quiet(named)
  BY <1>5, <1>13, QuietDo DEF Q
<1> QED
  BY <1>4, <1>12, <1>14, QuietTwice

LEMMA UserQuiet ==
    ASSUME TreeInvariant, block \in Nat, NEW V, TidyAt(V), NEW n \in V, NEW i \in DOMAIN Kids(n),
           NEW s \in ModuleState, NEW b, Named(n) \subseteq Buffered(block + 1)
    PROVE  users_item(s, Kids(n)[i], b) \in Quiet(s)
<1>1. PICK k, l : k = l[i] /\ l = Kids(n)
  OBVIOUS
<1>2. k \in V /\ k \in ToSet(l)
  <2>1. l \in Seq(V)
    BY <1>1, ReadNode
  <2> QED
    BY <1>1, <2>1 DEF ToSet
<1>3. CASE Data(k) = NULL
  <2>1. ASSUME NEW j \in DOMAIN Kids(k) PROVE NamesOf(Kids(k)[j]) \subseteq Buffered(block + 1)
    <3>1. Kids(k)[j] \in ToSet(Kids(k))
      BY DEF ToSet
    <3>2. Kids(k)[j] \in Givers(n)
      BY <1>1, <1>2, <1>3, <3>1 DEF Givers
    <3> QED
      BY <3>2 DEF Named
  <2>2. users_definition(s, k, b) \in Quiet(s)
    BY <1>2, <2>1, DefinitionQuiet
  <2> QED
    BY <1>1, <1>3, <2>2 DEF users_item
<1>4. CASE Data(k) # NULL
  <2>1. k \in Givers(n)
    BY <1>1, <1>2, <1>4 DEF Givers
  <2>2. NamesOf(k) \subseteq Buffered(block + 1)
    BY <2>1 DEF Named
  <2>3. users_option(s, k) \in Quiet(s)
    BY <1>2, <2>2, OptionQuiet
  <2> QED
    BY <1>1, <1>4, <2>3 DEF users_item
<1> QED
  BY <1>3, <1>4

LEMMA UsersQuiet ==
    ASSUME TreeInvariant, block \in Nat, NEW V, TidyAt(V), NEW n \in V, NEW s \in ModuleState,
           NEW true_at, n = Blocks[block + 1], Data(n) = "users"
    PROVE  users_handler(n, s, true_at) \in Quiet(s)
<1>1. PICK l : l = Kids(n)
  OBVIOUS
<1>2. l \in Seq(V)
  BY <1>1, ReadNode
<1>3. PICK k \in Nat : k = Len(l) /\ \A i \in 1..k : l[i] \in V
  BY <1>2
<1> DEFINE S == Quiet(s)
           Item(t, i) == users_item(t, l[i], l[i] \in true_at)
           G == [i \in 1..k |-> [t \in S |-> Item(t, i)]]
           after == CHOOSE f : f = [i \in 0..k |-> IF i = 0 THEN s ELSE Item(f[i - 1], i)]
<1>4. s \in S
  BY QuietSame
<1> DEFINE M == Buffered(block + 1)
<1>13. Named(n) \subseteq M
  <2>1. block + 1 \in {j \in 1..(block + 1) : Data(Blocks[j]) = "users"}
    OBVIOUS
  <2> QED
    BY <2>1 DEF Buffered, UsersNamed
<1>5. ASSUME NEW i \in 1..k, NEW t \in S PROVE Item(t, i) \in S
  <2>1. t \in ModuleState /\ i \in DOMAIN Kids(n)
    BY <1>1, <1>2, <1>3 DEF Quiet
  <2>2. Item(t, i) \in Quiet(t)
    BY <1>1, <1>13, <2>1, UserQuiet
  <2> QED
    BY <2>2, QuietTwice
<1> HIDE DEF S, Item
<1>6. StepsIn(S, k, G)
  BY <1>5 DEF StepsIn
<1>7. PICK f : MadeBySteps(f, s, k, G) /\ \A i \in 0..k : f[i] \in S
  <2> HIDE DEF G
  <2> QED
    BY <1>4, <1>6, Iterated
<1>8. f = [i \in 0..k |-> IF i = 0 THEN s ELSE Item(f[i - 1], i)]
  <2>1. \A i \in 1..k : i - 1 \in 0..k
    OBVIOUS
  <2>2. \A i \in 1..k : G[i][f[i - 1]] = Item(f[i - 1], i)
    BY <1>7, <2>1
  <2> HIDE DEF G
  <2>3. \A i \in 0..k : i = 0 \/ i \in 1..k
    OBVIOUS
  <2> QED
    BY <1>7, <2>2, <2>3 DEF MadeBySteps
<1>9. after = [i \in 0..k |-> IF i = 0 THEN s ELSE Item(after[i - 1], i)]
  BY <1>8
<1>10. users_handler(n, s, true_at) = after[k]
  BY <1>1, <1>3 DEF users_handler, ForEach, Item
<1> HIDE DEF after
<1>11. after[0] = s /\ \A i \in 1..k : after[i] = Item(after[i - 1], i)
  BY <1>9
<1>12. \A i \in 0..k : after[i] \in S
  BY <1>4, <1>5, <1>11, PassedOn
<1> QED
  BY <1>10, <1>12 DEF S

(* A line of words and the commands before it. *)
RunState == [line : Seq(Strings), run : Seq(QuietEffects)]

LEMMA RunItem ==
    ASSUME TreeInvariant, block \in Nat, NEW V, TidyAt(V), NEW n \in V, NEW a \in RunState
    PROVE  runcmd_item(a, n) \in RunState
<1>1. PICK line, run : line = a.line /\ run = a.run
  OBVIOUS
<1>2. line \in Seq(Strings) /\ run \in Seq(QuietEffects)
  BY <1>1 DEF RunState
<1>3. CASE Data(n) # NULL
  <2>1. Data(n) \in Strings
    <3>1. Data(n) \in STRING
      BY <1>3, ReadNode
    <3> QED
      BY <3>1 DEF Strings
  <2>2. Append(line, Data(n)) \in Seq(Strings)
    BY <1>2, <2>1
  <2>3. runcmd_item(a, n) = [a EXCEPT !.line = Append(line, Data(n))]
    BY <1>1, <1>3 DEF runcmd_item, RunState
  <2> HIDE DEF EffectsIn
  <2> QED
    BY <2>2, <2>3 DEF RunState
<1>4. CASE Data(n) = NULL
  <2>1. PICK l : l = Kids(n)
    OBVIOUS
  <2>2. l \in Seq(V) /\ \A i \in DOMAIN l : Data(l[i]) \in STRING
    BY <1>4, <2>1, ReadNode
  <2>3. Len(l) \in Nat /\ DOMAIN l = 1..Len(l)
    BY <2>2
  <2>4. \A i \in DOMAIN l : Data(l[i]) \in Strings
    BY <2>2, Zenon DEF Strings
  <2> DEFINE own == [i \in DOMAIN l |-> Data(l[i])]
  <2>5. own \in Seq(Strings)
    BY <2>3, <2>4
  <2>6. PICK words : words = line \o own
    OBVIOUS
  <2>7. words \in Seq(Strings)
    <3> HIDE DEF own
    <3> QED
      BY <1>2, <2>5, <2>6, ConcatAt
  <2>8. Effect("run", "", words) \in QuietEffects
    <3>1. "run" \in QuietKinds /\ "" \in Strings
      BY DEF QuietKinds, Kinds, Strings
    <3> QED
      BY <2>7, <3>1, QuietEffect
  <2>9. PICK more : more = Append(run, Effect("run", "", words))
    OBVIOUS
  <2>10. more \in Seq(QuietEffects)
    BY <1>2, <2>8, <2>9, AppendProperties, Zenon
  <2>11. runcmd_item(a, n) = [line |-> <<>>, run |-> more]
    BY <1>1, <1>4, <2>1, <2>6, <2>9 DEF runcmd_item
  <2> HIDE DEF EffectsIn
  <2> QED
    BY <2>10, <2>11, SmallTexts DEF RunState
<1> QED
  BY <1>3, <1>4

LEMMA RunQuiet ==
    ASSUME TreeInvariant, block \in Nat, NEW V, TidyAt(V), NEW n \in V, NEW s \in ModuleState
    PROVE  runcmd_handler(n, s) \in Quiet(s)
<1>1. PICK l : l = Kids(n)
  OBVIOUS
<1>2. l \in Seq(V)
  BY <1>1, ReadNode
<1>3. PICK k \in Nat : k = Len(l) /\ \A i \in 1..k : l[i] \in V
  BY <1>2
<1> DEFINE a == [line |-> <<>>, run |-> <<>>]
           S == RunState
           G == [i \in 1..k |-> [t \in S |-> runcmd_item(t, l[i])]]
           after == CHOOSE f : f = [i \in 0..k |-> IF i = 0 THEN a ELSE runcmd_item(f[i - 1], l[i])]
<1>4. a \in S
  <2>1. <<>> \in Seq(QuietEffects)
    OBVIOUS
  <2> HIDE DEF EffectsIn
  <2> QED
    BY <2>1, SmallTexts DEF RunState
<1>5. ASSUME NEW i \in 1..k, NEW t \in S PROVE runcmd_item(t, l[i]) \in S
  BY <1>3, RunItem
<1> HIDE DEF S, a
<1>6. StepsIn(S, k, G)
  BY <1>5 DEF StepsIn
<1>7. PICK f : MadeBySteps(f, a, k, G) /\ \A i \in 0..k : f[i] \in S
  <2> HIDE DEF G
  <2> QED
    BY <1>4, <1>6, Iterated
<1>8. f = [i \in 0..k |-> IF i = 0 THEN a ELSE runcmd_item(f[i - 1], l[i])]
  <2>1. \A i \in 1..k : i - 1 \in 0..k
    OBVIOUS
  <2>2. \A i \in 1..k : G[i][f[i - 1]] = runcmd_item(f[i - 1], l[i])
    BY <1>7, <2>1
  <2> HIDE DEF G
  <2>3. \A i \in 0..k : i = 0 \/ i \in 1..k
    OBVIOUS
  <2> QED
    BY <1>7, <2>2, <2>3 DEF MadeBySteps
<1>9. after = [i \in 0..k |-> IF i = 0 THEN a ELSE runcmd_item(after[i - 1], l[i])]
  BY <1>8
<1>10. runcmd_handler(n, s) = Do(s, after[k].run)
  BY <1>1, <1>3 DEF runcmd_handler, ForEach, a
<1> HIDE DEF after
<1>11. after[0] = a /\ \A i \in 1..k : after[i] = runcmd_item(after[i - 1], l[i])
  BY <1>9
<1>12. \A i \in 0..k : after[i] \in S
  BY <1>4, <1>5, <1>11, PassedOn
<1>13. after[k].run \in Seq(QuietEffects)
  <2>1. after[k] \in S
    BY <1>12
  <2> QED
    BY <2>1 DEF S, RunState
<1> QED
  BY <1>10, <1>13, QuietDo

-----------------------------------------------------------------------------
(* Handlers that wait for the network.                                     *)

WaitEffect == Effect("wait", "", <<>>)

LEMMA WaitEffectIs ==
    ASSUME block \in Nat
    PROVE  WaitEffect \in EffectsIn({"wait"}) /\ <<WaitEffect>> \in Seq(EffectType)
<1>1. WaitEffect \in EffectsIn({"wait"})
  <2>1. {"wait"} \in SUBSET Kinds /\ "" \in Strings
    BY DEF Kinds, Strings
  <2> QED
    BY <2>1, SmallTexts, EffectIs DEF WaitEffect
<1>2. PICK w \in EffectType : w = WaitEffect
  BY <1>1 DEF EffectsIn
<1>3. <<w>> \in Seq(EffectType)
  OBVIOUS
<1> QED
  BY <1>1, <1>2, <1>3

(* s has waited and become t. *)
HasWaited(s, t) ==
    t \in ModuleState /\ t.wait = 2 /\ t.current = s.current /\ t.effects = s.effects \o <<WaitEffect>>

LEMMA WaitIs ==
    ASSUME block \in Nat, NEW s \in ModuleState
    PROVE  /\ s.wait \in {-1, 1} => HasWaited(s, wait_for_network(s))
           /\ s.wait \notin {-1, 1} => wait_for_network(s) = s
<1> DEFINE r == [s EXCEPT !.wait = 2]
<1>1. r \in ModuleState /\ r.wait = 2 /\ r.current = s.current /\ r.effects = s.effects
  BY DEF ModuleState
<1>2. wait_for_network(s) = IF s.wait \in {-1, 1} THEN Do(r, <<WaitEffect>>) ELSE s
  BY DEF wait_for_network, WaitEffect
<1> HIDE DEF r
<1>3. HasWaited(s, Do(r, <<WaitEffect>>))
  BY <1>1, WaitEffectIs, DoIs DEF HasWaited
<1> QED
  BY <1>2, <1>3

(* What handlers make of s that install or upgrade packages: they wait before
   the first. *)
Installed(s) ==
    {t \in ModuleState : /\ t.wait = s.wait /\ t.current = s.current
                         /\ \E E \in Seq(EffectsIn(LoudKinds)) : t.effects = s.effects \o E}
Loud(s) == {s} \cup Installed(wait_for_network(s))

LEMMA LoudEffect ==
    ASSUME block \in Nat, NEW s \in ModuleState, s.wait \notin {-1, 1}, NEW t \in Installed(s),
           NEW do \in LoudKinds, NEW subject \in Strings
    PROVE  Do(t, <<Effect(do, subject, <<>>)>>) \in Installed(s)
<1>1. Effect(do, subject, <<>>) \in EffectsIn(LoudKinds)
  <2>1. LoudKinds \in SUBSET Kinds
    BY DEF LoudKinds, Kinds
  <2> QED
    BY <2>1, SmallTexts, EffectIs
<1>2. PICK e \in EffectsIn(LoudKinds) : e = Effect(do, subject, <<>>)
  BY <1>1
<1>3. t \in ModuleState /\ t.wait = s.wait /\ t.current = s.current
  BY DEF Installed
<1>4. PICK E \in Seq(EffectsIn(LoudKinds)) : t.effects = s.effects \o E
  BY DEF Installed
<1>5. <<e>> \in Seq(EffectsIn(LoudKinds)) /\ E \o <<e>> \in Seq(EffectsIn(LoudKinds))
  <2> HIDE DEF EffectsIn
  <2> QED
    OBVIOUS
<1>6. \A F \in Seq(EffectsIn(LoudKinds)) : F \in Seq(EffectType)
  BY DEF EffectsIn
<1>7. (s.effects \o E) \o <<e>> = s.effects \o (E \o <<e>>)
  <2>1. PICK T, x, y : T = EffectType /\ x = s.effects /\ y = <<e>>
    OBVIOUS
  <2>2. x \in Seq(T) /\ E \in Seq(T) /\ y \in Seq(T)
    BY <1>5, <1>6, <2>1 DEF ModuleState
  <2>3. (x \o E) \o y = x \o (E \o y)
    BY <2>2, ConcatAssociative
  <2> QED
    BY <2>1, <2>3
<1>8. /\ Do(t, <<e>>) \in ModuleState /\ Do(t, <<e>>).effects = t.effects \o <<e>>
      /\ Do(t, <<e>>).wait = t.wait /\ Do(t, <<e>>).current = t.current
  BY <1>3, <1>5, <1>6, DoIs
<1> QED
  BY <1>2, <1>3, <1>4, <1>5, <1>7, <1>8 DEF Installed

(* After the wait, nothing has been installed yet. *)
LEMMA WaitedFirst ==
    ASSUME block \in Nat, NEW s \in ModuleState
    PROVE  /\ wait_for_network(s) \in ModuleState /\ wait_for_network(s).wait \notin {-1, 1}
           /\ wait_for_network(s) \in Installed(wait_for_network(s))
<1>1. PICK u : u = wait_for_network(s)
  OBVIOUS
<1>2. u \in ModuleState /\ u.wait \notin {-1, 1}
  BY <1>1, WaitIs DEF HasWaited
<1>3. u.effects = u.effects \o <<>> /\ <<>> \in Seq(EffectsIn(LoudKinds))
  <2>1. u.effects \in Seq(EffectType)
    BY <1>2 DEF ModuleState
  <2> QED
    BY <2>1, ConcatEmptySeq
<1>4. u \in Installed(u)
  BY <1>2, <1>3 DEF Installed
<1> QED
  BY <1>1, <1>2, <1>4

LEMMA UpgradeLoud ==
    ASSUME block \in Nat, NEW s \in ModuleState, NEW n
    PROVE  package_upgrade_handler(n, s) \in Loud(s)
<1>1. PICK u : u = wait_for_network(s)
  OBVIOUS
<1>2. u \in ModuleState /\ u.wait \notin {-1, 1} /\ u \in Installed(u)
  BY <1>1, WaitedFirst
<1>3. "upgrade" \in LoudKinds /\ "" \in Strings
  BY DEF LoudKinds, Strings
<1>4. Do(u, <<Effect("upgrade", "", <<>>)>>) \in Installed(u)
  BY <1>2, <1>3, LoudEffect
<1> QED
  BY <1>1, <1>4 DEF package_upgrade_handler, Loud

LEMMA PackageLoud ==
    ASSUME block \in Nat, NEW s \in ModuleState, NEW t \in Loud(s), NEW name \in Strings
    PROVE  packages_item(t, name) \in Loud(s)
<1>1. PICK u : u = wait_for_network(s)
  OBVIOUS
<1>2. u \in ModuleState /\ u.wait \notin {-1, 1} /\ u \in Installed(u)
  BY <1>1, WaitedFirst
<1>3. wait_for_network(t) \in Installed(u)
  <2>1. CASE t = s
    BY <1>1, <1>2, <2>1
  <2>2. CASE t # s
    <3>1. t \in Installed(u)
      BY <1>1, <2>2 DEF Loud
    <3>2. t \in ModuleState /\ t.wait \notin {-1, 1}
      BY <1>2, <3>1 DEF Installed
    <3> QED
      BY <3>1, <3>2, WaitIs
  <2> QED
    BY <2>1, <2>2
<1>4. "install" \in LoudKinds
  BY DEF LoudKinds
<1>5. Do(wait_for_network(t), <<Effect("install", name, <<>>)>>) \in Installed(u)
  BY <1>2, <1>3, <1>4, LoudEffect
<1> QED
  BY <1>1, <1>5 DEF packages_item, Loud

LEMMA PackagesLoud ==
    ASSUME TreeInvariant, block \in Nat, NEW V, TidyAt(V), NEW n \in V, NEW s \in ModuleState
    PROVE  packages_handler(n, s) \in Loud(s)
<1>1. PICK l : l = Leaves[n]
  OBVIOUS
<1>2. l \in Seq(Strings)
  BY <1>1, ReadNode
<1>3. PICK k \in Nat : k = Len(l) /\ \A i \in 1..k : l[i] \in Strings
  BY <1>2
<1> DEFINE S == Loud(s)
           G == [i \in 1..k |-> [t \in S |-> packages_item(t, l[i])]]
           after == CHOOSE f : f = [i \in 0..k |-> IF i = 0 THEN s ELSE packages_item(f[i - 1], l[i])]
<1>4. s \in S
  BY DEF Loud
<1>5. ASSUME NEW i \in 1..k, NEW t \in S PROVE packages_item(t, l[i]) \in S
  BY <1>3, PackageLoud
<1> HIDE DEF S
<1>6. StepsIn(S, k, G)
  BY <1>5 DEF StepsIn
<1>7. PICK f : MadeBySteps(f, s, k, G) /\ \A i \in 0..k : f[i] \in S
  <2> HIDE DEF G
  <2> QED
    BY <1>4, <1>6, Iterated
<1>8. f = [i \in 0..k |-> IF i = 0 THEN s ELSE packages_item(f[i - 1], l[i])]
  <2>1. \A i \in 1..k : i - 1 \in 0..k
    OBVIOUS
  <2>2. \A i \in 1..k : G[i][f[i - 1]] = packages_item(f[i - 1], l[i])
    BY <1>7, <2>1
  <2> HIDE DEF G
  <2>3. \A i \in 0..k : i = 0 \/ i \in 1..k
    OBVIOUS
  <2> QED
    BY <1>7, <2>2, <2>3 DEF MadeBySteps
<1>9. after = [i \in 0..k |-> IF i = 0 THEN s ELSE packages_item(after[i - 1], l[i])]
  BY <1>8
<1>10. packages_handler(n, s) = after[k]
  BY <1>1, <1>3 DEF packages_handler, ForEach
<1> HIDE DEF after
<1>11. after[0] = s /\ \A i \in 1..k : after[i] = packages_item(after[i - 1], l[i])
  BY <1>9
<1>12. \A i \in 0..k : after[i] \in S
  BY <1>4, <1>5, <1>11, PassedOn
<1> QED
  BY <1>10, <1>12 DEF S

(* Only one handler has the state told what to do about the wait. *)
LEMMA HandlerIs ==
    ASSUME TreeInvariant, block \in Nat, NEW V, TidyAt(V), NEW n \in V, NEW s \in ModuleState,
           NEW true_at, NEW first_boot, n = Blocks[block + 1], s.current \in Buffered(block)
    PROVE  \/ Data(n) = "wait_for_network"
              /\ handler(n, s, true_at, first_boot) = wait_for_network_handler(n, s)
           \/ Data(n) # "wait_for_network" /\ handler(n, s, true_at, first_boot) \in Quiet(s) \cup Loud(s)
<1>1. CASE Data(n) = "wait_for_network"
  BY <1>1 DEF handler
<1>2. CASE Data(n) # "wait_for_network"
  <2>1. /\ package_upgrade_handler(n, s) \in Loud(s) /\ packages_handler(n, s) \in Loud(s)
        /\ (Data(n) = "users" => users_handler(n, s, true_at) \in Quiet(s)) /\ ssh_authorized_keys_handler(n, s) \in Quiet(s)
        /\ runcmd_handler(n, s) \in Quiet(s) /\ service_handler(n, s) \in Quiet(s)
        /\ write_files_handler(n, s) \in Quiet(s) /\ groups_handler(n, s) \in Quiet(s)
        /\ envar_handler(n, s) \in Quiet(s) /\ hostname_handler(n, s) \in Quiet(s)
        /\ s \in Quiet(s)
    BY UpgradeLoud, PackagesLoud, UsersQuiet, KeysQuiet, RunQuiet, ServiceQuiet, FilesQuiet, GroupsQuiet,
       EnvarQuiet, HostnameQuiet, QuietSame
  <2>2. PICK r : r = handler(n, s, true_at, first_boot)
    OBVIOUS
  <2>3. \/ r \in {package_upgrade_handler(n, s), packages_handler(n, s)}
        \/ Data(n) = "users" /\ r = users_handler(n, s, true_at)
        \/ r \in {ssh_authorized_keys_handler(n, s), runcmd_handler(n, s), service_handler(n, s)}
        \/ r \in {write_files_handler(n, s), groups_handler(n, s), envar_handler(n, s)}
        \/ r \in {hostname_handler(n, s), s}
    BY <1>2, <2>2 DEF handler
  <2> QED
    BY <1>2, <2>1, <2>2, <2>3
<1> QED
  BY <1>1, <1>2

-----------------------------------------------------------------------------
(* The invariant of the wait.                                              *)

HasWait(x) == \E i \in DOMAIN x : x[i].do = "wait"

(* What WaitsAsTold says of the i-th effect of x. *)
Fits(x, i) ==
    /\ x[i].do \in {"install", "upgrade"} =>
          (\E j \in 1..(i - 1) : x[j].do = "wait") \/ Off(x[i].block)
    /\ x[i].do = "wait" =>
          /\ ~Off(x[i].block)
          /\ \A j \in 1..(i - 1) : x[j].do = "wait" => x[j].block < x[i].block /\ Told(x[i].block)

(* The effects are those of the first c blocks, and do_network_wait tells what
   the last of them that says anything about the wait says, or that there has
   been a wait, or neither. *)
WaitOf(s, c) ==
    /\ s \in ModuleState /\ s.wait \in {-1, 0, 2}
    /\ \A i \in DOMAIN s.effects : s.effects[i].block \in 1..c
    /\ (s.wait = 0) = Off(c)
    /\ s.wait = 2 => HasWait(s.effects)
    /\ s.wait = -1 => ~HasWait(s.effects)
    /\ \A i \in DOMAIN s.effects : Fits(s.effects, i)

(* What the next block says. *)
LEMMA OffNext ==
    ASSUME NEW c \in Nat
    PROVE  /\ Told(c + 1) => Off(c + 1) = ~True(ValueOf(Blocks[c + 1]))
           /\ ~Told(c + 1) => Off(c + 1) = Off(c)
<1>1. /\ 1..(c + 1) = (1..c) \cup {c + 1} /\ (c + 1 + 1)..(c + 1) = {}
      /\ \A j \in 1..c : (j + 1)..(c + 1) = ((j + 1)..c) \cup {c + 1}
  OBVIOUS
<1>2. ASSUME Told(c + 1) PROVE Off(c + 1) = ~True(ValueOf(Blocks[c + 1]))
  <2>1. \A j \in 1..c : c + 1 \in (j + 1)..(c + 1)
    OBVIOUS
  <2>2. ASSUME Off(c + 1) PROVE ~True(ValueOf(Blocks[c + 1]))
    <3>1. PICK j \in 1..(c + 1) :
              Told(j) /\ ~True(ValueOf(Blocks[j])) /\ \A k \in (j + 1)..(c + 1) : ~Told(k)
      BY <2>2, Zenon DEF Off
    <3>2. j \notin 1..c
      BY <1>2, <2>1, <3>1, Zenon
    <3>3. j = c + 1
      BY <1>1, <3>2
    <3> QED
      BY <3>1, <3>3
  <2>3. ASSUME ~True(ValueOf(Blocks[c + 1])) PROVE Off(c + 1)
    <3>1. c + 1 \in 1..(c + 1)
      OBVIOUS
    <3>2. \A k \in (c + 1 + 1)..(c + 1) : ~Told(k)
      BY <1>1
    <3> QED
      BY <1>2, <2>3, <3>1, <3>2, Zenon DEF Off
  <2>4. Off(c + 1) \in BOOLEAN
    BY DEF Off
  <2> QED
    BY <2>2, <2>3, <2>4
<1>3. ASSUME ~Told(c + 1) PROVE Off(c + 1) = Off(c)
  <2>1. ASSUME Off(c + 1) PROVE Off(c)
    <3>1. PICK j \in 1..(c + 1) :
              Told(j) /\ ~True(ValueOf(Blocks[j])) /\ \A k \in (j + 1)..(c + 1) : ~Told(k)
      BY <2>1, Zenon DEF Off
    <3>2. j \in 1..c
      <4>1. j # c + 1
        BY <1>3, <3>1
      <4> QED
        BY <1>1, <4>1
    <3>3. \A k \in (j + 1)..c : ~Told(k)
      BY <1>1, <3>1, <3>2, Zenon
    <3> QED
      BY <3>1, <3>2, <3>3, Zenon DEF Off
  <2>2. ASSUME Off(c) PROVE Off(c + 1)
    <3>1. PICK j \in 1..c : Told(j) /\ ~True(ValueOf(Blocks[j])) /\ \A k \in (j + 1)..c : ~Told(k)
      BY <2>2, Zenon DEF Off
    <3>2. j \in 1..(c + 1)
      BY <1>1
    <3>3. \A k \in (j + 1)..(c + 1) : ~Told(k)
      <4>1. \A k \in (j + 1)..(c + 1) : k \in (j + 1)..c \/ k = c + 1
        BY <1>1
      <4> QED
        BY <1>3, <3>1, <4>1
    <3> QED
      BY <3>1, <3>2, <3>3, Zenon DEF Off
  <2>3. Off(c + 1) \in BOOLEAN /\ Off(c) \in BOOLEAN
    BY DEF Off
  <2> QED
    BY <2>1, <2>2, <2>3
<1> QED
  BY <1>2, <1>3

(* z is x with the effects of y behind, and what has been said of those of x
   is true of them still. *)
Longer(x, y, z) ==
    /\ DOMAIN x = 1..Len(x) /\ DOMAIN y = 1..Len(y) /\ Len(x) \in Nat
    /\ \A i \in DOMAIN x : i \in DOMAIN z /\ z[i] = x[i] /\ Fits(z, i)
    /\ \A i \in DOMAIN z : i \in DOMAIN x \/ \E j \in DOMAIN y : i = Len(x) + j /\ z[i] = y[j]
    /\ \A j \in DOMAIN y : Len(x) + j \in DOMAIN z /\ z[Len(x) + j] = y[j]

LEMMA FitsMore ==
    ASSUME NEW x \in Seq(EffectType), NEW y \in Seq(EffectType), NEW z, z = x \o y,
           \A i \in DOMAIN x : Fits(x, i)
    PROVE  Longer(x, y, z)
<1>1. /\ DOMAIN x = 1..Len(x) /\ DOMAIN y = 1..Len(y) /\ Len(x) \in Nat /\ Len(y) \in Nat
  <2>1. ASSUME NEW T, NEW r \in Seq(T) PROVE DOMAIN r = 1..Len(r) /\ Len(r) \in Nat
    OBVIOUS
  <2> QED
    BY <2>1, Zenon
<1>2. /\ DOMAIN z = 1..(Len(x) + Len(y))
      /\ \A j \in 1..(Len(x) + Len(y)) : z[j] = IF j <= Len(x) THEN x[j] ELSE y[j - Len(x)]
  <2>1. PICK T : T = EffectType
    OBVIOUS
  <2>2. x \in Seq(T) /\ y \in Seq(T)
    BY <2>1
  <2>3. z \in Seq(T) /\ Len(z) = Len(x) + Len(y)
    BY <2>2, ConcatAt
  <2>4. DOMAIN z = 1..Len(z)
    BY <2>3
  <2> QED
    BY <2>2, <2>3, <2>4, ConcatAt
<1>3. \A i \in DOMAIN x : i \in DOMAIN z /\ z[i] = x[i]
  BY <1>1, <1>2
<1>4. ASSUME NEW i \in DOMAIN x PROVE Fits(z, i)
  <2>1. z[i] = x[i] /\ Fits(x, i)
    BY <1>3
  <2>2. \A j \in 1..(i - 1) : z[j] = x[j]
    BY <1>1, <1>3
  <2> QED
    BY <2>1, <2>2 DEF Fits
<1>5. ASSUME NEW i \in DOMAIN z PROVE i \in DOMAIN x \/ \E j \in DOMAIN y : i = Len(x) + j /\ z[i] = y[j]
  <2>1. CASE i <= Len(x)
    BY <1>1, <1>2, <2>1
  <2>2. CASE ~(i <= Len(x))
    <3>1. i - Len(x) \in DOMAIN y /\ i = Len(x) + (i - Len(x))
      BY <1>1, <1>2, <2>2
    <3>2. z[i] = y[i - Len(x)]
      BY <1>2, <2>2
    <3> QED
      BY <3>1, <3>2
  <2> QED
    BY <2>1, <2>2
<1>6. ASSUME NEW j \in DOMAIN y PROVE Len(x) + j \in DOMAIN z /\ z[Len(x) + j] = y[j]
  <2>1. Len(x) + j \in 1..(Len(x) + Len(y)) /\ ~(Len(x) + j <= Len(x)) /\ (Len(x) + j) - Len(x) = j
    BY <1>1
  <2> QED
    BY <1>2, <2>1
<1> QED
  BY <1>1, <1>3, <1>4, <1>5, <1>6 DEF Longer

(* A block that says nothing of the wait. *)
LEMMA NextBlock ==
    ASSUME NEW s, NEW c \in Nat, WaitOf(s, c), ~Told(c + 1)
    PROVE  WaitOf(s, c + 1)
<1>1. \A m \in 1..c : m \in 1..(c + 1)
  OBVIOUS
<1>2. Off(c + 1) = Off(c)
  BY OffNext
<1> QED
  BY <1>1, <1>2, Zenon DEF WaitOf

LEMMA QuietKeeps ==
    ASSUME block \in Nat, NEW s, WaitOf(s, block + 1), NEW t \in Quiet(s)
    PROVE  WaitOf(t, block + 1)
<1> DEFINE c == block + 1
<1>1. PICK E \in Seq(QuietEffects) : t.effects = s.effects \o E
  BY DEF Quiet
<1>2. t \in ModuleState /\ t.wait = s.wait /\ s.wait \in {-1, 0, 2} /\ s.effects \in Seq(EffectType)
  BY DEF Quiet, WaitOf, ModuleState
<1>3. E \in Seq(EffectType) /\ \A j \in DOMAIN E : E[j] \in EffectsIn(QuietKinds)
  BY DEF QuietEffects, EffectsIn
<1>4. PICK x, z : x = s.effects /\ z = t.effects
  OBVIOUS
<1>5. /\ \A i \in DOMAIN x : i \in DOMAIN z /\ z[i] = x[i] /\ Fits(z, i)
      /\ \A i \in DOMAIN z : i \in DOMAIN x \/ \E j \in DOMAIN E : i = Len(x) + j /\ z[i] = E[j]
  <2>1. \A i \in DOMAIN x : Fits(x, i)
    BY <1>4 DEF WaitOf
  <2>2. x \in Seq(EffectType) /\ z = x \o E
    BY <1>1, <1>2, <1>4
  <2>3. Longer(x, E, z)
    BY <1>3, <2>1, <2>2, FitsMore
  <2> QED
    BY <2>3, Zenon DEF Longer
<1>6. \A i \in DOMAIN x : x[i].block \in 1..c
  BY <1>4 DEF WaitOf
<1>7. ASSUME NEW i \in DOMAIN z, i \notin DOMAIN x
      PROVE  z[i].block = c /\ z[i].do \notin {"wait", "install", "upgrade"}
  <2>1. z[i] \in EffectsIn(QuietKinds)
    BY <1>3, <1>5, <1>7
  <2> QED
    BY <2>1 DEF EffectsIn, QuietKinds
<1>8. ASSUME NEW i \in DOMAIN z PROVE z[i].block \in 1..c /\ Fits(z, i)
  <2>1. c \in 1..c
    OBVIOUS
  <2>2. CASE i \in DOMAIN x
    BY <1>5, <1>6, <2>2
  <2>3. CASE i \notin DOMAIN x
    BY <1>7, <2>1, <2>3 DEF Fits
  <2> QED
    BY <2>2, <2>3
<1>9. HasWait(z) = HasWait(x)
  BY <1>5, <1>7 DEF HasWait
<1> HIDE DEF c
<1> QED
  BY <1>2, <1>4, <1>8, <1>9 DEF WaitOf, c

LEMMA InstalledKeeps ==
    ASSUME block \in Nat, NEW s, WaitOf(s, block + 1), s.wait # -1, NEW t \in Installed(s)
    PROVE  WaitOf(t, block + 1)
<1> DEFINE c == block + 1
<1>1. PICK E \in Seq(EffectsIn(LoudKinds)) : t.effects = s.effects \o E
  BY DEF Installed
<1>2. t \in ModuleState /\ t.wait = s.wait /\ s.wait \in {0, 2} /\ s.effects \in Seq(EffectType)
  BY DEF Installed, WaitOf, ModuleState
<1>3. E \in Seq(EffectType) /\ \A j \in DOMAIN E : E[j] \in EffectsIn(LoudKinds)
  BY DEF EffectsIn
<1>4. PICK x, z : x = s.effects /\ z = t.effects
  OBVIOUS
<1>5. /\ DOMAIN x = 1..Len(x) /\ Len(x) \in Nat /\ DOMAIN E = 1..Len(E)
      /\ \A i \in DOMAIN x : i \in DOMAIN z /\ z[i] = x[i] /\ Fits(z, i)
      /\ \A i \in DOMAIN z : i \in DOMAIN x \/ \E j \in DOMAIN E : i = Len(x) + j /\ z[i] = E[j]
  <2>1. \A i \in DOMAIN x : Fits(x, i)
    BY <1>4 DEF WaitOf
  <2>2. x \in Seq(EffectType) /\ z = x \o E
    BY <1>1, <1>2, <1>4
  <2>3. Longer(x, E, z)
    BY <1>3, <2>1, <2>2, FitsMore
  <2> QED
    BY <2>3, Zenon DEF Longer
<1>6. \A i \in DOMAIN x : x[i].block \in 1..c
  BY <1>4 DEF WaitOf
<1>7. ASSUME NEW i \in DOMAIN z, i \notin DOMAIN x
      PROVE  z[i].block = c /\ z[i].do # "wait" /\ i \in Nat /\ Len(x) < i
  <2>1. PICK j \in DOMAIN E : i = Len(x) + j /\ z[i] = E[j]
    BY <1>5, <1>7
  <2>2. z[i] \in EffectsIn(LoudKinds)
    BY <1>3, <2>1
  <2>3. i \in Nat /\ Len(x) < i
    BY <1>5, <2>1
  <2> QED
    BY <2>2, <2>3 DEF EffectsIn, LoudKinds
<1>8. ASSUME NEW i \in DOMAIN z PROVE z[i].block \in 1..c /\ Fits(z, i)
  <2>1. c \in 1..c
    OBVIOUS
  <2>2. CASE i \in DOMAIN x
    BY <1>5, <1>6, <2>2
  <2>3. CASE i \notin DOMAIN x
    <3>1. z[i].block = c /\ z[i].do # "wait" /\ i \in Nat /\ Len(x) < i
      BY <1>7, <2>3
    <3>2. (\E j \in 1..(i - 1) : z[j].do = "wait") \/ Off(c)
      <4>1. CASE s.wait = 0
        BY <4>1 DEF WaitOf
      <4>2. CASE s.wait = 2
        <5>1. PICK j \in DOMAIN x : x[j].do = "wait"
          BY <1>4, <4>2 DEF WaitOf, HasWait
        <5>2. j \in 1..(i - 1)
          BY <1>5, <3>1
        <5> QED
          BY <1>5, <5>1, <5>2
      <4> QED
        BY <1>2, <4>1, <4>2
    <3> HIDE DEF c
    <3> QED
      BY <2>1, <3>1, <3>2 DEF Fits
  <2> QED
    BY <2>2, <2>3
<1>9. HasWait(z) = HasWait(x)
  BY <1>5, <1>7 DEF HasWait
<1> HIDE DEF c
<1> QED
  BY <1>2, <1>4, <1>8, <1>9 DEF WaitOf, c

(* A wait is not the second, or it has been told to be. *)
LEMMA WaitKeeps ==
    ASSUME block \in Nat, NEW s \in ModuleState, NEW t, HasWaited(s, t), ~Off(block + 1),
           \A i \in DOMAIN s.effects : s.effects[i].block \in 1..(block + 1) /\ Fits(s.effects, i),
           \A i \in DOMAIN s.effects :
               s.effects[i].do = "wait" => s.effects[i].block < block + 1 /\ Told(block + 1)
    PROVE  WaitOf(t, block + 1)
<1> DEFINE c == block + 1
<1>1. PICK E : E = <<WaitEffect>>
  OBVIOUS
<1>2. t \in ModuleState /\ t.wait = 2 /\ t.effects = s.effects \o E /\ s.effects \in Seq(EffectType)
  BY <1>1 DEF HasWaited, ModuleState
<1>3. /\ E \in Seq(EffectType) /\ DOMAIN E = {1} /\ Len(E) = 1 /\ E[1].block = c /\ E[1].do = "wait"
  <2>1. DOMAIN <<WaitEffect>> = {1} /\ <<WaitEffect>>[1] = WaitEffect /\ Len(<<WaitEffect>>) = 1
    OBVIOUS
  <2> QED
    BY <1>1, <2>1, WaitEffectIs DEF EffectsIn
<1>4. PICK x, z : x = s.effects /\ z = t.effects
  OBVIOUS
<1>5. /\ DOMAIN x = 1..Len(x) /\ Len(x) \in Nat
      /\ \A i \in DOMAIN x : i \in DOMAIN z /\ z[i] = x[i] /\ Fits(z, i)
      /\ \A i \in DOMAIN z : i \in DOMAIN x \/ \E j \in DOMAIN E : i = Len(x) + j /\ z[i] = E[j]
      /\ \A j \in DOMAIN E : Len(x) + j \in DOMAIN z /\ z[Len(x) + j] = E[j]
  <2>1. \A i \in DOMAIN x : Fits(x, i)
    BY <1>4
  <2>2. x \in Seq(EffectType) /\ z = x \o E
    BY <1>2, <1>4
  <2>3. Longer(x, E, z)
    BY <1>3, <2>1, <2>2, FitsMore
  <2> QED
    BY <2>3, Zenon DEF Longer
<1>6. ASSUME NEW i \in DOMAIN z, i \notin DOMAIN x
      PROVE  z[i].block = c /\ z[i].do = "wait" /\ 1..(i - 1) = DOMAIN x
  <2>1. i = Len(x) + 1 /\ z[i] = E[1]
    BY <1>3, <1>5, <1>6
  <2>2. (Len(x) + 1) - 1 = Len(x)
    BY <1>5
  <2> QED
    BY <1>3, <1>5, <2>1, <2>2
<1>7. ASSUME NEW i \in DOMAIN z PROVE z[i].block \in 1..c /\ Fits(z, i)
  <2>1. c \in 1..c
    OBVIOUS
  <2>2. CASE i \in DOMAIN x
    BY <1>4, <1>5, <2>2
  <2>3. CASE i \notin DOMAIN x
    <3>1. z[i].block = c /\ z[i].do = "wait" /\ 1..(i - 1) = DOMAIN x
      BY <1>6, <2>3
    <3>a. \A j \in DOMAIN x : x[j].do = "wait" => x[j].block < c /\ Told(c)
      BY <1>4
    <3>b. \A j \in DOMAIN x : z[j] = x[j]
      BY <1>5
    <3> HIDE DEF c
    <3>2. \A j \in 1..(i - 1) : z[j].do = "wait" => z[j].block < c /\ Told(c)
      BY <3>1, <3>a, <3>b
    <3>3. ~Off(z[i].block)
      BY <3>1 DEF c
    <3>4. z[i].do \notin {"install", "upgrade"}
      BY <3>1
    <3>5. \A j \in 1..(i - 1) : z[j].do = "wait" => z[j].block < z[i].block /\ Told(z[i].block)
      BY <3>1, <3>2
    <3>6. Fits(z, i)
      BY <3>3, <3>4, <3>5, Zenon DEF Fits
    <3> QED
      BY <2>1, <3>1, <3>6
  <2> QED
    BY <2>2, <2>3
<1>8. HasWait(z)
  BY <1>3, <1>5 DEF HasWait
<1>9. Off(c) = FALSE
  <2>1. Off(c) \in BOOLEAN
    BY DEF Off
  <2> QED
    BY <2>1
<1> HIDE DEF c
<1>10. WaitOf(t, c)
  <2>1. t \in ModuleState /\ t.wait = 2 /\ t.effects = z
    BY <1>2, <1>4
  <2>2. (t.wait = 0) = FALSE /\ t.wait # -1 /\ t.wait \in {-1, 0, 2}
    BY <2>1
  <2>3. (t.wait = 0) = Off(c)
    BY <1>9, <2>2, Zenon
  <2> QED
    BY <1>7, <1>8, <2>1, <2>2, <2>3, Zenon DEF WaitOf
<1> QED
  BY <1>10 DEF c

-----------------------------------------------------------------------------
(* The steps.                                                              *)

LEMMA BlocksAre ==
    ASSUME TreeInvariant, NEW V, TidyAt(V)
    PROVE  Blocks \in Seq(V) /\ Len(Blocks) \in Nat
<1>1. 1 \in V
  BY DEF TidyAt
<1>2. CASE Leaf(1)
  BY <1>2 DEF Blocks
<1>3. CASE ~Leaf(1)
  <2>1. PICK m : m = First(1)
    OBVIOUS
  <2>2. m \in V
    BY <1>1, <1>3, <2>1, ReadNode
  <2>3. Kids(m) \in Seq(V)
    BY <2>2, ReadNode
  <2>4. Blocks = Kids(m)
    BY <1>3, <2>1 DEF Blocks
  <2> QED
    BY <2>3, <2>4
<1> QED
  BY <1>2, <1>3

LEMMA HandlerKeeps ==
    ASSUME TreeInvariant, stage = "process", block \in Nat, NEW s, WaitOf(s, block),
           s.current \in Buffered(block), block < Len(Blocks), NEW true_at, NEW first_boot
    PROVE  WaitOf(handler(Blocks[block + 1], s, true_at, first_boot), block + 1)
<1>1. PICK V : TidyAt(V)
  BY TidyTree
<1>2. PICK n : n = Blocks[block + 1]
  OBVIOUS
<1>3. n \in V
  <2>1. PICK l : l = Blocks
    OBVIOUS
  <2>2. l \in Seq(V) /\ block < Len(l)
    BY <1>1, <2>1, BlocksAre
  <2>3. l[block + 1] \in V
    BY <2>2
  <2> QED
    BY <1>2, <2>1, <2>3
<1>4. s \in ModuleState /\ s.wait \in {-1, 0, 2}
  BY DEF WaitOf
<1>5. PICK t : t = handler(n, s, true_at, first_boot)
  OBVIOUS
<1>6. Told(block + 1) = (Data(n) = "wait_for_network" /\ ~Leaf(n) /\ ValueOf(n) \in TrueTexts \cup FalseTexts \cup {NULL})
  BY <1>2 DEF Told
<1>7. CASE Data(n) # "wait_for_network"
  <2>1. t \in Quiet(s) \cup Loud(s)
    BY <1>1, <1>2, <1>3, <1>4, <1>5, <1>7, HandlerIs
  <2>2. WaitOf(s, block + 1)
    BY <1>6, <1>7, NextBlock
  <2>3. CASE t \in Quiet(s)
    BY <1>2, <1>5, <2>2, <2>3, QuietKeeps
  <2>4. CASE t = s
    BY <1>2, <1>5, <2>2, <2>4
  <2>5. CASE t \in Installed(wait_for_network(s))
    <3>1. PICK u : u = wait_for_network(s)
      OBVIOUS
    <3>2. CASE s.wait = -1
      <4>1. HasWaited(s, u)
        BY <1>4, <3>1, <3>2, WaitIs
      <4>2. ~Off(block + 1)
        <5>1. (s.wait = 0) = Off(block + 1)
          BY <2>2 DEF WaitOf
        <5>2. (s.wait = 0) = FALSE
          BY <3>2
        <5> QED
          BY <5>1, <5>2, Zenon
      <4>3. /\ \A i \in DOMAIN s.effects : s.effects[i].block \in 1..(block + 1) /\ Fits(s.effects, i)
            /\ \A i \in DOMAIN s.effects : s.effects[i].do # "wait"
        BY <2>2, <3>2, Zenon DEF WaitOf, HasWait
      <4>4. WaitOf(u, block + 1)
        BY <1>4, <4>1, <4>2, <4>3, WaitKeeps
      <4>5. u.wait # -1
        BY <4>1 DEF HasWaited
      <4> QED
        BY <1>2, <1>5, <2>5, <3>1, <4>4, <4>5, InstalledKeeps
    <3>3. CASE s.wait # -1
      <4>1. u = s
        BY <1>4, <3>1, <3>3, WaitIs
      <4> QED
        BY <1>2, <1>5, <2>2, <2>5, <3>1, <3>3, <4>1, InstalledKeeps
    <3> QED
      BY <3>2, <3>3
  <2> QED
    BY <2>1, <2>3, <2>4, <2>5 DEF Loud
<1>8. CASE Data(n) = "wait_for_network"
  <2>1. t = wait_for_network_handler(n, s)
    BY <1>1, <1>2, <1>3, <1>4, <1>5, <1>8, HandlerIs
  <2>2. CASE ~Told(block + 1)
    <3>1. t = s
      <4>1. Leaf(n) \/ ValueOf(n) \notin TrueTexts \cup FalseTexts \cup {NULL}
        BY <1>6, <1>8, <2>2, Zenon
      <4> QED
        BY <2>1, <4>1, Zenon DEF wait_for_network_handler, True
    <3> QED
      BY <1>2, <1>5, <2>2, <3>1, NextBlock
  <2>3. CASE Told(block + 1) /\ True(ValueOf(n))
    <3> DEFINE r == [s EXCEPT !.wait = 1]
    <3>1. t = wait_for_network(r)
      BY <1>6, <1>8, <2>1, <2>3 DEF wait_for_network_handler
    <3>2. r \in ModuleState /\ r.wait = 1 /\ r.effects = s.effects
      BY <1>4 DEF ModuleState
    <3> HIDE DEF r
    <3>3. HasWaited(r, t)
      BY <3>1, <3>2, WaitIs
    <3>4. ~Off(block + 1)
      BY <1>2, <2>3, OffNext
    <3>5. \A i \in DOMAIN s.effects :
              /\ s.effects[i].block \in 1..(block + 1) /\ Fits(s.effects, i)
              /\ s.effects[i].block < block + 1
      <4>1. \A m \in 1..block : m \in 1..(block + 1) /\ m < block + 1
        OBVIOUS
      <4> QED
        BY <4>1, Zenon DEF WaitOf
    <3>6. WaitOf(t, block + 1)
      BY <2>3, <3>2, <3>3, <3>4, <3>5, WaitKeeps
    <3> QED
      BY <1>2, <1>5, <3>6
  <2>4. CASE Told(block + 1) /\ ~True(ValueOf(n))
    <3> DEFINE r == [s EXCEPT !.wait = 0]
    <3>1. t = r
      BY <1>6, <1>8, <2>1, <2>4 DEF wait_for_network_handler
    <3>2. r \in ModuleState /\ r.wait = 0 /\ r.effects = s.effects
      BY <1>4 DEF ModuleState
    <3> HIDE DEF r
    <3>3. Off(block + 1) = TRUE
      BY <1>2, <2>4, OffNext
    <3>4. (r.wait = 0) = Off(block + 1)
      <4>1. (r.wait = 0) = TRUE
        BY <3>2
      <4> QED
        BY <3>3, <4>1, Zenon
    <3>5. \A i \in DOMAIN s.effects : s.effects[i].block \in 1..(block + 1) /\ Fits(s.effects, i)
      <4>1. \A m \in 1..block : m \in 1..(block + 1)
        OBVIOUS
      <4> QED
        BY <4>1, Zenon DEF WaitOf
    <3>6. r.wait \in {-1, 0, 2} /\ r.wait # 2 /\ r.wait # -1
      BY <3>2
    <3>7. WaitOf(r, block + 1)
      BY <3>2, <3>4, <3>5, <3>6, Zenon DEF WaitOf
    <3> QED
      BY <1>2, <1>5, <3>1, <3>7
  <2> QED
    BY <2>2, <2>3, <2>4
<1> QED
  BY <1>7, <1>8

-----------------------------------------------------------------------------
(* The invariant of the keys.                                              *)

(* What the i-th effect of x must be, if it authorizes keys. *)
Entitled(x, i) == x[i].do = "authorize" => x[i].subject \in Authorized(x[i].block)

KeysOf(s, c) == s.current \in Buffered(c) /\ \A i \in DOMAIN s.effects : Entitled(s.effects, i)

LEMMA BufferedMore ==
    ASSUME NEW c \in Nat, NEW d \in Nat, c <= d
    PROVE  Buffered(c) \subseteq Buffered(d)
<1>1. 1..c \subseteq 1..d
  OBVIOUS
<1>2. {k \in 1..c : Data(Blocks[k]) = "users"} \subseteq {k \in 1..d : Data(Blocks[k]) = "users"}
  BY <1>1
<1> QED
  BY <1>2, Zenon DEF Buffered, UsersNamed

(* More effects, and perhaps another name. *)
LEMMA KeysMore ==
    ASSUME NEW c \in Nat, NEW d \in Nat, c <= d, NEW s \in ModuleState, KeysOf(s, c),
           NEW t \in ModuleState, t.current \in {s.current} \cup Buffered(d),
           NEW E \in Seq(EffectType), t.effects = s.effects \o E,
           \A j \in DOMAIN E : Entitled(E, j)
    PROVE  KeysOf(t, d)
<1>1. s.current \in Buffered(d)
  BY BufferedMore DEF KeysOf
<1>2. PICK x, z : x = s.effects /\ z = t.effects
  OBVIOUS
<1>3. x \in Seq(EffectType) /\ z = x \o E
  BY <1>2 DEF ModuleState
<1>4. ASSUME NEW i \in DOMAIN z PROVE Entitled(z, i)
  <2>1. CASE i \in DOMAIN x
    <3>1. z[i] = x[i]
      BY <1>3, <2>1
    <3>2. Entitled(x, i)
      BY <1>2, <2>1 DEF KeysOf
    <3> QED
      BY <3>1, <3>2, Zenon DEF Entitled
  <2>2. CASE i \notin DOMAIN x
    <3>1. PICK j \in DOMAIN E : z[i] = E[j]
      <4>1. i \in 1..(Len(x) + Len(E)) /\ i - Len(x) \in DOMAIN E /\ z[i] = E[i - Len(x)]
        BY <1>3, <2>2
      <4> QED
        BY <4>1
    <3> QED
      BY <3>1, Zenon DEF Entitled
  <2> QED
    BY <2>1, <2>2
<1> QED
  BY <1>1, <1>2, <1>4 DEF KeysOf

(* Effects of other kinds have nothing to be entitled to. *)
LEMMA OthersEntitled ==
    ASSUME NEW kinds, "authorize" \notin kinds, NEW E \in Seq(EffectsIn(kinds))
    PROVE  E \in Seq(EffectType) /\ \A j \in DOMAIN E : Entitled(E, j)
<1>1. E \in Seq(EffectType)
  BY DEF EffectsIn
<1>2. \A j \in DOMAIN E : E[j] \in EffectsIn(kinds)
  <2> HIDE DEF EffectsIn
  <2> QED
    OBVIOUS
<1> QED
  BY <1>1, <1>2 DEF EffectsIn, Entitled

LEMMA WaitKeepsKeys ==
    ASSUME block \in Nat, NEW s \in ModuleState, NEW c \in Nat, KeysOf(s, c)
    PROVE  KeysOf(wait_for_network(s), c)
<1>1. PICK u : u = wait_for_network(s)
  OBVIOUS
<1>2. CASE s.wait \in {-1, 1}
  <2>1. u \in ModuleState /\ u.current = s.current /\ u.effects = s.effects \o <<WaitEffect>>
    BY <1>1, <1>2, WaitIs DEF HasWaited
  <2>2. <<WaitEffect>> \in Seq(EffectsIn({"wait"}))
    <3>1. PICK w \in EffectsIn({"wait"}) : w = WaitEffect
      BY WaitEffectIs
    <3> QED
      BY <3>1
  <2>3. PICK E \in Seq(EffectsIn({"wait"})) : E = <<WaitEffect>>
    BY <2>2
  <2>4. E \in Seq(EffectType) /\ \A j \in DOMAIN E : Entitled(E, j)
    BY OthersEntitled
  <2>5. u.effects = s.effects \o E /\ u.current \in {s.current} \cup Buffered(c) /\ c <= c
    BY <2>1, <2>3
  <2>6. KeysOf(u, c)
    BY <2>1, <2>4, <2>5, KeysMore
  <2> QED
    BY <1>1, <2>6
<1>3. CASE s.wait \notin {-1, 1}
  BY <1>3, WaitIs
<1> QED
  BY <1>2, <1>3

LEMMA HandlerKeepsKeys ==
    ASSUME TreeInvariant, stage = "process", block \in Nat, NEW s \in ModuleState, KeysOf(s, block),
           block < Len(Blocks), NEW true_at, NEW first_boot
    PROVE  KeysOf(handler(Blocks[block + 1], s, true_at, first_boot), block + 1)
<1>1. PICK V : TidyAt(V)
  BY TidyTree
<1>2. PICK n : n = Blocks[block + 1]
  OBVIOUS
<1>3. n \in V
  <2>1. PICK l : l = Blocks
    OBVIOUS
  <2>2. l \in Seq(V) /\ block < Len(l)
    BY <1>1, <2>1, BlocksAre
  <2>3. l[block + 1] \in V
    BY <2>2
  <2> QED
    BY <1>2, <2>1, <2>3
<1>4. PICK t : t = handler(n, s, true_at, first_boot)
  OBVIOUS
<1>5. \/ Data(n) = "wait_for_network" /\ t = wait_for_network_handler(n, s)
      \/ t \in Quiet(s) \cup Loud(s)
  BY <1>1, <1>2, <1>3, <1>4, HandlerIs DEF KeysOf
<1>6. block + 1 \in Nat /\ block <= block + 1
  OBVIOUS
<1>7. ASSUME NEW r \in ModuleState, r.current = s.current, r.effects = s.effects
      PROVE  KeysOf(r, block + 1)
  <2>1. r.current \in Buffered(block + 1)
    BY <1>6, <1>7, BufferedMore DEF KeysOf
  <2> QED
    BY <1>7, <2>1 DEF KeysOf
<1>8. CASE t = wait_for_network_handler(n, s)
  <2> DEFINE r0 == [s EXCEPT !.wait = 0]
             r1 == [s EXCEPT !.wait = 1]
  <2>1. r0 \in ModuleState /\ r0.current = s.current /\ r0.effects = s.effects
    BY DEF ModuleState
  <2>2. r1 \in ModuleState /\ r1.current = s.current /\ r1.effects = s.effects
    BY DEF ModuleState
  <2>3. t \in {s, r0, wait_for_network(r1)}
    BY <1>8 DEF wait_for_network_handler
  <2> HIDE DEF r0, r1
  <2>4. KeysOf(s, block + 1) /\ KeysOf(r0, block + 1) /\ KeysOf(r1, block + 1)
    BY <1>7, <2>1, <2>2
  <2>5. KeysOf(wait_for_network(r1), block + 1)
    BY <1>6, <2>2, <2>4, WaitKeepsKeys
  <2> QED
    BY <1>2, <1>4, <2>3, <2>4, <2>5
<1>9. CASE t \in Quiet(s)
  <2>1. PICK E \in Seq(QuietEffects) : t.effects = s.effects \o E
    BY <1>9 DEF Quiet
  <2>2. t \in ModuleState /\ t.current \in {s.current} \cup Buffered(block + 1)
    BY <1>9 DEF Quiet
  <2>3. E \in Seq(EffectType)
    BY DEF QuietEffects, EffectsIn
  <2>4. \A j \in DOMAIN E : E[j] \in QuietEffects
    OBVIOUS
  <2>5. \A j \in DOMAIN E : Entitled(E, j)
    BY <2>4 DEF QuietEffects, Entitled
  <2> QED
    BY <1>2, <1>4, <1>6, <2>1, <2>2, <2>3, <2>5, KeysMore
<1>10. CASE t = s
  BY <1>2, <1>4, <1>7, <1>10
<1>11. CASE t \in Installed(wait_for_network(s))
  <2>1. PICK u : u = wait_for_network(s)
    OBVIOUS
  <2>2. u \in ModuleState /\ KeysOf(u, block)
    BY <2>1, WaitedFirst, WaitKeepsKeys
  <2>3. PICK E \in Seq(EffectsIn(LoudKinds)) : t.effects = u.effects \o E
    BY <1>11, <2>1 DEF Installed
  <2>4. t \in ModuleState /\ t.current = u.current
    BY <1>11, <2>1 DEF Installed
  <2>5. E \in Seq(EffectType) /\ \A j \in DOMAIN E : Entitled(E, j)
    <3>1. "authorize" \notin LoudKinds
      BY DEF LoudKinds
    <3> QED
      BY <3>1, OthersEntitled
  <2> QED
    BY <1>2, <1>4, <1>6, <2>2, <2>3, <2>4, <2>5, KeysMore
<1> QED
  BY <1>5, <1>8, <1>9, <1>10, <1>11 DEF Loud

-----------------------------------------------------------------------------
(* Both of them are inductive.                                             *)

ProcessInvariant ==
    /\ block \in Nat /\ WaitOf(state, block) /\ KeysOf(state, block)
    /\ stage = "process" => block <= Len(Blocks)
    /\ stage # "process" => block = 0 /\ state = NothingDone

(* Nothing has been done before the first block. *)
LEMMA NothingWaited == WaitOf(NothingDone, 0) /\ KeysOf(NothingDone, 0)
<1>1. NothingDone \in ModuleState
  <2>1. ASSUME NEW T PROVE <<>> \in Seq(T)
    OBVIOUS
  <2>2. <<>> \in Seq(EffectType)
    BY <2>1
  <2> QED
    BY <2>2 DEF NothingDone, ModuleState, Strings
<1>2. NothingDone.wait = -1 /\ NothingDone.effects = <<>> /\ DOMAIN <<>> = {}
  BY DEF NothingDone
<1>3. Off(0) = FALSE
  BY DEF Off
<1>4. (NothingDone.wait = 0) = Off(0)
  <2>1. (NothingDone.wait = 0) = FALSE
    BY <1>2
  <2> QED
    BY <1>3, <2>1, Zenon
<1>5. KeysOf(NothingDone, 0)
  <2>1. NothingDone.current = ""
    BY DEF NothingDone
  <2> QED
    BY <1>2, <2>1 DEF KeysOf, Buffered
<1> QED
  BY <1>1, <1>2, <1>4, <1>5 DEF WaitOf, HasWait

(* No step but those of cloud_config_process is taken at its stage. *)
LEMMA TreeSteps == TreeNext => stage # "process"
BY DEF TreeNext, cloud_config_parse, cloud_config_simplify, parse_scalar, parse_sequence_start,
   parse_mapping_start, parse_end, parse_ignored, parse_stream_end, parse_error, Parse, g_node_traverse,
   simplify_child, simplify_node, Visiting

(* It says the same of a tree that is the same. *)
LEMMA SameWait ==
    ASSUME UNCHANGED tree, NEW t, NEW c, WaitOf(t, c)
    PROVE  WaitOf(t, c)'
<1>1. \A i : Told(i)' = Told(i)
  BY DEF Told, ValueOf, Blocks, Leaf, Kids, First, Data
<1>2. \A j : True(ValueOf(Blocks[j]))' = True(ValueOf(Blocks[j]))
  BY DEF True, ValueOf, Blocks, Leaf, Kids, First, Data
<1>3. ASSUME NEW i PROVE Off(i)' = Off(i)
  <2>1. ASSUME Off(i)' PROVE Off(i)
    BY <1>1, <1>2, <2>1, Zenon DEF Off
  <2>2. ASSUME Off(i) PROVE Off(i)'
    BY <1>1, <1>2, <2>2, Zenon DEF Off
  <2>3. Off(i) \in BOOLEAN /\ Off(i)' \in BOOLEAN
    BY DEF Off
  <2> QED
    BY <2>1, <2>2, <2>3
<1>4. \A i : Fits(t.effects, i)' = Fits(t.effects, i)
  BY <1>1, <1>3, Zenon DEF Fits
<1> QED
  BY <1>3, <1>4, Zenon DEF WaitOf, HasWait

LEMMA SameKeys ==
    ASSUME UNCHANGED tree, NEW t, NEW c, KeysOf(t, c)
    PROVE  KeysOf(t, c)'
<1>1. Blocks' = Blocks /\ (\A n : Data(n)' = Data(n)) /\ (\A n : Kids(n)' = Kids(n))
  BY DEF Blocks, Leaf, Kids, First, Data
<1>2. \A n : Names(n)' = Names(n)
  BY DEF Names, ValueOf, Leaf, Kids, First, Data
<1>3. \A n : Named(n)' = Named(n)
  BY <1>1, <1>2 DEF Named, NamesOf, Givers
<1>4. \A d : UsersNamed(d)' = UsersNamed(d)
  BY <1>1, <1>3 DEF UsersNamed
<1> QED
  BY <1>4 DEF KeysOf, Entitled, Buffered, Authorized

LEMMA ProcessKeeps ==
    ASSUME TreeInvariant, ProcessInvariant, cloud_config_process
    PROVE  ProcessInvariant'
<1>1. /\ stage = "process" /\ block < Len(Blocks) /\ block \in Nat /\ WaitOf(state, block)
      /\ KeysOf(state, block) /\ block' = block + 1
      /\ UNCHANGED <<document, events, read, frames, tree, walk, stage, broken>>
  BY DEF cloud_config_process, ProcessInvariant, treeVars
<1>2. PICK true_at, first_boot : state' = handler(Blocks[block + 1], state, true_at, first_boot)
  BY DEF cloud_config_process
<1>3. PICK t, c : t = state' /\ c = block'
  OBVIOUS
<1>4. WaitOf(t, c) /\ KeysOf(t, c)
  <2>1. state \in ModuleState /\ state.current \in Buffered(block)
    BY <1>1 DEF WaitOf, KeysOf
  <2>2. WaitOf(t, c)
    BY <1>1, <1>2, <1>3, <2>1, HandlerKeeps
  <2>3. KeysOf(t, c)
    BY <1>1, <1>2, <1>3, <2>1, HandlerKeepsKeys
  <2> QED
    BY <2>2, <2>3
<1>5. Len(Blocks) \in Nat
  <2>1. PICK V : TidyAt(V)
    BY <1>1, TidyTree
  <2> QED
    BY <2>1, BlocksAre
<1>6. block' \in Nat /\ block' <= Len(Blocks)
  BY <1>1, <1>5
<1>7. Blocks' = Blocks
  BY <1>1 DEF Blocks, Leaf, Kids, First
<1>8. WaitOf(t, c)' /\ KeysOf(t, c)'
  BY <1>1, <1>4, SameWait, SameKeys
<1>9. WaitOf(state, block)' /\ KeysOf(state, block)'
  BY <1>3, <1>8
<1> QED
  BY <1>1, <1>6, <1>7, <1>9 DEF ProcessInvariant

LEMMA BlocksCounted == TreeInvariant /\ stage = "process" => Len(Blocks) \in Nat
<1> SUFFICES ASSUME TreeInvariant, stage = "process" PROVE Len(Blocks) \in Nat
  OBVIOUS
<1>1. PICK V : TidyAt(V)
  BY TidyTree
<1> QED
  BY <1>1, BlocksAre

(* The tree changes only while nothing has been done. *)
LEMMA TreeStepKeeps ==
    ASSUME ProcessInvariant, TreeNext, UNCHANGED <<block, state>>, TreeInvariant'
    PROVE  ProcessInvariant'
<1>1. block' = 0 /\ state' = NothingDone
  BY TreeSteps DEF ProcessInvariant
<1>2. WaitOf(NothingDone, 0)' /\ KeysOf(NothingDone, 0)'
  BY NothingWaited, PTL
<1>3. (TreeInvariant /\ stage = "process" => Len(Blocks) \in Nat)'
  BY BlocksCounted, PTL
<1>4. stage' = "process" => Len(Blocks)' \in Nat
  BY <1>3
<1>5. WaitOf(state, block)' /\ KeysOf(state, block)'
  BY <1>1, <1>2
<1>6. stage' = "process" => block' <= Len(Blocks)'
  BY <1>1, <1>4
<1> QED
  BY <1>1, <1>5, <1>6 DEF ProcessInvariant

-----------------------------------------------------------------------------
(* Theorems.                                                               *)

Invariant == TreeInvariant /\ ProcessInvariant

LEMMA InitProcess ==
    ASSUME Init
    PROVE  Invariant
<1>1. TreeInvariant
  BY InitInv DEF Init
<1>2. block = 0 /\ state = NothingDone /\ stage = "parse"
  BY DEF Init, TreeInit
<1> QED
  BY <1>1, <1>2, NothingWaited DEF Invariant, ProcessInvariant

LEMMA NextProcess ==
    ASSUME Invariant, [Next]_vars
    PROVE  Invariant'
<1>1. TreeInvariant /\ ProcessInvariant
  BY DEF Invariant
<1>2. [TreeNext]_treeVars
  BY DEF Next, vars, cloud_config_process, Done
<1>3. TreeInvariant'
  BY <1>1, <1>2, NextInv
<1>4. CASE TreeNext /\ UNCHANGED <<block, state>>
  BY <1>1, <1>3, <1>4, TreeStepKeeps DEF Invariant
<1>5. CASE cloud_config_process
  BY <1>1, <1>3, <1>5, ProcessKeeps DEF Invariant
<1>6. CASE UNCHANGED vars
  <2>1. PICK t, c : t = state' /\ c = block'
    OBVIOUS
  <2>2. UNCHANGED <<document, events, read, frames, tree, walk, stage, broken, block, state>>
    BY <1>6 DEF vars, treeVars
  <2>3. WaitOf(t, c) /\ KeysOf(t, c)
    BY <1>1, <2>1, <2>2 DEF ProcessInvariant
  <2>4. Blocks' = Blocks
    BY <2>2 DEF Blocks, Leaf, Kids, First
  <2>5. WaitOf(t, c)' /\ KeysOf(t, c)'
    BY <2>2, <2>3, SameWait, SameKeys
  <2> QED
    BY <1>1, <1>3, <2>1, <2>2, <2>4, <2>5 DEF Invariant, ProcessInvariant
<1> QED
  BY <1>4, <1>5, <1>6 DEF Next, Done

(* While blocks are handled, the tree is left alone: what has been proved of
   the tree holds of the whole interpreter. *)
THEOREM TreeLeftAlone == Spec => TreeSpec
<1>1. Init => TreeInit
  BY DEF Init
<1>2. [Next]_vars => [TreeNext]_treeVars
  BY DEF Next, vars, cloud_config_process, Done
<1> QED
  BY <1>1, <1>2, PTL DEF Spec, TreeSpec

(* The invariant of the tree, of the wait and of the keys, for every document. *)
THEOREM InvariantHolds == Spec => []Invariant
<1>1. Init => Invariant
  BY InitProcess
<1>2. Invariant /\ [Next]_vars => Invariant'
  BY NextProcess
<1> QED
  BY <1>1, <1>2, PTL DEF Spec

(* Every variable keeps its type, whatever the document.  NULL, the data of a
   sequence, is no text, so it gets into no command, no path and no content:
   the nodes that handlers print have data, but for a name of a user that is
   given as a list, which is printed as "(null)", and the fields of a file,
   of which write_files does not come back (crashed). *)
THEOREM EffectsTyped == Spec => []TypeOK
<1>1. Invariant => TypeOK
  <2> SUFFICES ASSUME Invariant PROVE TypeOK
    OBVIOUS
  <2>1. TreeTypeOK
    BY TypesFollow DEF Invariant
  <2> QED
    BY <2>1 DEF Invariant, ProcessInvariant, WaitOf, TypeOK
<1> QED
  BY <1>1, InvariantHolds, PTL

(* ssh_authorized_keys are for nobody but the default user and those whom a
   block of users before them has named, whatever the document and whatever is
   in the buffer of users.c, which "first_user" shares with every later user. *)
THEOREM KeysGoToNamed ==
    Spec => []\A i \in DOMAIN state.effects :
                  state.effects[i].do = "authorize" =>
                      state.effects[i].subject \in {DefaultUser} \cup UsersNamed(state.effects[i].block - 1)
<1>1. Invariant => \A i \in DOMAIN state.effects :
                       state.effects[i].do = "authorize" =>
                           state.effects[i].subject \in {DefaultUser} \cup UsersNamed(state.effects[i].block - 1)
  <2> SUFFICES ASSUME Invariant, NEW i \in DOMAIN state.effects, state.effects[i].do = "authorize"
               PROVE  state.effects[i].subject \in {DefaultUser} \cup UsersNamed(state.effects[i].block - 1)
    OBVIOUS
  <2>1. Entitled(state.effects, i)
    BY DEF Invariant, ProcessInvariant, KeysOf
  <2> QED
    BY <2>1 DEF Entitled, Authorized
<1> QED
  BY <1>1, InvariantHolds, PTL

(* They wait for the network as the blocks tell them: before packages, unless
   that is off, never while it is off, and twice only when told to. *)
THEOREM WaitsFollowBlocks == Spec => []WaitsAsTold
<1>1. Invariant => WaitsAsTold
  <2> SUFFICES ASSUME Invariant PROVE WaitsAsTold
    OBVIOUS
  <2>1. \A i \in DOMAIN state.effects : Fits(state.effects, i)
    BY DEF Invariant, ProcessInvariant, WaitOf
  <2> QED
    BY <2>1, Zenon DEF WaitsAsTold, Fits
<1> QED
  BY <1>1, InvariantHolds, PTL

-----------------------------------------------------------------------------
(* How deep the events of a value are nested.                              *)

EventSet == [type : EventTypes, text : STRING \cup {""}]

(* t begins with s. *)
Begins(s, t) == Len(s) <= Len(t) /\ \A i \in 1..Len(s) : t[i] = s[i]

LEMMA NumberBegins ==
    ASSUME NEW s, NEW t, Begins(s, t), NEW i \in Nat, i <= Len(s), Len(s) \in Nat, NEW types
    PROVE  Number(t, i, types) = Number(s, i, types)
<1>1. \A j \in 1..i : t[j] = s[j]
  BY DEF Begins
<1>2. {j \in 1..i : t[j].type \in types} = {j \in 1..i : s[j].type \in types}
  BY <1>1
<1> QED
  BY <1>2 DEF Number

LEMMA DepthBegins ==
    ASSUME NEW s, NEW t, Begins(s, t), NEW i \in Nat, i <= Len(s), Len(s) \in Nat
    PROVE  DepthAt(t, i) = DepthAt(s, i)
BY NumberBegins DEF DepthAt

LEMMA DepthNextIs ==
    ASSUME NEW s, NEW i \in Nat
    PROVE  /\ DepthAt(s, i) \in Int /\ DepthAt(s, 0) = 0
           /\ s[i + 1].type \in Starts => DepthAt(s, i + 1) = DepthAt(s, i) + 1
           /\ s[i + 1].type = "end" => DepthAt(s, i + 1) = DepthAt(s, i) - 1
           /\ s[i + 1].type \notin Starts \cup {"end"} => DepthAt(s, i + 1) = DepthAt(s, i)
<1>1. /\ Number(s, i, Starts) \in Nat
      /\ s[i + 1].type \in Starts => Number(s, i + 1, Starts) = Number(s, i, Starts) + 1
      /\ s[i + 1].type \notin Starts => Number(s, i + 1, Starts) = Number(s, i, Starts)
  BY NumberNext
<1>2. /\ Number(s, i, {"end"}) \in Nat
      /\ s[i + 1].type \in {"end"} => Number(s, i + 1, {"end"}) = Number(s, i, {"end"}) + 1
      /\ s[i + 1].type \notin {"end"} => Number(s, i + 1, {"end"}) = Number(s, i, {"end"})
  BY NumberNext
<1>3. Number(s, 0, Starts) = 0 /\ Number(s, 0, {"end"}) = 0
  BY NumberNone
<1>4. "end" \notin Starts
  BY DEF Starts
<1> QED
  BY <1>1, <1>2, <1>3, <1>4 DEF DepthAt

LEMMA DepthBehind ==
    ASSUME NEW T, NEW x \in Seq(T), NEW y \in Seq(T), NEW i \in Nat, i <= Len(y)
    PROVE  DepthAt(x \o y, Len(x) + i) = DepthAt(x, Len(x)) + DepthAt(y, i)
<1> DEFINE D == {c \in Nat : c <= Len(y) => DepthAt(x \o y, Len(x) + c) = DepthAt(x, Len(x)) + DepthAt(y, c)}
<1>0. /\ Len(x) \in Nat /\ Len(y) \in Nat /\ Len(x \o y) = Len(x) + Len(y)
      /\ \A j \in 1..(Len(x) + Len(y)) : (x \o y)[j] = IF j <= Len(x) THEN x[j] ELSE y[j - Len(x)]
  BY ConcatAt
<1>1. 0 \in D
  <2>1. Begins(x, x \o y)
    BY <1>0 DEF Begins
  <2>2. DepthAt(x \o y, Len(x)) = DepthAt(x, Len(x))
    BY <1>0, <2>1, DepthBegins
  <2>3. DepthAt(y, 0) = 0 /\ DepthAt(x, Len(x)) \in Int
    BY <1>0, DepthNextIs
  <2> QED
    BY <1>0, <2>2, <2>3
<1>2. ASSUME NEW c \in Nat, c \in D PROVE c + 1 \in D
  <2> SUFFICES ASSUME c + 1 <= Len(y) PROVE DepthAt(x \o y, Len(x) + (c + 1)) = DepthAt(x, Len(x)) + DepthAt(y, c + 1)
    OBVIOUS
  <2>1. DepthAt(x \o y, Len(x) + c) = DepthAt(x, Len(x)) + DepthAt(y, c)
    BY <1>0, <1>2
  <2>2. PICK z : z = x \o y
    OBVIOUS
  <2>3. (Len(x) + c) \in Nat /\ Len(x) + (c + 1) = (Len(x) + c) + 1
    BY <1>0
  <2>4. z[(Len(x) + c) + 1] = y[c + 1]
    BY <1>0, <2>2
  <2>5. DepthAt(x, Len(x)) \in Int
    BY <1>0, DepthNextIs
  <2>6. /\ DepthAt(z, Len(x) + c) \in Int
        /\ y[c + 1].type \in Starts => DepthAt(z, (Len(x) + c) + 1) = DepthAt(z, Len(x) + c) + 1
        /\ y[c + 1].type = "end" => DepthAt(z, (Len(x) + c) + 1) = DepthAt(z, Len(x) + c) - 1
        /\ y[c + 1].type \notin Starts \cup {"end"} => DepthAt(z, (Len(x) + c) + 1) = DepthAt(z, Len(x) + c)
    BY <2>3, <2>4, DepthNextIs
  <2>7. /\ DepthAt(y, c) \in Int
        /\ y[c + 1].type \in Starts => DepthAt(y, c + 1) = DepthAt(y, c) + 1
        /\ y[c + 1].type = "end" => DepthAt(y, c + 1) = DepthAt(y, c) - 1
        /\ y[c + 1].type \notin Starts \cup {"end"} => DepthAt(y, c + 1) = DepthAt(y, c)
    BY DepthNextIs
  <2> QED
    BY <2>1, <2>2, <2>3, <2>5, <2>6, <2>7
<1> HIDE DEF D
<1>3. i \in D
  BY <1>1, <1>2, Induction
<1> QED
  BY <1>3 DEF D

(* What is opened in s is closed in it. *)
Balanced(s) == DepthAt(s, Len(s)) = 0 /\ \A i \in 0..Len(s) : DepthAt(s, i) >= 0

BalancedEvents == {s \in Seq(EventSet) : Balanced(s)}

LEMMA BalancedBehind ==
    ASSUME NEW x \in BalancedEvents, NEW y \in BalancedEvents
    PROVE  x \o y \in BalancedEvents
<1>1. x \in Seq(EventSet) /\ y \in Seq(EventSet) /\ Balanced(x) /\ Balanced(y)
  BY DEF BalancedEvents
<1>2. /\ Len(x) \in Nat /\ Len(y) \in Nat /\ Len(x \o y) = Len(x) + Len(y) /\ x \o y \in Seq(EventSet)
      /\ \A j \in 1..(Len(x) + Len(y)) : (x \o y)[j] = IF j <= Len(x) THEN x[j] ELSE y[j - Len(x)]
  BY <1>1, ConcatAt
<1>3. Begins(x, x \o y)
  BY <1>2 DEF Begins
<1>4. ASSUME NEW i \in 0..Len(x \o y)
      PROVE  /\ i <= Len(x) => DepthAt(x \o y, i) = DepthAt(x, i)
             /\ i > Len(x) => i - Len(x) \in 0..Len(y) /\ DepthAt(x \o y, i) = DepthAt(y, i - Len(x))
  <2>1. CASE i <= Len(x)
    BY <1>2, <1>3, <2>1, DepthBegins
  <2>2. CASE i > Len(x)
    <3>1. i - Len(x) \in Nat /\ i - Len(x) <= Len(y) /\ Len(x) + (i - Len(x)) = i
      BY <1>2, <2>2
    <3>2. DepthAt(x \o y, i) = DepthAt(x, Len(x)) + DepthAt(y, i - Len(x))
      BY <1>1, <3>1, DepthBehind
    <3>3. DepthAt(y, i - Len(x)) \in Int /\ DepthAt(x, Len(x)) = 0
      BY <1>1, <3>1, DepthNextIs DEF Balanced
    <3> QED
      BY <1>2, <2>2, <3>1, <3>2, <3>3
  <2> QED
    BY <1>2, <2>1, <2>2
<1>5. \A i \in 0..Len(x \o y) : DepthAt(x \o y, i) >= 0
  <2> SUFFICES ASSUME NEW i \in 0..Len(x \o y) PROVE DepthAt(x \o y, i) >= 0
    OBVIOUS
  <2>1. CASE i <= Len(x)
    BY <1>1, <1>2, <1>4, <2>1 DEF Balanced
  <2>2. CASE i > Len(x)
    BY <1>1, <1>2, <1>4, <2>2 DEF Balanced
  <2> QED
    BY <1>2, <2>1, <2>2
<1>6. DepthAt(x \o y, Len(x \o y)) = 0
  <2>1. DepthAt(x \o y, Len(x) + Len(y)) = DepthAt(x, Len(x)) + DepthAt(y, Len(y))
    BY <1>1, <1>2, DepthBehind
  <2> QED
    BY <1>1, <1>2, <2>1 DEF Balanced
<1> QED
  BY <1>2, <1>5, <1>6 DEF BalancedEvents, Balanced

LEMMA BalancedNone == <<>> \in BalancedEvents
<1>1. <<>> \in Seq(EventSet) /\ Len(<<>>) = 0 /\ 0 \in Nat
  OBVIOUS
<1>2. DepthAt(<<>>, 0) = 0
  BY <1>1, DepthNextIs
<1>3. \A i \in 0..0 : i = 0
  OBVIOUS
<1> QED
  BY <1>1, <1>2, <1>3 DEF BalancedEvents, Balanced

(* One event that opens and closes nothing. *)
LEMMA BalancedOne ==
    ASSUME NEW e \in EventSet, e.type \notin Starts \cup {"end"}
    PROVE  <<e>> \in BalancedEvents /\ Len(<<e>>) = 1
<1>1. PICK s : s = <<e>>
  OBVIOUS
<1>2. s \in Seq(EventSet) /\ Len(s) = 1 /\ s[1] = e
  <2>1. \A T : \A x \in T : <<x>> \in Seq(T) /\ Len(<<x>>) = 1 /\ <<x>>[1] = x
    OBVIOUS
  <2> QED
    BY <1>1, <2>1
<1>3. DepthAt(s, 0) = 0 /\ (s[0 + 1].type \notin Starts \cup {"end"} => DepthAt(s, 0 + 1) = DepthAt(s, 0)) /\ 0 + 1 = 1
  <2>1. 0 \in Nat /\ 0 + 1 = 1
    OBVIOUS
  <2> QED
    BY <2>1, DepthNextIs
<1>4. DepthAt(s, 1) = 0
  BY <1>2, <1>3
<1>5. \A i \in 0..1 : i = 0 \/ i = 1
  OBVIOUS
<1>6. s \in BalancedEvents
  <2>1. DepthAt(s, Len(s)) = 0
    BY <1>2, <1>4
  <2>2. \A i \in 0..Len(s) : DepthAt(s, i) = 0
    BY <1>2, <1>3, <1>4, <1>5
  <2>3. \A i \in 0..Len(s) : DepthAt(s, i) >= 0
    BY <2>2
  <2> QED
    BY <1>2, <2>1, <2>3 DEF BalancedEvents, Balanced
<1> QED
  BY <1>1, <1>2, <1>6

LEMMA BalancedFlat ==
    ASSUME NEW P \in Seq(BalancedEvents)
    PROVE  FlattenSeq(P) \in BalancedEvents
<1> DEFINE D == {c \in Nat : c \in 0..Len(P) => FlattenSeq(SubSeq(P, 1, c)) \in BalancedEvents}
<1>0. P \in Seq(Seq(EventSet)) /\ Len(P) \in Nat
  BY DEF BalancedEvents
<1>1. 0 \in D
  <2>1. SubSeq(P, 1, 0) = <<>>
    BY <1>0
  <2>2. FlattenSeq(<<>>) = <<>>
    <3>1. <<>> \in Seq(EventSet)
      OBVIOUS
    <3> QED
      BY <3>1, FlattenIs
  <2> QED
    BY <2>1, <2>2, BalancedNone
<1>2. ASSUME NEW c \in Nat, c \in D PROVE c + 1 \in D
  <2> SUFFICES ASSUME c + 1 \in 0..Len(P) PROVE FlattenSeq(SubSeq(P, 1, c + 1)) \in BalancedEvents
    OBVIOUS
  <2>1. c \in 0..(Len(P) - 1) /\ c \in 0..Len(P) /\ c + 1 \in 1..Len(P)
    BY <1>0
  <2>2. FlattenSeq(SubSeq(P, 1, c + 1)) = FlattenSeq(SubSeq(P, 1, c)) \o P[c + 1]
    BY <1>0, <2>1, FlattenSingle
  <2>3. FlattenSeq(SubSeq(P, 1, c)) \in BalancedEvents /\ P[c + 1] \in BalancedEvents
    BY <1>2, <2>1
  <2> QED
    BY <2>2, <2>3, BalancedBehind
<1> HIDE DEF D
<1>3. Len(P) \in D
  BY <1>0, <1>1, <1>2, Induction
<1>4. SubSeq(P, 1, Len(P)) = P /\ Len(P) \in 0..Len(P)
  BY <1>0
<1> QED
  BY <1>3, <1>4 DEF D

(* Below what is opened it is deeper. *)
LEMMA EnclosedIs ==
    ASSUME NEW start \in Starts, NEW inner \in BalancedEvents
    PROVE  /\ Enclosed(start, inner) \in BalancedEvents /\ Len(Enclosed(start, inner)) \in Nat
           /\ Len(Enclosed(start, inner)) >= 2
           /\ Enclosed(start, inner)[1].type = start
           /\ \A i \in 1..(Len(Enclosed(start, inner)) - 1) : DepthAt(Enclosed(start, inner), i) >= 1
<1>1. PICK a, z, e : a = <<Event(start, "")>> /\ z = <<Event("end", "")>> /\ e = (a \o inner) \o z
  OBVIOUS
<1>2. Enclosed(start, inner) = e
  BY <1>1 DEF Enclosed
<1>3. a \in Seq(EventSet) /\ z \in Seq(EventSet) /\ Len(a) = 1 /\ Len(z) = 1 /\ a[1].type = start /\ z[1].type = "end"
  <2>1. Event(start, "") \in EventSet /\ Event("end", "") \in EventSet
    <3>1. start \in EventTypes /\ "end" \in EventTypes
      BY DEF EventTypes
    <3> QED
      BY <3>1 DEF Event, EventSet
  <2>2. Event(start, "").type = start /\ Event("end", "").type = "end"
    BY DEF Event
  <2>3. \A x \in EventSet : <<x>> \in Seq(EventSet) /\ Len(<<x>>) = 1 /\ <<x>>[1] = x
    OBVIOUS
  <2> QED
    BY <1>1, <2>1, <2>2, <2>3
<1>4. inner \in Seq(EventSet) /\ Balanced(inner) /\ Len(inner) \in Nat
  BY DEF BalancedEvents
<1>5. PICK y : y = a \o inner
  OBVIOUS
<1>6. /\ y \in Seq(EventSet) /\ Len(y) = 1 + Len(inner)
      /\ \A j \in 1..Len(y) : y[j] = IF j <= 1 THEN a[j] ELSE inner[j - 1]
  <2>1. /\ a \o inner \in Seq(EventSet) /\ Len(a \o inner) = Len(a) + Len(inner)
        /\ \A j \in 1..(Len(a) + Len(inner)) : (a \o inner)[j] = IF j <= Len(a) THEN a[j] ELSE inner[j - Len(a)]
    <3>1. a \in Seq(EventSet) /\ inner \in Seq(EventSet)
      BY <1>3, <1>4
    <3> QED
      BY <3>1, ConcatAt
  <2>2. /\ y \in Seq(EventSet) /\ Len(y) = 1 + Len(inner)
        /\ \A j \in 1..(1 + Len(inner)) : y[j] = IF j <= 1 THEN a[j] ELSE inner[j - 1]
    BY <1>3, <1>5, <2>1, Zenon
  <2> QED
    BY <2>2, Zenon
<1>7. /\ e \in Seq(EventSet) /\ Len(e) = Len(y) + 1
      /\ \A j \in 1..(Len(y) + 1) : e[j] = IF j <= Len(y) THEN y[j] ELSE z[j - Len(y)]
  <2>1. e = y \o z
    BY <1>1, <1>5
  <2>2. /\ y \o z \in Seq(EventSet) /\ Len(y \o z) = Len(y) + Len(z)
        /\ \A j \in 1..(Len(y) + Len(z)) : (y \o z)[j] = IF j <= Len(y) THEN y[j] ELSE z[j - Len(y)]
    BY <1>3, <1>6, ConcatAt
  <2> QED
    BY <1>3, <2>1, <2>2
<1>8. DepthAt(a, 1) = 1
  <2>1. DepthAt(a, 0) = 0 /\ (a[0 + 1].type \in Starts => DepthAt(a, 0 + 1) = DepthAt(a, 0) + 1) /\ 0 + 1 = 1
    BY DepthNextIs
  <2> QED
    BY <1>3, <2>1
<1>9. ASSUME NEW i \in 0..Len(inner) PROVE DepthAt(y, 1 + i) = 1 + DepthAt(inner, i) /\ DepthAt(inner, i) \in Int
  <2>1. i \in Nat /\ i <= Len(inner)
    BY <1>4
  <2>2. DepthAt(y, Len(a) + i) = DepthAt(a, Len(a)) + DepthAt(inner, i)
    BY <1>3, <1>4, <1>5, <2>1, DepthBehind
  <2> QED
    BY <1>3, <1>8, <2>1, <2>2, DepthNextIs
<1>10. ASSUME NEW i \in 1..Len(y) PROVE DepthAt(e, i) >= 1
  <2>1. Begins(y, e)
    BY <1>6, <1>7 DEF Begins
  <2>2. DepthAt(e, i) = DepthAt(y, i)
    BY <1>4, <1>6, <2>1, DepthBegins
  <2>3. i - 1 \in 0..Len(inner) /\ 1 + (i - 1) = i
    BY <1>4, <1>6
  <2>4. DepthAt(y, i) = 1 + DepthAt(inner, i - 1) /\ DepthAt(inner, i - 1) \in Int
    BY <1>9, <2>3
  <2>5. DepthAt(inner, i - 1) >= 0
    BY <1>4, <2>3 DEF Balanced
  <2> QED
    BY <2>2, <2>4, <2>5
<1>11. DepthAt(e, Len(e)) = 0
  <2>1. Begins(y, e) /\ Len(y) \in Nat
    BY <1>4, <1>6, <1>7 DEF Begins
  <2>2. DepthAt(e, Len(y)) = DepthAt(y, Len(y))
    BY <2>1, DepthBegins
  <2>3. DepthAt(y, Len(y)) = 1
    <3>1. DepthAt(y, 1 + Len(inner)) = 1 + DepthAt(inner, Len(inner))
      BY <1>4, <1>9
    <3> QED
      BY <1>4, <1>6, <3>1 DEF Balanced
  <2>4. e[Len(y) + 1].type = "end"
    BY <1>3, <1>7, <2>1
  <2>5. DepthAt(e, Len(y) + 1) = DepthAt(e, Len(y)) - 1
    BY <2>1, <2>4, DepthNextIs
  <2> QED
    BY <1>7, <2>2, <2>3, <2>5
<1>12. \A i \in 0..Len(e) : DepthAt(e, i) >= 0
  <2> SUFFICES ASSUME NEW i \in 0..Len(e) PROVE DepthAt(e, i) >= 0
    OBVIOUS
  <2>1. i = 0 \/ i \in 1..Len(y) \/ i = Len(e)
    BY <1>4, <1>6, <1>7
  <2>2. DepthAt(e, 0) = 0
    BY DepthNextIs
  <2>3. \A x : x >= 1 /\ x \in Int => x >= 0
    OBVIOUS
  <2>4. DepthAt(e, i) \in Int
    <3>1. i \in Nat
      BY <1>4, <1>6, <1>7
    <3> QED
      BY <3>1, DepthNextIs
  <2> QED
    BY <1>10, <1>11, <2>1, <2>2, <2>3, <2>4
<1>13. e \in BalancedEvents
  BY <1>7, <1>11, <1>12 DEF BalancedEvents, Balanced
<1>14. e[1].type = start
  BY <1>3, <1>4, <1>6, <1>7
<1>15. Len(e) - 1 = Len(y) /\ Len(e) \in Nat /\ Len(e) >= 2
  BY <1>4, <1>6, <1>7
<1> QED
  BY <1>2, <1>10, <1>13, <1>14, <1>15

-----------------------------------------------------------------------------
(* The events and the texts of a value.                                    *)

Members(v) == IF v.kind \in {"seq", "map"} THEN {v.items[i] : i \in DOMAIN v.items} ELSE {}

LEMMA MembersAre ==
    ASSUME NEW v \in Yaml
    PROVE  /\ v.kind \in {"scalar", "seq", "map", "alias"}
           /\ v.kind = "scalar" => v.text \in STRING
           /\ v.kind \in {"seq", "map"} =>
                 /\ v.items \in Seq(Yaml) /\ Len(v.items) \in Nat /\ DOMAIN v.items = 1..Len(v.items)
                 /\ \A i \in DOMAIN v.items : v.items[i] \in Lower(Yaml, Level, Level[v])
           /\ v.kind = "map" =>
                 /\ DOMAIN v.keys = DOMAIN v.items /\ Len(v.keys) = Len(v.items)
                 /\ \A i \in DOMAIN v.items : v.keys[i] \in STRING
<1>1. /\ v.kind \in {"scalar", "seq", "map", "alias"}
      /\ v.kind = "scalar" => v.text \in STRING
      /\ v.kind \in {"seq", "map"} =>
            v.items \in Seq(Yaml) /\ \A i \in DOMAIN v.items : Level[v.items[i]] < Level[v]
      /\ v.kind = "map" => v.keys \in Seq(STRING) /\ Len(v.keys) = Len(v.items)
  BY YamlAssumption
<1>2. \A T : \A s \in Seq(T) : Len(s) \in Nat /\ DOMAIN s = 1..Len(s) /\ \A i \in 1..Len(s) : s[i] \in T
  OBVIOUS
<1>3. ASSUME v.kind \in {"seq", "map"}
      PROVE  /\ v.items \in Seq(Yaml) /\ Len(v.items) \in Nat /\ DOMAIN v.items = 1..Len(v.items)
             /\ \A i \in DOMAIN v.items : v.items[i] \in Lower(Yaml, Level, Level[v])
  <2>1. v.items \in Seq(Yaml) /\ \A i \in DOMAIN v.items : Level[v.items[i]] < Level[v]
    BY <1>1, <1>3
  <2>2. Len(v.items) \in Nat /\ DOMAIN v.items = 1..Len(v.items) /\ \A i \in DOMAIN v.items : v.items[i] \in Yaml
    BY <1>2, <2>1
  <2> QED
    BY <2>1, <2>2 DEF Lower
<1>4. ASSUME v.kind = "map"
      PROVE  /\ DOMAIN v.keys = DOMAIN v.items /\ Len(v.keys) = Len(v.items)
             /\ \A i \in DOMAIN v.items : v.keys[i] \in STRING
  <2>1. v.keys \in Seq(STRING) /\ Len(v.keys) = Len(v.items) /\ v.kind \in {"seq", "map"}
    BY <1>1, <1>4
  <2>2. DOMAIN v.keys = 1..Len(v.keys) /\ \A i \in 1..Len(v.keys) : v.keys[i] \in STRING
    BY <1>2, <2>1
  <2>3. DOMAIN v.items = 1..Len(v.items)
    BY <1>3, <2>1
  <2> QED
    BY <2>1, <2>2, <2>3
<1> QED
  BY <1>1, <1>3, <1>4, Zenon

LEMMA EventsFromIs ==
    ASSUME NEW v \in Yaml, NEW f
    PROVE  /\ v.kind = "scalar" => EventsFrom(f, v) = <<Event("scalar", v.text)>>
           /\ v.kind = "alias" => EventsFrom(f, v) = <<Event("ignored", "")>>
           /\ v.kind = "seq" => EventsFrom(f, v) =
                 Enclosed("sequence_start", FlattenSeq([i \in DOMAIN v.items |-> f[v.items[i]]]))
           /\ v.kind = "map" => EventsFrom(f, v) = Enclosed("mapping_start", FlattenSeq(KeyedEvents(f, v)))
BY DEF EventsFrom

LEMMA EventTyped ==
    /\ \A text \in STRING : Event("scalar", text) \in EventSet
    /\ Event("ignored", "") \in EventSet
    /\ \A text : Event("scalar", text).type \notin Starts \cup {"end"}
    /\ Event("ignored", "").type \notin Starts \cup {"end"}
<1>1. "scalar" \in EventTypes /\ "ignored" \in EventTypes
  BY DEF EventTypes
<1>2. "scalar" \notin Starts \cup {"end"} /\ "ignored" \notin Starts \cup {"end"}
  BY DEF Starts
<1> QED
  BY <1>1, <1>2 DEF Event, EventSet

LEMMA EventsFromBalanced ==
    ASSUME NEW v \in Yaml, NEW f, \A w \in Members(v) : f[w] \in BalancedEvents
    PROVE  EventsFrom(f, v) \in BalancedEvents
<1>1. /\ v.kind \in {"scalar", "seq", "map", "alias"}
      /\ v.kind = "scalar" => v.text \in STRING
      /\ v.kind \in {"seq", "map"} => Len(v.items) \in Nat /\ DOMAIN v.items = 1..Len(v.items)
      /\ v.kind = "map" => \A i \in DOMAIN v.items : v.keys[i] \in STRING
  BY MembersAre
<1>2. CASE v.kind = "scalar"
  BY <1>1, <1>2, EventsFromIs, EventTyped, BalancedOne
<1>3. CASE v.kind = "alias"
  BY <1>3, EventsFromIs, EventTyped, BalancedOne
<1>4. ASSUME v.kind \in {"seq", "map"} PROVE \A i \in DOMAIN v.items : f[v.items[i]] \in BalancedEvents
  BY <1>4 DEF Members
<1>5. CASE v.kind = "seq"
  <2>1. PICK P : P = [i \in DOMAIN v.items |-> f[v.items[i]]]
    OBVIOUS
  <2>2. P \in Seq(BalancedEvents)
    BY <1>1, <1>4, <1>5, <2>1
  <2>3. FlattenSeq(P) \in BalancedEvents /\ "sequence_start" \in Starts
    BY <2>2, BalancedFlat DEF Starts
  <2>4. PICK I : I = FlattenSeq(P)
    OBVIOUS
  <2>5. Enclosed("sequence_start", I) \in BalancedEvents
    BY <2>3, <2>4, EnclosedIs
  <2>6. EventsFrom(f, v) = Enclosed("sequence_start", FlattenSeq([i \in DOMAIN v.items |-> f[v.items[i]]]))
    BY <1>5, EventsFromIs
  <2>7. EventsFrom(f, v) = Enclosed("sequence_start", I)
    BY <2>1, <2>4, <2>6, Zenon
  <2> QED
    BY <2>5, <2>7, Zenon
<1>6. CASE v.kind = "map"
  <2>1. PICK P : P = KeyedEvents(f, v)
    OBVIOUS
  <2>2. \A i \in DOMAIN v.items : <<Event("scalar", v.keys[i])>> \o f[v.items[i]] \in BalancedEvents
    <3> SUFFICES ASSUME NEW i \in DOMAIN v.items
                 PROVE  <<Event("scalar", v.keys[i])>> \o f[v.items[i]] \in BalancedEvents
      OBVIOUS
    <3>1. v.keys[i] \in STRING /\ f[v.items[i]] \in BalancedEvents
      BY <1>1, <1>4, <1>6
    <3>2. PICK e : e = Event("scalar", v.keys[i])
      OBVIOUS
    <3>3. e \in EventSet /\ e.type \notin Starts \cup {"end"}
      BY <3>1, <3>2, EventTyped
    <3>4. PICK x : x = <<e>>
      OBVIOUS
    <3>5. x \in BalancedEvents
      BY <3>3, <3>4, BalancedOne, Zenon
    <3>6. x \o f[v.items[i]] \in BalancedEvents
      BY <3>1, <3>5, BalancedBehind, Zenon
    <3> QED
      BY <3>2, <3>4, <3>6, Zenon
  <2>3. P \in Seq(BalancedEvents)
    <3>1. PICK n \in Nat : DOMAIN v.items = 1..n
      BY <1>1, <1>6
    <3>2. /\ P = [i \in 1..n |-> <<Event("scalar", v.keys[i])>> \o f[v.items[i]]]
          /\ \A i \in 1..n : <<Event("scalar", v.keys[i])>> \o f[v.items[i]] \in BalancedEvents
      BY <2>1, <2>2, <3>1, Zenon DEF KeyedEvents
    <3>3. \A i \in 1..n : P[i] = <<Event("scalar", v.keys[i])>> \o f[v.items[i]]
      BY <3>2
    <3>4. P \in [1..n -> BalancedEvents]
      BY <3>2, Zenon
    <3> QED
      BY <3>1, <3>4
  <2>4. FlattenSeq(P) \in BalancedEvents /\ "mapping_start" \in Starts
    BY <2>3, BalancedFlat DEF Starts
  <2>5. PICK I : I = FlattenSeq(P)
    OBVIOUS
  <2>6. Enclosed("mapping_start", I) \in BalancedEvents
    BY <2>4, <2>5, EnclosedIs
  <2>7. EventsFrom(f, v) = Enclosed("mapping_start", FlattenSeq(KeyedEvents(f, v)))
    BY <1>6, EventsFromIs
  <2>8. EventsFrom(f, v) = Enclosed("mapping_start", I)
    BY <2>1, <2>5, <2>7, Zenon
  <2> QED
    BY <2>6, <2>8, Zenon
<1> QED
  BY <1>1, <1>2, <1>3, <1>5, <1>6

LEMMA EventsFromSame ==
    ASSUME NEW v \in Yaml, NEW f, NEW g, \A w \in Members(v) : f[w] = g[w]
    PROVE  EventsFrom(f, v) = EventsFrom(g, v)
<1>1. v.kind \in {"scalar", "seq", "map", "alias"}
  BY MembersAre
<1>2. ASSUME v.kind \in {"seq", "map"} PROVE \A i \in DOMAIN v.items : f[v.items[i]] = g[v.items[i]]
  BY <1>2 DEF Members
<1>3. CASE v.kind \in {"scalar", "alias"}
  BY <1>3, EventsFromIs
<1>4. CASE v.kind = "seq"
  <2>1. [i \in DOMAIN v.items |-> f[v.items[i]]] = [i \in DOMAIN v.items |-> g[v.items[i]]]
    BY <1>2, <1>4
  <2> QED
    BY <1>4, <2>1, EventsFromIs
<1>5. CASE v.kind = "map"
  <2>1. KeyedEvents(f, v) = KeyedEvents(g, v)
    BY <1>2, <1>5 DEF KeyedEvents
  <2> QED
    BY <1>5, <2>1, EventsFromIs
<1> QED
  BY <1>1, <1>3, <1>4, <1>5

LEMMA MembersBelow ==
    ASSUME NEW v \in Yaml
    PROVE  Members(v) \subseteq Lower(Yaml, Level, Level[v]) /\ Members(v) \subseteq Yaml
<1>1. Members(v) \subseteq Lower(Yaml, Level, Level[v])
  BY MembersAre DEF Members
<1> QED
  BY <1>1 DEF Lower

(* What libyaml makes of a value follows from what it makes of its members,
   and closes what it opens. *)
LEMMA ValueEventsAre ==
    \A v \in Yaml : ValueEvents[v] = EventsFrom(ValueEvents, v) /\ ValueEvents[v] \in BalancedEvents
<1> DEFINE S == BalancedEvents
           G == [v \in Yaml |-> [h \in [Lower(Yaml, Level, Level[v]) -> S] |-> EventsFrom(h, v)]]
<1>0. \A v \in Yaml : Members(v) \subseteq Lower(Yaml, Level, Level[v]) /\ Lower(Yaml, Level, Level[v]) \subseteq Yaml
  BY MembersBelow DEF Lower
<1>1. ASSUME NEW v \in Yaml, NEW h \in [Lower(Yaml, Level, Level[v]) -> S] PROVE G[v][h] \in S
  <2>1. \A w \in Members(v) : h[w] \in BalancedEvents
    BY <1>0
  <2>2. EventsFrom(h, v) \in BalancedEvents
    BY <2>1, EventsFromBalanced
  <2> QED
    BY <2>2
<1>2. PICK f : f \in [Yaml -> S] /\ \A v \in Yaml : f[v] = G[v][[w \in Lower(Yaml, Level, Level[v]) |-> f[w]]]
  <2> HIDE DEF G, S
  <2>1. MakesUp(Yaml, Level, S, G)
    BY <1>1, Zenon DEF MakesUp
  <2>2. Level \in [Yaml -> Nat]
    BY YamlAssumption
  <2>3. \E f : f \in [Yaml -> S] /\ \A v \in Yaml : f[v] = G[v][[w \in Lower(Yaml, Level, Level[v]) |-> f[w]]]
    BY <2>1, <2>2, Upwards
  <2> QED
    BY <2>3, Zenon
<1>3. ASSUME NEW v \in Yaml PROVE f[v] = EventsFrom(f, v)
  <2> DEFINE h == [w \in Lower(Yaml, Level, Level[v]) |-> f[w]]
  <2>1. h \in [Lower(Yaml, Level, Level[v]) -> S]
    <3> HIDE DEF S
    <3> QED
      BY <1>0, <1>2
  <2>2. f[v] = EventsFrom(h, v)
    <3> HIDE DEF S, h
    <3>1. G[v][h] = EventsFrom(h, v)
      BY <2>1
    <3>2. f[v] = G[v][h]
      BY <1>2 DEF h
    <3> QED
      BY <3>1, <3>2
  <2>3. \A w \in Members(v) : h[w] = f[w]
    BY <1>0
  <2> HIDE DEF h
  <2> QED
    BY <2>2, <2>3, EventsFromSame
<1> HIDE DEF G, S
<1>4. f = [v \in Yaml |-> EventsFrom(f, v)]
  BY <1>2, <1>3
<1>5. \E g : g = [v \in Yaml |-> EventsFrom(g, v)]
  BY <1>4
<1>6. ValueEvents = [v \in Yaml |-> EventsFrom(ValueEvents, v)]
  BY <1>5 DEF ValueEvents
<1>7. \A v \in Yaml : ValueEvents[v] = EventsFrom(ValueEvents, v)
  <2>1. PICK g : g = ValueEvents
    OBVIOUS
  <2>2. g = [v \in Yaml |-> EventsFrom(g, v)]
    BY <1>6, <2>1, Zenon
  <2>3. \A v \in Yaml : g[v] = EventsFrom(g, v)
    BY <2>2
  <2> QED
    BY <2>1, <2>3, Zenon
<1> DEFINE D == {c \in Nat : \A v \in Lower(Yaml, Level, c) : ValueEvents[v] \in BalancedEvents}
<1>8. \A v \in Yaml : Level[v] \in Nat
  BY YamlAssumption
<1>9. 0 \in D
  BY <1>8 DEF Lower
<1>10. ASSUME NEW c \in Nat, c \in D PROVE c + 1 \in D
  <2> SUFFICES ASSUME NEW v \in Lower(Yaml, Level, c + 1) PROVE ValueEvents[v] \in BalancedEvents
    OBVIOUS
  <2>1. v \in Yaml /\ Level[v] < c + 1 /\ Level[v] \in Nat
    BY <1>8 DEF Lower
  <2>2. \A w \in Members(v) : w \in Lower(Yaml, Level, c)
    <3>1. \A w \in Lower(Yaml, Level, Level[v]) : w \in Lower(Yaml, Level, c)
      BY <1>8, <2>1 DEF Lower
    <3> QED
      BY <1>0, <2>1, <3>1
  <2>3. \A w \in Members(v) : ValueEvents[w] \in BalancedEvents
    BY <1>10, <2>2
  <2>4. EventsFrom(ValueEvents, v) \in BalancedEvents
    BY <2>1, <2>3, EventsFromBalanced
  <2> QED
    BY <1>7, <2>1, <2>4
<1> HIDE DEF D
<1>11. Nat \subseteq D
  BY <1>9, <1>10, Induction
<1>12. ASSUME NEW v \in Yaml PROVE ValueEvents[v] \in BalancedEvents
  <2>1. Level[v] + 1 \in D /\ v \in Lower(Yaml, Level, Level[v] + 1)
    BY <1>8, <1>11 DEF Lower
  <2> QED
    BY <2>1 DEF D
<1> QED
  BY <1>7, <1>12

-----------------------------------------------------------------------------
(* The texts of a value.                                                   *)

LEMMA TextsFromIs ==
    ASSUME NEW v \in Yaml, NEW f
    PROVE  /\ v.kind = "scalar" => TextsFrom(f, v) = <<v.text>>
           /\ v.kind = "seq" => TextsFrom(f, v) = FlattenSeq([i \in DOMAIN v.items |-> f[v.items[i]]])
           /\ v.kind \notin {"scalar", "seq"} => TextsFrom(f, v) = <<>>
BY DEF TextsFrom

LEMMA TextsFromTyped ==
    ASSUME NEW v \in Yaml, NEW f, \A w \in Members(v) : f[w] \in Seq(STRING)
    PROVE  TextsFrom(f, v) \in Seq(STRING)
<1>1. /\ v.kind = "scalar" => v.text \in STRING
      /\ v.kind = "seq" => Len(v.items) \in Nat /\ DOMAIN v.items = 1..Len(v.items)
  BY MembersAre
<1>2. CASE v.kind = "scalar"
  <2>1. \A T : \A x \in T : <<x>> \in Seq(T)
    OBVIOUS
  <2>2. <<v.text>> \in Seq(STRING)
    BY <1>1, <1>2, <2>1, Zenon
  <2> QED
    BY <1>2, <2>2, TextsFromIs
<1>3. CASE v.kind = "seq"
  <2>1. PICK P : P = [i \in DOMAIN v.items |-> f[v.items[i]]]
    OBVIOUS
  <2>2. P \in Seq(Seq(STRING))
    <3>1. \A i \in DOMAIN v.items : f[v.items[i]] \in Seq(STRING)
      BY <1>3 DEF Members
    <3> QED
      BY <1>1, <1>3, <2>1, <3>1
  <2>3. FlattenSeq(P) \in Seq(STRING)
    BY <2>2, FlattenType
  <2>4. TextsFrom(f, v) = FlattenSeq([i \in DOMAIN v.items |-> f[v.items[i]]])
    BY <1>3, TextsFromIs
  <2> QED
    BY <2>1, <2>3, <2>4, Zenon
<1>4. CASE v.kind \notin {"scalar", "seq"}
  <2>1. <<>> \in Seq(STRING)
    OBVIOUS
  <2> QED
    BY <1>4, <2>1, TextsFromIs
<1> QED
  BY <1>2, <1>3, <1>4

LEMMA TextsFromSame ==
    ASSUME NEW v \in Yaml, NEW f, NEW g, \A w \in Members(v) : f[w] = g[w]
    PROVE  TextsFrom(f, v) = TextsFrom(g, v)
<1>1. ASSUME v.kind = "seq" PROVE [i \in DOMAIN v.items |-> f[v.items[i]]] = [i \in DOMAIN v.items |-> g[v.items[i]]]
  BY <1>1 DEF Members
<1>2. CASE v.kind = "seq"
  BY <1>1, <1>2, TextsFromIs
<1>3. CASE v.kind # "seq"
  BY <1>3, TextsFromIs
<1> QED
  BY <1>2, <1>3

(* The texts of a value are those of its members. *)
LEMMA TextsAre ==
    \A v \in Yaml : Texts[v] = TextsFrom(Texts, v)
<1> DEFINE S == Seq(STRING)
           G == [v \in Yaml |-> [h \in [Lower(Yaml, Level, Level[v]) -> S] |-> TextsFrom(h, v)]]
<1>0. \A v \in Yaml : Members(v) \subseteq Lower(Yaml, Level, Level[v]) /\ Lower(Yaml, Level, Level[v]) \subseteq Yaml
  BY MembersBelow DEF Lower
<1>1. ASSUME NEW v \in Yaml, NEW h \in [Lower(Yaml, Level, Level[v]) -> S] PROVE G[v][h] \in S
  <2> HIDE DEF S
  <2>1. \A w \in Members(v) : h[w] \in S
    BY <1>0
  <2>2. TextsFrom(h, v) \in S
    BY <2>1, TextsFromTyped DEF S
  <2> QED
    BY <2>2
<1>2. PICK f : f \in [Yaml -> S] /\ \A v \in Yaml : f[v] = G[v][[w \in Lower(Yaml, Level, Level[v]) |-> f[w]]]
  <2> HIDE DEF G, S
  <2>1. MakesUp(Yaml, Level, S, G)
    BY <1>1, Zenon DEF MakesUp
  <2>2. Level \in [Yaml -> Nat]
    BY YamlAssumption
  <2>3. \E f : f \in [Yaml -> S] /\ \A v \in Yaml : f[v] = G[v][[w \in Lower(Yaml, Level, Level[v]) |-> f[w]]]
    BY <2>1, <2>2, Upwards
  <2> QED
    BY <2>3, Zenon
<1>3. ASSUME NEW v \in Yaml PROVE f[v] = TextsFrom(f, v)
  <2> DEFINE h == [w \in Lower(Yaml, Level, Level[v]) |-> f[w]]
  <2>1. h \in [Lower(Yaml, Level, Level[v]) -> S]
    <3> HIDE DEF S
    <3> QED
      BY <1>0, <1>2
  <2>2. f[v] = TextsFrom(h, v)
    <3> HIDE DEF S, h
    <3>1. G[v][h] = TextsFrom(h, v)
      BY <2>1
    <3>2. f[v] = G[v][h]
      BY <1>2 DEF h
    <3> QED
      BY <3>1, <3>2
  <2>3. \A w \in Members(v) : h[w] = f[w]
    BY <1>0
  <2> HIDE DEF h
  <2> QED
    BY <2>2, <2>3, TextsFromSame
<1> HIDE DEF G, S
<1>4. f = [v \in Yaml |-> TextsFrom(f, v)]
  BY <1>2, <1>3
<1>5. \E g : g = [v \in Yaml |-> TextsFrom(g, v)]
  BY <1>4
<1>6. Texts = [v \in Yaml |-> TextsFrom(Texts, v)]
  BY <1>5 DEF Texts
<1>7. PICK g : g = Texts
  OBVIOUS
<1>8. g = [v \in Yaml |-> TextsFrom(g, v)]
  BY <1>6, <1>7, Zenon
<1>9. \A v \in Yaml : g[v] = TextsFrom(g, v)
  BY <1>8
<1> QED
  BY <1>7, <1>9, Zenon

-----------------------------------------------------------------------------
(* A document of one mapping is laid out as its keys are.                  *)

(* s begins with t, a key and what belongs to it. *)
LEMMA KeyFollows ==
    ASSUME NEW s, NEW t \in Seq(EventSet), NEW a \in EventSet, NEW e \in BalancedEvents,
           a.type \notin Starts \cup {"end"}, Begins(t \o (<<a>> \o e), s), DepthAt(t, Len(t)) = 1
    PROVE  /\ Len(t) \in Nat /\ Len(e) \in Nat /\ Len(t \o (<<a>> \o e)) = Len(t) + 1 + Len(e)
           /\ s[Len(t) + 1] = a /\ DepthAt(s, Len(t) + 1) = 1
           /\ \A i \in 1..Len(e) : /\ s[Len(t) + 1 + i] = e[i]
                                   /\ DepthAt(s, Len(t) + 1 + i) = 1 + DepthAt(e, i)
<1>1. PICK x : x = <<a>>
  OBVIOUS
<1>2. x \in BalancedEvents /\ Len(x) = 1 /\ x[1] = a
  <2>1. <<a>> \in BalancedEvents /\ Len(<<a>>) = 1 /\ <<a>>[1] = a
    BY BalancedOne
  <2> QED
    BY <1>1, <2>1, Zenon
<1>3. x \in Seq(EventSet) /\ e \in Seq(EventSet) /\ DepthAt(x, Len(x)) = 0
  BY <1>2 DEF BalancedEvents, Balanced
<1>4. PICK y : y = x \o e
  OBVIOUS
<1>5. /\ y \in Seq(EventSet) /\ Len(e) \in Nat /\ Len(y) = 1 + Len(e) /\ Len(y) \in Nat
      /\ \A j \in 1..(1 + Len(e)) : y[j] = IF j <= 1 THEN x[j] ELSE e[j - 1]
  <2>1. /\ x \o e \in Seq(EventSet) /\ Len(e) \in Nat /\ Len(x) \in Nat /\ Len(x \o e) = Len(x) + Len(e)
        /\ \A j \in 1..(Len(x) + Len(e)) : (x \o e)[j] = IF j <= Len(x) THEN x[j] ELSE e[j - Len(x)]
    BY <1>3, ConcatAt
  <2>2. /\ y \in Seq(EventSet) /\ Len(y) = Len(x) + Len(e)
        /\ \A j \in 1..(Len(x) + Len(e)) : y[j] = IF j <= Len(x) THEN x[j] ELSE e[j - Len(x)]
    BY <1>4, <2>1, Zenon
  <2> QED
    BY <1>2, <2>1, <2>2
<1>6. \A i \in 0..Len(e) : DepthAt(y, 1 + i) = DepthAt(e, i)
  <2> SUFFICES ASSUME NEW i \in 0..Len(e) PROVE DepthAt(y, 1 + i) = DepthAt(e, i)
    OBVIOUS
  <2>1. i \in Nat /\ i <= Len(e)
    BY <1>5
  <2>2. DepthAt(x \o e, Len(x) + i) = DepthAt(x, Len(x)) + DepthAt(e, i)
    BY <1>3, <2>1, DepthBehind
  <2>3. DepthAt(e, i) \in Int
    BY <2>1, DepthNextIs
  <2> QED
    BY <1>2, <1>3, <1>4, <2>2, <2>3
<1>7. PICK z : z = t \o y
  OBVIOUS
<1>8. /\ z \in Seq(EventSet) /\ Len(t) \in Nat /\ Len(z) = Len(t) + Len(y) /\ Len(z) \in Nat
      /\ \A j \in 1..(Len(t) + Len(y)) : z[j] = IF j <= Len(t) THEN t[j] ELSE y[j - Len(t)]
  <2>1. /\ t \o y \in Seq(EventSet) /\ Len(t) \in Nat /\ Len(t \o y) = Len(t) + Len(y)
        /\ \A j \in 1..(Len(t) + Len(y)) : (t \o y)[j] = IF j <= Len(t) THEN t[j] ELSE y[j - Len(t)]
    <3>1. t \in Seq(EventSet) /\ y \in Seq(EventSet)
      BY <1>5
    <3> QED
      BY <3>1, ConcatAt
  <2>2. /\ z \in Seq(EventSet) /\ Len(z) = Len(t) + Len(y)
        /\ \A j \in 1..(Len(t) + Len(y)) : z[j] = IF j <= Len(t) THEN t[j] ELSE y[j - Len(t)]
    BY <1>7, <2>1, Zenon
  <2> QED
    BY <1>5, <2>1, <2>2
<1>9. Begins(z, s)
  BY <1>1, <1>4, <1>7, Zenon
<1>10. ASSUME NEW i \in 0..Len(e)
       PROVE  /\ s[Len(t) + 1 + i] = y[1 + i]
              /\ DepthAt(s, Len(t) + 1 + i) = 1 + DepthAt(e, i)
  <2>1. i \in Nat /\ i <= Len(e)
    BY <1>5
  <2>2. Len(t) + 1 + i \in 1..Len(z) /\ Len(t) + 1 + i \in Nat /\ 1 + i \in Nat /\ 1 + i <= Len(y)
        /\ Len(t) + (1 + i) = Len(t) + 1 + i
    BY <1>5, <1>8, <2>1
  <2>3. s[Len(t) + 1 + i] = z[Len(t) + 1 + i]
    BY <1>9, <2>2 DEF Begins
  <2>4. z[Len(t) + 1 + i] = y[1 + i]
    <3>1. Len(t) + 1 + i > Len(t) /\ Len(t) + 1 + i - Len(t) = 1 + i /\ Len(t) + 1 + i \in 1..(Len(t) + Len(y))
      BY <1>8, <2>1, <2>2
    <3>2. \A j \in 1..(Len(t) + Len(y)) : j > Len(t) => z[j] = y[j - Len(t)]
      BY <1>8
    <3> QED
      BY <3>1, <3>2
  <2>5. DepthAt(s, Len(t) + 1 + i) = DepthAt(z, Len(t) + 1 + i)
    BY <1>8, <1>9, <2>2, DepthBegins
  <2>6. DepthAt(t \o y, Len(t) + (1 + i)) = DepthAt(t, Len(t)) + DepthAt(y, 1 + i)
    BY <1>5, <2>2, DepthBehind
  <2>7. DepthAt(y, 1 + i) = DepthAt(e, i)
    BY <1>6
  <2> QED
    BY <1>7, <2>2, <2>3, <2>4, <2>5, <2>6, <2>7
<1>11. 0 \in 0..Len(e) /\ DepthAt(e, 0) = 0 /\ \A i \in 1..Len(e) : i \in 0..Len(e)
  BY <1>5, DepthNextIs
<1>12. s[Len(t) + 1] = a /\ DepthAt(s, Len(t) + 1) = 1
  <2>1. s[Len(t) + 1 + 0] = y[1 + 0] /\ DepthAt(s, Len(t) + 1 + 0) = 1 + DepthAt(e, 0)
    BY <1>10, <1>11
  <2>2. y[1] = a /\ Len(t) + 1 + 0 = Len(t) + 1 /\ 1 + 0 = 1
    <3>1. 1 \in 1..(1 + Len(e)) /\ 1 <= 1
      BY <1>5
    <3> QED
      BY <1>2, <1>5, <1>8, <3>1
  <2> QED
    BY <1>11, <2>1, <2>2
<1>13. \A i \in 1..Len(e) : y[1 + i] = e[i]
  <2> SUFFICES ASSUME NEW i \in 1..Len(e) PROVE y[1 + i] = e[i]
    OBVIOUS
  <2>1. 1 + i \in 1..(1 + Len(e)) /\ ~(1 + i <= 1) /\ 1 + i - 1 = i
    BY <1>5
  <2> QED
    BY <1>5, <2>1
<1>14. Len(t \o (<<a>> \o e)) = Len(t) + 1 + Len(e)
  <2>1. t \o (<<a>> \o e) = z
    BY <1>1, <1>4, <1>7, Zenon
  <2>2. Len(z) = Len(t) + 1 + Len(e)
    BY <1>5, <1>8
  <2> QED
    BY <2>1, <2>2, Zenon
<1> QED
  BY <1>5, <1>8, <1>10, <1>11, <1>12, <1>13, <1>14

LEMMA EventWithout == \A type \in EventTypes : Event(type, "") \in EventSet /\ Event(type, "").type = type
<1>1. "" \in STRING \cup {""}
  OBVIOUS
<1> QED
  BY <1>1, Zenon DEF Event, EventSet

(* The events of a mapping before its key after the c-th, and the places of
   its keys. *)
Ahead(v, c) == <<Event("mapping_start", "")>> \o FlattenSeq(SubSeq(KeyedEvents(ValueEvents, v), 1, c))
Places(v) == [k \in 0..(Len(v.items) + 1) |-> IF k = 0 THEN 1 ELSE Len(Ahead(v, k - 1)) + 1]

LEMMA KeyedEventsAre ==
    ASSUME NEW v \in Yaml, v.kind = "map"
    PROVE  /\ KeyedEvents(ValueEvents, v) \in Seq(BalancedEvents)
           /\ KeyedEvents(ValueEvents, v) \in Seq(Seq(EventSet))
           /\ Len(KeyedEvents(ValueEvents, v)) = Len(v.items) /\ Len(v.items) \in Nat
           /\ \A i \in 1..Len(v.items) :
                 /\ KeyedEvents(ValueEvents, v)[i] = <<Event("scalar", v.keys[i])>> \o ValueEvents[v.items[i]]
                 /\ v.keys[i] \in STRING /\ v.items[i] \in Yaml
<1>1. /\ Len(v.items) \in Nat /\ DOMAIN v.items = 1..Len(v.items)
      /\ \A i \in DOMAIN v.items : v.keys[i] \in STRING /\ v.items[i] \in Lower(Yaml, Level, Level[v])
  BY MembersAre
<1>2. \A i \in DOMAIN v.items : v.keys[i] \in STRING /\ v.items[i] \in Yaml
  BY <1>1 DEF Lower
<1>3. PICK n \in Nat : n = Len(v.items) /\ DOMAIN v.items = 1..n
  BY <1>1
<1>4. PICK P : P = KeyedEvents(ValueEvents, v)
  OBVIOUS
<1>5. P = [i \in 1..n |-> <<Event("scalar", v.keys[i])>> \o ValueEvents[v.items[i]]]
  BY <1>3, <1>4, Zenon DEF KeyedEvents
<1>6. \A i \in 1..n : P[i] = <<Event("scalar", v.keys[i])>> \o ValueEvents[v.items[i]]
  BY <1>5
<1>7. ASSUME NEW i \in 1..n PROVE <<Event("scalar", v.keys[i])>> \o ValueEvents[v.items[i]] \in BalancedEvents
  <2>1. v.keys[i] \in STRING /\ ValueEvents[v.items[i]] \in BalancedEvents
    BY <1>2, <1>3, ValueEventsAre
  <2>2. PICK e : e = Event("scalar", v.keys[i])
    OBVIOUS
  <2>3. e \in EventSet /\ e.type \notin Starts \cup {"end"}
    BY <2>1, <2>2, EventTyped
  <2>4. PICK x : x = <<e>>
    OBVIOUS
  <2>5. x \in BalancedEvents
    BY <2>3, <2>4, BalancedOne, Zenon
  <2>6. x \o ValueEvents[v.items[i]] \in BalancedEvents
    BY <2>1, <2>5, BalancedBehind, Zenon
  <2> QED
    BY <2>2, <2>4, <2>6, Zenon
<1>8. P \in [1..n -> BalancedEvents]
  BY <1>5, <1>7, Zenon
<1>9. P \in Seq(BalancedEvents) /\ Len(P) = n
  BY <1>8
<1>10. P \in Seq(Seq(EventSet))
  <2>1. BalancedEvents \subseteq Seq(EventSet)
    BY DEF BalancedEvents
  <2>2. \A A, B : A \subseteq B => \A q \in Seq(A) : q \in Seq(B)
    OBVIOUS
  <2> QED
    BY <1>9, <2>1, <2>2, Zenon
<1> QED
  BY <1>2, <1>3, <1>4, <1>6, <1>9, <1>10, Zenon

LEMMA AheadIs ==
    ASSUME NEW v \in Yaml, v.kind = "map", NEW c \in 0..Len(v.items)
    PROVE  /\ Ahead(v, c) \in Seq(EventSet) /\ Len(Ahead(v, c)) \in Nat /\ Len(Ahead(v, c)) >= 1
           /\ Ahead(v, c)[1].type = "mapping_start" /\ DepthAt(Ahead(v, c), Len(Ahead(v, c))) = 1
           /\ c = 0 => Len(Ahead(v, c)) = 1
<1>1. PICK P : P = SubSeq(KeyedEvents(ValueEvents, v), 1, c)
  OBVIOUS
<1>2. P \in Seq(BalancedEvents) /\ (c = 0 => P = <<>>)
  <2>1. KeyedEvents(ValueEvents, v) \in Seq(BalancedEvents) /\ Len(KeyedEvents(ValueEvents, v)) = Len(v.items)
        /\ Len(v.items) \in Nat
    BY KeyedEventsAre
  <2>2. \A T : \A q \in Seq(T) : \A m \in 0..Len(q) : SubSeq(q, 1, m) \in Seq(T) /\ (m = 0 => SubSeq(q, 1, m) = <<>>)
    OBVIOUS
  <2>3. c \in 0..Len(KeyedEvents(ValueEvents, v))
    BY <2>1, Zenon
  <2> QED
    BY <1>1, <2>1, <2>2, <2>3, Zenon
<1>3. PICK y : y = FlattenSeq(P)
  OBVIOUS
<1>4. y \in BalancedEvents /\ (c = 0 => y = <<>>)
  <2>1. FlattenSeq(<<>>) = <<>>
    <3>1. <<>> \in Seq(EventSet)
      OBVIOUS
    <3> QED
      BY <3>1, FlattenIs
  <2>2. FlattenSeq(P) \in BalancedEvents
    BY <1>2, BalancedFlat
  <2> QED
    BY <1>2, <1>3, <2>1, <2>2, Zenon
<1>5. PICK x : x = <<Event("mapping_start", "")>>
  OBVIOUS
<1>6. x \in Seq(EventSet) /\ Len(x) = 1 /\ x[1].type = "mapping_start" /\ DepthAt(x, Len(x)) = 1
  <2>1. Event("mapping_start", "") \in EventSet /\ Event("mapping_start", "").type = "mapping_start"
    <3>1. "mapping_start" \in EventTypes
      BY DEF EventTypes, Starts
    <3> QED
      BY <3>1, EventWithout
  <2>2. PICK e : e = Event("mapping_start", "")
    OBVIOUS
  <2>3. \A T : \A q \in T : <<q>> \in Seq(T) /\ Len(<<q>>) = 1 /\ <<q>>[1] = q
    OBVIOUS
  <2>4. x \in Seq(EventSet) /\ Len(x) = 1 /\ x[1] = e
    BY <1>5, <2>1, <2>2, <2>3, Zenon
  <2>5. x[1].type = "mapping_start" /\ "mapping_start" \in Starts
    BY <2>1, <2>2, <2>4 DEF Starts
  <2>6. DepthAt(x, 0) = 0 /\ (x[0 + 1].type \in Starts => DepthAt(x, 0 + 1) = DepthAt(x, 0) + 1)
    BY DepthNextIs
  <2>7. 0 + 1 = 1
    OBVIOUS
  <2>8. DepthAt(x, 1) = 1
    BY <2>5, <2>6, <2>7
  <2> QED
    BY <2>4, <2>5, <2>8
<1>7. y \in Seq(EventSet) /\ DepthAt(y, Len(y)) = 0
  BY <1>4 DEF BalancedEvents, Balanced
<1>8. PICK z : z = x \o y
  OBVIOUS
<1>9. Ahead(v, c) = z
  BY <1>1, <1>3, <1>5, <1>8, Zenon DEF Ahead
<1>10. /\ z \in Seq(EventSet) /\ Len(y) \in Nat /\ Len(z) = 1 + Len(y) /\ z[1] = x[1]
  <2>1. /\ x \o y \in Seq(EventSet) /\ Len(y) \in Nat /\ Len(x \o y) = Len(x) + Len(y)
        /\ \A j \in 1..(Len(x) + Len(y)) : (x \o y)[j] = IF j <= Len(x) THEN x[j] ELSE y[j - Len(x)]
    <3>1. x \in Seq(EventSet) /\ y \in Seq(EventSet)
      BY <1>6, <1>7
    <3> QED
      BY <3>1, ConcatAt
  <2>2. 1 \in 1..(Len(x) + Len(y)) /\ 1 <= Len(x)
    BY <1>6, <2>1
  <2>3. (x \o y)[1] = x[1]
    BY <2>1, <2>2
  <2> QED
    BY <1>6, <1>8, <2>1, <2>3
<1>11. DepthAt(z, Len(z)) = 1
  <2>1. Len(y) <= Len(y)
    BY <1>10
  <2>2. DepthAt(x \o y, Len(x) + Len(y)) = DepthAt(x, Len(x)) + DepthAt(y, Len(y))
    BY <1>6, <1>7, <1>10, <2>1, DepthBehind
  <2>3. DepthAt(z, Len(x) + Len(y)) = DepthAt(x, Len(x)) + DepthAt(y, Len(y))
    BY <1>8, <2>2, Zenon
  <2> QED
    BY <1>6, <1>7, <1>10, <2>3
<1>12. c = 0 => Len(z) = 1
  <2>1. Len(<<>>) = 0
    OBVIOUS
  <2>2. c = 0 => Len(y) = 0
    BY <1>4, <2>1, Zenon
  <2> QED
    BY <1>10, <2>2
<1>13. Len(z) \in Nat /\ Len(z) >= 1
  BY <1>10
<1> QED
  BY <1>6, <1>9, <1>10, <1>11, <1>12, <1>13, Zenon

LEMMA AheadNext ==
    ASSUME NEW v \in Yaml, v.kind = "map", NEW c \in 1..Len(v.items)
    PROVE  Ahead(v, c) = Ahead(v, c - 1) \o (<<Event("scalar", v.keys[c])>> \o ValueEvents[v.items[c]])
<1>1. PICK P : P = KeyedEvents(ValueEvents, v)
  OBVIOUS
<1>2. /\ P \in Seq(Seq(EventSet)) /\ Len(P) = Len(v.items) /\ Len(v.items) \in Nat
      /\ P[c] = <<Event("scalar", v.keys[c])>> \o ValueEvents[v.items[c]]
  BY <1>1, KeyedEventsAre, Zenon
<1>3. PICK b : b = c - 1
  OBVIOUS
<1>4. b \in 0..(Len(P) - 1) /\ c = b + 1
  BY <1>2, <1>3
<1>5. FlattenSeq(SubSeq(P, 1, b + 1)) = FlattenSeq(SubSeq(P, 1, b)) \o P[b + 1]
  BY <1>2, <1>4, FlattenSingle
<1>6. PICK x, y, z, w : x = <<Event("mapping_start", "")>> /\ y = FlattenSeq(SubSeq(P, 1, b)) /\ z = P[c]
                        /\ w = FlattenSeq(SubSeq(P, 1, c))
  OBVIOUS
<1>7. w = y \o z
  BY <1>4, <1>5, <1>6, Zenon
<1>8. x \in Seq(EventSet) /\ y \in Seq(EventSet) /\ z \in Seq(EventSet)
  <2>1. z \in Seq(EventSet) /\ SubSeq(P, 1, b) \in Seq(Seq(EventSet))
    <3>1. \A T : \A q \in Seq(T) : \A m \in 0..(Len(q) - 1) : SubSeq(q, 1, m) \in Seq(T) /\ q[m + 1] \in T
      OBVIOUS
    <3> QED
      BY <1>2, <1>4, <1>6, <3>1, Zenon
  <2>2. y \in Seq(EventSet)
    BY <1>6, <2>1, FlattenType
  <2>3. Event("mapping_start", "") \in EventSet
    <3>1. "mapping_start" \in EventTypes
      BY DEF EventTypes, Starts
    <3> QED
      BY <3>1, EventWithout
  <2>4. \A T : \A q \in T : <<q>> \in Seq(T)
    OBVIOUS
  <2>5. x \in Seq(EventSet)
    BY <1>6, <2>3, <2>4, Zenon
  <2> QED
    BY <2>1, <2>2, <2>5
<1>9. x \o (y \o z) = (x \o y) \o z
  BY <1>8, ConcatRegroup
<1>10. Ahead(v, c) = x \o w /\ Ahead(v, b) = x \o y
  BY <1>1, <1>6, Zenon DEF Ahead
<1> QED
  BY <1>2, <1>3, <1>6, <1>7, <1>9, <1>10, Zenon

LEMMA BeginsFirst ==
    ASSUME NEW T, NEW x \in Seq(T), NEW y \in Seq(T)
    PROVE  Begins(x, x \o y)
<1>1. /\ Len(x) \in Nat /\ Len(y) \in Nat /\ Len(x \o y) = Len(x) + Len(y)
      /\ \A j \in 1..(Len(x) + Len(y)) : (x \o y)[j] = IF j <= Len(x) THEN x[j] ELSE y[j - Len(x)]
  BY ConcatAt
<1> QED
  BY <1>1 DEF Begins

LEMMA BeginsOn ==
    ASSUME NEW a, NEW b, NEW c, Begins(a, b), Begins(b, c), Len(a) \in Nat, Len(b) \in Nat, Len(c) \in Nat
    PROVE  Begins(a, c)
<1>1. Len(a) <= Len(b) /\ Len(b) <= Len(c)
  BY DEF Begins
<1>2. ASSUME NEW i \in 1..Len(a) PROVE c[i] = a[i]
  <2>1. i \in 1..Len(b)
    BY <1>1
  <2> QED
    BY <2>1 DEF Begins
<1> QED
  BY <1>1, <1>2 DEF Begins

LEMMA AheadBegins ==
    ASSUME NEW v \in Yaml, v.kind = "map"
    PROVE  \A m \in 0..Len(v.items) : \A c \in 0..m : Begins(Ahead(v, c), Ahead(v, m))
<1> DEFINE D == {m \in Nat : m \in 0..Len(v.items) => \A c \in 0..m : Begins(Ahead(v, c), Ahead(v, m))}
<1>0. Len(v.items) \in Nat
  BY KeyedEventsAre
<1>1. \A c \in 0..Len(v.items) : Ahead(v, c) \in Seq(EventSet) /\ Len(Ahead(v, c)) \in Nat
  BY AheadIs
<1>2. \A c \in 0..Len(v.items) : Begins(Ahead(v, c), Ahead(v, c))
  BY <1>1 DEF Begins
<1>3. 0 \in D
  <2>1. \A c \in 0..0 : c = 0
    OBVIOUS
  <2>2. 0 \in 0..Len(v.items)
    BY <1>0
  <2> QED
    BY <1>2, <2>1, <2>2
<1>4. ASSUME NEW m \in Nat, m \in D PROVE m + 1 \in D
  <2> SUFFICES ASSUME m + 1 \in 0..Len(v.items), NEW c \in 0..(m + 1) PROVE Begins(Ahead(v, c), Ahead(v, m + 1))
    OBVIOUS
  <2>1. m \in 0..Len(v.items) /\ m + 1 \in 1..Len(v.items) /\ m + 1 - 1 = m
    BY <1>0
  <2>2. Ahead(v, m + 1) = Ahead(v, m) \o (<<Event("scalar", v.keys[m + 1])>> \o ValueEvents[v.items[m + 1]])
    <3>1. PICK b : b = m + 1
      OBVIOUS
    <3>2. b \in 1..Len(v.items) /\ b - 1 = m
      BY <2>1, <3>1
    <3>3. Ahead(v, b) = Ahead(v, b - 1) \o (<<Event("scalar", v.keys[b])>> \o ValueEvents[v.items[b]])
      BY <3>2, AheadNext
    <3> QED
      BY <3>1, <3>2, <3>3, Zenon
  <2>3. PICK y : y = <<Event("scalar", v.keys[m + 1])>> \o ValueEvents[v.items[m + 1]]
    OBVIOUS
  <2>4. y \in Seq(EventSet)
    <3>1. y = KeyedEvents(ValueEvents, v)[m + 1]
      BY <2>1, <2>3, KeyedEventsAre, Zenon
    <3>2. PICK P : P = KeyedEvents(ValueEvents, v)
      OBVIOUS
    <3>3. P \in Seq(Seq(EventSet)) /\ Len(P) = Len(v.items)
      BY <3>2, KeyedEventsAre, Zenon
    <3> QED
      BY <2>1, <3>1, <3>2, <3>3
  <2>5. Begins(Ahead(v, m), Ahead(v, m) \o y)
    BY <1>1, <2>1, <2>4, BeginsFirst
  <2>6. Begins(Ahead(v, m), Ahead(v, m + 1))
    BY <2>2, <2>3, <2>5, Zenon
  <2>7. CASE c = m + 1
    BY <1>2, <2>7
  <2>8. CASE c # m + 1
    <3>1. c \in 0..m /\ c \in 0..Len(v.items)
      BY <2>1, <2>8
    <3>2. Begins(Ahead(v, c), Ahead(v, m))
      BY <1>4, <2>1, <3>1
    <3>3. Len(Ahead(v, c)) \in Nat /\ Len(Ahead(v, m)) \in Nat /\ Len(Ahead(v, m + 1)) \in Nat
      BY <1>1, <2>1, <3>1
    <3> QED
      BY <2>6, <3>2, <3>3, BeginsOn
  <2> QED
    BY <2>7, <2>8
<1> HIDE DEF D
<1>5. Nat \subseteq D
  BY <1>3, <1>4, Induction
<1> SUFFICES ASSUME NEW m \in 0..Len(v.items) PROVE \A c \in 0..m : Begins(Ahead(v, c), Ahead(v, m))
  OBVIOUS
<1>6. m \in D
  BY <1>0, <1>5
<1> QED
  BY <1>6 DEF D

LEMMA StreamIs ==
    ASSUME NEW d \in Seq(Yaml), Len(d) = 1, NEW v, v = d[1], v.kind = "map"
    PROVE  /\ v \in Yaml /\ Len(Stream(d)) = Len(Ahead(v, Len(v.items))) + 2
           /\ Begins(Ahead(v, Len(v.items)), Stream(d))
           /\ Stream(d)[Len(Ahead(v, Len(v.items))) + 1].type = "end"
<1>1. v \in Yaml /\ DOMAIN d = 1..1
  OBVIOUS
<1>2. v \in Yaml /\ Len(v.items) \in Nat /\ Len(KeyedEvents(ValueEvents, v)) = Len(v.items)
      /\ KeyedEvents(ValueEvents, v) \in Seq(Seq(EventSet)) /\ Len(v.items) \in 0..Len(v.items)
  BY <1>1, KeyedEventsAre
<1>3. PICK x : x = Ahead(v, Len(v.items))
  OBVIOUS
<1>4. x \in Seq(EventSet) /\ Len(x) \in Nat
  BY <1>2, <1>3, AheadIs
<1>5. PICK z, y : z = <<Event("end", "")>> /\ y = x \o z
  OBVIOUS
<1>6. ValueEvents[v] = y
  <2>1. ValueEvents[v] = EventsFrom(ValueEvents, v)
    BY <1>1, ValueEventsAre
  <2>2. EventsFrom(ValueEvents, v) = Enclosed("mapping_start", FlattenSeq(KeyedEvents(ValueEvents, v)))
    BY <1>1, EventsFromIs
  <2>3. SubSeq(KeyedEvents(ValueEvents, v), 1, Len(v.items)) = KeyedEvents(ValueEvents, v)
    <3>1. \A T : \A q \in Seq(T) : SubSeq(q, 1, Len(q)) = q
      OBVIOUS
    <3> QED
      BY <1>2, <3>1, Zenon
  <2> QED
    BY <1>3, <1>5, <2>1, <2>2, <2>3, Zenon DEF Enclosed, Ahead
<1>7. PICK e : e = Event("end", "")
  OBVIOUS
<1>8. e \in EventSet /\ e.type = "end"
  <2>1. "end" \in EventTypes
    BY DEF EventTypes
  <2> QED
    BY <1>7, <2>1, EventWithout
<1>9. z \in Seq(EventSet) /\ Len(z) = 1 /\ z[1] = e
  <2>1. \A T : \A q \in T : <<q>> \in Seq(T) /\ Len(<<q>>) = 1 /\ <<q>>[1] = q
    OBVIOUS
  <2> QED
    BY <1>5, <1>7, <1>8, <2>1, Zenon
<1>10. /\ y \in Seq(EventSet) /\ Len(y) = Len(x) + 1 /\ y[Len(x) + 1] = e /\ Begins(x, y)
  <2>1. /\ x \o z \in Seq(EventSet) /\ Len(x \o z) = Len(x) + Len(z)
        /\ \A j \in 1..(Len(x) + Len(z)) : (x \o z)[j] = IF j <= Len(x) THEN x[j] ELSE z[j - Len(x)]
    <3>1. x \in Seq(EventSet) /\ z \in Seq(EventSet)
      BY <1>4, <1>9
    <3> QED
      BY <3>1, ConcatAt
  <2>2. Begins(x, x \o z)
    BY <1>4, <1>9, BeginsFirst
  <2>3. (x \o z)[Len(x) + 1] = z[1]
    <3>1. Len(x) + 1 \in 1..(Len(x) + Len(z)) /\ ~(Len(x) + 1 <= Len(x)) /\ Len(x) + 1 - Len(x) = 1
      BY <1>4, <1>9
    <3> QED
      BY <2>1, <3>1
  <2> QED
    BY <1>5, <1>9, <2>1, <2>2, <2>3, Zenon
<1>11. PICK Q : Q = [i \in DOMAIN d |-> ValueEvents[d[i]]]
  OBVIOUS
<1>12. FlattenSeq(Q) = y
  <2>1. Q = [i \in 1..1 |-> ValueEvents[d[i]]]
    BY <1>1, <1>11, Zenon
  <2>2. Q[1] = y
    <3>1. Q[1] = ValueEvents[d[1]]
      BY <2>1
    <3> QED
      BY <1>6, <3>1, Zenon
  <2>3. Q \in Seq(Seq(EventSet)) /\ Len(Q) = 1
    <3>1. \A i \in 1..1 : i = 1
      OBVIOUS
    <3>2. \A i \in 1..1 : ValueEvents[d[i]] \in Seq(EventSet)
      BY <1>6, <1>10, <3>1, Zenon
    <3>3. Q \in [1..1 -> Seq(EventSet)]
      BY <2>1, <3>2, Zenon
    <3>4. PICK T : T = Seq(EventSet)
      OBVIOUS
    <3>5. Q \in [1..1 -> T]
      BY <3>3, <3>4, Zenon
    <3>6. Q \in Seq(T) /\ Len(Q) = 1
      <4>1. 1 \in Nat /\ \A A : \A n \in Nat : \A q \in [1..n -> A] : q \in Seq(A) /\ Len(q) = n
        OBVIOUS
      <4> QED
        BY <3>5, <4>1, Zenon
    <3> QED
      BY <3>4, <3>6, Zenon
  <2>4. FlattenSeq(SubSeq(Q, 1, 0 + 1)) = FlattenSeq(SubSeq(Q, 1, 0)) \o Q[0 + 1]
    <3>1. 0 \in 0..(Len(Q) - 1)
      BY <2>3
    <3> QED
      BY <2>3, <3>1, FlattenSingle
  <2>5. SubSeq(Q, 1, 0) = <<>> /\ SubSeq(Q, 1, 1) = Q /\ 0 + 1 = 1
    <3>1. \A T : \A q \in Seq(T) : SubSeq(q, 1, Len(q)) = q /\ SubSeq(q, 1, 0) = <<>>
      OBVIOUS
    <3>2. 0 + 1 = 1
      OBVIOUS
    <3> QED
      BY <2>3, <3>1, <3>2, Zenon
  <2>6. FlattenSeq(<<>>) = <<>>
    <3>1. <<>> \in Seq(EventSet)
      OBVIOUS
    <3> QED
      BY <3>1, FlattenIs
  <2>7. <<>> \o y = y
    BY <1>10
  <2> QED
    BY <2>2, <2>4, <2>5, <2>6, <2>7, Zenon
<1>13. Stream(d) = Append(y, Event("stream_end", ""))
  BY <1>11, <1>12, Zenon DEF Stream
<1>14. PICK g, s : g = Event("stream_end", "") /\ s = Append(y, g)
  OBVIOUS
<1>15. g \in EventSet
  <2>1. "stream_end" \in EventTypes
    BY DEF EventTypes
  <2> QED
    BY <1>14, <2>1, EventWithout
<1>16. Len(s) = Len(y) + 1 /\ \A i \in 1..Len(y) : s[i] = y[i]
  <2>1. \A T : \A q \in Seq(T) : \A w \in T :
            Len(Append(q, w)) = Len(q) + 1 /\ \A i \in 1..Len(q) : Append(q, w)[i] = q[i]
    OBVIOUS
  <2> QED
    BY <1>10, <1>14, <1>15, <2>1, Zenon
<1>17. Begins(y, s) /\ Len(y) \in Nat /\ Len(s) \in Nat
  BY <1>4, <1>10, <1>16 DEF Begins
<1>18. Begins(x, s)
  BY <1>4, <1>10, <1>17, BeginsOn
<1>19. s[Len(x) + 1].type = "end" /\ Len(s) = Len(x) + 2
  <2>1. Len(x) + 1 \in 1..Len(y)
    BY <1>4, <1>10
  <2> QED
    BY <1>4, <1>8, <1>10, <1>16, <2>1
<1>20. Stream(d) = s
  BY <1>13, <1>14, Zenon
<1> QED
  BY <1>1, <1>3, <1>18, <1>19, <1>20, Zenon

LEMMA PlacesAre ==
    ASSUME NEW v \in Yaml, v.kind = "map"
    PROVE  /\ Places(v) \in [0..(Len(v.items) + 1) -> Nat] /\ Len(v.items) \in Nat
           /\ Places(v)[0] = 1 /\ Places(v)[1] = 2
           /\ \A k \in 0..Len(v.items) : Places(v)[k + 1] = Len(Ahead(v, k)) + 1
<1>1. PICK n \in Nat : n = Len(v.items)
  BY KeyedEventsAre
<1>2. \A k \in 0..n : Len(Ahead(v, k)) \in Nat
  BY <1>1, AheadIs
<1>3. Len(Ahead(v, 0)) = 1
  <2>1. 0 \in 0..Len(v.items)
    BY <1>1
  <2> QED
    BY <2>1, AheadIs
<1>4. Places(v) = [k \in 0..(n + 1) |-> IF k = 0 THEN 1 ELSE Len(Ahead(v, k - 1)) + 1]
  BY <1>1, Zenon DEF Places
<1>5. ASSUME NEW k \in 0..n PROVE Places(v)[k + 1] = Len(Ahead(v, k)) + 1
  <2>1. k + 1 \in 0..(n + 1) /\ k + 1 # 0 /\ k + 1 - 1 = k
    OBVIOUS
  <2>2. Places(v)[k + 1] = Len(Ahead(v, k + 1 - 1)) + 1
    BY <1>4, <2>1
  <2> QED
    BY <2>1, <2>2, Zenon
<1>6. Places(v)[0] = 1
  BY <1>4
<1>7. Places(v)[1] = 2
  <2>1. 0 \in 0..n /\ 0 + 1 = 1 /\ 1 + 1 = 2
    OBVIOUS
  <2> QED
    BY <1>3, <1>5, <2>1
<1>8. Places(v) \in [0..(n + 1) -> Nat]
  <2>1. ASSUME NEW k \in 0..(n + 1) PROVE (IF k = 0 THEN 1 ELSE Len(Ahead(v, k - 1)) + 1) \in Nat
    <3>1. k # 0 => k - 1 \in 0..n
      OBVIOUS
    <3>2. k # 0 => Len(Ahead(v, k - 1)) \in Nat
      BY <1>2, <3>1
    <3> QED
      BY <3>2
  <2> QED
    BY <1>4, <2>1, Zenon
<1> QED
  BY <1>1, <1>5, <1>6, <1>7, <1>8, Zenon

(* The k-th key of a document and what belongs to it. *)
LEMMA KeyPlaced ==
    ASSUME NEW d \in Seq(Yaml), Len(d) = 1, NEW v, v = d[1], v.kind = "map", NEW k \in 1..Len(v.items),
           NEW s, s = Stream(d), NEW o, o = Places(v), v.items[k].kind \in {"scalar", "seq"}
    PROVE  /\ s[o[k]] = Event("scalar", v.keys[k]) /\ o[k] + 1 < o[k + 1]
           /\ DepthAt(s, o[k]) = 1 /\ DepthAt(s, o[k + 1] - 1) = 1
           /\ v.items[k].kind = "scalar" => Single(s, o, k) /\ s[o[k] + 1].text = v.items[k].text
           /\ v.items[k].kind = "seq" => Opened(s, o, k)
<1>1. v \in Yaml /\ Len(v.items) \in Nat /\ v.keys[k] \in STRING /\ v.items[k] \in Yaml
  <2>1. v \in Yaml
    BY StreamIs
  <2> QED
    BY <2>1, KeyedEventsAre
<1>2. PICK b : b = k - 1
  OBVIOUS
<1>3. b \in 0..Len(v.items) /\ k \in 0..Len(v.items) /\ k = b + 1
  BY <1>1, <1>2
<1>4. PICK t, e, a : t = Ahead(v, b) /\ e = ValueEvents[v.items[k]] /\ a = Event("scalar", v.keys[k])
  OBVIOUS
<1>5. t \in Seq(EventSet) /\ Len(t) \in Nat /\ DepthAt(t, Len(t)) = 1
  BY <1>1, <1>3, <1>4, AheadIs
<1>6. e \in BalancedEvents /\ a \in EventSet /\ a.type \notin Starts \cup {"end"} /\ a.type = "scalar"
  <2>1. a.type = "scalar"
    BY <1>4 DEF Event
  <2> QED
    BY <1>1, <1>4, <2>1, EventTyped, ValueEventsAre
<1>7. PICK f : f = Ahead(v, k)
  OBVIOUS
<1>8. f = t \o (<<a>> \o e)
  BY <1>1, <1>2, <1>4, <1>7, AheadNext, Zenon
<1>9. Begins(f, s) /\ DepthAt(f, Len(f)) = 1 /\ Len(f) \in Nat
  <2>1. PICK n \in Nat : n = Len(v.items)
    BY <1>1
  <2>2. k \in 0..n /\ n \in 0..n
    BY <1>3, <2>1
  <2>3. Begins(f, Ahead(v, n)) /\ Begins(Ahead(v, n), s)
    BY <1>1, <1>7, <2>1, <2>2, AheadBegins, StreamIs, Zenon
  <2>4. Len(f) \in Nat /\ Len(Ahead(v, n)) \in Nat /\ DepthAt(f, Len(f)) = 1
    BY <1>1, <1>7, <2>1, <2>2, AheadIs, Zenon
  <2>5. Len(s) \in Nat
    <3>1. Len(s) = Len(Ahead(v, n)) + 2
      BY <2>1, StreamIs, Zenon
    <3> QED
      BY <2>4, <3>1
  <2> QED
    BY <2>3, <2>4, <2>5, BeginsOn
<1>10. o[k] = Len(t) + 1 /\ o[k + 1] = Len(f) + 1
  <2>1. o[b + 1] = Len(t) + 1 /\ o[k + 1] = Len(f) + 1
    BY <1>1, <1>3, <1>4, <1>7, PlacesAre, Zenon
  <2> QED
    BY <1>3, <2>1, Zenon
<1>11. /\ Len(e) \in Nat /\ Len(f) = Len(t) + 1 + Len(e)
       /\ s[Len(t) + 1] = a /\ DepthAt(s, Len(t) + 1) = 1
       /\ \A i \in 1..Len(e) : /\ s[Len(t) + 1 + i] = e[i]
                               /\ DepthAt(s, Len(t) + 1 + i) = 1 + DepthAt(e, i)
  <2>1. Begins(t \o (<<a>> \o e), s)
    BY <1>8, <1>9, Zenon
  <2>2. /\ Len(t) \in Nat /\ Len(e) \in Nat /\ Len(t \o (<<a>> \o e)) = Len(t) + 1 + Len(e)
        /\ s[Len(t) + 1] = a /\ DepthAt(s, Len(t) + 1) = 1
        /\ \A i \in 1..Len(e) : /\ s[Len(t) + 1 + i] = e[i]
                                /\ DepthAt(s, Len(t) + 1 + i) = 1 + DepthAt(e, i)
    <3>1. /\ t \in Seq(EventSet) /\ a \in EventSet /\ e \in BalancedEvents
          /\ a.type \notin Starts \cup {"end"} /\ DepthAt(t, Len(t)) = 1
      BY <1>5, <1>6
    <3> QED
      BY <2>1, <3>1, KeyFollows
  <2> QED
    BY <1>8, <2>2, Zenon
<1>12. DepthAt(s, o[k + 1] - 1) = 1
  <2>1. o[k + 1] - 1 = Len(f)
    BY <1>9, <1>10
  <2>2. DepthAt(s, Len(f)) = DepthAt(f, Len(f))
    <3>1. Len(f) <= Len(f)
      BY <1>9
    <3> QED
      BY <1>9, <3>1, DepthBegins
  <2> QED
    BY <1>9, <2>1, <2>2
<1>13. ASSUME v.items[k].kind = "scalar"
       PROVE  Len(e) = 1 /\ Single(s, o, k) /\ s[o[k] + 1].text = v.items[k].text
  <2>1. e = <<Event("scalar", v.items[k].text)>>
    BY <1>1, <1>4, <1>13, ValueEventsAre, EventsFromIs
  <2>2. \A q : Len(<<q>>) = 1 /\ <<q>>[1] = q
    OBVIOUS
  <2>3. Len(e) = 1 /\ e[1] = Event("scalar", v.items[k].text)
    BY <2>1, <2>2, Zenon
  <2>4. 1 \in 1..Len(e)
    BY <2>3
  <2>5. s[Len(t) + 1 + 1] = Event("scalar", v.items[k].text)
    BY <1>11, <2>3, <2>4
  <2>6. s[o[k] + 1] = Event("scalar", v.items[k].text)
    BY <1>10, <2>5
  <2>7. s[o[k] + 1].type = "scalar" /\ s[o[k] + 1].text = v.items[k].text
    BY <2>6 DEF Event
  <2>8. o[k + 1] = o[k] + 2
    BY <1>5, <1>10, <1>11, <2>3
  <2> QED
    BY <2>3, <2>7, <2>8 DEF Single
<1>14. ASSUME v.items[k].kind = "seq"
       PROVE  Len(e) >= 2 /\ Opened(s, o, k)
  <2>1. PICK I : I = FlattenSeq([i \in DOMAIN v.items[k].items |-> ValueEvents[v.items[k].items[i]]])
    OBVIOUS
  <2>2. PICK w : w = v.items[k]
    OBVIOUS
  <2>3. w \in Yaml /\ w.kind = "seq"
    BY <1>1, <1>14, <2>2
  <2>4. I \in BalancedEvents
    <3>1. PICK P : P = [i \in DOMAIN w.items |-> ValueEvents[w.items[i]]]
      OBVIOUS
    <3>2. Len(w.items) \in Nat /\ DOMAIN w.items = 1..Len(w.items) /\ \A i \in DOMAIN w.items : w.items[i] \in Yaml
      BY <2>3, MembersAre DEF Lower
    <3>3. \A i \in DOMAIN w.items : ValueEvents[w.items[i]] \in BalancedEvents
      BY <3>2, ValueEventsAre
    <3>4. P \in Seq(BalancedEvents)
      BY <3>1, <3>2, <3>3
    <3>5. FlattenSeq(P) \in BalancedEvents
      BY <3>4, BalancedFlat
    <3> QED
      BY <2>1, <2>2, <3>1, <3>5, Zenon
  <2>5. e = Enclosed("sequence_start", I)
    <3>1. ValueEvents[w] = EventsFrom(ValueEvents, w)
      BY <2>3, ValueEventsAre
    <3>2. EventsFrom(ValueEvents, w) = Enclosed("sequence_start", FlattenSeq([i \in DOMAIN w.items |-> ValueEvents[w.items[i]]]))
      BY <2>3, EventsFromIs
    <3> QED
      BY <1>4, <2>1, <2>2, <3>1, <3>2, Zenon
  <2>6. "sequence_start" \in Starts
    BY DEF Starts
  <2>7. Len(e) >= 2 /\ e[1].type = "sequence_start" /\ \A i \in 1..(Len(e) - 1) : DepthAt(e, i) >= 1
    BY <2>4, <2>5, <2>6, EnclosedIs, Zenon
  <2>8. s[o[k] + 1].type = "sequence_start"
    <3>1. 1 \in 1..Len(e)
      BY <1>11, <2>7
    <3>2. s[Len(t) + 1 + 1] = e[1]
      BY <1>11, <3>1
    <3> QED
      BY <1>10, <2>7, <3>2
  <2>9. ASSUME NEW j \in (o[k] + 1)..(o[k + 1] - 2) PROVE DepthAt(s, j) >= 2
    <3>1. j \in (Len(t) + 2)..(Len(t) + Len(e))
      BY <1>5, <1>10, <1>11
    <3>2. PICK i : i = j - (Len(t) + 1)
      OBVIOUS
    <3>3. i \in 1..(Len(e) - 1) /\ i \in 1..Len(e) /\ i \in Nat /\ j = Len(t) + 1 + i
      BY <1>5, <1>11, <3>1, <3>2
    <3>4. DepthAt(s, j) = 1 + DepthAt(e, i) /\ DepthAt(e, i) >= 1
      BY <1>11, <2>7, <3>3
    <3>5. DepthAt(e, i) \in Int
      BY <3>3, DepthNextIs
    <3> QED
      BY <3>4, <3>5
  <2> QED
    BY <2>7, <2>8, <2>9 DEF Opened
<1>15. Len(e) >= 1
  <2>1. CASE v.items[k].kind = "scalar"
    <3>1. Len(e) = 1
      BY <1>13, <2>1, Zenon
    <3> QED
      BY <3>1
  <2>2. CASE v.items[k].kind = "seq"
    BY <1>11, <1>14, <2>2
  <2> QED
    BY <2>1, <2>2
<1>16. o[k] + 1 < o[k + 1]
  BY <1>5, <1>10, <1>11, <1>15
<1>17. s[o[k]] = a /\ DepthAt(s, o[k]) = 1
  BY <1>10, <1>11
<1> QED
  BY <1>4, <1>12, <1>13, <1>14, <1>16, <1>17

(* The events of a document of one mapping are those of a mapping whose keys
   stand in these places. *)
LEMMA LaidOut ==
    ASSUME NEW d \in Seq(Yaml), Len(d) = 1, NEW v, v = d[1], v.kind = "map",
           \A i \in DOMAIN v.items : v.items[i].kind \in {"scalar", "seq"}
    PROVE  Layout(Stream(d), Len(v.items), Places(v))
<1>1. v \in Yaml
  BY StreamIs
<1>2. PICK s, n, o : s = Stream(d) /\ n = Len(v.items) /\ o = Places(v)
  OBVIOUS
<1>3. /\ o \in [0..(n + 1) -> Nat] /\ n \in Nat /\ o[0] = 1 /\ o[1] = 2
      /\ \A k \in 0..n : o[k + 1] = Len(Ahead(v, k)) + 1
  BY <1>1, <1>2, PlacesAre, Zenon
<1>4. PICK t : t = Ahead(v, n)
  OBVIOUS
<1>5. /\ Len(s) = Len(t) + 2 /\ Begins(t, s) /\ s[Len(t) + 1].type = "end"
  BY <1>2, <1>4, StreamIs, Zenon
<1>6. n \in 0..n /\ 0 \in 0..n /\ n \in 0..Len(v.items) /\ 0 \in 0..Len(v.items)
  BY <1>2, <1>3
<1>7. /\ t \in Seq(EventSet) /\ Len(t) \in Nat /\ Len(t) >= 1 /\ t[1].type = "mapping_start"
  BY <1>1, <1>4, <1>6, AheadIs, Zenon
<1>8. o[n + 1] = Len(s) - 1 /\ s[o[n + 1]].type = "end" /\ Len(s) \in Nat
  <2>1. o[n + 1] = Len(t) + 1
    BY <1>3, <1>4, <1>6, Zenon
  <2> QED
    BY <1>5, <1>7, <2>1
<1>9. s[1].type = "mapping_start"
  BY <1>5, <1>7 DEF Begins
<1>10. DOMAIN v.items = 1..n
  BY <1>1, <1>2, MembersAre, Zenon
<1>11. ASSUME NEW k \in 1..n
       PROVE  /\ s[o[k]] = Event("scalar", v.keys[k]) /\ o[k] + 1 < o[k + 1]
              /\ DepthAt(s, o[k]) = 1 /\ DepthAt(s, o[k + 1] - 1) = 1
              /\ Single(s, o, k) \/ Opened(s, o, k)
  <2>1. k \in 1..Len(v.items) /\ v.items[k].kind \in {"scalar", "seq"}
    BY <1>2, <1>10
  <2> QED
    BY <1>2, <2>1, KeyPlaced
<1>12. \A k \in 1..n : s[o[k]].type = "scalar"
  <2> SUFFICES ASSUME NEW k \in 1..n PROVE s[o[k]].type = "scalar"
    OBVIOUS
  <2>1. \A q : Event("scalar", q).type = "scalar"
    BY DEF Event
  <2>2. s[o[k]] = Event("scalar", v.keys[k])
    BY <1>11
  <2> QED
    BY <2>1, <2>2, Zenon
<1>13. DepthAt(s, o[0]) = 1 /\ DepthAt(s, o[0 + 1] - 1) = 1
  <2>1. PICK a : a = Ahead(v, 0)
    OBVIOUS
  <2>2. Len(a) = 1 /\ DepthAt(a, Len(a)) = 1
    BY <1>1, <1>6, <2>1, AheadIs, Zenon
  <2>3. Begins(a, t)
    BY <1>1, <1>2, <1>4, <1>6, <2>1, AheadBegins, Zenon
  <2>4. Begins(a, s)
    <3>1. Len(a) \in Nat
      BY <2>2
    <3> QED
      BY <1>5, <1>7, <1>8, <2>3, <3>1, BeginsOn
  <2>5. 1 \in Nat /\ 1 <= Len(a) /\ Len(a) \in Nat
    BY <2>2
  <2>6. DepthAt(s, 1) = DepthAt(a, 1)
    BY <2>4, <2>5, DepthBegins
  <2> QED
    BY <1>3, <2>2, <2>6
<1>14. ASSUME NEW k \in 0..n PROVE DepthAt(s, o[k]) = 1 /\ DepthAt(s, o[k + 1] - 1) = 1 /\ o[k] < o[k + 1]
  <2>1. CASE k = 0
    BY <1>3, <1>13, <2>1
  <2>2. CASE k # 0
    <3>1. k \in 1..n /\ o[k] \in Nat /\ o[k + 1] \in Nat
      BY <1>3, <2>2
    <3>2. o[k] + 1 < o[k + 1] /\ DepthAt(s, o[k]) = 1 /\ DepthAt(s, o[k + 1] - 1) = 1
      BY <1>11, <3>1
    <3> QED
      BY <3>1, <3>2
  <2> QED
    BY <2>1, <2>2
<1>15. \A j, k \in 0..(n + 1) : j < k => o[j] < o[k]
  <2>1. PICK m \in Nat : m = n + 1 /\ m - 1 = n
    BY <1>3
  <2>2. o \in [0..m -> Nat] /\ \A k \in 0..(m - 1) : o[k] < o[k + 1]
    BY <1>3, <1>14, <2>1, Zenon
  <2>3. \A j, k \in 0..m : j < k => o[j] < o[k]
    BY <2>2, StepsIncrease
  <2> QED
    BY <2>1, <2>3, Zenon
<1>16. \A k \in 1..n : s[o[k]].type = "scalar" /\ o[k] + 1 < o[k + 1] /\ (Single(s, o, k) \/ Opened(s, o, k))
  BY <1>11, <1>12
<1>17. \A k \in 0..n : DepthAt(s, o[k]) = 1 /\ DepthAt(s, o[k + 1] - 1) = 1
  BY <1>14
<1>18. Layout(s, n, o)
  BY <1>3, <1>8, <1>9, <1>15, <1>16, <1>17, Zenon DEF Layout
<1> QED
  BY <1>2, <1>18, Zenon

-----------------------------------------------------------------------------
(* The blocks of such a document.                                          *)

LEMMA ListedIs ==
    ASSUME TreeInvariant, Listed, NEW v, v = document[1], NEW n, n = Len(v.items)
    PROVE  /\ document \in Seq(Yaml) /\ Len(document) = 1 /\ v \in Yaml /\ v.kind = "map"
           /\ n \in Nat /\ DOMAIN v.items = 1..n /\ DOMAIN v.keys = 1..n /\ Len(v.keys) = n
           /\ \A i \in DOMAIN v.items : v.items[i].kind \in {"scalar", "seq"} /\ v.items[i] \in Yaml
           /\ events = Stream(document)
<1>1. document \in Documents /\ events = EventsOf(document)
  BY DEF TreeInvariant, Built, Context
<1>2. document \in Seq(Yaml) /\ events = Stream(document)
  BY <1>1, StreamAssumption
<1>3. Len(document) = 1 /\ v.kind = "map" /\ \A i \in DOMAIN v.items : v.items[i].kind \in {"scalar", "seq"}
  BY DEF Listed, Keyed, Value
<1>4. v \in Yaml
  BY <1>2, <1>3
<1>5. /\ Len(v.items) \in Nat /\ DOMAIN v.items = 1..Len(v.items)
      /\ \A i \in DOMAIN v.items : v.items[i] \in Lower(Yaml, Level, Level[v])
      /\ DOMAIN v.keys = DOMAIN v.items /\ Len(v.keys) = Len(v.items)
  BY <1>3, <1>4, MembersAre
<1>6. \A i \in DOMAIN v.items : v.items[i] \in Yaml
  BY <1>5 DEF Lower
<1> QED
  BY <1>2, <1>3, <1>4, <1>5, <1>6

(* Each key is a block, and a scalar is the only child of its key. *)
LEMMA BlocksFollow ==
    ASSUME TreeInvariant, Mapped, stage # "parse", ~broken, Listed,
           NEW v, v = document[1], NEW n, n = Len(v.items)
    PROVE  /\ n \in Nat /\ Len(Blocks) = n /\ DOMAIN v.keys = 1..n /\ Len(v.keys) = n /\ DOMAIN v.items = 1..n
           /\ \A i \in 1..n :
                 /\ Data(Blocks[i]) = v.keys[i]
                 /\ v.items[i].kind = "scalar" =>
                       /\ Len(Kids(Blocks[i])) = 1 /\ Kids(Blocks[i]) # <<>>
                       /\ ValueOf(Blocks[i]) = v.items[i].text
<1>1. /\ document \in Seq(Yaml) /\ Len(document) = 1 /\ v \in Yaml /\ v.kind = "map"
      /\ n \in Nat /\ DOMAIN v.items = 1..n /\ DOMAIN v.keys = 1..n /\ Len(v.keys) = n
      /\ \A i \in DOMAIN v.items : v.items[i].kind \in {"scalar", "seq"}
      /\ events = Stream(document)
  BY ListedIs
<1>2. PICK o : o = Places(v)
  OBVIOUS
<1>3. Layout(events, n, o)
  <2>1. Layout(Stream(document), Len(v.items), Places(v))
    BY <1>1, LaidOut
  <2> QED
    BY <1>1, <1>2, <2>1, Zenon
<1>4. read = Len(events) /\ KeysDone(events, n, o, tree.kids)
  BY <1>3 DEF Mapped
<1>5. /\ 2 \in Nodes
      /\ \A k \in 1..n :
            /\ KeyNode(events, o, k) \in Nodes
            /\ tree.data[KeyNode(events, o, k)] = events[o[k]].text
            /\ Single(events, o, k) =>
                  /\ KeyNode(events, o, k) + 1 \in Nodes
                  /\ tree.data[KeyNode(events, o, k) + 1] = events[o[k] + 1].text
  BY <1>3, <1>4, KeysHaveData DEF TreeInvariant
<1>6. PICK B : B = [k \in 1..n |-> KeyNode(events, o, k)]
  OBVIOUS
<1>7. B \in Seq(Nodes) /\ Len(B) = n /\ \A k \in 1..n : B[k] = KeyNode(events, o, k)
  <2>1. \A k \in 1..n : B[k] = KeyNode(events, o, k)
    BY <1>6
  <2>2. B \in [1..n -> Nodes]
    BY <1>5, <1>6, Zenon
  <2>3. PICK N : N = Nodes
    OBVIOUS
  <2>4. B \in [1..n -> N] /\ n \in Nat
    BY <1>1, <2>2, <2>3, Zenon
  <2>5. B \in Seq(N) /\ Len(B) = n
    BY <2>4
  <2> QED
    BY <2>1, <2>3, <2>5, Zenon
<1>8. /\ tree.kids[1] = <<2>> \/ (n = 0 /\ tree.kids[1] = <<>>)
      /\ tree.kids[2] = B
      /\ \A k \in 1..n : Single(events, o, k) => tree.kids[KeyNode(events, o, k)] = <<KeyNode(events, o, k) + 1>>
  BY <1>4, <1>6, Zenon DEF KeysDone
<1>9. Blocks = B
  <2>1. CASE tree.kids[1] = <<2>>
    <3>1. \A x : <<x>> # <<>> /\ <<x>>[1] = x
      OBVIOUS
    <3>2. ~Leaf(1) /\ First(1) = 2
      BY <2>1, <3>1, Zenon DEF Leaf, Kids, First
    <3> QED
      BY <1>8, <3>2, Zenon DEF Blocks, Kids
  <2>2. CASE n = 0 /\ tree.kids[1] = <<>>
    <3>1. Blocks = <<>>
      BY <2>2, Zenon DEF Blocks, Leaf, Kids
    <3>2. B = <<>>
      BY <1>7, <2>2
    <3> QED
      BY <3>1, <3>2, Zenon
  <2> QED
    BY <1>8, <2>1, <2>2, Zenon
<1>10. ASSUME NEW i \in 1..n
       PROVE  /\ events[o[i]] = Event("scalar", v.keys[i])
              /\ v.items[i].kind = "scalar" => Single(events, o, i) /\ events[o[i] + 1].text = v.items[i].text
  <2>1. i \in 1..Len(v.items) /\ v.items[i].kind \in {"scalar", "seq"}
    BY <1>1
  <2> QED
    BY <1>1, <1>2, <2>1, KeyPlaced
<1>11. ASSUME NEW i \in 1..n
       PROVE  /\ Data(Blocks[i]) = v.keys[i]
              /\ v.items[i].kind = "scalar" =>
                    /\ Len(Kids(Blocks[i])) = 1 /\ Kids(Blocks[i]) # <<>>
                    /\ ValueOf(Blocks[i]) = v.items[i].text
  <2>1. PICK k : k = KeyNode(events, o, i)
    OBVIOUS
  <2>2. Blocks[i] = k
    BY <1>7, <1>9, <2>1, Zenon
  <2>3. Data(k) = v.keys[i]
    <3>1. tree.data[k] = events[o[i]].text
      BY <1>5, <2>1, Zenon
    <3>2. events[o[i]].text = v.keys[i]
      <4>1. \A q : Event("scalar", q).text = q
        BY DEF Event
      <4>2. events[o[i]] = Event("scalar", v.keys[i])
        BY <1>10
      <4> QED
        BY <4>1, <4>2, Zenon
    <3> QED
      BY <3>1, <3>2, Zenon DEF Data
  <2>4. ASSUME v.items[i].kind = "scalar"
        PROVE  Len(Kids(k)) = 1 /\ Kids(k) # <<>> /\ ValueOf(k) = v.items[i].text
    <3>1. Single(events, o, i) /\ events[o[i] + 1].text = v.items[i].text
      BY <1>10, <2>4
    <3>2. tree.kids[k] = <<k + 1>>
      BY <1>8, <2>1, <3>1, Zenon
    <3>3. tree.data[k + 1] = v.items[i].text
      BY <1>5, <2>1, <3>1, Zenon
    <3>4. \A x : Len(<<x>>) = 1 /\ <<x>> # <<>> /\ <<x>>[1] = x
      OBVIOUS
    <3> QED
      BY <3>2, <3>3, <3>4, Zenon DEF Kids, ValueOf, First, Data
  <2> QED
    BY <2>2, <2>3, <2>4, Zenon
<1> QED
  BY <1>1, <1>7, <1>9, <1>11, Zenon

(* What Mapped says of the nodes, the property says of the document. *)
LEMMA BlocksThere == TreeInvariant /\ Mapped => BlocksAsWritten
<1> SUFFICES ASSUME TreeInvariant, Mapped, stage = "process", ~broken, Listed
             PROVE  /\ Len(Blocks) = Len(document[1].keys)
                    /\ \A i \in DOMAIN document[1].keys :
                          /\ Data(Blocks[i]) = Keyword(i)
                          /\ Value(i).kind = "scalar" =>
                                Len(Kids(Blocks[i])) = 1 /\ ValueOf(Blocks[i]) = Value(i).text
  BY DEF BlocksAsWritten
<1>1. PICK v, n : v = document[1] /\ n = Len(v.items)
  OBVIOUS
<1>2. stage # "parse"
  OBVIOUS
<1>3. /\ Len(Blocks) = n /\ DOMAIN v.keys = 1..n /\ Len(v.keys) = n
      /\ \A i \in 1..n :
            /\ Data(Blocks[i]) = v.keys[i]
            /\ v.items[i].kind = "scalar" =>
                  Len(Kids(Blocks[i])) = 1 /\ ValueOf(Blocks[i]) = v.items[i].text
  BY <1>1, <1>2, BlocksFollow
<1> QED
  BY <1>1, <1>3, Zenon DEF Keyword, Value

(* What the document says of the wait is what the tree says of it. *)
LEMMA HandledIs ==
    ASSUME TreeInvariant, Handled
    PROVE  Listed /\ \A i \in DOMAIN document[1].keys : Keyword(i) = "wait_for_network" => Value(i).kind = "scalar"
<1>1. PICK v : v = document[1]
  OBVIOUS
<1>2. document \in Seq(Yaml) /\ Len(document) = 1 /\ v.kind = "map"
  <2>1. document \in Documents
    BY DEF TreeInvariant, Built, Context
  <2>2. document \in Seq(Yaml)
    BY <2>1, StreamAssumption
  <2> QED
    BY <1>1, <2>2 DEF Handled, Keyed
<1>3. v \in Yaml
  BY <1>1, <1>2
<1>4. /\ DOMAIN v.keys = DOMAIN v.items
      /\ \A i \in DOMAIN v.items : v.items[i] \in Lower(Yaml, Level, Level[v])
  BY <1>2, <1>3, MembersAre
<1>5. \A i \in DOMAIN v.items : v.items[i] \in Yaml
  BY <1>4 DEF Lower
<1>6. \A w \in Yaml : Texts[w] # <<>> => w.kind \in {"scalar", "seq"}
  BY TextsAre, TextsFromIs
<1>7. ASSUME NEW i \in DOMAIN v.items
      PROVE  /\ Value(i).kind \in {"scalar", "seq"}
             /\ Keyword(i) = "wait_for_network" => Value(i).kind = "scalar"
  <2>1. AsInExamples(Keyword(i), Value(i)) /\ Value(i) \in Yaml
    BY <1>1, <1>4, <1>5 DEF Handled, Value
  <2>2. PICK w, key : w = Value(i) /\ key = Keyword(i)
    OBVIOUS
  <2>3. AsInExamples(key, w) /\ w \in Yaml
    BY <2>1, <2>2, Zenon
  <2>4. CASE key \in {"users", "write_files", "service", "runcmd"}
    BY <2>2, <2>3, <2>4 DEF AsInExamples
  <2>5. CASE key \in {"wait_for_network", "package_upgrade"}
    <3>1. w.kind = "scalar"
      BY <2>3, <2>5 DEF AsInExamples
    <3> QED
      BY <2>2, <3>1
  <2>6. CASE key \notin {"users", "write_files", "service", "runcmd", "wait_for_network", "package_upgrade"}
    <3>1. Texts[w] # <<>>
      BY <2>3, <2>6 DEF AsInExamples
    <3> QED
      BY <1>6, <2>2, <2>3, <2>6, <3>1
  <2> QED
    BY <2>4, <2>5, <2>6
<1> QED
  BY <1>1, <1>4, <1>7 DEF Listed, Handled

(* The last block that says whether to wait stands where it was written. *)
LEMMA DisabledIs ==
    ASSUME TreeInvariant, Mapped, Handled, NEW i \in Nat, i <= Len(Blocks)
    PROVE  Off(i) <=> Disabled(i)
<1>1. PICK v, n : v = document[1] /\ n = Len(v.items)
  OBVIOUS
<1>2. Listed /\ ~broken /\ stage # "parse"
  BY HandledIs DEF Handled, Ended
<1>3. /\ n \in Nat /\ Len(Blocks) = n /\ DOMAIN v.keys = 1..n /\ DOMAIN v.items = 1..n
      /\ \A j \in 1..n :
            /\ Data(Blocks[j]) = v.keys[j]
            /\ v.items[j].kind = "scalar" =>
                  Kids(Blocks[j]) # <<>> /\ ValueOf(Blocks[j]) = v.items[j].text
  BY <1>1, <1>2, BlocksFollow
<1>4. \A j \in 1..n : v.items[j] \in Yaml
  BY <1>1, <1>2, <1>3, ListedIs
<1>5. ASSUME NEW j \in 1..i
      PROVE  /\ Told(j) <=> j \in Asked(i)
             /\ Told(j) => (~True(ValueOf(Blocks[j])) <=> Texts[Value(j)][1] \in FalseTexts)
  <2>1. j \in 1..n
    BY <1>3
  <2>2. Data(Blocks[j]) = Keyword(j)
    BY <1>1, <1>3, <2>1 DEF Keyword
  <2>3. CASE Keyword(j) # "wait_for_network"
    BY <2>2, <2>3 DEF Told, Asked
  <2>4. CASE Keyword(j) = "wait_for_network"
    <3>1. Value(j).kind = "scalar" /\ Value(j) = v.items[j] /\ Value(j) \in Yaml
      BY <1>1, <1>3, <1>4, <2>1, <2>4, HandledIs DEF Value
    <3>2. PICK t : t = Value(j).text
      OBVIOUS
    <3>3. t \in STRING /\ t # NULL
      <4>1. t \in STRING
        BY <3>1, <3>2, MembersAre
      <4> QED
        BY <4>1, DataAssumption
    <3>4. Texts[Value(j)][1] = t
      <4>1. Texts[Value(j)] = TextsFrom(Texts, Value(j))
        BY <3>1, TextsAre
      <4>2. TextsFrom(Texts, Value(j)) = <<Value(j).text>>
        BY <3>1, TextsFromIs
      <4>3. \A x : <<x>>[1] = x
        OBVIOUS
      <4> QED
        BY <3>2, <4>1, <4>2, <4>3, Zenon
    <3>5. ~Leaf(Blocks[j]) /\ ValueOf(Blocks[j]) = t
      BY <1>3, <2>1, <3>1, <3>2 DEF Leaf
    <3>6. Told(j) <=> t \in TrueTexts \cup FalseTexts
      BY <2>2, <2>4, <3>3, <3>5 DEF Told
    <3>7. j \in Asked(i) <=> t \in TrueTexts \cup FalseTexts
      BY <2>4, <3>4, Zenon DEF Asked
    <3>8. t \in TrueTexts \cup FalseTexts => (~True(t) <=> t \in FalseTexts)
      BY <3>3, TextsAssumption DEF True
    <3> QED
      BY <3>4, <3>5, <3>6, <3>7, <3>8, Zenon
  <2> QED
    BY <2>3, <2>4
<1>6. \A j \in Asked(i) : j \in 1..i
  BY DEF Asked
<1>7. ASSUME Off(i) PROVE Disabled(i)
  <2>1. PICK j \in 1..i : Told(j) /\ ~True(ValueOf(Blocks[j])) /\ \A k \in (j + 1)..i : ~Told(k)
    BY <1>7 DEF Off
  <2>2. j \in Asked(i) /\ Texts[Value(j)][1] \in FalseTexts
    BY <1>5, <2>1
  <2>3. ASSUME NEW k \in Asked(i) PROVE k <= j
    <3>1. k \in 1..i /\ Told(k)
      BY <1>5, <1>6, <2>3
    <3>2. k \notin (j + 1)..i
      BY <2>1, <3>1
    <3> QED
      BY <3>1, <3>2
  <2> QED
    BY <2>2, <2>3 DEF Disabled
<1>8. ASSUME Disabled(i) PROVE Off(i)
  <2>1. PICK j \in Asked(i) : Texts[Value(j)][1] \in FalseTexts /\ \A k \in Asked(i) : k <= j
    BY <1>8 DEF Disabled
  <2>2. j \in 1..i /\ Told(j) /\ ~True(ValueOf(Blocks[j]))
    BY <1>5, <1>6, <2>1
  <2>3. ASSUME NEW k \in (j + 1)..i PROVE ~Told(k)
    <3>1. k \in 1..i /\ ~(k <= j)
      BY <2>2
    <3> QED
      BY <1>5, <2>1, <3>1
  <2> QED
    BY <2>2, <2>3 DEF Off
<1> QED
  BY <1>7, <1>8

-----------------------------------------------------------------------------
(* Theorems about documents as they are written.                           *)

(* ssh_authorized_keys are for nobody but the default user, unless a block of
   users stands before them in the document: whatever the other blocks say, no
   handler but that of users.c sets the name to which "first_user" points. *)
THEOREM KeysGoToDefault ==
    Spec => [](~broken /\ Listed =>
                  \A i \in DOMAIN state.effects :
                      /\ state.effects[i].do = "authorize"
                      /\ \A j \in 1..(state.effects[i].block - 1) : Keyword(j) # "users"
                      => state.effects[i].subject = DefaultUser)
<1>1. Spec => []Mapped
  BY TreeLeftAlone, MappedAlways, PTL
<1>2. ASSUME Invariant, Mapped, ~broken, Listed, NEW i \in DOMAIN state.effects,
             state.effects[i].do = "authorize",
             \A j \in 1..(state.effects[i].block - 1) : Keyword(j) # "users"
      PROVE  state.effects[i].subject = DefaultUser
  <2>1. PICK b : b = state.effects[i].block
    OBVIOUS
  <2>2. stage = "process" /\ b \in 1..block /\ block \in Nat /\ block <= Len(Blocks)
    <3>1. stage = "process"
      <4>1. NothingDone.effects = <<>> /\ DOMAIN <<>> = {}
        BY DEF NothingDone
      <4>2. state # NothingDone
        BY <1>2, <4>1
      <4> QED
        BY <1>2, <4>2 DEF Invariant, ProcessInvariant
    <3>2. block \in Nat /\ WaitOf(state, block) /\ block <= Len(Blocks)
      BY <1>2, <3>1 DEF Invariant, ProcessInvariant
    <3>3. b \in 1..block
      BY <1>2, <2>1, <3>2 DEF WaitOf
    <3> QED
      BY <3>1, <3>2, <3>3
  <2>3. /\ Len(Blocks) \in Nat /\ DOMAIN document[1].keys = 1..Len(Blocks)
        /\ \A j \in 1..Len(Blocks) : Data(Blocks[j]) = Keyword(j)
    <3>1. PICK v, n : v = document[1] /\ n = Len(v.items)
      OBVIOUS
    <3>2. TreeInvariant /\ stage # "parse"
      BY <1>2, <2>2 DEF Invariant
    <3>3. n \in Nat /\ Len(Blocks) = n /\ DOMAIN v.keys = 1..n /\ \A j \in 1..n : Data(Blocks[j]) = v.keys[j]
      BY <1>2, <3>1, <3>2, BlocksFollow
    <3> QED
      BY <3>1, <3>3 DEF Keyword
  <2>4. {j \in 1..(b - 1) : Data(Blocks[j]) = "users"} = {}
    BY <1>2, <2>1, <2>2, <2>3
  <2>5. UsersNamed(b - 1) = {}
    BY <2>4, Zenon DEF UsersNamed
  <2>6. state.effects[i].subject \in Authorized(b)
    BY <1>2, <2>1, Zenon DEF Invariant, ProcessInvariant, KeysOf, Entitled
  <2> QED
    BY <2>5, <2>6 DEF Authorized
<1>3. Invariant /\ Mapped =>
          (~broken /\ Listed =>
              \A i \in DOMAIN state.effects :
                  /\ state.effects[i].do = "authorize"
                  /\ \A j \in 1..(state.effects[i].block - 1) : Keyword(j) # "users"
                  => state.effects[i].subject = DefaultUser)
  BY <1>2
<1> QED
  BY <1>1, <1>3, InvariantHolds, PTL

(* The blocks that cloud_config_process handles are the keys of the document
   in its order, whatever stands below them, and a scalar is the only child
   of its key, where handlers look for the value. *)
THEOREM BlocksWritten == Spec => []BlocksAsWritten
<1>1. Spec => []Mapped
  BY TreeLeftAlone, MappedAlways, PTL
<1>2. Invariant /\ Mapped => BlocksAsWritten
  BY BlocksThere DEF Invariant
<1> QED
  BY <1>1, <1>2, InvariantHolds, PTL

(* Packages are installed or upgraded after a wait for the network, unless the
   document has disabled it before, and it never waits after it has been told
   not to, in the words of the document. *)
THEOREM NetworkFollows == Spec => []NetworkAsTold
<1>1. Spec => []Mapped
  BY TreeLeftAlone, MappedAlways, PTL
<1>2. Invariant /\ Mapped /\ WaitsAsTold => NetworkAsTold
  <2> SUFFICES ASSUME Invariant, Mapped, WaitsAsTold, Handled, NEW i \in DOMAIN state.effects
               PROVE  LET e == state.effects[i] IN
                      /\ e.do \in {"install", "upgrade"} =>
                            \/ \E j \in 1..(i - 1) : state.effects[j].do = "wait"
                            \/ Disabled(e.block)
                      /\ e.do = "wait" => ~Disabled(e.block)
    BY DEF NetworkAsTold
  <2>1. PICK e : e = state.effects[i]
    OBVIOUS
  <2>2. e.block \in Nat /\ e.block <= Len(Blocks)
    <3>1. stage = "process" /\ block \in Nat /\ block <= Len(Blocks) /\ e.block \in 1..block /\ Len(Blocks) \in Nat
      <4>1. stage = "process"
        BY DEF Handled, Ended
      <4>2. block \in Nat /\ block <= Len(Blocks) /\ e.block \in 1..block
        BY <2>1, <4>1 DEF Invariant, ProcessInvariant, WaitOf
      <4>3. Len(Blocks) \in Nat
        BY <4>1, BlocksCounted DEF Invariant
      <4> QED
        BY <4>1, <4>2, <4>3
    <3> QED
      BY <3>1
  <2>3. Off(e.block) <=> Disabled(e.block)
    BY <2>2, DisabledIs DEF Invariant
  <2>4. /\ e.do \in {"install", "upgrade"} =>
              (\E j \in 1..(i - 1) : state.effects[j].do = "wait") \/ Off(e.block)
        /\ e.do = "wait" => ~Off(e.block)
    BY <2>1, Zenon DEF WaitsAsTold
  <2> QED
    BY <2>1, <2>3, <2>4, Zenon
<1> QED
  BY <1>1, <1>2, InvariantHolds, WaitsFollowBlocks, PTL
=============================================================================
