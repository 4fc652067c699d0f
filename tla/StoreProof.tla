----------------------------- MODULE StoreProof -----------------------------
(***************************************************************************)
(* What holds for all keys, values and numbers of levels.  First of the    *)
(* list: every operation of it keeps it well formed.  Then of the commands:*)
(* of every configuration (the inductive invariant is AnyMode), of a       *)
(* fixed-length server that finds the memory for its nodes (FixedMode), of *)
(* the search loops as they are written, and that such a server is the     *)
(* sorted map that KVStore describes.                                      *)
(***************************************************************************)
EXTENDS StoreRefinement, FiniteSetTheorems, WellFoundedInduction, SequenceTheorems, TLAPS

(***************************************************************************)
(* The list                                                                *)
(***************************************************************************)
\* The part of the inductive invariant that is about the list alone.
WellFormed == SkipListTypeOK /\ Linked /\ SameLength /\ Reachable

\* The rank at which a search for key stops: a key of another length than the
\* nodes' compares as equal to the first one it meets.
Cut(key) ==
    IF \E k \in Nodes : KeyLen[k] # KeyLen[key] THEN 0 ELSE KeyRank[key]

\* On level i, x is the place for rank c: the last node below it.
Precedes(x, i, c) ==
    /\ x \in On(i) \cup {HEAD}
    /\ Rank(x) < c
    /\ next[x][i] # NULL => c <= Rank(next[x][i])
    /\ \A k \in On(i) : Rank(k) <= Rank(x) \/ c <= Rank(k)

\* No node has the length and the rank of key, which has the nodes' length.
Fresh(key) ==
    \A k \in Nodes : KeyLen[k] = KeyLen[key] /\ KeyRank[k] # KeyRank[key]

-----------------------------------------------------------------------------
\* A nonempty set of naturals has a least element.
LEMMA LeastNatural ==
  ASSUME NEW T, T \subseteq Nat, T # {}
  PROVE  \E m \in T : \A n \in T : m <= n
<1>1. PICK m \in T : \A y \in T : ~ (<<y, m>> \in OpToRel(<, Nat))
  BY NatLessThanWellFounded, WFMin, Zenon
<1>2. ASSUME NEW n \in T PROVE m <= n
  <2>1. ~ (n < m)
    BY <1>1 DEF OpToRel
  <2>2. m \in Nat /\ n \in Nat
    OBVIOUS
  <2> QED BY <2>1, <2>2
<1> QED BY <1>2

\* A function into the naturals that is bounded on a set has a greatest value.
LEMMA Greatest ==
  ASSUME NEW S, NEW f \in [S -> Nat], NEW b \in Nat,
         \A x \in S : f[x] <= b, S # {}
  PROVE  \E m \in S : \A n \in S : f[n] <= f[m]
<1> DEFINE T == {b - f[x] : x \in S}
<1>1. T \subseteq Nat /\ T # {}
  OBVIOUS
<1>2. PICK t \in T : \A n \in T : t <= n
  <2> HIDE DEF T
  <2> QED BY <1>1, LeastNatural
<1>3. PICK m \in S : t = b - f[m]
  BY <1>2
<1>4. ASSUME NEW n \in S PROVE f[n] <= f[m]
  <2>1. b - f[n] \in T
    OBVIOUS
  <2>2. b - f[m] <= b - f[n]
    BY <2>1, <1>2, <1>3
  <2> QED BY <2>2
<1> QED BY <1>4

\* Ranks are numbers, and nodes of equal rank are the same node.
LEMMA RankFacts ==
  ASSUME KeyAssumption, SkipListAssumption
  PROVE  /\ Rank(HEAD) = -1
         /\ \A k \in Key : /\ k # HEAD /\ k # NULL
                           /\ Rank(k) = KeyRank[k]
                           /\ Rank(k) \in Nat /\ Rank(k) <= MaxKeyRank
         /\ SameLength => \A j, k \in Nodes : Rank(j) = Rank(k) => j = k
  BY DEF KeyAssumption, SkipListAssumption, Rank, SameLength, Nodes

LEMMA CutFacts ==
  ASSUME KeyAssumption, NEW key \in Key
  PROVE  Cut(key) \in Nat
  BY DEF KeyAssumption, Cut

\* What a search compares is a comparison of ranks with the cut.
LEMMA StopsAtCut ==
  ASSUME KeyAssumption, SkipListAssumption, WellFormed,
         NEW key \in Key, NEW i \in Levels, NEW x \in Key \cup {HEAD}
  PROVE  StopsAt(x, i, key) <=>
           /\ x \in On(i) \cup {HEAD}
           /\ Rank(x) < Cut(key)
           /\ next[x][i] # NULL => Cut(key) <= Rank(next[x][i])
<1> USE DEF WellFormed
<1>1. i \in Nat
  BY DEF SkipListAssumption, Levels
<1>2. x # HEAD => (x \in On(i) <=> OnLevel(x, i))
  BY <1>1 DEF On, OnLevel, Nodes, SkipListTypeOK
<1>3. ASSUME NEW k \in Nodes
      PROVE  /\ slKeyCompare(k, key) \in Int
             /\ (slKeyCompare(k, key) < 0 <=> Rank(k) < Cut(key))
  <2>1. k \in Key /\ k # HEAD
    BY SkipListAssumption DEF Nodes, SkipListAssumption
  <2>2. CASE KeyLen[k] = KeyLen[key]
    <3>1. Cut(key) = KeyRank[key]
      BY <2>2 DEF Cut, SameLength
    <3> QED
      BY <2>1, <2>2, <3>1 DEF slKeyCompare, memcmp, Rank, KeyAssumption
  <2>3. CASE KeyLen[k] # KeyLen[key]
    <3>1. Cut(key) = 0
      BY <2>3 DEF Cut
    <3> QED
      BY <2>1, <2>3, <3>1 DEF slKeyCompare, Rank, KeyAssumption
  <2> QED BY <2>2, <2>3
<1>4. x \in On(i) => x \in Nodes
  BY DEF On
<1>5. x \in On(i) \cup {HEAD} /\ next[x][i] # NULL => next[x][i] \in Nodes
  BY DEF Linked, Successor, On
<1>6. Rank(HEAD) < Cut(key)
  BY RankFacts, CutFacts
<1>7. \A k \in Nodes : Rank(k) \in Nat
  BY RankFacts DEF Nodes
<1>8. CASE x = HEAD
  <2>1. OnLevel(x, i)
    BY <1>8 DEF OnLevel
  <2>2. next[x][i] # NULL =>
          (slKeyCompare(next[x][i], key) >= 0 <=> Cut(key) <= Rank(next[x][i]))
    BY <1>3, <1>5, <1>7, <1>8, CutFacts
  <2> QED BY <1>6, <1>8, <2>1, <2>2 DEF StopsAt
<1>9. CASE x # HEAD /\ x \in On(i)
  <2>1. OnLevel(x, i)
    BY <1>2, <1>9
  <2>2. next[x][i] # NULL =>
          (slKeyCompare(next[x][i], key) >= 0 <=> Cut(key) <= Rank(next[x][i]))
    BY <1>3, <1>5, <1>7, <1>9, CutFacts
  <2>3. slKeyCompare(x, key) < 0 <=> Rank(x) < Cut(key)
    BY <1>3, <1>4, <1>9
  <2> QED BY <1>9, <2>1, <2>2, <2>3 DEF StopsAt
<1>10. CASE x # HEAD /\ x \notin On(i)
  BY <1>2, <1>10 DEF StopsAt
<1> QED BY <1>8, <1>9, <1>10

\* The search has a node to stop at on every level, and update names it.
LEMMA UpdatePrecedes ==
  ASSUME KeyAssumption, SkipListAssumption, WellFormed,
         NEW key \in Key, NEW i \in Levels
  PROVE  Precedes(update(i, key), i, Cut(key))
<1> DEFINE S == {x \in On(i) \cup {HEAD} : Rank(x) < Cut(key)}
           f == [x \in S |-> Rank(x) + 1]
<1>1. \A x \in On(i) \cup {HEAD} :
         Rank(x) \in Int /\ Rank(x) >= -1 /\ Rank(x) <= MaxKeyRank
  BY RankFacts, KeyAssumption DEF On, Nodes, KeyAssumption
<1>2. PICK m \in S : \A n \in S : f[n] <= f[m]
  <2>1. f \in [S -> Nat]
    BY <1>1
  <2>2. HEAD \in S
    BY RankFacts, CutFacts
  <2>3. \A x \in S : f[x] <= MaxKeyRank + 1
    BY <1>1, KeyAssumption DEF KeyAssumption
  <2>4. MaxKeyRank + 1 \in Nat
    BY KeyAssumption DEF KeyAssumption
  <2> HIDE DEF S, f
  <2> QED BY <2>1, <2>2, <2>3, <2>4, Greatest
<1>3. ASSUME NEW n \in S PROVE Rank(n) <= Rank(m)
  <2>1. f[n] = Rank(n) + 1 /\ f[m] = Rank(m) + 1
    OBVIOUS
  <2>2. f[n] <= f[m]
    BY <1>2
  <2>3. Rank(n) \in Int /\ Rank(m) \in Int
    BY <1>1
  <2> QED BY <2>1, <2>2, <2>3
<1>4. next[m][i] # NULL => next[m][i] \in On(i) /\ Rank(m) < Rank(next[m][i])
  BY DEF WellFormed, Linked, Successor
<1>5. next[m][i] # NULL => Cut(key) <= Rank(next[m][i])
  <2> SUFFICES ASSUME next[m][i] # NULL, ~ (Cut(key) <= Rank(next[m][i]))
               PROVE  FALSE
    OBVIOUS
  <2>1. next[m][i] \in S
    BY <1>1, <1>4, CutFacts
  <2> QED BY <1>1, <1>3, <1>4, <2>1
<1>6. m \in Key \cup {HEAD}
  BY DEF On, Nodes
<1>7. StopsAt(m, i, key)
  BY <1>5, <1>6, StopsAtCut
<1>8. /\ update(i, key) \in Key \cup {HEAD}
      /\ StopsAt(update(i, key), i, key)
  BY <1>6, <1>7 DEF update
<1> DEFINE u == update(i, key)
<1>9. /\ u \in On(i) \cup {HEAD}
      /\ Rank(u) < Cut(key)
      /\ next[u][i] # NULL => Cut(key) <= Rank(next[u][i])
  BY <1>8, StopsAtCut
<1>10. ASSUME NEW k \in On(i) PROVE Rank(k) <= Rank(u) \/ Cut(key) <= Rank(k)
  <2> HIDE DEF u
  <2>1. Successor(u, i)
    BY <1>9 DEF WellFormed, Linked
  <2>2. CASE next[u][i] = NULL
    BY <2>1, <2>2 DEF Successor
  <2>3. CASE next[u][i] # NULL
    <3>1. /\ next[u][i] \in On(i)
          /\ Rank(k) <= Rank(u) \/ Rank(next[u][i]) <= Rank(k)
      BY <2>1, <2>3 DEF Successor
    <3> QED BY <1>1, <1>9, <2>3, <3>1, CutFacts
  <2> QED BY <2>2, <2>3
<1> QED BY <1>9, <1>10 DEF Precedes

-----------------------------------------------------------------------------
\* A search that does not end at a key that compares as equal has shown that
\* the key is new and has the length of all nodes.
LEMMA NoHitFresh ==
  ASSUME KeyAssumption, SkipListAssumption, WellFormed,
         NEW key \in Key, ~ Hit(Target(key), key)
  PROVE  Fresh(key)
<1> SUFFICES ASSUME NEW k \in Nodes
             PROVE  KeyLen[k] = KeyLen[key] /\ KeyRank[k] # KeyRank[key]
  BY DEF Fresh
<1> DEFINE u == update(0, key)
           q == next[u][0]
<1>1. level > 0 /\ 0 \in Levels /\ k \in On(0)
  BY SkipListAssumption
  DEF WellFormed, Reachable, SkipListTypeOK, Nodes, On, Levels, SkipListAssumption
<1>2. Target(key) = q
  BY <1>1 DEF Target, Landing, WellFormed, SkipListTypeOK
<1>3. Precedes(u, 0, Cut(key))
  BY <1>1, UpdatePrecedes
<1> HIDE DEF u
<1>4. /\ u \in On(0) \cup {HEAD}
      /\ Rank(u) < Cut(key)
      /\ q # NULL => Cut(key) <= Rank(q)
      /\ Rank(k) <= Rank(u) \/ Cut(key) <= Rank(k)
  BY <1>1, <1>3 DEF Precedes
<1>5. IF q = NULL THEN Rank(k) <= Rank(u)
      ELSE q \in On(0) /\ (Rank(k) <= Rank(u) \/ Rank(q) <= Rank(k))
  BY <1>1, <1>4 DEF WellFormed, Linked, Successor
<1>6. /\ Rank(k) \in Nat /\ Cut(key) \in Nat /\ Rank(k) = KeyRank[k]
      /\ Rank(u) \in Int
      /\ q \in On(0) => Rank(q) \in Nat /\ Rank(q) = KeyRank[q] /\ q \in Nodes
  BY <1>4, RankFacts, CutFacts DEF On, Nodes
<1>7. CASE KeyLen[k] # KeyLen[key]
  <2>1. Cut(key) = 0
    BY <1>7 DEF Cut
  <2>2. q # NULL /\ q \in Nodes
    BY <1>4, <1>5, <1>6, <2>1
  <2>3. KeyLen[q] # KeyLen[key]
    BY <1>7, <2>2 DEF WellFormed, SameLength
  <2> QED BY <1>2, <2>2, <2>3 DEF Hit, slKeyCompare
<1>8. CASE KeyLen[k] = KeyLen[key] /\ KeyRank[k] = KeyRank[key]
  <2>1. Cut(key) = KeyRank[key]
    BY <1>8 DEF Cut, WellFormed, SameLength
  <2>2. q # NULL /\ q \in Nodes /\ Rank(q) = Rank(k)
    BY <1>4, <1>5, <1>6, <1>8, <2>1
  <2>3. q = k
    BY <2>2, RankFacts DEF WellFormed
  <2>4. slKeyCompare(q, key) = 0
    BY <1>6, <1>8, <2>3 DEF slKeyCompare, memcmp
  <2> QED BY <1>2, <2>2, <2>4 DEF Hit
<1> QED BY <1>7, <1>8

\* A search that ends at q has found, on every level of q, the pointer to it.
LEMMA HitLinks ==
  ASSUME KeyAssumption, SkipListAssumption, WellFormed,
         NEW key \in Key, NEW q, q = Target(key), Hit(q, key)
  PROVE  /\ q \in Nodes
         /\ level > 0
         /\ \A i \in Levels : Rank(update(i, key)) < Rank(q)
         /\ \A i \in Levels : q \in On(i) => next[update(i, key)][i] = q
         /\ \A i \in Levels : \A x \in On(i) \cup {HEAD} :
               next[x][i] = q => x = update(i, key)
<1>1. level > 0 /\ q = next[update(0, key)][0] /\ q # NULL
  BY DEF Hit, Target, Landing, WellFormed, SkipListTypeOK
<1>2. 0 \in Levels
  BY SkipListAssumption DEF Levels, SkipListAssumption
<1>3. /\ q \in On(0) /\ Cut(key) <= Rank(q)
      /\ \A k \in On(0) : Cut(key) <= Rank(k) => Rank(q) <= Rank(k)
  <2> DEFINE u == update(0, key)
  <2>1. Precedes(u, 0, Cut(key))
    BY <1>2, UpdatePrecedes
  <2>2. q = next[u][0]
    BY <1>1
  <2> HIDE DEF u
  <2>3. Successor(u, 0)
    BY <1>2, <2>1 DEF Precedes, WellFormed, Linked
  <2>4. u \in On(0) \cup {HEAD} /\ Rank(u) \in Int /\ Rank(u) < Cut(key)
    BY <2>1, RankFacts DEF Precedes, On, Nodes
  <2>5. /\ q \in On(0) /\ Cut(key) <= Rank(q)
        /\ \A k \in On(0) : Rank(k) <= Rank(u) \/ Rank(q) <= Rank(k)
    BY <1>1, <2>1, <2>2, <2>3 DEF Precedes, Successor
  <2>6. \A k \in On(0) : Rank(k) \in Nat
    BY RankFacts DEF On, Nodes
  <2> QED BY <2>4, <2>5, <2>6, CutFacts
<1>4. q \in Nodes
  BY <1>3 DEF On
<1>5. \A i \in Levels : On(i) \subseteq On(0)
  BY <1>2 DEF On, Nodes, Levels, WellFormed, SkipListTypeOK
<1>6. ASSUME NEW i \in Levels
      PROVE  /\ Rank(update(i, key)) < Rank(q)
             /\ q \in On(i) => next[update(i, key)][i] = q
             /\ \A x \in On(i) \cup {HEAD} :
                   next[x][i] = q => x = update(i, key)
  <2> DEFINE u == update(i, key)
             y == next[u][i]
  <2>1. Precedes(u, i, Cut(key))
    BY UpdatePrecedes
  <2> HIDE DEF u
  <2>2. Successor(u, i)
    BY <2>1 DEF Precedes, WellFormed, Linked
  <2>3. /\ \A k \in On(i) : Rank(k) \in Nat /\ k \in Nodes /\ k \in On(0)
        /\ Rank(u) \in Int /\ Cut(key) \in Nat /\ Rank(q) \in Nat
        /\ Rank(HEAD) = -1
    BY <1>4, <1>5, <2>1, RankFacts, CutFacts DEF Precedes, On, Nodes
  <2>4. Rank(u) < Rank(q)
    BY <1>3, <2>1, <2>3 DEF Precedes
  <2>5. ASSUME q \in On(i) PROVE y = q
    <3>1. y # NULL /\ y \in On(i) /\ Rank(y) <= Rank(q)
      BY <2>2, <2>3, <2>4, <2>5 DEF Successor
    <3>2. Rank(q) <= Rank(y)
      BY <1>3, <2>1, <2>3, <3>1 DEF Precedes
    <3>3. Rank(y) = Rank(q) /\ y \in Nodes
      BY <2>3, <3>1, <3>2
    <3> QED BY <1>4, <3>3, RankFacts DEF WellFormed
  <2>6. ASSUME NEW x \in On(i) \cup {HEAD}, next[x][i] = q PROVE x = u
    <3>1. /\ q \in On(i) /\ Rank(x) < Rank(q) /\ Rank(x) \in Int
          /\ \A k \in On(i) : Rank(k) <= Rank(x) \/ Rank(q) <= Rank(k)
      BY <1>1, <2>3, <2>6 DEF WellFormed, Linked, Successor
    <3>2. Rank(x) <= Rank(u)
      <4>1. x = HEAD \/ Rank(x) <= Rank(u) \/ Cut(key) <= Rank(x)
        BY <2>1 DEF Precedes
      <4>2. x # HEAD => ~ (Cut(key) <= Rank(x))
        BY <1>3, <2>3, <3>1
      <4>3. u = HEAD \/ Rank(u) \in Nat
        BY <2>1, <2>3 DEF Precedes
      <4> QED BY <2>3, <4>1, <4>2, <4>3
    <3>3. u # HEAD => Rank(u) <= Rank(x)
      BY <2>1, <2>3, <2>4, <3>1 DEF Precedes
    <3>4. CASE u = HEAD
      BY <2>3, <3>2, <3>4
    <3>5. CASE u # HEAD
      <4>1. u \in Nodes /\ Rank(u) = Rank(x) /\ x # HEAD /\ x \in Nodes
        BY <2>1, <2>3, <3>1, <3>2, <3>3, <3>5 DEF Precedes
      <4> QED BY <4>1, RankFacts DEF WellFormed
    <3> QED BY <3>4, <3>5
  <2> QED BY <2>4, <2>5, <2>6 DEF u
<1> QED BY <1>1, <1>4, <1>6

-----------------------------------------------------------------------------
\* On every level the new node reaches, it is linked behind the last node below.
LEMMA PredecessorPrecedes ==
  ASSUME KeyAssumption, SkipListAssumption, WellFormed,
         NEW key \in Key, Fresh(key), NEW i \in Levels
  PROVE  Precedes(Predecessor(i, key), i, KeyRank[key])
<1>1. KeyRank[key] \in Nat
  BY KeyAssumption DEF KeyAssumption
<1>2. CASE i < level
  <2>1. Cut(key) = KeyRank[key]
    BY DEF Cut, Fresh
  <2> QED BY <1>2, <2>1, UpdatePrecedes DEF Predecessor
<1>3. CASE ~ (i < level)
  <2>1. On(i) = {}
    BY <1>3, SkipListAssumption
    DEF On, WellFormed, Reachable, Nodes, SkipListTypeOK, Levels, SkipListAssumption
  <2>2. next[HEAD][i] = NULL
    BY <2>1 DEF WellFormed, Linked, Successor
  <2> QED BY <1>1, <1>3, <2>1, <2>2, RankFacts DEF Precedes, Predecessor
<1> QED BY <1>2, <1>3

\* Linking a new node keeps the list well formed.
LEMMA LinkKeepsWellFormed ==
  ASSUME KeyAssumption, SkipListAssumption, WellFormed,
         NEW key \in Key, NEW v \in Val, NEW t \in gen_random_level,
         Fresh(key), LinkNode(key, v, t)
  PROVE  WellFormed' /\ Nodes' = Nodes \cup {key}
<1> USE DEF WellFormed, SkipListTypeOK, SkipListAssumption, gen_random_level
<1>1. key # HEAD /\ key # NULL /\ key \notin Nodes
  BY SkipListAssumption DEF Fresh
<1>2. \A i \in Levels : Predecessor(i, key) \in (On(i) \cup {HEAD})
  BY PredecessorPrecedes DEF Precedes
<1>3. Nodes' = Nodes \cup {key}
  BY DEF LinkNode, Nodes
<1>4. \A i \in Levels : On(i)' = IF i < t THEN On(i) \cup {key} ELSE On(i)
  BY <1>1, <1>3 DEF LinkNode, On, Nodes, Levels
<1>5. SkipListTypeOK'
  <2>1. level' \in 0..MAX_LEVEL /\ length' \in Int
        /\ height' \in [Key -> 0..MAX_LEVEL]
        /\ val' \in [Key -> Val \cup {FREED, NULL}]
    BY DEF LinkNode
  <2>2. next' \in [Key \cup {HEAD} -> [Levels -> Key \cup {NULL}]]
    <3>1. \A i \in Levels : Predecessor(i, key) \in Key \cup {HEAD}
      BY <1>2 DEF On, Nodes
    <3> QED BY <3>1 DEF LinkNode
  <2> QED BY <2>1, <2>2
<1>6. SameLength'
  BY <1>3 DEF SameLength, Fresh
<1>7. Reachable'
  BY <1>1, <1>3 DEF Reachable, LinkNode, Nodes
<1>8. Linked'
  <2> SUFFICES ASSUME NEW i \in Levels, NEW x \in (On(i) \cup {HEAD})'
               PROVE  Successor(x, i)'
    BY DEF Linked
  <2> DEFINE p == Predecessor(i, key)
  <2>1. Precedes(p, i, KeyRank[key])
    BY PredecessorPrecedes
  <2>2. /\ \A k \in On(i) : Rank(k) \in Nat /\ k \in Nodes /\ k # HEAD
        /\ Rank(key) = KeyRank[key] /\ Rank(key) \in Nat
        /\ Rank(HEAD) = -1
        /\ \A k \in On(i) : Rank(k) # Rank(key)
        /\ \A y : Rank(y)' = Rank(y)
        /\ Rank(p) \in Int
    BY <2>1, RankFacts DEF On, Nodes, Fresh, Rank, Precedes
  <2>3. \A y \in Key \cup {HEAD} :
           next'[y][i] = IF y = key THEN IF i < t THEN next[p][i] ELSE NULL
                         ELSE IF i < t /\ y = p THEN key ELSE next[y][i]
    BY DEF LinkNode
  <2> HIDE DEF p
  <2>4. p \in On(i) \cup {HEAD} /\ p \in Key \cup {HEAD} /\ p # key
    BY <1>1, <2>1 DEF Precedes, On, Nodes
  <2>5. x \in Key \cup {HEAD} /\ (x = key => i < t)
        /\ (x # key => x \in On(i) \cup {HEAD})
    BY <1>1, <1>4 DEF On, Nodes
  <2>6. CASE x = key
    <3>1. next'[x][i] = next[p][i] /\ i < t
      BY <2>3, <2>5, <2>6
    <3>2. Successor(p, i)
      BY <2>4 DEF Linked
    <3>3. CASE next[p][i] = NULL
      <4>1. \A k \in On(i)' : Rank(k) <= Rank(x)
        BY <1>4, <2>1, <2>2, <2>6, <3>2, <3>3 DEF Successor, Precedes
      <4> QED BY <2>2, <3>1, <3>3, <4>1 DEF Successor
    <3>4. CASE next[p][i] # NULL
      <4> DEFINE y == next[p][i]
      <4>1. y \in On(i) /\ Rank(x) < Rank(y)
        <5>1. y \in On(i)
          BY <3>2, <3>4 DEF Successor
        <5>2. KeyRank[key] <= Rank(y)
          BY <2>1, <3>4 DEF Precedes
        <5>3. Rank(y) # Rank(x) /\ Rank(y) \in Nat /\ Rank(x) = KeyRank[key]
              /\ Rank(x) \in Nat
          BY <2>2, <2>6, <5>1
        <5> HIDE DEF WellFormed, SkipListTypeOK, y
        <5> QED BY <5>1, <5>2, <5>3
      <4>2. \A k \in On(i) : Rank(k) <= Rank(p) \/ Rank(y) <= Rank(k)
        BY <3>2, <3>4 DEF Successor
      <4>3. \A k \in On(i)' : Rank(k) <= Rank(x) \/ Rank(y) <= Rank(k)
        BY <1>4, <2>1, <2>2, <2>6, <4>2 DEF Precedes
      <4>4. next'[x][i] = y /\ y \in On(i)' /\ y # NULL
        BY <1>4, <3>1, <3>4, <4>1
      <4> HIDE DEF y
      <4> QED BY <2>2, <4>1, <4>3, <4>4 DEF Successor
    <3> QED BY <3>3, <3>4
  <2>7. CASE x # key /\ i < t /\ x = p
    <3>1. next'[x][i] = key /\ key \in On(i)' /\ Rank(x) < Rank(key)
      BY <1>4, <2>1, <2>2, <2>3, <2>5, <2>7 DEF Precedes
    <3>2. \A k \in On(i)' : Rank(k) <= Rank(x) \/ Rank(key) <= Rank(k)
      BY <1>4, <2>1, <2>2, <2>7 DEF Precedes
    <3> QED BY <1>1, <2>2, <3>1, <3>2 DEF Successor
  <2>8. CASE x # key /\ ~ (i < t)
    <3>1. next'[x][i] = next[x][i] /\ On(i)' = On(i) /\ Successor(x, i)
      BY <1>4, <2>3, <2>5, <2>8 DEF Linked
    <3> QED BY <2>2, <3>1 DEF Successor
  <2>9. CASE x # key /\ i < t /\ x # p
    <3>1. next'[x][i] = next[x][i] /\ Successor(x, i)
          /\ On(i)' = On(i) \cup {key} /\ x \in On(i) \cup {HEAD}
      BY <1>4, <2>3, <2>5, <2>9 DEF Linked
    <3>2. Rank(x) \in Int /\ (x = HEAD => p # HEAD)
      BY <2>2, <2>9, <3>1
    <3>3. p # HEAD => p \in On(i) /\ Rank(p) \in Nat
      BY <2>2, <2>4
    <3>4. \/ Rank(key) <= Rank(x)
          \/ Rank(x) <= Rank(p) /\ p # HEAD
      BY <2>1, <2>2, <2>4, <3>1, <3>2, <3>3 DEF Precedes
    <3>5. CASE Rank(key) <= Rank(x)
      BY <2>2, <3>1, <3>2, <3>5 DEF Successor
    <3>6. CASE ~ (Rank(key) <= Rank(x))
      <4>1. Rank(x) # Rank(p)
        BY <2>2, <2>9, <3>1, <3>3, <3>4, <3>6, RankFacts
      <4>2. p \in On(i) /\ Rank(x) < Rank(p) /\ Rank(p) \in Nat
        <5>1. Rank(x) <= Rank(p) /\ p # HEAD
          BY <3>4, <3>6
        <5>2. p \in On(i) /\ Rank(p) \in Nat
          BY <3>3, <5>1
        <5> HIDE DEF WellFormed, SkipListTypeOK
        <5> QED BY <3>2, <4>1, <5>1, <5>2
      <4>3. next[x][i] # NULL
        BY <3>1, <3>2, <4>2 DEF Successor
      <4> DEFINE y == next[x][i]
      <4>4. y \in On(i) /\ Rank(x) < Rank(y)
            /\ \A k \in On(i) : Rank(k) <= Rank(x) \/ Rank(y) <= Rank(k)
        BY <3>1, <4>3 DEF Successor
      <4> HIDE DEF y
      <4>5. Rank(y) <= Rank(p) /\ Rank(y) \in Nat
        BY <2>2, <3>2, <4>2, <4>4
      <4>6. Rank(y) <= Rank(key)
        BY <2>1, <2>2, <4>2, <4>5 DEF Precedes
      <4>7. next'[x][i] = y /\ y # NULL
        BY <3>1, <4>3 DEF y
      <4> QED BY <2>2, <3>1, <4>4, <4>6, <4>7 DEF Successor
    <3> QED BY <3>5, <3>6
  <2> QED BY <2>6, <2>7, <2>8, <2>9
<1> QED BY <1>3, <1>5, <1>6, <1>7, <1>8

-----------------------------------------------------------------------------
\* How many levels a deletion can give up when those below h keep a node.
LEMMA EmptiedBound ==
  ASSUME level \in Nat, NEW q, NEW h \in 0..level,
         \A i \in EmptiedLevels(q) : h <= i
  PROVE  /\ Cardinality(EmptiedLevels(q)) \in Nat
         /\ Cardinality(EmptiedLevels(q)) <= level - h
<1>1. EmptiedLevels(q) \subseteq h..(level - 1)
  BY DEF EmptiedLevels
<1>2. /\ IsFiniteSet(h..(level - 1))
      /\ Cardinality(h..(level - 1)) = level - h
  <2>1. h \in Int /\ level - 1 \in Int /\ h <= level
    OBVIOUS
  <2>2. IF h > level - 1 THEN level - h = 0 ELSE (level - 1) - h + 1 = level - h
    BY <2>1
  <2> QED BY <2>1, <2>2, FS_Interval
<1> QED BY <1>1, <1>2, FS_Subset, FS_CardinalityType

\* A level a deletion gives up has no other node.
LEMMA EmptiedAlone ==
  ASSUME KeyAssumption, SkipListAssumption, WellFormed,
         NEW q \in Nodes, NEW i \in EmptiedLevels(q)
  PROVE  i \in Levels /\ On(i) = {q}
<1>1. i \in Levels /\ next[HEAD][i] = q /\ next[q][i] = NULL
  BY DEF EmptiedLevels, Levels, WellFormed, SkipListTypeOK
<1>2. q # NULL
  BY RankFacts DEF Nodes
<1>3. /\ q \in On(i)
      /\ \A k \in On(i) : Rank(k) <= Rank(HEAD) \/ Rank(q) <= Rank(k)
  BY <1>1, <1>2 DEF WellFormed, Linked, Successor
<1>4. \A k \in On(i) : Rank(k) <= Rank(q)
  BY <1>1, <1>3 DEF WellFormed, Linked, Successor
<1>5. \A k \in On(i) : k \in Nodes /\ Rank(k) \in Nat
  BY RankFacts DEF On, Nodes
<1>6. ASSUME NEW k \in On(i) PROVE Rank(k) = Rank(q)
  <2>1. Rank(HEAD) = -1
    BY RankFacts
  <2>2. Rank(k) \in Nat /\ Rank(q) \in Nat
    BY <1>3, <1>5
  <2>3. Rank(k) <= Rank(q) /\ (Rank(k) <= -1 \/ Rank(q) <= Rank(k))
    BY <1>3, <1>4, <2>1
  <2> QED BY <2>2, <2>3
<1>7. \A k \in On(i) : k = q
  BY <1>5, <1>6, RankFacts DEF WellFormed
<1> QED BY <1>1, <1>3, <1>7

\* Unlinking the node a search has found keeps the list well formed.
LEMMA UnlinkKeepsWellFormed ==
  ASSUME KeyAssumption, SkipListAssumption, WellFormed,
         NEW key \in Key, NEW q, q = Target(key), Hit(q, key),
         UnlinkNode(q, key)
  PROVE  WellFormed' /\ Nodes' = Nodes \ {q}
<1>1. /\ q \in Nodes /\ level > 0 /\ q \in Key /\ q # HEAD /\ q # NULL
      /\ level \in 0..MAX_LEVEL /\ length \in Int /\ MAX_LEVEL \in Nat
      /\ height \in [Key -> 0..MAX_LEVEL]
      /\ next \in [Key \cup {HEAD} -> [Levels -> Key \cup {NULL}]]
      /\ val \in [Key -> Val \cup {FREED, NULL}]
  BY HitLinks, RankFacts DEF Nodes, WellFormed, SkipListTypeOK, SkipListAssumption
<1>2. Nodes' = Nodes \ {q}
  BY <1>1 DEF UnlinkNode, Nodes
<1>3. \A i \in Levels : On(i)' = On(i) \ {q}
  BY <1>1, <1>2 DEF UnlinkNode, On, Nodes, Levels
<1>4. \A x \in Key \cup {HEAD} : \A i \in Levels :
         next'[x][i] = IF x = q THEN NULL
                       ELSE IF Unlinked(x, i, q, key) THEN next[q][i]
                       ELSE next[x][i]
  BY DEF UnlinkNode, Bypass
<1>5. ASSUME NEW h \in 0..level, \A i \in EmptiedLevels(q) : h <= i
      PROVE  level' \in h..level
  <2>1. /\ Cardinality(EmptiedLevels(q)) \in Nat
        /\ Cardinality(EmptiedLevels(q)) <= level - h
    BY <1>1, <1>5, EmptiedBound
  <2> QED BY <1>1, <2>1 DEF UnlinkNode
<1>6. SkipListTypeOK'
  <2>1. level' \in 0..MAX_LEVEL
    <3>1. \A i \in EmptiedLevels(q) : 0 <= i
      BY DEF EmptiedLevels
    <3> QED BY <1>1, <1>5, <3>1
  <2>2. next' \in [Key \cup {HEAD} -> [Levels -> Key \cup {NULL}]]
    BY <1>1 DEF UnlinkNode, Bypass
  <2>3. /\ length' \in Int
        /\ height' \in [Key -> 0..MAX_LEVEL]
        /\ val' \in [Key -> Val \cup {FREED, NULL}]
    BY <1>1 DEF UnlinkNode
  <2> QED BY <2>1, <2>2, <2>3 DEF SkipListTypeOK
<1>7. SameLength'
  BY <1>2 DEF SameLength, WellFormed
<1>8. Reachable'
  <2> SUFFICES ASSUME NEW k \in Nodes, k # q
               PROVE  height[k] <= level'
    BY <1>1, <1>2 DEF Reachable, UnlinkNode, Nodes
  <2>1. height[k] \in 0..level /\ k \in Key
    BY <1>1 DEF WellFormed, Reachable, Nodes
  <2>2. ASSUME NEW i \in EmptiedLevels(q) PROVE height[k] <= i
    <3>1. k \notin On(i) /\ i \in Nat
      BY <1>1, <2>2, EmptiedAlone DEF Levels
    <3> QED BY <2>1, <3>1 DEF On
  <2>3. level' \in height[k]..level
    BY <1>5, <2>1, <2>2
  <2> QED BY <2>1, <2>3
<1>9. Linked'
  <2> SUFFICES ASSUME NEW i \in Levels, NEW x \in (On(i) \cup {HEAD})'
               PROVE  Successor(x, i)'
    BY DEF Linked
  <2>1. x \in On(i) \cup {HEAD} /\ x # q /\ x \in Key \cup {HEAD}
    BY <1>1, <1>3 DEF On, Nodes
  <2>2. Successor(x, i)
    BY <2>1 DEF WellFormed, Linked
  <2>3. /\ \A k \in On(i) : Rank(k) \in Nat /\ k \in Nodes
        /\ Rank(x) \in Int /\ Rank(q) \in Nat
        /\ \A y : Rank(y)' = Rank(y)
    BY <1>1, <2>1, RankFacts DEF On, Nodes, Rank
  <2>4. CASE next[x][i] # q
    <3>1. next'[x][i] = next[x][i]
      BY <1>4, <2>1, <2>4 DEF Unlinked
    <3> QED BY <1>3, <2>2, <2>3, <2>4, <3>1 DEF Successor
  <2>5. CASE next[x][i] = q
    <3>1. q \in On(i)
      BY <1>1, <2>2, <2>5 DEF Successor
    <3>2. i < level
      BY <1>1, <3>1 DEF On, WellFormed, Reachable, Levels
    <3>3. next'[x][i] = next[q][i]
      <4>1. x = update(i, key)
        BY <2>1, <2>5, HitLinks
      <4> QED BY <1>4, <2>1, <2>5, <3>2, <4>1 DEF Unlinked
    <3>4. Successor(q, i)
      BY <3>1 DEF WellFormed, Linked
    <3>5. \A k \in On(i) \ {q} : Rank(k) <= Rank(x) \/ Rank(q) < Rank(k)
      <4> SUFFICES ASSUME NEW k \in On(i), k # q, ~ (Rank(k) <= Rank(x))
                   PROVE  Rank(q) < Rank(k)
        BY <2>3
      <4>1. Rank(q) <= Rank(k)
        BY <1>1, <2>2, <2>5 DEF Successor
      <4>2. Rank(q) # Rank(k)
        BY <1>1, <2>3, RankFacts DEF WellFormed
      <4> QED BY <2>3, <4>1, <4>2
    <3>6. Rank(x) < Rank(q)
      BY <1>1, <2>2, <2>5 DEF Successor
    <3>7. CASE next[q][i] = NULL
      <4>1. \A k \in On(i)' : Rank(k) <= Rank(x)
        BY <1>3, <2>3, <3>4, <3>5, <3>7 DEF Successor
      <4> QED BY <2>3, <3>3, <3>7, <4>1 DEF Successor
    <3>8. CASE next[q][i] # NULL
      <4> DEFINE y == next[q][i]
      <4>1. y \in On(i) /\ Rank(q) < Rank(y)
            /\ \A k \in On(i) : Rank(k) <= Rank(q) \/ Rank(y) <= Rank(k)
        BY <3>4, <3>8 DEF Successor
      <4>2. next'[x][i] = y /\ y # NULL
        BY <3>3, <3>8
      <4> HIDE DEF y
      <4>3. y \in On(i)' /\ Rank(x) < Rank(y)
        BY <1>3, <2>3, <3>6, <4>1
      <4>4. \A k \in On(i)' : Rank(k) <= Rank(x) \/ Rank(y) <= Rank(k)
        BY <1>3, <2>3, <3>5, <4>1
      <4> QED BY <2>3, <4>2, <4>3, <4>4 DEF Successor
    <3> QED BY <3>7, <3>8
  <2> QED BY <2>4, <2>5
<1> QED BY <1>2, <1>6, <1>7, <1>8, <1>9 DEF WellFormed

-----------------------------------------------------------------------------
\* The empty list is well formed.
LEMMA CreateWellFormed ==
  ASSUME SkipListAssumption, create_skiplist
  PROVE  WellFormed /\ Nodes = {}
<1>1. Nodes = {} /\ \A i \in Levels : On(i) = {}
  BY DEF create_skiplist, Nodes, On
<1>2. SkipListTypeOK
  BY DEF create_skiplist, SkipListTypeOK, SkipListAssumption
<1>3. Linked
  BY <1>1 DEF create_skiplist, Linked, Successor
<1> QED BY <1>1, <1>2, <1>3 DEF WellFormed, SameLength, Reachable

\* A step that changes no link, at most raising the level.
LEMMA KeptLinks ==
  ASSUME SkipListAssumption, WellFormed, UNCHANGED <<height, next>>,
         level' \in level..MAX_LEVEL, length' \in Int,
         val' \in [Key -> Val \cup {FREED, NULL}]
  PROVE  WellFormed' /\ Nodes' = Nodes
<1>1. Nodes' = Nodes /\ \A i : On(i)' = On(i)
  BY DEF Nodes, On
<1>2. SkipListTypeOK'
  BY DEF WellFormed, SkipListTypeOK, SkipListAssumption
<1>3. \A x : Rank(x)' = Rank(x)
  BY DEF Rank
<1>4. \A i \in Levels : \A x \in On(i) \cup {HEAD} : Successor(x, i)'
  BY <1>1, <1>3 DEF WellFormed, Linked, Successor
<1>5. Linked'
  BY <1>1, <1>4 DEF Linked
<1>6. SameLength'
  BY <1>1 DEF WellFormed, SameLength
<1>7. Reachable'
  <2>1. level \in Int /\ level' \in Int /\ level <= level'
        /\ \A k \in Nodes : height[k] \in Int
    BY DEF WellFormed, SkipListTypeOK, Nodes
  <2> QED BY <1>1, <2>1 DEF WellFormed, Reachable
<1> QED BY <1>1, <1>2, <1>5, <1>6, <1>7 DEF WellFormed

\* An insertion keeps the list well formed, whether or not the key compares as
\* equal to a node and whether or not a node can be allocated.
LEMMA InsertKeepsWellFormed ==
  ASSUME KeyAssumption, SkipListAssumption, WellFormed,
         NEW key \in Key, NEW v \in Val, NEW t \in gen_random_level,
         NEW allocated \in BOOLEAN, insert_skiplist(key, v, t, allocated)
  PROVE  /\ WellFormed'
         /\ Nodes' \in {Nodes, Nodes \cup {key}}
         /\ ~ Hit(Target(key), key) /\ allocated => Nodes' = Nodes \cup {key}
<1>1. CASE Hit(Target(key), key)
  <2>1. OverwriteNode(Target(key))
    BY <1>1 DEF insert_skiplist
  <2>2. /\ UNCHANGED <<height, next>> /\ level' \in level..MAX_LEVEL
        /\ length' \in Int /\ val' \in [Key -> Val \cup {FREED, NULL}]
    <3>1. level \in 0..MAX_LEVEL /\ length \in Int /\ MAX_LEVEL \in Nat
          /\ val \in [Key -> Val \cup {FREED, NULL}]
      BY DEF WellFormed, SkipListTypeOK, SkipListAssumption
    <3>2. UNCHANGED <<level, height, next>> /\ length' = length + 1
      BY <2>1 DEF OverwriteNode
    <3>3. val' \in [Key -> Val \cup {FREED, NULL}]
      BY <2>1, <3>1 DEF OverwriteNode
    <3> QED BY <3>1, <3>2, <3>3
  <2> QED BY <1>1, <2>2, KeptLinks
<1>2. CASE ~ Hit(Target(key), key) /\ allocated
  <2>1. LinkNode(key, v, t)
    BY <1>2 DEF insert_skiplist
  <2>2. Fresh(key)
    BY <1>2, NoHitFresh
  <2> QED BY <2>1, <2>2, LinkKeepsWellFormed
<1>3. CASE ~ Hit(Target(key), key) /\ ~ allocated
  <2>1. LinkFails(t)
    BY <1>3 DEF insert_skiplist
  <2>2. /\ UNCHANGED <<height, next>> /\ level' \in level..MAX_LEVEL
        /\ length' \in Int /\ val' \in [Key -> Val \cup {FREED, NULL}]
    <3>1. /\ level \in 0..MAX_LEVEL /\ t \in 1..MAX_LEVEL /\ length \in Int
          /\ val \in [Key -> Val \cup {FREED, NULL}] /\ MAX_LEVEL \in Nat
      BY DEF WellFormed, SkipListTypeOK, gen_random_level, SkipListAssumption
    <3>2. level' = (IF t > level THEN t ELSE level)
          /\ UNCHANGED <<length, height, next, val>>
      BY <2>1 DEF LinkFails
    <3> QED BY <3>1, <3>2
  <2> QED BY <1>3, <2>2, KeptLinks
<1> QED BY <1>1, <1>2, <1>3

\* A deletion keeps the list well formed and leaves no node with the key.
LEMMA DeleteKeepsWellFormed ==
  ASSUME KeyAssumption, SkipListAssumption, WellFormed,
         NEW key \in Key, delete_skiplist(key)
  PROVE  /\ WellFormed'
         /\ Nodes' \subseteq Nodes \ {key}
         /\ key \in Nodes => Target(key) = key /\ Hit(Target(key), key)
                             /\ Nodes' = Nodes \ {key}
<1> DEFINE q == Target(key)
<1>1. CASE Hit(q, key)
  <2>1. UnlinkNode(q, key)
    BY <1>1 DEF delete_skiplist
  <2>2. WellFormed' /\ Nodes' = Nodes \ {q}
    BY <1>1, <2>1, UnlinkKeepsWellFormed
  <2>3. q \in Nodes
    BY <1>1, HitLinks
  <2> HIDE DEF q
  <2>4. ASSUME key \in Nodes PROVE q = key
    <3>1. KeyLen[q] = KeyLen[key] /\ q \in Key
      BY <2>3, <2>4 DEF WellFormed, SameLength, Nodes
    <3>2. KeyRank[q] = KeyRank[key]
      BY <1>1, <3>1, KeyAssumption DEF Hit, slKeyCompare, memcmp, KeyAssumption
    <3> QED BY <3>1, <3>2, KeyAssumption DEF KeyAssumption
  <2> QED BY <1>1, <2>2, <2>4 DEF q
<1>2. CASE ~ Hit(q, key)
  <2>1. Fresh(key)
    BY <1>2, NoHitFresh
  <2>2. key \notin Nodes
    BY <2>1 DEF Fresh
  <2>3. UNCHANGED listVars
    BY <1>2 DEF delete_skiplist
  <2>4. WellFormed' /\ Nodes' = Nodes
    <3>1. level' \in level..MAX_LEVEL /\ length' \in Int
          /\ val' \in [Key -> Val \cup {FREED, NULL}]
      BY <2>3 DEF listVars, WellFormed, SkipListTypeOK
    <3> QED BY <2>3, <3>1, KeptLinks DEF listVars
  <2> QED BY <2>2, <2>4
<1> QED BY <1>1, <1>2

\* Replacing a value changes no link.
LEMMA ReplaceKeepsWellFormed ==
  ASSUME SkipListAssumption, WellFormed,
         NEW key \in Key, NEW v \in Val, replace_skiplist(key, v)
  PROVE  WellFormed' /\ Nodes' = Nodes
<1>1. /\ UNCHANGED <<height, next>> /\ level' \in level..MAX_LEVEL
      /\ length' \in Int
  BY DEF replace_skiplist, WellFormed, SkipListTypeOK
<1>2. val' \in [Key -> Val \cup {FREED, NULL}]
  BY DEF replace_skiplist, WellFormed, SkipListTypeOK
<1> QED BY <1>1, <1>2, KeptLinks

\* A search for a key that has a node ends at that node, although it may leave
\* the loop on any level.
LEMMA SearchFindsNode ==
  ASSUME KeyAssumption, SkipListAssumption, WellFormed, NEW key \in Nodes
  PROVE  SearchNode(key) = key /\ Target(key) = key /\ Hit(key, key)
<1>1. key \in Key /\ 0 \in Levels
  BY SkipListAssumption DEF Nodes, Levels, SkipListAssumption
<1>2. level \in 0..MAX_LEVEL /\ 0..(level - 1) \subseteq Levels
  BY SkipListAssumption
  DEF WellFormed, SkipListTypeOK, Levels, SkipListAssumption
<1>3. Hit(Target(key), key)
  <2>1. ~ Fresh(key)
    BY DEF Fresh
  <2> QED BY <1>1, <2>1, NoHitFresh
<1>4. Target(key) \in Nodes /\ level > 0
  BY <1>1, <1>3, HitLinks
<1>5. ASSUME NEW k \in Nodes, Hit(k, key) PROVE k = key
  <2>1. KeyLen[k] = KeyLen[key] /\ k \in Key
    BY DEF WellFormed, SameLength, Nodes
  <2>2. KeyRank[k] = KeyRank[key]
    BY <1>1, <1>5, <2>1, KeyAssumption
    DEF Hit, slKeyCompare, memcmp, KeyAssumption
  <2> QED BY <1>1, <2>1, <2>2, KeyAssumption DEF KeyAssumption
<1>6. Target(key) = key
  BY <1>3, <1>4, <1>5
<1>7. 0 \in HitLevels(key)
  BY <1>2, <1>3, <1>4 DEF HitLevels, Target
<1>8. PICK top \in HitLevels(key) : \A j \in HitLevels(key) : j <= top
  <2> DEFINE S == HitLevels(key)
             f == [i \in S |-> i]
  <2>1. f \in [S -> Nat] /\ (\A i \in S : f[i] <= MAX_LEVEL) /\ MAX_LEVEL \in Nat
    BY <1>2 DEF HitLevels, SkipListAssumption
  <2>2. PICK m \in S : \A n \in S : f[n] <= f[m]
    <3> HIDE DEF f, S
    <3> QED BY <1>7, <2>1, Greatest DEF S
  <2> QED BY <2>2
<1> DEFINE t == CHOOSE i \in HitLevels(key) : \A j \in HitLevels(key) : j <= i
<1>9. t \in HitLevels(key)
  BY <1>8
<1> HIDE DEF t
<1>10. Hit(Landing(t, key), key) /\ t \in Levels
  BY <1>2, <1>9 DEF HitLevels
<1>11. Landing(t, key) \in Nodes
  <2>1. Precedes(update(t, key), t, Cut(key))
    BY <1>1, <1>10, UpdatePrecedes
  <2>2. Successor(update(t, key), t)
    BY <1>10, <2>1 DEF Precedes, WellFormed, Linked
  <2> QED BY <1>10, <2>2 DEF Successor, Landing, Hit, On
<1>12. Landing(t, key) = key
  BY <1>5, <1>10, <1>11
<1>13. SearchNode(key) = Landing(t, key)
  BY <1>7 DEF SearchNode, t
<1> QED BY <1>3, <1>6, <1>12, <1>13

-----------------------------------------------------------------------------
\* Linking a node leaves no level of the list empty.
LEMMA LinkKeepsTight ==
  ASSUME KeyAssumption, SkipListAssumption, WellFormed, LevelTight,
         NEW key \in Key, NEW v \in Val, NEW t \in gen_random_level,
         Fresh(key), LinkNode(key, v, t)
  PROVE  LevelTight'
<1> SUFFICES ASSUME NEW i \in 0..(level' - 1)
             PROVE  next'[HEAD][i] # NULL
  BY DEF LevelTight
<1>1. /\ level \in 0..MAX_LEVEL /\ t \in 1..MAX_LEVEL /\ MAX_LEVEL \in Nat
      /\ level' = (IF t > level THEN t ELSE level)
  BY DEF WellFormed, SkipListTypeOK, gen_random_level, SkipListAssumption, LinkNode
<1>2. i \in Levels /\ key # HEAD /\ key # NULL
  BY <1>1, RankFacts DEF Levels
<1>3. next'[HEAD][i] = IF i < t /\ HEAD = Predecessor(i, key) THEN key
                       ELSE next[HEAD][i]
  BY <1>2 DEF LinkNode
<1>4. CASE i < t /\ HEAD = Predecessor(i, key)
  BY <1>2, <1>3, <1>4
<1>5. CASE i < t /\ HEAD # Predecessor(i, key)
  <2> DEFINE p == Predecessor(i, key)
  <2>1. p \in On(i)
    BY <1>2, <1>5, PredecessorPrecedes DEF Precedes
  <2> HIDE DEF p
  <2>2. Rank(p) \in Nat /\ Rank(HEAD) = -1
    BY <2>1, RankFacts DEF On, Nodes
  <2>3. next[HEAD][i] # NULL
    BY <1>2, <2>1, <2>2 DEF WellFormed, Linked, Successor
  <2> QED BY <1>3, <1>5, <2>3
<1>6. CASE ~ (i < t)
  <2>1. i \in 0..(level - 1) /\ i # 0
    BY <1>1, <1>6
  <2> QED BY <1>3, <1>6, <2>1 DEF LevelTight
<1> QED BY <1>4, <1>5, <1>6

\* Unlinking a node gives up exactly the levels it was the last node of: they
\* are the highest ones.
LEMMA UnlinkKeepsTight ==
  ASSUME KeyAssumption, SkipListAssumption, WellFormed, LevelTight,
         NEW key \in Key, NEW q, q = Target(key), Hit(q, key),
         UnlinkNode(q, key)
  PROVE  LevelTight'
<1> SUFFICES ASSUME NEW i \in 0..(level' - 1), next'[HEAD][i] = NULL
             PROVE  FALSE
  BY DEF LevelTight
<1>1. /\ q \in Nodes /\ q # HEAD /\ level \in 0..MAX_LEVEL
      /\ level' = level - Cardinality(EmptiedLevels(q))
  BY HitLinks, RankFacts DEF UnlinkNode, Nodes, WellFormed, SkipListTypeOK
<1>2. Cardinality(EmptiedLevels(q)) \in Nat /\ IsFiniteSet(EmptiedLevels(q))
  <2>1. EmptiedLevels(q) \subseteq 0..(level - 1)
    BY DEF EmptiedLevels
  <2>2. IsFiniteSet(0..(level - 1))
    <3>1. level - 1 \in Int
      BY <1>1
    <3> QED BY ONLY <3>1, FS_Interval
  <2> QED BY <2>1, <2>2, FS_Subset, FS_CardinalityType
<1>3. i \in 0..(level - 1) /\ i \in Levels
  BY <1>1, <1>2, SkipListAssumption DEF Levels, SkipListAssumption
<1>4. \A j \in 0..(level - 1) : next[HEAD][j] # NULL
  BY <1>1 DEF LevelTight
<1>5. i \in EmptiedLevels(q)
  <2>1. next[HEAD][i] # NULL
    BY <1>3, <1>4
  <2>2. Unlinked(HEAD, i, q, key) /\ next[q][i] = NULL
    BY <1>1, <1>3, <2>1 DEF UnlinkNode, Bypass
  <2> QED BY <1>3, <2>2 DEF Unlinked, EmptiedLevels
<1>6. i..(level - 1) \subseteq EmptiedLevels(q)
  <2> SUFFICES ASSUME NEW j \in i..(level - 1)
               PROVE  j \in EmptiedLevels(q)
    OBVIOUS
  <2>1. j \in 0..(level - 1) /\ j \in Levels /\ i <= j
    BY <1>1, <1>3, SkipListAssumption DEF Levels, SkipListAssumption
  <2>2. On(j) \subseteq On(i)
    BY <1>3, <2>1 DEF On, Nodes, Levels, WellFormed, SkipListTypeOK
  <2>3. On(j) \subseteq {q}
    BY <1>1, <1>5, <2>2, EmptiedAlone
  <2>4. next[HEAD][j] = q
    BY <1>4, <2>1, <2>3 DEF WellFormed, Linked, Successor
  <2>5. q \in On(j)
    BY <1>4, <2>1, <2>3 DEF WellFormed, Linked, Successor
  <2>6. Rank(q) \in Nat
    BY <1>1, RankFacts DEF Nodes
  <2>7. next[q][j] = NULL
    <3> SUFFICES ASSUME next[q][j] # NULL PROVE FALSE
      OBVIOUS
    <3>1. next[q][j] \in On(j) /\ Rank(q) < Rank(next[q][j])
      BY <2>1, <2>5 DEF WellFormed, Linked, Successor
    <3> QED BY <2>3, <2>6, <3>1
  <2> QED BY <2>1, <2>4, <2>7 DEF EmptiedLevels
<1>7. Cardinality(i..(level - 1)) <= Cardinality(EmptiedLevels(q))
  BY <1>2, <1>6, FS_Subset
<1>8. Cardinality(i..(level - 1)) = level - i
  <2>1. i \in Int /\ level - 1 \in Int /\ ~ (i > level - 1)
    BY <1>1, <1>3
  <2>2. (level - 1) - i + 1 = level - i
    BY <1>1, <1>3
  <2> QED BY <2>1, <2>2, FS_Interval
<1>9. i <= level' - 1
  BY <1>1, <1>2
<1> QED BY <1>1, <1>2, <1>3, <1>7, <1>8, <1>9

-----------------------------------------------------------------------------
(***************************************************************************)
(* The commands                                                            *)
(***************************************************************************)
AnyMode == TypeOK /\ WellFormed /\ NodesIndexed

\* Every key of the store has the configured length, ...
LegalKeys == \A k \in dict : KeyLen[k] = key_len

\* ... every node's string is a value that was put, and not a freed one, ...
LiveValues == \A k \in Nodes : val[k] \in Val

\* ... and the two indexes agree.
FixedMode ==
    /\ AnyMode
    /\ LegalKeys
    /\ LiveValues
    /\ IndexAgreement
    /\ LevelTight
    /\ IsFiniteSet(dict)
    /\ LengthCounts
    /\ NeverCrashes

-----------------------------------------------------------------------------
LEMMA InitAnyMode == Init => AnyMode
<1> SUFFICES ASSUME Init PROVE AnyMode
  OBVIOUS
<1>1. WellFormed /\ Nodes = {}
  BY SkipListAssumption, CreateWellFormed DEF Init
<1> QED BY <1>1 DEF Init, AnyMode, TypeOK, NodesIndexed, WellFormed

\* A step that leaves the list and the hash table alone.
LEMMA KeptAnyMode ==
  ASSUME AnyMode, UNCHANGED <<listVars, dict>>,
         status' \in {"up", "crashed", "exited"}
  PROVE  AnyMode' /\ Nodes' = Nodes
<1>1. UNCHANGED <<level, length, height, next, val, dict>>
  BY DEF listVars
<1>2. level' \in level..MAX_LEVEL /\ length' \in Int
      /\ val' \in [Key -> Val \cup {FREED, NULL}]
  BY <1>1 DEF AnyMode, TypeOK, SkipListTypeOK
<1>3. WellFormed' /\ Nodes' = Nodes
  BY <1>1, <1>2, SkipListAssumption, KeptLinks DEF AnyMode
<1> QED BY <1>1, <1>3 DEF AnyMode, TypeOK, NodesIndexed, WellFormed

LEMMA PutAnyMode ==
  ASSUME AnyMode, NEW key \in Key, NEW v \in Val, putCommand(key, v)
  PROVE  AnyMode'
<1>1. CASE UNCHANGED <<listVars, dict>> /\ status' \in {"up", "crashed"}
  BY <1>1, KeptAnyMode
<1>2. CASE replace_skiplist(key, v) /\ UNCHANGED dict /\ status' = "up"
  <2>1. WellFormed' /\ Nodes' = Nodes
    BY <1>2, SkipListAssumption, ReplaceKeepsWellFormed DEF AnyMode
  <2> QED BY <1>2, <2>1 DEF AnyMode, TypeOK, NodesIndexed, WellFormed
<1>3. ASSUME NEW t \in gen_random_level, NEW allocated \in BOOLEAN,
             insert_skiplist(key, v, t, allocated),
             dict' = dict \cup {key}, status' = "up"
      PROVE  AnyMode'
  <2>1. WellFormed' /\ Nodes' \in {Nodes, Nodes \cup {key}}
    BY <1>3, KeyAssumption, SkipListAssumption, InsertKeepsWellFormed
    DEF AnyMode
  <2> QED BY <1>3, <2>1 DEF AnyMode, TypeOK, NodesIndexed, WellFormed
<1>4. CASE ~ (LegalKey(key) /\ LegalVal(v))
  BY <1>1, <1>4 DEF putCommand, Refuse, Answer
<1>5. CASE PutReplaces(key, v)
  BY <1>1, <1>2, <1>5 DEF PutReplaces, Answer, Crash
<1>6. CASE PutInserts(key, v)
  <2>1. MallocCanFail \in BOOLEAN
    BY CommandsAssumption DEF CommandsAssumption
  <2> QED BY <1>1, <1>3, <1>6, <2>1 DEF PutInserts, Answer, Crash
<1> QED BY <1>4, <1>5, <1>6 DEF putCommand

LEMMA DeleteAnyMode ==
  ASSUME AnyMode, NEW key \in Key, deleteCommand(key)
  PROVE  AnyMode'
<1>1. CASE UNCHANGED <<listVars, dict>> /\ status' \in {"up", "crashed"}
  BY <1>1, KeptAnyMode
<1>2. CASE delete_skiplist(key) /\ dict' = dict \ {key} /\ status' = "up"
  <2>1. WellFormed' /\ Nodes' \subseteq Nodes \ {key}
    BY <1>2, KeyAssumption, SkipListAssumption, DeleteKeepsWellFormed
    DEF AnyMode
  <2> QED BY <1>2, <2>1 DEF AnyMode, TypeOK, NodesIndexed, WellFormed
<1> QED BY <1>1, <1>2
    DEF deleteCommand, DeleteMissing, DeleteFound, Refuse, Answer, Crash

\* The other commands change neither the list nor the hash table.
LEMMA ReadersKeep ==
  ASSUME \/ \E key \in Key : getCommand(key)
         \/ \E start, end \in Key : scanCommand(start, end)
         \/ infoCommand \/ pingCommand \/ shutdownCommand
  PROVE  UNCHANGED <<listVars, dict>> /\ status' \in {"up", "crashed", "exited"}
<1>1. ASSUME NEW key \in Key, getCommand(key)
      PROVE  UNCHANGED <<listVars, dict>> /\ status' \in {"up", "crashed"}
  BY <1>1 DEF getCommand, GetFound, GetMissing, Refuse, Answer, Crash
<1>2. ASSUME NEW start \in Key, NEW end \in Key, scanCommand(start, end)
      PROVE  UNCHANGED <<listVars, dict>> /\ status' = "up"
  BY <1>2 DEF scanCommand, Answer
<1>3. CASE infoCommand
  BY <1>3 DEF infoCommand, InfoOfEmpty, InfoOfNodes, Answer, Crash
<1>4. CASE pingCommand \/ shutdownCommand
  BY <1>4 DEF pingCommand, shutdownCommand, Answer
<1> QED BY <1>1, <1>2, <1>3, <1>4

LEMMA NextAnyMode == AnyMode /\ [Next]_vars => AnyMode'
<1> SUFFICES ASSUME AnyMode, [Next]_vars PROVE AnyMode'
  OBVIOUS
<1>1. ASSUME NEW key \in Key, NEW v \in Val, putCommand(key, v) PROVE AnyMode'
  BY <1>1, PutAnyMode
<1>2. ASSUME NEW key \in Key, deleteCommand(key) PROVE AnyMode'
  BY <1>2, DeleteAnyMode
<1>3. CASE UNCHANGED <<listVars, dict>> /\ status' \in {"up", "crashed", "exited"}
  BY <1>3, KeptAnyMode
<1>4. CASE UNCHANGED vars
  BY <1>3, <1>4 DEF vars, AnyMode, TypeOK
<1> QED BY <1>1, <1>2, <1>3, <1>4, ReadersKeep DEF Next

\* In every configuration, with and without a fixed length and with and without
\* memory for new nodes, every command leaves a well-formed list: each level
\* links exactly the nodes that reach it, in ascending order, all keys have one
\* length, and no node stands higher than the level at which searches start.
THEOREM ListIsLinked == Spec => [](Linked /\ SameLength /\ Reachable)
<1>1. Spec => []AnyMode
  BY InitAnyMode, NextAnyMode, PTL DEF Spec
<1>2. AnyMode => Linked /\ SameLength /\ Reachable
  BY DEF AnyMode, WellFormed
<1> QED BY <1>1, <1>2, PTL

\* In every configuration no key of the list is unknown to the hash table, so
\* that every node can still be deleted.
THEOREM ListIsIndexed == Spec => [](TypeOK /\ NodesIndexed)
<1>1. Spec => []AnyMode
  BY InitAnyMode, NextAnyMode, PTL DEF Spec
<1>2. AnyMode => TypeOK /\ NodesIndexed
  BY DEF AnyMode
<1> QED BY <1>1, <1>2, PTL

-----------------------------------------------------------------------------
LEMMA InitFixedMode == Init => FixedMode
<1> SUFFICES ASSUME Init PROVE FixedMode
  OBVIOUS
<1>1. Nodes = {}
  BY SkipListAssumption, CreateWellFormed DEF Init
<1>2. IsFiniteSet({}) /\ Cardinality({}) = 0
  BY FS_EmptySet
<1>3. LevelTight
  BY <1>1 DEF Init, create_skiplist, LevelTight
<1> QED
  BY <1>1, <1>2, <1>3, InitAnyMode
  DEF Init, create_skiplist, FixedMode, LegalKeys, LiveValues, IndexAgreement,
      LengthCounts, NeverCrashes

\* Two keys of the configured length that compare as equal are the same key.
LEMMA EqualIsSame ==
  ASSUME NEW j \in Key, NEW k \in Key, KeyLen[j] = KeyLen[k],
         slKeyCompare(j, k) = 0
  PROVE  j = k
<1>1. KeyRank[j] = KeyRank[k]
  BY KeyAssumption DEF slKeyCompare, memcmp, KeyAssumption
<1> QED BY <1>1, KeyAssumption DEF KeyAssumption

\* A step that leaves the list and the hash table alone and does not crash.
LEMMA KeptFixedMode ==
  ASSUME FixedMode, UNCHANGED <<listVars, dict>>, status' \in {"up", "exited"}
  PROVE  FixedMode'
<1>1. AnyMode' /\ Nodes' = Nodes
  BY KeptAnyMode DEF FixedMode
<1> QED
  BY <1>1
  DEF FixedMode, listVars, LegalKeys, LiveValues, IndexAgreement, LevelTight,
      LengthCounts, NeverCrashes

\* A key of the hash table is found, with a string that was not freed.
LEMMA FixedSearch ==
  ASSUME FixedMode, NEW key \in dict
  PROVE  /\ key \in Key /\ key \in Nodes
         /\ SearchNode(key) = key /\ Target(key) = key /\ Hit(key, key)
         /\ search_skiplist(key) \in Val
         /\ search_skiplist(key) \notin {NULL, FREED}
         /\ ~ DoubleFree(key)
<1>1. key \in Nodes /\ key \in Key /\ key # NULL
  BY RankFacts, KeyAssumption, SkipListAssumption
  DEF FixedMode, IndexAgreement, Nodes
<1>2. SearchNode(key) = key /\ Target(key) = key /\ Hit(key, key)
  BY <1>1, SearchFindsNode, KeyAssumption, SkipListAssumption
  DEF FixedMode, AnyMode
<1>3. val[key] \in Val
  BY <1>1 DEF FixedMode, LiveValues
<1> QED BY <1>1, <1>2, <1>3, SkipListAssumption
        DEF search_skiplist, DoubleFree, SkipListAssumption

LEMMA PutFixedMode ==
  ASSUME FixedMode, FixedLength, ~ MallocCanFail,
         NEW key \in Key, NEW v \in Val, putCommand(key, v)
  PROVE  FixedMode'
<1>1. AnyMode'
  BY PutAnyMode DEF FixedMode
<1>2. CASE ~ (LegalKey(key) /\ LegalVal(v))
  BY <1>2, KeptFixedMode DEF putCommand, Refuse, Answer
<1>3. CASE key \in dict /\ PutReplaces(key, v)
  <2>1. SearchNode(key) = key /\ key # NULL /\ ~ DoubleFree(key)
    BY <1>3, FixedSearch, RankFacts, KeyAssumption, SkipListAssumption
  <2>2. replace_skiplist(key, v) /\ UNCHANGED dict /\ status' = "up"
    BY <1>3, <2>1 DEF PutReplaces, Answer
  <2>3. val' = [val EXCEPT ![key] = v]
        /\ UNCHANGED <<level, length, height, next>>
    BY <2>1, <2>2 DEF replace_skiplist
  <2>4. Nodes' = Nodes
    BY <2>3 DEF Nodes
  <2>5. val \in [Key -> Val \cup {FREED, NULL}]
    BY DEF FixedMode, AnyMode, TypeOK, SkipListTypeOK
  <2>6. LiveValues'
    BY <2>3, <2>4, <2>5 DEF FixedMode, LiveValues, Nodes
  <2> QED
    BY <1>1, <2>2, <2>3, <2>4, <2>6
    DEF FixedMode, LegalKeys, IndexAgreement, LevelTight, LengthCounts,
        NeverCrashes
<1>4. CASE LegalKey(key) /\ key \notin dict /\ PutInserts(key, v)
  <2>1. KeyLen[key] = key_len /\ key \notin Nodes
    BY <1>4 DEF LegalKey, FixedMode, IndexAgreement
  <2>2. ~ Hit(Target(key), key)
    <3> SUFFICES ASSUME Hit(Target(key), key) PROVE FALSE
      OBVIOUS
    <3>1. Target(key) \in Nodes
      BY HitLinks, KeyAssumption, SkipListAssumption DEF FixedMode, AnyMode
    <3>2. Target(key) \in Key /\ KeyLen[Target(key)] = KeyLen[key]
      BY <2>1, <3>1 DEF FixedMode, IndexAgreement, LegalKeys, Nodes
    <3>3. Target(key) = key
      BY <3>2, EqualIsSame DEF Hit
    <3> QED BY <2>1, <3>1, <3>3
  <2>3. PICK t \in gen_random_level :
           insert_skiplist(key, v, t, TRUE) /\ dict' = dict \cup {key}
           /\ status' = "up"
    BY <1>4, <2>2 DEF PutInserts, Answer
  <2>4. LinkNode(key, v, t)
    BY <2>2, <2>3 DEF insert_skiplist
  <2>5. Fresh(key)
    BY <2>2, NoHitFresh, KeyAssumption, SkipListAssumption
    DEF FixedMode, AnyMode
  <2>6. Nodes' = Nodes \cup {key}
    BY <2>4, <2>5, LinkKeepsWellFormed, KeyAssumption, SkipListAssumption
    DEF FixedMode, AnyMode
  <2>7. LevelTight'
    BY <2>4, <2>5, LinkKeepsTight, KeyAssumption, SkipListAssumption
    DEF FixedMode, AnyMode
  <2>8. val \in [Key -> Val \cup {FREED, NULL}] /\ length \in Int
    BY DEF FixedMode, AnyMode, TypeOK, SkipListTypeOK
  <2>9. LiveValues'
    BY <2>4, <2>6, <2>8 DEF LinkNode, FixedMode, LiveValues, Nodes
  <2>10. IsFiniteSet(dict)' /\ LengthCounts'
    BY <1>4, <2>3, <2>4, <2>8, FS_AddElement
    DEF FixedMode, LengthCounts, LinkNode
  <2>11. LegalKeys' /\ IndexAgreement' /\ NeverCrashes'
    BY <2>1, <2>3, <2>6
    DEF FixedMode, LegalKeys, IndexAgreement, NeverCrashes
  <2> QED BY <1>1, <2>7, <2>9, <2>10, <2>11 DEF FixedMode
<1> QED BY <1>2, <1>3, <1>4 DEF putCommand

LEMMA DeleteFixedMode ==
  ASSUME FixedMode, FixedLength, NEW key \in Key, deleteCommand(key)
  PROVE  FixedMode'
<1>1. AnyMode'
  BY DeleteAnyMode DEF FixedMode
<1>2. CASE Refuse \/ DeleteMissing
  BY <1>2, KeptFixedMode DEF Refuse, DeleteMissing, Answer
<1>3. CASE key \in dict /\ DeleteFound(key)
  <2>1. Target(key) = key /\ Hit(key, key) /\ ~ DoubleFree(key)
    BY <1>3, FixedSearch
  <2>2. delete_skiplist(key) /\ dict' = dict \ {key} /\ status' = "up"
    BY <1>3, <2>1 DEF DeleteFound, Answer
  <2>3. UnlinkNode(key, key)
    BY <2>1, <2>2 DEF delete_skiplist
  <2>4. Nodes' = Nodes \ {key}
    BY <2>1, <2>3, UnlinkKeepsWellFormed, KeyAssumption, SkipListAssumption
    DEF FixedMode, AnyMode
  <2>5. LevelTight'
    BY <2>1, <2>3, UnlinkKeepsTight, KeyAssumption, SkipListAssumption
    DEF FixedMode, AnyMode
  <2>6. val \in [Key -> Val \cup {FREED, NULL}] /\ length \in Int
    BY DEF FixedMode, AnyMode, TypeOK, SkipListTypeOK
  <2>7. LiveValues'
    BY <2>3, <2>4, <2>6 DEF UnlinkNode, FixedMode, LiveValues, Nodes
  <2>8. IsFiniteSet(dict)' /\ LengthCounts'
    BY <1>3, <2>2, <2>3, <2>6, FS_RemoveElement
    DEF FixedMode, LengthCounts, UnlinkNode
  <2>9. LegalKeys' /\ IndexAgreement' /\ NeverCrashes'
    BY <2>2, <2>4 DEF FixedMode, LegalKeys, IndexAgreement, NeverCrashes
  <2> QED BY <1>1, <2>5, <2>7, <2>8, <2>9 DEF FixedMode
<1> QED BY <1>2, <1>3 DEF deleteCommand

\* The commands that only read do not crash on a well-kept store.
LEMMA ReadersSurvive ==
  ASSUME FixedMode,
         \/ \E key \in Key : getCommand(key)
         \/ \E start, end \in Key : scanCommand(start, end)
         \/ infoCommand \/ pingCommand \/ shutdownCommand
  PROVE  status' \in {"up", "exited"}
<1>1. ASSUME NEW key \in Key, getCommand(key) PROVE status' = "up"
  BY <1>1, FixedSearch DEF getCommand, GetFound, GetMissing, Refuse, Answer
<1>2. ASSUME NEW start \in Key, NEW end \in Key, scanCommand(start, end)
      PROVE  status' = "up"
  BY <1>2 DEF scanCommand, Answer
<1>3. ASSUME infoCommand PROVE status' = "up"
  <2>1. ASSUME length # 0 PROVE next[HEAD][0] # NULL /\ MaxStart # NULL
    <3>1. PICK k : k \in Nodes
      BY <2>1, FS_EmptySet DEF FixedMode, LengthCounts, IndexAgreement
    <3>2. level > 0 /\ level \in Nat
      BY <3>1
      DEF FixedMode, AnyMode, WellFormed, Reachable, SkipListTypeOK, Nodes
    <3>3. \A i \in 0..(level - 1) : next[HEAD][i] # NULL
      BY <3>1 DEF FixedMode, LevelTight
    <3> QED BY <3>2, <3>3 DEF MaxStart
  <2> QED BY <1>3, <2>1 DEF infoCommand, InfoOfEmpty, InfoOfNodes, Answer
<1>4. CASE pingCommand \/ shutdownCommand
  BY <1>4 DEF pingCommand, shutdownCommand, Answer
<1> QED BY <1>1, <1>2, <1>3, <1>4

LEMMA NextFixedMode ==
  ASSUME FixedLength, ~ MallocCanFail
  PROVE  FixedMode /\ [Next]_vars => FixedMode'
<1> SUFFICES ASSUME FixedMode, [Next]_vars PROVE FixedMode'
  OBVIOUS
<1>1. ASSUME NEW key \in Key, NEW v \in Val, putCommand(key, v)
      PROVE  FixedMode'
  BY <1>1, PutFixedMode
<1>2. ASSUME NEW key \in Key, deleteCommand(key) PROVE FixedMode'
  BY <1>2, DeleteFixedMode
<1>3. CASE UNCHANGED vars
  <2>1. status \in {"up", "exited"}
    BY DEF FixedMode, AnyMode, TypeOK, NeverCrashes
  <2> QED BY <1>3, <2>1, KeptFixedMode DEF vars
<1>4. CASE \/ \E key \in Key : getCommand(key)
           \/ \E start, end \in Key : scanCommand(start, end)
           \/ infoCommand \/ pingCommand \/ shutdownCommand
  BY <1>4, ReadersKeep, ReadersSurvive, KeptFixedMode
<1> QED BY <1>1, <1>2, <1>3, <1>4 DEF Next

\* A fixed-length server that finds memory for its nodes keeps the hash table
\* and the skiplist in step, counts its keys and leaves no level empty.
THEOREM FixedLengthAgreement ==
  ASSUME FixedLength, ~ MallocCanFail
  PROVE  Spec => [](IndexAgreement /\ LengthCounts /\ LevelTight)
<1>1. FixedMode /\ [Next]_vars => FixedMode'
  BY NextFixedMode
<1>2. Spec => []FixedMode
  BY <1>1, InitFixedMode, PTL DEF Spec
<1>3. FixedMode => IndexAgreement /\ LengthCounts /\ LevelTight
  BY DEF FixedMode
<1> QED BY <1>2, <1>3, PTL

\* No sequence of commands makes such a server free a string twice, read a freed
\* one or follow a null pointer.
THEOREM FixedLengthNeverCrashes ==
  ASSUME FixedLength, ~ MallocCanFail
  PROVE  Spec => []NeverCrashes
<1>1. FixedMode /\ [Next]_vars => FixedMode'
  BY NextFixedMode
<1>2. Spec => []FixedMode
  BY <1>1, InitFixedMode, PTL DEF Spec
<1>3. FixedMode => NeverCrashes
  BY DEF FixedMode
<1> QED BY <1>2, <1>3, PTL

-----------------------------------------------------------------------------
\* Ranks cannot grow for ever.
LEMMA RanksEnd ==
  ASSUME KeyAssumption, SkipListAssumption, NEW S, S \subseteq Key \cup {HEAD},
         \A x \in S : \E y \in S : Rank(x) < Rank(y)
  PROVE  S = {}
<1> SUFFICES ASSUME S # {} PROVE FALSE
  OBVIOUS
<1> DEFINE f == [x \in S |-> Rank(x) + 1]
<1>1. \A x \in S : Rank(x) \in Int /\ Rank(x) >= -1 /\ Rank(x) <= MaxKeyRank
  BY RankFacts, KeyAssumption DEF KeyAssumption
<1>2. f \in [S -> Nat] /\ MaxKeyRank + 1 \in Nat /\ \A x \in S : f[x] <= MaxKeyRank + 1
  BY <1>1, KeyAssumption DEF KeyAssumption
<1>3. PICK m \in S : \A n \in S : f[n] <= f[m]
  <2> HIDE DEF f
  <2> QED BY <1>2, Greatest
<1>4. PICK y \in S : Rank(m) < Rank(y)
  OBVIOUS
<1>5. f[y] <= f[m] /\ f[y] = Rank(y) + 1 /\ f[m] = Rank(m) + 1
  BY <1>3
<1> QED BY <1>1, <1>4, <1>5

-----------------------------------------------------------------------------
(***************************************************************************)
(* The loops over the levels                                               *)
(***************************************************************************)
\* A node has no pointers above its height, and what has no node has none.
Trimmed == \A x \in Key, i \in Levels : height[x] <= i => next[x][i] = NULL

\* The loop over one level can stop at one place only.
LEMMA StopsOnce ==
  ASSUME KeyAssumption, SkipListAssumption, WellFormed,
         NEW key \in Key, NEW i \in Levels, NEW x \in Key \cup {HEAD}, StopsAt(x, i, key)
  PROVE  x = update(i, key)
<1> DEFINE u == update(i, key)
<1>1. Precedes(u, i, Cut(key))
  BY UpdatePrecedes
<1> HIDE DEF u
<1>2. /\ x \in On(i) \cup {HEAD} /\ Rank(x) < Cut(key)
      /\ next[x][i] # NULL => Cut(key) <= Rank(next[x][i])
  BY StopsAtCut
<1>3. u \in On(i) \cup {HEAD} /\ Rank(u) < Cut(key)
      /\ \A k \in On(i) : Rank(k) <= Rank(u) \/ Cut(key) <= Rank(k)
  BY <1>1 DEF Precedes
<1>4. /\ Rank(HEAD) = -1 /\ Cut(key) \in Nat
      /\ \A k \in Nodes : k \in Key /\ k # HEAD /\ Rank(k) \in Nat
      /\ \A j, k \in Nodes : Rank(j) = Rank(k) => j = k
  BY RankFacts, CutFacts DEF Nodes, WellFormed
<1>5. Successor(x, i) /\ On(i) \subseteq Nodes
  BY <1>2 DEF WellFormed, Linked, On
<1>6. Rank(x) \in Int /\ Rank(u) \in Int
  BY <1>2, <1>3, <1>4, <1>5
<1>7. CASE Rank(x) < Rank(u)
  <2>1. u \in On(i)
    BY <1>2, <1>3, <1>4, <1>5, <1>7
  <2>2. next[x][i] # NULL
    BY <1>5, <1>6, <1>7, <2>1 DEF Successor
  <2>3. next[x][i] \in On(i) /\ Rank(next[x][i]) <= Rank(u)
    BY <1>5, <1>6, <1>7, <2>1, <2>2 DEF Successor
  <2>4. Rank(next[x][i]) \in Int
    BY <1>4, <1>5, <2>3
  <2> QED BY <1>2, <1>3, <1>4, <1>6, <2>2, <2>3, <2>4
<1>8. CASE Rank(u) < Rank(x)
  <2>1. x \in On(i)
    BY <1>2, <1>3, <1>4, <1>5, <1>8
  <2> QED BY <1>2, <1>3, <1>4, <1>6, <1>8, <2>1
<1>9. CASE Rank(x) = Rank(u)
  BY <1>2, <1>3, <1>4, <1>5, <1>9 DEF u
<1> QED BY <1>6, <1>7, <1>8, <1>9

\* What the pointers of a level lead to.
LEMMA NextOnLevel ==
  ASSUME KeyAssumption, SkipListAssumption, WellFormed, Trimmed,
         NEW i \in Levels, NEW x \in Key \cup {HEAD}, next[x][i] # NULL
  PROVE  /\ x \in On(i) \cup {HEAD}
         /\ next[x][i] \in On(i) /\ next[x][i] \in Nodes /\ next[x][i] \in Key
         /\ Rank(x) < Rank(next[x][i])
<1>1. x \in On(i) \cup {HEAD}
  BY DEF Trimmed, On, Nodes, Levels, SkipListAssumption, WellFormed, SkipListTypeOK
<1>2. Successor(x, i)
  BY <1>1 DEF WellFormed, Linked
<1> QED BY <1>1, <1>2 DEF Successor, On, Nodes

\* A loop on one level, from any node: it stays, or ends where the search stops.
LEMMA AdvanceIs ==
  ASSUME KeyAssumption, SkipListAssumption, WellFormed, Trimmed,
         NEW key \in Key, NEW i \in Levels
  PROVE  \A x \in Key \cup {HEAD} :
            Advance(i, key)[x] = IF Smaller(next[x][i], key) THEN update(i, key) ELSE x
<1> DEFINE K == Key \cup {HEAD}
           u == update(i, key)
           Loop(f) == f = [x \in K |-> IF Smaller(next[x][i], key) THEN f[next[x][i]] ELSE x]
           g == [x \in K |-> IF Smaller(next[x][i], key) THEN u ELSE x]
<1>1. ASSUME NEW x \in K, Smaller(next[x][i], key)
      PROVE  /\ next[x][i] \in On(i) /\ next[x][i] \in K /\ next[x][i] \in Nodes
             /\ Rank(x) < Rank(next[x][i])
             /\ ~ Smaller(next[next[x][i]][i], key) => next[x][i] = u
  <2> DEFINE y == next[x][i]
  <2>1. y # NULL /\ slKeyCompare(y, key) < 0
    BY <1>1 DEF Smaller
  <2>2. y \in On(i) /\ y \in Nodes /\ y \in Key /\ Rank(x) < Rank(y)
    BY <2>1, NextOnLevel
  <2> HIDE DEF y
  <2>3. ASSUME ~ Smaller(next[y][i], key) PROVE StopsAt(y, i, key)
    <3>1. OnLevel(y, i)
      BY <2>2 DEF On, OnLevel
    <3>2. ASSUME next[y][i] # NULL PROVE slKeyCompare(next[y][i], key) >= 0
      <4>1. next[y][i] \in Key
        BY <2>2, <3>2, NextOnLevel
      <4>2. slKeyCompare(next[y][i], key) \in Int
        BY <4>1, KeyAssumption DEF KeyAssumption, slKeyCompare, memcmp
      <4> QED BY <2>3, <3>2, <4>2 DEF Smaller
    <3> QED BY <2>1, <3>1, <3>2 DEF StopsAt
  <2>4. ~ Smaller(next[y][i], key) => y = u
    BY <2>2, <2>3, StopsOnce
  <2> QED BY <2>2, <2>4 DEF y
<1> HIDE DEF u
<1>2. Loop(g)
  <2>1. ASSUME NEW x \in K
        PROVE  g[x] = IF Smaller(next[x][i], key) THEN g[next[x][i]] ELSE x
    <3>1. CASE Smaller(next[x][i], key)
      BY <1>1, <3>1
    <3>2. CASE ~ Smaller(next[x][i], key)
      BY <3>2
    <3> QED BY <3>1, <3>2
  <2>2. g = [x \in K |-> g[x]]
    OBVIOUS
  <2> HIDE DEF g, K
  <2> QED BY <2>1, <2>2
<1> DEFINE f == CHOOSE h : Loop(h)
<1>3. Loop(f)
  <2> HIDE DEF Loop
  <2> QED BY <1>2
<1>4. Advance(i, key) = f
  BY DEF Advance
<1> HIDE DEF f
<1>5. ASSUME NEW x \in K PROVE f[x] = g[x]
  <2> DEFINE Bad == {z \in K : f[z] # g[z]}
  <2>1. ASSUME NEW z \in Bad PROVE \E y \in Bad : Rank(z) < Rank(y)
    <3>1. z \in K /\ f[z] # g[z]
      OBVIOUS
    <3>2. CASE Smaller(next[z][i], key)
      <4> DEFINE y == next[z][i]
      <4>1. y \in K /\ Rank(z) < Rank(y)
        BY <1>1, <3>1, <3>2
      <4>2. f[z] = f[y] /\ g[z] = g[y]
        BY <1>2, <1>3, <3>1, <3>2
      <4>3. y \in Bad
        BY <3>1, <4>1, <4>2
      <4> QED BY <4>1, <4>3
    <3>3. CASE ~ Smaller(next[z][i], key)
      BY <1>3, <3>1, <3>3
    <3> QED BY <3>2, <3>3
  <2>2. Bad \subseteq Key \cup {HEAD}
    OBVIOUS
  <2>3. Bad = {}
    <3> HIDE DEF Bad
    <3> QED BY <2>1, <2>2, RanksEnd
  <2> QED BY <2>3
<1> QED BY <1>4, <1>5 DEF u

\* update[i] of insert_skiplist and delete_skiplist: a level is entered where the
\* one above was left.
LEMMA WalkToIs ==
  ASSUME KeyAssumption, SkipListAssumption, WellFormed, Trimmed, NEW key \in Key
  PROVE  \A i \in 0..(level - 1) : WalkTo(key)[i] = update(i, key)
<1> DEFINE L == 0..level
           Loop(f) == f = [i \in L |-> IF i = level THEN HEAD ELSE Advance(i, key)[f[i + 1]]]
           g == [i \in L |-> IF i = level THEN HEAD ELSE update(i, key)]
<1>1. level \in Nat /\ \A i \in 0..(level - 1) : i \in Levels
  BY DEF WellFormed, SkipListTypeOK, Levels, SkipListAssumption
<1>2. ASSUME NEW i \in Levels, NEW x \in Key \cup {HEAD}, OnLevel(x, i),
             x # HEAD => slKeyCompare(x, key) < 0
      PROVE  Advance(i, key)[x] = update(i, key)
  <2>1. CASE Smaller(next[x][i], key)
    BY <2>1, AdvanceIs
  <2>2. CASE ~ Smaller(next[x][i], key)
    <3>1. next[x][i] # NULL => slKeyCompare(next[x][i], key) \in Int
      BY NextOnLevel, KeyAssumption DEF KeyAssumption, slKeyCompare, memcmp
    <3>2. StopsAt(x, i, key)
      BY <1>2, <2>2, <3>1 DEF StopsAt, Smaller
    <3>3. x = update(i, key)
      BY <3>2, StopsOnce
    <3> QED BY <2>2, <3>3, AdvanceIs
  <2> QED BY <2>1, <2>2
<1>3. ASSUME NEW i \in Levels
      PROVE  /\ update(i, key) \in Key \cup {HEAD} /\ OnLevel(update(i, key), i)
             /\ update(i, key) # HEAD => slKeyCompare(update(i, key), key) < 0
  <2>1. Precedes(update(i, key), i, Cut(key))
    BY UpdatePrecedes
  <2>2. StopsAt(update(i, key), i, key) /\ update(i, key) \in Key \cup {HEAD}
    BY <2>1, StopsAtCut DEF Precedes, On, Nodes
  <2> QED BY <2>2 DEF StopsAt
<1>4. \A i \in 0..(level - 1) : Advance(i, key)[g[i + 1]] = update(i, key)
  <2> SUFFICES ASSUME NEW i \in 0..(level - 1)
               PROVE  Advance(i, key)[g[i + 1]] = update(i, key)
    OBVIOUS
  <2>1. CASE i + 1 = level
    <3>1. g[i + 1] = HEAD /\ i \in Levels
      BY <1>1, <2>1
    <3> QED BY <1>2, <3>1 DEF OnLevel
  <2>2. CASE i + 1 # level
    <3>1. i \in Levels /\ i + 1 \in Levels /\ i \in Int
      BY <1>1, <2>2
    <3> DEFINE x == update(i + 1, key)
    <3>2. g[i + 1] = x
      BY <1>1, <2>2
    <3>3. x \in Key \cup {HEAD} /\ OnLevel(x, i + 1) /\ (x # HEAD => slKeyCompare(x, key) < 0)
      BY <1>3, <3>1
    <3> HIDE DEF x, g
    <3>4. x # HEAD => height[x] \in Int
      BY <3>3 DEF WellFormed, SkipListTypeOK
    <3>5. OnLevel(x, i)
      BY <3>1, <3>3, <3>4 DEF OnLevel
    <3> QED BY <1>2, <3>1, <3>2, <3>3, <3>5
  <2> QED BY <2>1, <2>2
<1>5. Loop(g)
  <2>1. \A i \in L : g[i] = IF i = level THEN HEAD ELSE Advance(i, key)[g[i + 1]]
    <3>1. TAKE i \in L
    <3>2. CASE i = level
      BY <3>2
    <3>3. CASE i # level
      <4>1. i \in 0..(level - 1)
        BY <1>1, <3>3
      <4>2. g[i] = update(i, key)
        BY <3>3
      <4> HIDE DEF g
      <4> QED BY <1>4, <3>3, <4>1, <4>2
    <3> QED BY <3>2, <3>3
  <2>2. g = [i \in L |-> g[i]]
    OBVIOUS
  <2> HIDE DEF g, L
  <2> QED BY <2>1, <2>2
<1> DEFINE f == CHOOSE h : Loop(h)
<1>6. Loop(f)
  <2> HIDE DEF Loop
  <2> QED BY <1>5
<1>7. WalkTo(key) = f
  BY DEF WalkTo
<1> HIDE DEF f
<1>8. \A i \in L : f[i] = g[i]
  <2> DEFINE Bad == {z \in L : f[z] # g[z]}
             D == {level - z : z \in Bad}
  <2> SUFFICES ASSUME Bad # {} PROVE FALSE
    OBVIOUS
  <2>1. D \subseteq Nat /\ D # {}
    <3>1. \A z \in Bad : level - z \in Nat
      <4>1. \A z \in L : level - z \in Nat
        BY <1>1
      <4> HIDE DEF f, g, L
      <4> QED BY <4>1
    <3> HIDE DEF Bad
    <3> QED BY <3>1
  <2>2. PICK d \in D : \A e \in D : d <= e
    <3> HIDE DEF D
    <3> QED BY <2>1, LeastNatural
  <2>3. PICK z \in Bad : d = level - z
    BY <2>2
  <2>4. z \in L /\ f[z] # g[z]
    BY <2>3
  <2>5. CASE z = level
    BY <1>1, <1>6, <2>4, <2>5
  <2>6. CASE z # level
    <3>1. z + 1 \in L /\ z \in 0..(level - 1)
      BY <1>1, <2>4, <2>6
    <3>2. f[z] = Advance(z, key)[f[z + 1]]
      BY <1>6, <2>4, <2>6
    <3>3. g[z] = Advance(z, key)[g[z + 1]]
      BY <1>4, <2>4, <2>6, <3>1
    <3>4. f[z + 1] # g[z + 1]
      BY <2>4, <3>2, <3>3
    <3>5. level - (z + 1) \in D
      BY <3>1, <3>4
    <3>6. d <= level - (z + 1)
      BY <2>2, <3>5
    <3> QED BY <1>1, <2>3, <2>4, <3>6
  <2> QED BY <2>5, <2>6
<1>9. \A i \in 0..(level - 1) : i \in L /\ g[i] = update(i, key)
  BY <1>1
<1> HIDE DEF g, L
<1> QED BY <1>7, <1>8, <1>9

\* The loop that leaves on the first level that lands on the key.
LEMMA WalkSearchIs ==
  ASSUME KeyAssumption, SkipListAssumption, WellFormed, Trimmed, NEW key \in Key
  PROVE  WalkSearch(key) = SearchNode(key)
<1> DEFINE q(i) == next[WalkTo(key)[i]][i]
           L == -1..level
           Hits(i) == {j \in 0..i : Hit(q(j), key)}
           top(i) == CHOOSE m \in Hits(i) : \A j \in Hits(i) : j <= m
           Loop(f) == f = [i \in L |-> IF i = -1 THEN NULL ELSE IF Hit(q(i), key) THEN q(i) ELSE f[i - 1]]
           g == [i \in L |-> IF Hits(i) = {} THEN NULL ELSE q(top(i))]
<1>1. level \in Nat
  BY DEF WellFormed, SkipListTypeOK, SkipListAssumption
<1>2. \A i \in 0..(level - 1) : q(i) = Landing(i, key)
  BY WalkToIs DEF Landing
<1> HIDE DEF q
<1>3. \A i \in L : g[i] = IF i = -1 THEN NULL ELSE IF Hit(q(i), key) THEN q(i) ELSE g[i - 1]
  <2>1. TAKE i \in L
  <2>2. CASE i = -1
    BY <2>2
  <2>3. CASE i # -1 /\ Hit(q(i), key)
    <3>1. i \in Nat /\ i \in Hits(i) /\ \A j \in Hits(i) : j <= i /\ j \in Int
      BY <1>1, <2>3
    <3>2. top(i) \in Hits(i) /\ \A j \in Hits(i) : j <= top(i)
      <4> HIDE DEF Hits
      <4> QED BY <3>1
    <3>3. top(i) = i
      <4> HIDE DEF Hits, top
      <4> QED BY <3>1, <3>2
    <3> QED BY <2>3, <3>1, <3>3
  <2>4. CASE i # -1 /\ ~ Hit(q(i), key)
    <3>1. Hits(i) = Hits(i - 1) /\ i - 1 \in L
      BY <1>1, <2>4
    <3>2. top(i) = top(i - 1)
      <4> HIDE DEF Hits
      <4> QED BY <3>1
    <3> HIDE DEF Hits, top
    <3> QED BY <2>4, <3>1, <3>2
  <2> QED BY <2>2, <2>3, <2>4
<1>4. Loop(g)
  <2>1. g = [i \in L |-> g[i]]
    OBVIOUS
  <2> HIDE DEF g, L
  <2> QED BY <1>3, <2>1
<1> DEFINE f == CHOOSE h : Loop(h)
<1>5. Loop(f)
  <2> HIDE DEF Loop
  <2> QED BY <1>4
<1>6. WalkSearch(key) = f[level - 1]
  BY DEF WalkSearch, q
<1> HIDE DEF f, g
<1>7. f[level - 1] = g[level - 1]
  <2> DEFINE Bad == {z \in L : f[z] # g[z]}
             D == {z + 1 : z \in Bad}
  <2> SUFFICES ASSUME Bad # {} PROVE FALSE
    BY <1>1
  <2>1. D \subseteq Nat /\ D # {}
    BY <1>1
  <2>2. PICK d \in D : \A e \in D : d <= e
    <3> HIDE DEF D
    <3> QED BY <2>1, LeastNatural
  <2>3. PICK z \in Bad : d = z + 1
    BY <2>2
  <2>4. z \in L /\ f[z] # g[z]
    BY <2>3
  <2>5. z # -1 /\ ~ Hit(q(z), key)
    BY <1>3, <1>5, <2>4
  <2>6. f[z] = f[z - 1] /\ g[z] = g[z - 1] /\ z - 1 \in L
    BY <1>1, <1>3, <1>5, <2>4, <2>5
  <2>7. (z - 1) + 1 \in D
    BY <2>4, <2>6
  <2>8. d <= (z - 1) + 1
    BY <2>2, <2>7
  <2> QED BY <1>1, <2>3, <2>4, <2>8
<1>8. Hits(level - 1) = HitLevels(key)
  BY <1>1, <1>2 DEF HitLevels
<1>9. g[level - 1] = SearchNode(key)
  <2>1. g[level - 1] = IF Hits(level - 1) = {} THEN NULL ELSE q(top(level - 1))
    BY <1>1 DEF g
  <2>2. CASE HitLevels(key) = {}
    BY <1>8, <2>1, <2>2 DEF SearchNode
  <2>3. CASE HitLevels(key) # {}
    <3> DEFINE t == CHOOSE i \in HitLevels(key) : \A j \in HitLevels(key) : j <= i
    <3>1. top(level - 1) = t
      <4> HIDE DEF Hits
      <4> QED BY <1>8
    <3>2. t \in HitLevels(key)
      <4>1. HitLevels(key) \subseteq Nat /\ \A i \in HitLevels(key) : i <= level
        BY <1>1 DEF HitLevels
      <4> DEFINE S == HitLevels(key)
                 h == [i \in S |-> i]
      <4>2. h \in [S -> Nat] /\ (\A i \in S : h[i] <= level) /\ S # {}
        BY <2>3, <4>1
      <4>3. PICK m \in S : \A n \in S : h[n] <= h[m]
        <5> HIDE DEF h, S
        <5> QED BY <1>1, <4>2, Greatest
      <4> QED BY <4>3
    <3>3. SearchNode(key) = Landing(t, key)
      BY <2>3 DEF SearchNode
    <3> HIDE DEF t
    <3>4. t \in 0..(level - 1)
      BY <3>2 DEF HitLevels
    <3> QED BY <1>2, <1>8, <2>1, <2>3, <3>1, <3>3, <3>4
  <2> QED BY <2>2, <2>3
<1> QED BY <1>6, <1>7, <1>9

-----------------------------------------------------------------------------
(***************************************************************************)
(* The operations keep the nodes trimmed                                   *)
(***************************************************************************)
LEMMA LinkKeepsTrimmed ==
  ASSUME WellFormed, Trimmed, NEW key \in Key, NEW v \in Val,
         NEW t \in gen_random_level, Fresh(key), LinkNode(key, v, t)
  PROVE  Trimmed'
<1> SUFFICES ASSUME NEW x \in Key, NEW i \in Levels, height'[x] <= i
             PROVE  next'[x][i] = NULL
  BY DEF Trimmed
<1>1. Predecessor(i, key) \in On(i) \cup {HEAD}
  BY PredecessorPrecedes, KeyAssumption, SkipListAssumption DEF Precedes
<1>2. height \in [Key -> 0..MAX_LEVEL] /\ MAX_LEVEL \in Nat /\ t \in Nat /\ i \in Nat
  BY SkipListAssumption
  DEF WellFormed, SkipListTypeOK, SkipListAssumption, gen_random_level, Levels
<1>3. height' = [height EXCEPT ![key] = t]
  BY DEF LinkNode
<1>4. next'[x][i] = IF x = key
                    THEN IF i < t THEN next[Predecessor(i, key)][i] ELSE NULL
                    ELSE IF i < t /\ x = Predecessor(i, key) THEN key ELSE next[x][i]
  BY DEF LinkNode
<1>5. CASE x = key
  BY <1>2, <1>3, <1>4, <1>5
<1>6. CASE x # key
  <2>1. height[x] <= i /\ height[x] \in Int
    BY <1>2, <1>3, <1>6
  <2>2. x \notin On(i) \cup {HEAD}
    BY <1>2, <2>1, SkipListAssumption DEF On, SkipListAssumption
  <2>3. next[x][i] = NULL
    BY <2>1 DEF Trimmed
  <2> QED BY <1>1, <1>4, <1>6, <2>2, <2>3
<1> QED BY <1>5, <1>6

LEMMA UnlinkKeepsTrimmed ==
  ASSUME WellFormed, Trimmed, NEW key \in Key, NEW q \in Nodes, UnlinkNode(q, key)
  PROVE  Trimmed'
<1> SUFFICES ASSUME NEW x \in Key, NEW i \in Levels, height'[x] <= i
             PROVE  next'[x][i] = NULL
  BY DEF Trimmed
<1>1. next'[x][i] = IF x = q THEN NULL
                    ELSE IF Unlinked(x, i, q, key) THEN next[q][i] ELSE next[x][i]
  BY DEF UnlinkNode, Bypass
<1>2. CASE x = q
  BY <1>1, <1>2
<1>3. CASE x # q
  <2>1. height'[x] = height[x]
    BY <1>3 DEF UnlinkNode, WellFormed, SkipListTypeOK
  <2>2. next[x][i] = NULL /\ q # NULL
    BY <2>1, SkipListAssumption DEF Trimmed, Nodes, SkipListAssumption
  <2> QED BY <1>1, <1>3, <2>2 DEF Unlinked
<1> QED BY <1>2, <1>3

LEMMA KeptTrimmed == Trimmed /\ UNCHANGED <<height, next>> => Trimmed'
BY DEF Trimmed

LEMMA InitTrimmed == Init => Trimmed
BY DEF Init, create_skiplist, Trimmed

LEMMA NextTrimmed == AnyMode /\ Trimmed /\ [Next]_vars => Trimmed'
<1> SUFFICES ASSUME AnyMode, Trimmed, [Next]_vars PROVE Trimmed'
  OBVIOUS
<1>1. WellFormed
  BY DEF AnyMode
<1>2. CASE UNCHANGED listVars
  BY <1>2, KeptTrimmed DEF listVars
<1>3. ASSUME NEW key \in Key, NEW v \in Val, putCommand(key, v) PROVE Trimmed'
  <2>1. CASE replace_skiplist(key, v)
    BY <2>1, KeptTrimmed DEF replace_skiplist
  <2>2. ASSUME NEW t \in gen_random_level, NEW allocated \in BOOLEAN,
               insert_skiplist(key, v, t, allocated)
        PROVE  Trimmed'
    <3>1. CASE UNCHANGED <<height, next>>
      BY <3>1, KeptTrimmed
    <3>2. CASE ~ Hit(Target(key), key) /\ LinkNode(key, v, t)
      BY <1>1, <3>2, NoHitFresh, LinkKeepsTrimmed, KeyAssumption, SkipListAssumption
    <3> QED BY <2>2, <3>1, <3>2 DEF insert_skiplist, OverwriteNode, LinkFails
  <2>3. MallocCanFail \in BOOLEAN
    BY CommandsAssumption DEF CommandsAssumption
  <2> QED BY <1>2, <1>3, <2>1, <2>2, <2>3
      DEF putCommand, PutReplaces, PutInserts, Refuse, Crash
<1>4. ASSUME NEW key \in Key, deleteCommand(key) PROVE Trimmed'
  <2>1. CASE delete_skiplist(key)
    <3>1. CASE Hit(Target(key), key)
      <4>1. Target(key) \in Nodes
        BY <1>1, <3>1, HitLinks, KeyAssumption, SkipListAssumption
      <4> QED BY <1>1, <2>1, <3>1, <4>1, UnlinkKeepsTrimmed DEF delete_skiplist
    <3> QED BY <1>2, <2>1, <3>1 DEF delete_skiplist
  <2> QED BY <1>2, <1>4, <2>1
      DEF deleteCommand, DeleteMissing, DeleteFound, Refuse, Crash
<1>5. CASE UNCHANGED vars
  BY <1>2, <1>5 DEF vars
<1> QED BY <1>2, <1>3, <1>4, <1>5, ReadersKeep DEF Next

\* In every configuration and after any sequence of commands the search loops of
\* skiplist.c, which enter each level where they left the one above, stop at the
\* nodes the operations are stated with, and never meet a node that is gone.
THEOREM SearchLoopsAgree == Spec => []WalkAgrees
<1>1. Init => AnyMode /\ Trimmed
  BY InitAnyMode, InitTrimmed
<1>2. AnyMode /\ Trimmed /\ [Next]_vars => (AnyMode /\ Trimmed)'
  BY NextAnyMode, NextTrimmed
<1>3. AnyMode /\ Trimmed => WalkAgrees
  <2> SUFFICES ASSUME AnyMode, Trimmed PROVE WalkAgrees
    OBVIOUS
  <2> QED BY WalkToIs, WalkSearchIs, KeyAssumption, SkipListAssumption
          DEF WalkAgrees, AnyMode
<1> QED BY <1>1, <1>2, <1>3, PTL DEF Spec

-----------------------------------------------------------------------------
(***************************************************************************)
(* Keys in ascending order                                                 *)
(***************************************************************************)
\* The keys of K differ in rank, and s lists them in ascending order.
Distinct(K) ==
    /\ K \subseteq Key /\ IsFiniteSet(K)
    /\ \A j, k \in K : KeyRank[j] = KeyRank[k] => j = k

Sorts(s, K) ==
    /\ s \in [1..Cardinality(K) -> K]
    /\ \A i, j \in 1..Cardinality(K) : i < j => KeyRank[s[i]] < KeyRank[s[j]]

LEMMA RankIsNatural == KeyAssumption => \A k \in Key : KeyRank[k] \in Nat
BY DEF KeyAssumption

\* The first key, followed by the others in order.
LEMMA PrependSorts ==
  ASSUME KeyAssumption, NEW K, Distinct(K), NEW m \in K, NEW t, Sorts(t, K \ {m}),
         \A k \in K : KeyRank[m] <= KeyRank[k]
  PROVE  Sorts(<<m>> \o t, K)
<1> DEFINE n == Cardinality(K)
           s == <<m>> \o t
<1>1. n \in Nat /\ n - 1 \in Nat /\ Cardinality(K \ {m}) = n - 1
  <2>1. n \in Nat /\ n # 0 /\ Cardinality(K \ {m}) = n - 1
    BY FS_CardinalityType, FS_EmptySet, FS_RemoveElement DEF Distinct
  <2> QED BY <2>1
<1> HIDE DEF n
<1>2. /\ t \in [1..(n - 1) -> K]
      /\ \A i \in 1..(n - 1) : t[i] # m
      /\ \A i, j \in 1..(n - 1) : i < j => KeyRank[t[i]] < KeyRank[t[j]]
  <2>1. t \in [1..(n - 1) -> K \ {m}]
    BY <1>1 DEF Sorts
  <2>2. \A i, j \in 1..(n - 1) : i < j => KeyRank[t[i]] < KeyRank[t[j]]
    BY <1>1 DEF Sorts
  <2> QED BY <2>1, <2>2
<1>3. t \in Seq(K) /\ Len(t) = n - 1 /\ <<m>> \in Seq(K) /\ Len(<<m>>) = 1
  BY <1>1, <1>2
<1>4. /\ s \in Seq(K) /\ Len(s) = n
      /\ \A i \in 1..n : s[i] = IF i <= 1 THEN m ELSE t[i - 1]
  <2>1. /\ s \in Seq(K) /\ Len(s) = Len(<<m>>) + Len(t)
        /\ \A i \in 1..(Len(<<m>>) + Len(t)) :
              s[i] = IF i <= Len(<<m>>) THEN <<m>>[i] ELSE t[i - Len(<<m>>)]
    <3> DEFINE one == <<m>>
    <3>2. one \in Seq(K) /\ s = one \o t
      BY <1>3
    <3> HIDE DEF one, s
    <3>3. one \in Seq(K) /\ t \in Seq(K)
      BY <1>3, <3>2
    <3>4. /\ one \o t \in Seq(K) /\ Len(one \o t) = Len(one) + Len(t)
          /\ \A i \in 1..(Len(one) + Len(t)) :
                (one \o t)[i] = IF i <= Len(one) THEN one[i] ELSE t[i - Len(one)]
      BY ONLY <3>3, ConcatProperties
    <3> QED BY <3>2, <3>4 DEF one
  <2>2. Len(<<m>>) + Len(t) = n
    BY <1>1, <1>3
  <2> HIDE DEF s
  <2>3. \A i \in 1..n : s[i] = IF i <= 1 THEN <<m>>[i] ELSE t[i - 1]
    BY <1>3, <2>1, <2>2
  <2> QED BY <2>1, <2>2, <2>3
<1> HIDE DEF s
<1>5. s \in [1..n -> K]
  BY <1>4
<1>6. ASSUME NEW i \in 1..n, NEW j \in 1..n, i < j
      PROVE  KeyRank[s[i]] < KeyRank[s[j]]
  <2>1. j - 1 \in 1..(n - 1) /\ s[j] = t[j - 1]
    <3>1. j \in Int /\ j > 1 /\ j <= n /\ ~ (j <= 1)
      BY <1>1, <1>6
    <3>2. j - 1 \in 1..(n - 1)
      BY <1>1, <3>1
    <3>3. s[j] = IF j <= 1 THEN m ELSE t[j - 1]
      BY <1>4
    <3>4. s[j] = t[j - 1]
      BY <3>1, <3>3
    <3> QED BY <3>2, <3>4
  <2>2. t[j - 1] \in K /\ t[j - 1] # m /\ K \subseteq Key
    BY <1>2, <2>1 DEF Distinct
  <2>3. CASE i = 1
    <3>1. s[i] = m
      BY <1>4, <2>3
    <3>2. KeyRank[m] <= KeyRank[t[j - 1]] /\ KeyRank[m] # KeyRank[t[j - 1]]
      BY <2>2 DEF Distinct
    <3>3. KeyRank[m] \in Nat /\ KeyRank[t[j - 1]] \in Nat
      BY <2>2, RankIsNatural
    <3> QED BY <2>1, <3>1, <3>2, <3>3
  <2>4. CASE i # 1
    <3>1. i - 1 \in 1..(n - 1) /\ s[i] = t[i - 1] /\ i - 1 < j - 1
      BY <1>1, <1>4, <1>6, <2>4
    <3> QED BY <1>2, <2>1, <3>1
  <2> QED BY <2>3, <2>4
<1> QED BY <1>5, <1>6 DEF Sorts, n, s

\* Every set of keys of different ranks has such a sequence, ...
LEMMA SortsExists ==
  ASSUME KeyAssumption, NEW S, Distinct(S)
  PROVE  \E s : Sorts(s, S)
<1> DEFINE Bad == {K \in SUBSET S : ~ \E s : Sorts(s, K)}
           T == {Cardinality(K) : K \in Bad}
<1> SUFFICES ASSUME Bad # {} PROVE FALSE
  BY Zenon
<1>1. \A K \in SUBSET S : Distinct(K) /\ Cardinality(K) \in Nat
  BY FS_Subset, FS_CardinalityType DEF Distinct
<1>2. T \subseteq Nat /\ T # {}
  BY <1>1
<1>3. PICK c \in T : \A d \in T : c <= d
  <2> HIDE DEF T
  <2> QED BY <1>2, LeastNatural
<1>4. PICK K \in Bad : c = Cardinality(K)
  OBVIOUS
<1>5. K \in SUBSET S /\ ~ (\E s : Sorts(s, K)) /\ Distinct(K) /\ c \in Nat
  BY <1>1, <1>4
<1>6. CASE K = {}
  <2>1. Cardinality(K) = 0
    BY <1>6, FS_EmptySet
  <2>2. << >> \in [1..Cardinality(K) -> K] /\ 1..Cardinality(K) = {}
    BY <1>6, <2>1
  <2>3. Sorts(<< >>, K)
    BY <2>2 DEF Sorts
  <2> QED BY <1>5, <2>3
<1>7. CASE K # {}
  <2> DEFINE R == {KeyRank[k] : k \in K}
  <2>1. R \subseteq Nat /\ R # {}
    BY <1>5, <1>7, RankIsNatural DEF Distinct
  <2>2. PICK r \in R : \A d \in R : r <= d
    <3> HIDE DEF R
    <3> QED BY <2>1, LeastNatural
  <2>3. PICK m \in K : \A k \in K : KeyRank[m] <= KeyRank[k]
    BY <2>2
  <2>4. K \ {m} \in SUBSET S /\ Cardinality(K \ {m}) = c - 1
    BY <1>4, <1>5, FS_RemoveElement DEF Distinct
  <2>5. K \ {m} \notin Bad
    <3> SUFFICES ASSUME K \ {m} \in Bad PROVE FALSE
      OBVIOUS
    <3>1. c - 1 \in T
      BY <2>4
    <3> HIDE DEF T, Bad
    <3> QED BY <1>3, <1>5, <3>1
  <2>6. PICK t : Sorts(t, K \ {m})
    BY <2>4, <2>5
  <2> QED BY <1>5, <2>3, <2>6, PrependSorts
<1> QED BY <1>6, <1>7

\* ... which lists all of them.
LEMMA SortsAll ==
  ASSUME NEW K, Distinct(K), KeyAssumption, NEW s, Sorts(s, K), NEW k \in K
  PROVE  \E i \in 1..Cardinality(K) : s[i] = k
<1> SUFFICES ASSUME \A i \in 1..Cardinality(K) : s[i] # k PROVE FALSE
  OBVIOUS
<1> DEFINE n == Cardinality(K)
           D == 1..n
           L == K \ {k}
<1>1. n \in Nat /\ IsFiniteSet(L) /\ Cardinality(L) = n - 1
  BY FS_CardinalityType, FS_RemoveElement DEF Distinct
<1>2. IsFiniteSet(D) /\ Cardinality(D) = n
  <2> HIDE DEF n
  <2>1. 1 \in Int /\ n \in Int /\ (n < 1 => n = 0)
    BY <1>1
  <2>2. IsFiniteSet(1..n) /\ Cardinality(1..n) = IF 1 > n THEN 0 ELSE n - 1 + 1
    BY <2>1, FS_Interval
  <2> QED BY <1>1, <2>2
<1>3. s \in [D -> L]
  BY DEF Sorts
<1>4. \A i, j \in D : i < j => KeyRank[s[i]] < KeyRank[s[j]]
  BY DEF Sorts
<1>5. \A i \in D : KeyRank[s[i]] \in Nat /\ i \in Int
  BY <1>3, RankIsNatural DEF Distinct
<1>6. Cardinality(L) < Cardinality(D)
  <2> HIDE DEF D, L, n
  <2> QED BY <1>1, <1>2
<1> HIDE DEF D, L, n
<1>7. \E i, j \in D : i # j /\ s[i] = s[j]
  BY <1>1, <1>2, <1>3, <1>6, FS_PigeonHole
<1>8. PICK i \in D, j \in D : i # j /\ s[i] = s[j]
  BY <1>7
<1>9. i < j \/ j < i
  BY <1>5, <1>8
<1> QED BY <1>4, <1>5, <1>8, <1>9

\* Two such sequences cannot part at an index.
LEMMA NotSooner ==
  ASSUME KeyAssumption, NEW K, Distinct(K), NEW s, NEW t, Sorts(s, K), Sorts(t, K),
         NEW i \in 1..Cardinality(K), \A j \in 1..Cardinality(K) : j < i => s[j] = t[j]
  PROVE  ~ (KeyRank[s[i]] < KeyRank[t[i]])
<1> SUFFICES ASSUME KeyRank[s[i]] < KeyRank[t[i]] PROVE FALSE
  OBVIOUS
<1>1. s[i] \in K /\ \A j \in 1..Cardinality(K) : t[j] \in K /\ KeyRank[t[j]] \in Nat
  BY RankIsNatural DEF Sorts, Distinct
<1>2. PICK j \in 1..Cardinality(K) : t[j] = s[i]
  BY <1>1, SortsAll
<1>3. j < i
  <2>1. ~ (i < j)
    <3> SUFFICES ASSUME i < j PROVE FALSE
      OBVIOUS
    <3>1. KeyRank[t[i]] < KeyRank[t[j]]
      BY DEF Sorts
    <3> QED BY <1>1, <1>2, <3>1
  <2>2. i # j
    BY <1>1, <1>2
  <2> QED BY <2>1, <2>2
<1>4. s[j] = s[i]
  BY <1>2, <1>3
<1>5. KeyRank[s[j]] < KeyRank[s[i]]
  BY <1>3 DEF Sorts
<1> QED BY <1>1, <1>2, <1>4, <1>5

LEMMA SortsOnce ==
  ASSUME KeyAssumption, NEW K, Distinct(K), NEW s, NEW t, Sorts(s, K), Sorts(t, K)
  PROVE  s = t
<1> DEFINE n == Cardinality(K)
           Bad == {i \in 1..n : s[i] # t[i]}
<1>1. s \in [1..n -> K] /\ t \in [1..n -> K]
  BY DEF Sorts
<1>2. Bad = {}
  <2> SUFFICES ASSUME Bad # {} PROVE FALSE
    OBVIOUS
  <2>1. PICK i \in Bad : \A j \in Bad : i <= j
    <3>1. Bad \subseteq Nat
      OBVIOUS
    <3> HIDE DEF Bad
    <3> QED BY <3>1, LeastNatural
  <2>2. i \in 1..n /\ s[i] # t[i] /\ \A j \in 1..n : j < i => s[j] = t[j]
    BY <2>1
  <2>3. ~ (KeyRank[s[i]] < KeyRank[t[i]])
    BY <2>2, NotSooner
  <2>4. \A j \in 1..n : j < i => t[j] = s[j]
    BY <2>2
  <2>5. ~ (KeyRank[t[i]] < KeyRank[s[i]])
    BY <2>2, <2>4, NotSooner
  <2>6. s[i] \in K /\ t[i] \in K /\ KeyRank[s[i]] \in Nat /\ KeyRank[t[i]] \in Nat
    BY <1>1, <2>2, RankIsNatural DEF Distinct
  <2>7. KeyRank[s[i]] = KeyRank[t[i]]
    BY <2>3, <2>5, <2>6
  <2> QED BY <2>2, <2>6, <2>7 DEF Distinct
<1>3. \A i \in 1..n : s[i] = t[i]
  BY <1>2
<1>4. s = [i \in 1..n |-> s[i]] /\ t = [i \in 1..n |-> t[i]]
  BY <1>1
<1>5. [i \in 1..n |-> s[i]] = [i \in 1..n |-> t[i]]
  BY <1>3
<1> QED BY <1>4, <1>5

\* KVStore counts with its own instance of FiniteSets.
LEMMA SameCardinality == \A S : Store!Cardinality(S) = Cardinality(S)
BY DEF Store!Cardinality, Cardinality

\* KVStore's sequence of a set is this one.
LEMMA AscendingSorts ==
  ASSUME KeyAssumption, NEW K, Distinct(K)
  PROVE  Sorts(Store!Ascending(K), K)
<1>1. PICK s : Sorts(s, K)
  BY SortsExists
<1> DEFINE n == Cardinality(K)
           P(r) == \A i, j \in 1..n : i < j => KeyRank[r[i]] < KeyRank[r[j]]
<1>2. Store!Ascending(K) = CHOOSE r \in [1..n -> K] : P(r)
  <2>1. Store!Cardinality(K) = n
    BY SameCardinality
  <2> HIDE DEF n
  <2> QED BY <2>1 DEF Store!Ascending
<1>3. s \in [1..n -> K] /\ P(s)
  BY <1>1 DEF Sorts
<1>4. Store!Ascending(K) \in [1..n -> K] /\ P(Store!Ascending(K))
  <2> HIDE DEF n, P
  <2> QED BY <1>2, <1>3
<1> QED BY <1>4 DEF Sorts

LEMMA SortedIsAscending ==
  ASSUME KeyAssumption, NEW K, Distinct(K), NEW s, Sorts(s, K)
  PROVE  Store!Ascending(K) = s
BY AscendingSorts, SortsOnce

LEMMA AscendingEmpty == Store!Ascending({}) = << >>
<1>1. Cardinality({}) = 0 /\ IsFiniteSet({})
  BY FS_EmptySet
<1>2. \A s \in [1..0 -> {}] : s = << >>
  OBVIOUS
<1>3. << >> \in [1..0 -> {}]
  OBVIOUS
<1> QED BY <1>1, <1>2, <1>3 DEF Store!Ascending

LEMMA AscendingPrepend ==
  ASSUME KeyAssumption, NEW K, Distinct(K), NEW m \in K,
         \A k \in K : KeyRank[m] <= KeyRank[k]
  PROVE  Store!Ascending(K) = <<m>> \o Store!Ascending(K \ {m})
<1>1. Distinct(K \ {m})
  BY FS_RemoveElement DEF Distinct
<1>2. Sorts(Store!Ascending(K \ {m}), K \ {m})
  BY <1>1, AscendingSorts
<1> QED BY <1>2, PrependSorts, SortedIsAscending

-----------------------------------------------------------------------------
(***************************************************************************)
(* What scan and show read from the list                                   *)
(***************************************************************************)
\* The lowest level has every node.
LEMMA LowestLevel ==
  ASSUME WellFormed, NEW x \in Nodes \cup {HEAD}
  PROVE  IF next[x][0] = NULL
         THEN \A k \in Nodes : Rank(k) <= Rank(x)
         ELSE /\ next[x][0] \in Nodes
              /\ Rank(x) < Rank(next[x][0])
              /\ \A k \in Nodes : Rank(k) <= Rank(x) \/ Rank(next[x][0]) <= Rank(k)
<1>1. 0 \in Levels /\ On(0) = Nodes
  BY SkipListAssumption
  DEF Levels, SkipListAssumption, On, Nodes, WellFormed, SkipListTypeOK
<1>2. Successor(x, 0)
  BY <1>1 DEF WellFormed, Linked
<1> QED BY <1>1, <1>2 DEF Successor

LEMMA NodesDistinct ==
  ASSUME WellFormed, IsFiniteSet(Nodes), NEW K \in SUBSET Nodes
  PROVE  Distinct(K)
<1>1. IsFiniteSet(K)
  BY FS_Subset
<1> QED BY <1>1, KeyAssumption DEF Distinct, WellFormed, SameLength, Nodes, KeyAssumption

\* The list starts with the smallest of its keys.
LEMMA FirstIsSmallest ==
  ASSUME WellFormed, IsFiniteSet(Nodes), Nodes # {}
  PROVE  next[HEAD][0] = Store!Ascending(Nodes)[1]
<1> DEFINE n == Cardinality(Nodes)
           s == Store!Ascending(Nodes)
           f == next[HEAD][0]
<1>1. Distinct(Nodes) /\ KeyAssumption /\ SkipListAssumption
  BY NodesDistinct, KeyAssumption, SkipListAssumption
<1>2. Sorts(s, Nodes)
  BY <1>1, AscendingSorts
<1> HIDE DEF s
<1>3. \A k \in Nodes : Rank(k) = KeyRank[k] /\ Rank(k) \in Nat /\ Rank(HEAD) = -1
  BY <1>1, RankFacts DEF Nodes
<1>4. f \in Nodes /\ \A k \in Nodes : Rank(f) <= Rank(k)
  <2>1. IF f = NULL THEN \A k \in Nodes : Rank(k) <= Rank(HEAD)
        ELSE f \in Nodes /\ \A k \in Nodes : Rank(k) <= Rank(HEAD) \/ Rank(f) <= Rank(k)
    BY LowestLevel
  <2> HIDE DEF f
  <2> QED BY <1>3, <2>1
<1> HIDE DEF f
<1>5. PICK i \in 1..n : s[i] = f
  BY <1>1, <1>2, <1>4, SortsAll
<1>6. n \in Nat /\ i \in Nat /\ 1 \in 1..n
  BY FS_CardinalityType, <1>5
<1>7. s[1] \in Nodes /\ Rank(f) <= Rank(s[1])
  BY <1>2, <1>4, <1>6 DEF Sorts
<1>8. CASE i = 1
  BY <1>5, <1>8 DEF f, s
<1>9. CASE i # 1
  <2>1. KeyRank[s[1]] < KeyRank[s[i]]
    BY <1>2, <1>6, <1>9 DEF Sorts
  <2>2. KeyRank[s[1]] = Rank(s[1]) /\ KeyRank[s[i]] = Rank(f)
        /\ Rank(s[1]) \in Nat /\ Rank(f) \in Nat
    BY <1>3, <1>4, <1>5, <1>7
  <2> QED BY <1>7, <2>1, <2>2
<1> QED BY <1>8, <1>9

\* A node without a successor has the greatest of the keys.
LEMMA LastIsGreatest ==
  ASSUME WellFormed, IsFiniteSet(Nodes), NEW x \in Nodes, next[x][0] = NULL
  PROVE  x = Store!Ascending(Nodes)[Cardinality(Nodes)]
<1> DEFINE n == Cardinality(Nodes)
           s == Store!Ascending(Nodes)
<1>1. Distinct(Nodes) /\ KeyAssumption /\ SkipListAssumption
  BY NodesDistinct, KeyAssumption, SkipListAssumption
<1>2. Sorts(s, Nodes)
  BY <1>1, AscendingSorts
<1> HIDE DEF s
<1>3. \A k \in Nodes : KeyRank[k] = Rank(k) /\ Rank(k) \in Nat /\ Rank(k) <= Rank(x)
  BY <1>1, RankFacts, LowestLevel DEF Nodes
<1>4. PICK i \in 1..n : s[i] = x
  BY <1>1, <1>2, SortsAll
<1>5. n \in Nat /\ i \in Nat /\ n \in 1..n
  BY FS_CardinalityType, <1>4
<1>6. s[n] \in Nodes
  BY <1>2, <1>5 DEF Sorts
<1>7. ~ (i < n)
  <2> SUFFICES ASSUME i < n PROVE FALSE
    OBVIOUS
  <2>1. KeyRank[s[i]] < KeyRank[s[n]]
    BY <1>2, <1>5 DEF Sorts
  <2>2. KeyRank[s[i]] = Rank(x) /\ KeyRank[s[n]] = Rank(s[n]) /\ Rank(s[n]) <= Rank(x)
        /\ Rank(s[n]) \in Nat /\ Rank(x) \in Nat
    BY <1>3, <1>4, <1>6
  <2> QED BY <2>1, <2>2
<1>8. i = n
  BY <1>5, <1>7
<1> QED BY <1>4, <1>8 DEF s

\* From any node, the loop of find_max_skiplist ends at the greatest key.
LEMMA LastFromIs ==
  ASSUME WellFormed, Trimmed, IsFiniteSet(Nodes), NEW y \in Nodes
  PROVE  LastFrom[y] = Store!Ascending(Nodes)[Cardinality(Nodes)]
<1> DEFINE Loop(f) == f = [x \in Key |-> IF next[x][0] = NULL THEN x ELSE f[next[x][0]]]
           m == Store!Ascending(Nodes)[Cardinality(Nodes)]
           g == [x \in Key |-> IF x \in Nodes THEN m ELSE x]
<1>1. \A x \in Nodes : x \in Key /\ (next[x][0] = NULL => x = m)
  BY LastIsGreatest DEF Nodes
<1>2. ASSUME NEW x \in Key, next[x][0] # NULL
      PROVE  x \in Nodes /\ next[x][0] \in Nodes /\ next[x][0] \in Key
             /\ Rank(x) < Rank(next[x][0])
  <2>1. 0 \in Levels /\ x # HEAD
    BY SkipListAssumption DEF Levels, SkipListAssumption
  <2> QED BY <1>2, <2>1, NextOnLevel, KeyAssumption, SkipListAssumption DEF On
<1> HIDE DEF m
<1>3. Loop(g)
  <2>1. ASSUME NEW x \in Key
        PROVE  g[x] = IF next[x][0] = NULL THEN x ELSE g[next[x][0]]
    <3>1. CASE next[x][0] = NULL
      BY <1>1, <3>1
    <3>2. CASE next[x][0] # NULL
      BY <1>2, <3>2
    <3> QED BY <3>1, <3>2
  <2>2. g = [x \in Key |-> g[x]]
    OBVIOUS
  <2> HIDE DEF g
  <2> QED BY <2>1, <2>2
<1> DEFINE f == CHOOSE h : Loop(h)
<1>4. Loop(f)
  <2> HIDE DEF Loop
  <2> QED BY <1>3
<1>5. LastFrom = f
  BY DEF LastFrom
<1> HIDE DEF f
<1>6. \A x \in Key : f[x] = g[x]
  <2> DEFINE Bad == {z \in Key : f[z] # g[z]}
  <2>1. ASSUME NEW z \in Bad PROVE \E x \in Bad : Rank(z) < Rank(x)
    <3>1. CASE next[z][0] = NULL
      BY <1>3, <1>4, <3>1
    <3>2. CASE next[z][0] # NULL
      <4> DEFINE x == next[z][0]
      <4>1. x \in Key /\ Rank(z) < Rank(x)
        BY <1>2, <3>2
      <4>2. f[z] = f[x] /\ g[z] = g[x] /\ f[z] # g[z]
        BY <1>3, <1>4, <3>2
      <4>3. x \in Bad
        BY <4>1, <4>2
      <4> QED BY <4>1, <4>3
    <3> QED BY <3>1, <3>2
  <2>2. Bad \subseteq Key \cup {HEAD}
    OBVIOUS
  <2>3. Bad = {}
    <3> HIDE DEF Bad
    <3> QED BY <2>1, <2>2, RanksEnd, KeyAssumption, SkipListAssumption
  <2> QED BY <2>3
<1>7. y \in Key /\ g[y] = m
  BY <1>1
<1> QED BY <1>5, <1>6, <1>7 DEF m

\* The scan loop, from the first node on, collects the keys of the range in order.
LEMMA ScannedIs ==
  ASSUME WellFormed, Trimmed, IsFiniteSet(Nodes), NEW start \in Key, NEW end \in Key
  PROVE  Scanned(start, end) = Store!Ascending({k \in Nodes : InRange(start, end, k)})
<1> DEFINE In(k) == InRange(start, end, k)
           From(x) == {k \in Nodes : Rank(x) <= Rank(k) /\ In(k)}
           Asc(K) == Store!Ascending(K)
           D == Key \cup {NULL}
           Loop(f) == f = [x \in D |-> IF x = NULL THEN << >>
                             ELSE (IF In(x) THEN <<x>> ELSE << >>) \o f[next[x][0]]]
           g == [x \in D |-> IF x = NULL THEN << >>
                             ELSE IF x \in Nodes THEN Asc(From(x))
                             ELSE IF In(x) THEN <<x>> ELSE << >>]
<1>1. KeyAssumption /\ SkipListAssumption /\ SameLength
  BY KeyAssumption, SkipListAssumption DEF WellFormed
<1>2. /\ \A x \in Key : x # HEAD /\ x # NULL /\ Rank(x) = KeyRank[x] /\ Rank(x) \in Nat
      /\ \A j, k \in Nodes : Rank(j) = Rank(k) => j = k
      /\ Nodes \subseteq Key /\ Rank(HEAD) = -1
  BY <1>1, RankFacts DEF Nodes
<1>3. ASSUME NEW x \in Key, next[x][0] # NULL
      PROVE  x \in Nodes /\ next[x][0] \in Nodes /\ next[x][0] \in Key
             /\ Rank(x) < Rank(next[x][0])
  <2>1. 0 \in Levels /\ x # HEAD
    BY SkipListAssumption DEF Levels, SkipListAssumption
  <2> QED BY <1>1, <1>3, <2>1, NextOnLevel DEF On
<1> HIDE DEF In
<1>4. \A x : From(x) \in SUBSET Nodes /\ Distinct(From(x))
  <2>1. \A x : From(x) \in SUBSET Nodes
    OBVIOUS
  <2> HIDE DEF From
  <2> QED BY <2>1, NodesDistinct
<1>5. \A x : Asc(From(x)) \in Seq(Nodes)
  <2> TAKE x
  <2>1. Sorts(Asc(From(x)), From(x))
    BY <1>1, <1>4, AscendingSorts
  <2>2. Cardinality(From(x)) \in Nat /\ From(x) \subseteq Nodes
    BY <1>4, FS_CardinalityType DEF Distinct
  <2> HIDE DEF From, Asc
  <2>3. Asc(From(x)) \in [1..Cardinality(From(x)) -> Nodes]
    BY <2>1, <2>2 DEF Sorts
  <2> DEFINE n == Cardinality(From(x))
  <2> HIDE DEF n
  <2>4. Asc(From(x)) \in [1..n -> Nodes] /\ n \in Nat
    BY <2>2, <2>3 DEF n
  <2> QED BY <2>4
<1>6. ASSUME NEW x \in Nodes
      PROVE  Asc(From(x)) = (IF In(x) THEN <<x>> ELSE << >>) \o g[next[x][0]]
  <2> DEFINE r == next[x][0]
             Rest == From(x) \ {x}
  <2>1. g[r] = Asc(Rest)
    <3>1. CASE r = NULL
      <4>1. \A k \in Nodes : Rank(k) <= Rank(x)
        BY <3>1, LowestLevel
      <4>2. Rest = {}
        BY <1>2, <4>1
      <4>3. g[r] = << >>
        BY <3>1
      <4> QED BY <4>2, <4>3, AscendingEmpty
    <3>2. CASE r # NULL
      <4>1. /\ r \in Nodes /\ Rank(x) < Rank(r) /\ r \in Key
            /\ \A k \in Nodes : Rank(k) <= Rank(x) \/ Rank(r) <= Rank(k)
        BY <1>2, <3>2, LowestLevel
      <4>2. g[r] = Asc(From(r))
        BY <1>2, <4>1
      <4>3. Rest = From(r)
        <5> HIDE DEF r
        <5> QED BY <1>2, <4>1
      <4> QED BY <4>2, <4>3
    <3> QED BY <3>1, <3>2
  <2>2. CASE In(x)
    <3>1. x \in From(x) /\ \A k \in From(x) : KeyRank[x] <= KeyRank[k]
      BY <1>2, <2>2
    <3>2. Asc(From(x)) = <<x>> \o Asc(Rest)
      <4> HIDE DEF From
      <4> QED BY <1>1, <1>4, <3>1, AscendingPrepend
    <3> HIDE DEF From, Asc, g, Rest
    <3> QED BY <2>1, <2>2, <3>2
  <2>3. CASE ~ In(x)
    <3>1. Rest = From(x)
      BY <2>3
    <3>2. << >> \o Asc(From(x)) = Asc(From(x))
      <4> HIDE DEF From, Asc
      <4> QED BY <1>5, ConcatEmptySeq
    <3> HIDE DEF From, Asc, g, Rest
    <3> QED BY <2>1, <2>3, <3>1, <3>2
  <2> QED BY <2>2, <2>3
<1>7. Loop(g)
  <2>1. ASSUME NEW x \in D
        PROVE  g[x] = IF x = NULL THEN << >>
                      ELSE (IF In(x) THEN <<x>> ELSE << >>) \o g[next[x][0]]
    <3>1. CASE x = NULL
      BY <3>1
    <3>2. CASE x \in Nodes
      <4>1. x # NULL /\ g[x] = Asc(From(x))
        BY <1>2, <3>2
      <4> HIDE DEF g, From, Asc
      <4> QED BY <1>6, <3>2, <4>1
    <3>3. CASE x # NULL /\ x \notin Nodes
      <4>1. next[x][0] = NULL /\ g[NULL] = << >>
        BY <1>3, <3>3
      <4>2. g[x] = IF In(x) THEN <<x>> ELSE << >>
        BY <3>3
      <4>3. <<x>> \o << >> = <<x>> /\ << >> \o << >> = << >>
        OBVIOUS
      <4> HIDE DEF g
      <4> QED BY <3>3, <4>1, <4>2, <4>3
    <3> QED BY <3>1, <3>2, <3>3
  <2>2. g = [x \in D |-> g[x]]
    OBVIOUS
  <2> HIDE DEF g, D
  <2> QED BY <2>1, <2>2
<1> DEFINE f == CHOOSE h : Loop(h)
<1>8. Loop(f)
  <2> HIDE DEF Loop
  <2> QED BY <1>7
<1>9. Scanned(start, end) = f[next[HEAD][0]]
  BY DEF Scanned, In
<1> HIDE DEF f, g
<1>10. \A x \in D : f[x] = g[x]
  <2> DEFINE Bad == {z \in D : f[z] # g[z]}
  <2>1. ASSUME NEW z \in Bad
        PROVE  z \in Key /\ \E x \in Bad : Rank(z) < Rank(x)
    <3>1. CASE z = NULL
      BY <1>7, <1>8, <3>1
    <3>2. CASE z # NULL
      <4> DEFINE x == next[z][0]
                 own == IF In(z) THEN <<z>> ELSE << >>
      <4>1. z \in Key /\ f[z] = own \o f[x] /\ g[z] = own \o g[x] /\ f[z] # g[z]
        BY <1>7, <1>8, <3>2
      <4> HIDE DEF own, x
      <4>2. f[x] # g[x]
        BY <4>1
      <4>3. CASE x = NULL
        BY <1>7, <1>8, <4>2, <4>3
      <4>4. CASE x # NULL
        <5>1. x \in Key /\ Rank(z) < Rank(x)
          BY <1>3, <4>1, <4>4 DEF x
        <5> QED BY <4>1, <4>2, <5>1
      <4> QED BY <4>3, <4>4
    <3> QED BY <3>1, <3>2
  <2>2. Bad \subseteq Key \cup {HEAD}
    BY <2>1
  <2>3. Bad = {}
    <3> HIDE DEF Bad
    <3> QED BY <1>1, <2>1, <2>2, RanksEnd
  <2> QED BY <2>3
<1>11. g[next[HEAD][0]] = Asc({k \in Nodes : In(k)}) /\ next[HEAD][0] \in D
  <2> DEFINE r == next[HEAD][0]
  <2>1. CASE r = NULL
    <3>1. \A k \in Nodes : Rank(k) <= -1
      BY <1>2, <2>1, LowestLevel
    <3>2. Nodes = {}
      BY <1>2, <3>1
    <3>3. g[NULL] = << >>
      BY DEF g
    <3> QED BY <2>1, <3>2, <3>3, AscendingEmpty
  <2>2. CASE r # NULL
    <3>1. r \in Nodes /\ \A k \in Nodes : Rank(k) <= -1 \/ Rank(r) <= Rank(k)
      BY <1>2, <2>2, LowestLevel
    <3>2. From(r) = {k \in Nodes : In(k)}
      <4> HIDE DEF r
      <4> QED BY <1>2, <3>1
    <3>3. g[r] = Asc(From(r))
      BY <1>2, <2>2, <3>1 DEF g
    <3> QED BY <1>2, <3>1, <3>2, <3>3
  <2> QED BY <2>1, <2>2
<1> QED BY <1>9, <1>10, <1>11 DEF In

-----------------------------------------------------------------------------
(***************************************************************************)
(* Every command of a fixed-length server is a step of the sorted map      *)
(***************************************************************************)
\* The keys the map knows are the nodes, and their values the nodes' strings.
LEMMA StoredFacts ==
  ASSUME FixedMode
  PROVE  /\ Store!Known = Nodes /\ Nodes = dict
         /\ \A k \in Nodes : k \in Key /\ Stored[k] = val[k] /\ KeyLen[k] = key_len
         /\ WellFormed /\ IsFiniteSet(Nodes) /\ length = Cardinality(Nodes)
<1>1. \A k \in Nodes : k \in Key /\ Stored[k] = val[k] /\ val[k] # NULL
  BY SkipListAssumption DEF FixedMode, LiveValues, Nodes, Stored, SkipListAssumption
<1>2. \A k \in Key \ Nodes : Stored[k] = NULL
  BY DEF Nodes, Stored
<1>3. Store!Known = Nodes
  BY <1>1, <1>2 DEF Store!Known
<1> QED BY <1>1, <1>3
        DEF FixedMode, AnyMode, IndexAgreement, LengthCounts, LegalKeys

LEMMA RefusedMaps ==
  ASSUME Refuse, status = "up"
  PROVE  Store!Refuse
BY DEF Refuse, Answer, Stored, listVars, Store!Refuse, Store!Answer

LEMMA GetMaps ==
  ASSUME FixedMode, FixedLength, status = "up", NEW key \in Key, getCommand(key),
         cmd' = <<"get", key>>
  PROVE  Store!Get(key)
<1>1. CASE ~ LegalKey(key)
  <2>1. Store!Refuse /\ key \notin Store!LegalKey
    BY <1>1, RefusedMaps DEF getCommand, LegalKey, Store!LegalKey
  <2> QED BY <2>1 DEF Store!Get
<1>2. CASE LegalKey(key)
  <2>1. UNCHANGED Stored /\ status' = "up"
        /\ reply' = IF key \in dict THEN <<"value", val[key]>> ELSE <<"null">>
    <3>1. CASE key \in dict
      <4>1. GetFound(key)
        BY <1>2, <3>1 DEF getCommand
      <4>2. search_skiplist(key) \notin {NULL, FREED} /\ search_skiplist(key) = val[key]
        <5>1. SearchNode(key) = key /\ key # NULL
          BY <3>1, FixedSearch, RankFacts, KeyAssumption, SkipListAssumption
        <5> QED BY <3>1, <5>1, FixedSearch DEF search_skiplist
      <4> QED BY <3>1, <4>1, <4>2 DEF GetFound, Answer, Stored, listVars
    <3>2. CASE key \notin dict
      BY <1>2, <3>2 DEF getCommand, GetMissing, Answer, Stored, listVars
    <3> QED BY <3>1, <3>2
  <2>2. key \in Store!LegalKey
    BY <1>2 DEF LegalKey, Store!LegalKey
  <2>3. key \in Store!Known <=> key \in dict
    BY StoredFacts
  <2>4. key \in dict => Stored[key] = val[key]
    BY StoredFacts
  <2> QED BY <2>1, <2>2, <2>3, <2>4 DEF Store!Get, Store!Answer
<1> QED BY <1>1, <1>2

LEMMA PutMaps ==
  ASSUME FixedMode, FixedLength, ~ MallocCanFail, status = "up",
         NEW key \in Key, NEW v \in Val, putCommand(key, v),
         cmd' = <<"put", key, v>>
  PROVE  Store!Put(key, v)
<1>1. CASE ~ (LegalKey(key) /\ LegalVal(v))
  <2>1. Store!Refuse /\ (key \notin Store!LegalKey \/ v \notin Store!LegalVal)
    BY <1>1, RefusedMaps
    DEF putCommand, LegalKey, LegalVal, Store!LegalKey, Store!LegalVal
  <2> QED BY <2>1 DEF Store!Put
<1>2. CASE LegalKey(key) /\ LegalVal(v)
  <2>1. Stored' = [Stored EXCEPT ![key] = v] /\ status' = "up" /\ reply' = <<"ok">>
    <3>1. /\ height \in [Key -> 0..MAX_LEVEL] /\ val \in [Key -> Val \cup {FREED, NULL}]
          /\ MAX_LEVEL \in Nat
      BY SkipListAssumption
      DEF FixedMode, AnyMode, TypeOK, SkipListTypeOK, SkipListAssumption
    <3>2. CASE key \in dict
      <4>1. SearchNode(key) = key /\ key # NULL /\ ~ DoubleFree(key) /\ key \in Nodes
        BY <3>2, FixedSearch, RankFacts, KeyAssumption, SkipListAssumption
      <4>2. replace_skiplist(key, v) /\ status' = "up" /\ reply' = <<"ok">>
        BY <1>2, <3>2, <4>1 DEF putCommand, PutReplaces, Answer
      <4>3. val' = [val EXCEPT ![key] = v] /\ height' = height
        BY <4>1, <4>2 DEF replace_skiplist
      <4> QED BY <3>1, <4>1, <4>2, <4>3 DEF Stored, Nodes
    <3>3. CASE key \notin dict
      <4>1. ~ Hit(Target(key), key)
        <5> SUFFICES ASSUME Hit(Target(key), key) PROVE FALSE
          OBVIOUS
        <5>1. Target(key) \in Nodes
          BY HitLinks, KeyAssumption, SkipListAssumption DEF FixedMode, AnyMode
        <5>2. Target(key) \in Key /\ KeyLen[Target(key)] = KeyLen[key]
          BY <1>2, <5>1, StoredFacts DEF LegalKey
        <5>3. Target(key) = key
          BY <5>2, EqualIsSame DEF Hit
        <5> QED BY <3>3, <5>1, <5>3, StoredFacts
      <4>2. PICK t \in gen_random_level :
              insert_skiplist(key, v, t, TRUE) /\ status' = "up" /\ reply' = <<"ok">>
        BY <1>2, <3>3, <4>1 DEF putCommand, PutInserts, Answer
      <4>3. val' = [val EXCEPT ![key] = v] /\ height' = [height EXCEPT ![key] = t]
        BY <4>1, <4>2 DEF insert_skiplist, LinkNode
      <4>4. t > 0
        BY SkipListAssumption DEF gen_random_level, SkipListAssumption
      <4> QED BY <3>1, <4>2, <4>3, <4>4 DEF Stored
    <3> QED BY <3>2, <3>3
  <2>2. key \in Store!LegalKey /\ v \in Store!LegalVal
    BY <1>2 DEF LegalKey, LegalVal, Store!LegalKey, Store!LegalVal
  <2> QED BY <2>1, <2>2 DEF Store!Put
<1> QED BY <1>1, <1>2

LEMMA DeleteMaps ==
  ASSUME FixedMode, FixedLength, status = "up", NEW key \in Key, deleteCommand(key),
         cmd' = <<"delete", key>>
  PROVE  Store!Delete(key)
<1>1. CASE ~ LegalKey(key)
  <2>1. Store!Refuse /\ key \notin Store!LegalKey
    BY <1>1, RefusedMaps DEF deleteCommand, LegalKey, Store!LegalKey
  <2> QED BY <2>1 DEF Store!Delete
<1>2. CASE LegalKey(key)
  <2>1. Stored' = [Stored EXCEPT ![key] = NULL] /\ status' = "up"
        /\ reply' = <<"deleted", IF key \in dict THEN 1 ELSE 0>>
    <3>1. /\ height \in [Key -> 0..MAX_LEVEL] /\ val \in [Key -> Val \cup {FREED, NULL}]
      BY DEF FixedMode, AnyMode, TypeOK, SkipListTypeOK
    <3>2. CASE key \in dict
      <4>1. Target(key) = key /\ Hit(key, key) /\ ~ DoubleFree(key)
        BY <3>2, FixedSearch
      <4>2. delete_skiplist(key) /\ status' = "up" /\ reply' = <<"deleted", 1>>
        BY <1>2, <3>2, <4>1 DEF deleteCommand, DeleteFound, Answer
      <4>3. val' = [val EXCEPT ![key] = NULL] /\ height' = [height EXCEPT ![key] = 0]
        BY <4>1, <4>2 DEF delete_skiplist, UnlinkNode
      <4> QED BY <3>1, <3>2, <4>2, <4>3 DEF Stored
    <3>3. CASE key \notin dict
      <4>1. UNCHANGED Stored /\ status' = "up" /\ reply' = <<"deleted", 0>>
        BY <1>2, <3>3 DEF deleteCommand, DeleteMissing, Answer, Stored, listVars
      <4>2. ~ (height[key] > 0)
        BY <3>3, StoredFacts DEF Nodes
      <4> QED BY <3>3, <4>1, <4>2 DEF Stored
    <3> QED BY <3>2, <3>3
  <2>2. key \in Store!LegalKey
    BY <1>2 DEF LegalKey, Store!LegalKey
  <2>3. key \in Store!Known <=> key \in dict
    BY StoredFacts
  <2> QED BY <2>1, <2>2, <2>3 DEF Store!Delete
<1> QED BY <1>1, <1>2

LEMMA ScanMaps ==
  ASSUME FixedMode, Trimmed, FixedLength, status = "up",
         NEW start \in Key, NEW end \in Key, scanCommand(start, end),
         cmd' = <<"scan", start, end>>
  PROVE  Store!Scan(start, end)
<1>1. UNCHANGED <<listVars, dict>> /\ UNCHANGED Stored
  BY DEF scanCommand, Stored, listVars
<1>2. CASE ~ (LegalKey(start) /\ LegalKey(end))
  <2>1. Store!Refuse
    BY <1>1, <1>2, RefusedMaps DEF scanCommand, Refuse
  <2>2. ~ ({start, end} \subseteq Store!LegalKey)
    BY <1>2 DEF LegalKey, Store!LegalKey
  <2> QED BY <2>1, <2>2 DEF Store!Scan
<1>3. CASE LegalKey(start) /\ LegalKey(end)
  <2>1. KeyLen[start] = key_len /\ KeyLen[end] = key_len
    BY <1>3 DEF LegalKey
  <2>2. /\ KeyRank[start] \in Int /\ KeyRank[end] \in Int
        /\ \A k \in Nodes : KeyRank[k] \in Int /\ KeyLen[k] = key_len
    BY StoredFacts, KeyAssumption DEF KeyAssumption
  <2>3. slKeyCompare(start, end) > 0 <=> KeyRank[start] > KeyRank[end]
    BY <2>1, <2>2 DEF slKeyCompare, memcmp
  <2>4. \A k \in Nodes : InRange(start, end, k)
          <=> KeyRank[start] <= KeyRank[k] /\ KeyRank[k] <= KeyRank[end]
    BY <2>1, <2>2 DEF InRange, slKeyCompare, memcmp
  <2>5. {k \in Nodes : InRange(start, end, k)} = Store!Between(start, end)
    BY <2>4, StoredFacts DEF Store!Between
  <2>6. Scanned(start, end) = Store!Ascending(Store!Between(start, end))
    BY <2>5, StoredFacts, ScannedIs
  <2>7. status' = "up"
        /\ reply' = IF KeyRank[start] > KeyRank[end] THEN <<"cursorerr">>
                    ELSE <<"keys", Store!Ascending(Store!Between(start, end))>>
    BY <1>3, <2>3, <2>6 DEF scanCommand, Answer
  <2>8. {start, end} \subseteq Store!LegalKey
    BY <2>1 DEF Store!LegalKey
  <2> QED BY <1>1, <2>7, <2>8 DEF Store!Scan, Store!Answer
<1> QED BY <1>2, <1>3

LEMMA ShowMaps ==
  ASSUME FixedMode, Trimmed, status = "up", infoCommand,
         cmd' = <<"show">>
  PROVE  Store!Show
<1> DEFINE n == Cardinality(Nodes)
           s == Store!Ascending(Nodes)
<1>1. UNCHANGED Stored
  BY DEF infoCommand, InfoOfEmpty, InfoOfNodes, Crash, Stored, listVars
<1>2. WellFormed /\ IsFiniteSet(Nodes) /\ length = n /\ Store!Known = Nodes
  BY StoredFacts
<1>3. Store!Cardinality(Store!Known) = n
  BY <1>2, SameCardinality
<1>4. status' = "up" /\ reply' = IF n = 0 THEN <<"info", 0>> ELSE <<"info", n, s[1], s[n]>>
  <2>1. CASE n = 0
    BY <1>2, <2>1 DEF infoCommand, InfoOfEmpty, Answer
  <2>2. CASE n # 0
    <3>1. Nodes # {}
      BY <2>2, FS_EmptySet
    <3>2. next[HEAD][0] = s[1]
      BY <1>2, <3>1, FirstIsSmallest
    <3>3. next[HEAD][0] # NULL /\ level > 0 /\ level \in Nat
          /\ next[HEAD][level - 1] # NULL /\ level - 1 \in Levels
      <4>1. PICK k : k \in Nodes
        BY <3>1
      <4>2. level > 0 /\ level \in 0..MAX_LEVEL /\ MAX_LEVEL \in Nat
        BY <1>2, <4>1, SkipListAssumption
        DEF WellFormed, Reachable, SkipListTypeOK, Nodes, SkipListAssumption
      <4>3. \A i \in 0..(level - 1) : next[HEAD][i] # NULL
        BY <4>1 DEF FixedMode, LevelTight
      <4> QED BY <4>2, <4>3 DEF Levels
    <3>4. MaxStart # NULL /\ MaxStart \in Nodes
      <4>1. next[HEAD][level - 1] \in Nodes
        BY <1>2, <3>3, NextOnLevel, KeyAssumption, SkipListAssumption
      <4> QED BY <3>3, <4>1 DEF MaxStart
    <3>5. find_max_skiplist = s[n]
      BY <1>2, <3>4, LastFromIs DEF find_max_skiplist
    <3> HIDE DEF n, s
    <3> QED BY <1>2, <2>2, <3>2, <3>3, <3>4, <3>5 DEF infoCommand, InfoOfNodes, Answer
  <2> QED BY <2>1, <2>2
<1> HIDE DEF n
<1> QED BY <1>1, <1>2, <1>3, <1>4 DEF Store!Show, Store!Answer

LEMMA StepMaps ==
  ASSUME FixedLength, ~ MallocCanFail
  PROVE  FixedMode /\ Trimmed /\ [Next]_vars => [Store!Next]_<<Stored, cmd, status, reply>>
<1> SUFFICES ASSUME FixedMode, Trimmed, Next PROVE Store!Next
  BY DEF vars, listVars, Stored
<1>1. status = "up"
  BY DEF Next
<1>2. ASSUME NEW key \in Key, getCommand(key), cmd' = <<"get", key>> PROVE Store!Next
  BY <1>1, <1>2, GetMaps DEF Store!Next
<1>3. ASSUME NEW key \in Key, NEW v \in Val, putCommand(key, v), cmd' = <<"put", key, v>>
      PROVE  Store!Next
  BY <1>1, <1>3, PutMaps DEF Store!Next
<1>4. ASSUME NEW key \in Key, deleteCommand(key), cmd' = <<"delete", key>> PROVE Store!Next
  BY <1>1, <1>4, DeleteMaps DEF Store!Next
<1>5. ASSUME NEW start \in Key, NEW end \in Key, scanCommand(start, end),
             cmd' = <<"scan", start, end>>
      PROVE  Store!Next
  BY <1>1, <1>5, ScanMaps DEF Store!Next
<1>6. CASE infoCommand /\ cmd' = <<"show">>
  BY <1>1, <1>6, ShowMaps DEF Store!Next
<1>7. CASE pingCommand /\ cmd' = <<"ping">>
  BY <1>1, <1>7 DEF pingCommand, Answer, Stored, listVars, Store!Next, Store!Ping, Store!Answer
<1>8. CASE shutdownCommand /\ cmd' = <<"shutdown">>
  BY <1>1, <1>8 DEF shutdownCommand, Stored, listVars, Store!Next, Store!Shutdown
<1> QED BY <1>2, <1>3, <1>4, <1>5, <1>6, <1>7, <1>8 DEF Next

LEMMA InitMaps == Init => Store!Init
<1> SUFFICES ASSUME Init PROVE Store!Init
  OBVIOUS
<1>1. Stored = [k \in Key |-> NULL]
  BY DEF Init, create_skiplist, Stored
<1> QED BY <1>1 DEF Init, Store!Init

\* With a fixed length and memory for every node, a server is a sorted map: for
\* any keys, values and coin tosses, each command changes the map and answers as
\* KVStore says, so neither the pointers, the levels nor the hash table show.
THEOREM FixedLengthStore ==
  ASSUME FixedLength, ~ MallocCanFail
  PROVE  Spec => StoreSpec
<1>1. Init => FixedMode /\ Trimmed /\ Store!Init
  BY InitFixedMode, InitTrimmed, InitMaps
<1>2. FixedMode /\ [Next]_vars => FixedMode'
  BY NextFixedMode
<1>3. FixedMode => AnyMode
  BY DEF FixedMode
<1>4. AnyMode /\ Trimmed /\ [Next]_vars => Trimmed'
  BY NextTrimmed
<1>5. FixedMode /\ Trimmed /\ [Next]_vars => [Store!Next]_<<Stored, cmd, status, reply>>
  BY StepMaps
<1> QED BY <1>1, <1>2, <1>3, <1>4, <1>5, PTL
        DEF Spec, StoreSpec, Store!Spec, Store!kvVars
=============================================================================
