------------------------------ MODULE DictProof ------------------------------
(***************************************************************************)
(* The hash table keeps every key where it is looked for, counts them, and *)
(* answers as a set does, for every set of keys, every hash function and   *)
(* every initial size, with and without an iterator running.               *)
(***************************************************************************)
EXTENDS DictWalk, FiniteSetTheorems, WellFoundedInduction, TLAPS

Places(T) == 0..(T.size - 1)
Chains == UNION {[0..(n - 1) -> SUBSET Key] : n \in Nat}
Table == [size : Nat, used : Nat, bucket : Chains]
Struct == [ht : [0..1 -> Table], rehashidx : Nat \cup {-1}, iterators : Nat]

\* Each key of a table is where its hash leads to, and used counts the keys.
GoodTable(T) ==
    /\ T \in Table
    /\ T.bucket \in [Places(T) -> SUBSET Key]
    /\ T.used = Cardinality(KeysOf(T))
    /\ \A i \in Places(T) : \A k \in T.bucket[i] : Index(T, k) = i

\* The inductive invariant, of a struct on its own.
Good(d) ==
    /\ d \in Struct
    /\ GoodTable(d.ht[0]) /\ GoodTable(d.ht[1])
    /\ KeysOf(d.ht[0]) \cap KeysOf(d.ht[1]) = {}
    /\ IF dictIsRehashing(d)
       THEN /\ d.ht[0].size > 0 /\ d.ht[1].size > 0
            /\ \A i \in Places(d.ht[0]) : i < d.rehashidx => d.ht[0].bucket[i] = {}
       ELSE d.ht[1] = NewTable(0)

-----------------------------------------------------------------------------
(***************************************************************************)
(* One table                                                               *)
(***************************************************************************)
\* A nonempty set of naturals has a least element, and LeastOf finds it.
LEMMA LeastOfNaturals ==
  ASSUME NEW S, S \subseteq Nat, S # {}
  PROVE  LeastOf(S) \in S /\ \A j \in S : LeastOf(S) <= j
<1>1. PICK m \in S : \A y \in S : ~ (<<y, m>> \in OpToRel(<, Nat))
  BY NatLessThanWellFounded, WFMin, Zenon
<1>2. ASSUME NEW j \in S PROVE m <= j
  <2>1. ~ (j < m)
    BY <1>1 DEF OpToRel
  <2> QED BY <2>1
<1> QED BY <1>2 DEF LeastOf

LEMMA IndexInTable ==
  ASSUME DictAssumption, NEW T \in Table, T.size > 0, NEW k \in Key
  PROVE  Index(T, k) \in Places(T)
<1>1. T.size \in Nat \ {0} /\ Hash[k] \in Nat
  BY DEF DictAssumption, Table
<1> QED BY <1>1 DEF Index, Places

LEMMA FiniteKeys ==
  ASSUME DictAssumption, NEW S \in SUBSET Key
  PROVE  IsFiniteSet(S) /\ Cardinality(S) \in Nat
  BY FS_Subset, FS_CardinalityType DEF DictAssumption

LEMMA KeysAreKeys ==
  ASSUME NEW T, GoodTable(T)
  PROVE  KeysOf(T) \subseteq Key
  BY DEF GoodTable, KeysOf, Places

LEMMA ChainsOfSize ==
  ASSUME NEW n \in Nat, NEW f \in [0..(n - 1) -> SUBSET Key]
  PROVE  f \in Chains
  BY DEF Chains

LEMMA NewTableGood ==
  ASSUME NEW n \in Nat
  PROVE  GoodTable(NewTable(n)) /\ KeysOf(NewTable(n)) = {}
<1>1. NewTable(n) \in Table
  BY DEF NewTable, Table, Chains
<1>2. KeysOf(NewTable(n)) = {}
  BY DEF NewTable, KeysOf
<1> QED BY <1>1, <1>2, FS_EmptySet DEF GoodTable, NewTable, Places

\* Looking into one bucket is enough.
LEMMA FoundInTable ==
  ASSUME DictAssumption, NEW T, GoodTable(T), NEW k \in Key
  PROVE  /\ T.size = 0 => KeysOf(T) = {}
         /\ T.size > 0 => (k \in KeysOf(T) <=> k \in T.bucket[Index(T, k)])
<1>1. T.size = 0 => KeysOf(T) = {}
  BY DEF KeysOf
<1>2. T.size > 0 => Index(T, k) \in Places(T)
  BY IndexInTable DEF GoodTable
<1> QED BY <1>1, <1>2 DEF GoodTable, KeysOf, Places

\* A chain that gets keys of its own, in every bucket.
LEMMA ReceivedGood ==
  ASSUME DictAssumption, NEW T, GoodTable(T), T.size > 0,
         NEW M \in SUBSET Key, M \cap KeysOf(T) = {}
  PROVE  /\ GoodTable(Received(T, M))
         /\ KeysOf(Received(T, M)) = KeysOf(T) \cup M
         /\ Received(T, M).size = T.size
<1> DEFINE R == Received(T, M)
<1>0. DOMAIN T.bucket = Places(T) /\ T \in Table
  BY DEF GoodTable
<1>1. /\ R = [size |-> T.size, used |-> T.used + Cardinality(M),
               bucket |-> [i \in Places(T) |-> T.bucket[i] \cup {k \in M : Index(T, k) = i}]]
      /\ Cardinality(M) \in Nat /\ T.used \in Nat /\ T.size \in Nat
  <2>1. T.used \in Nat /\ T.size \in Nat
    BY <1>0 DEF Table
  <2>2. R = [T EXCEPT !.used = T.used + Cardinality(M),
                      !.bucket = [i \in Places(T) |->
                                     T.bucket[i] \cup {k \in M : Index(T, k) = i}]]
    BY <1>0 DEF Received
  <2>3. T = [size |-> T.size, used |-> T.used, bucket |-> T.bucket]
    BY <1>0 DEF Table
  <2> HIDE DEF R
  <2> QED BY <2>1, <2>2, <2>3, FiniteKeys
<1> HIDE DEF R
<1>2. R.bucket \in [Places(T) -> SUBSET Key]
  BY <1>1 DEF GoodTable
<1>3. R \in Table
  <2>1. R = [size |-> T.size, used |-> R.used, bucket |-> R.bucket] /\ R.used \in Nat
    BY <1>1
  <2>2. R.bucket \in Chains
    BY <1>1, <1>2, ChainsOfSize DEF Places
  <2> QED BY <1>1, <2>1, <2>2 DEF Table
<1>4. KeysOf(R) = KeysOf(T) \cup M
  <2>1. \A k \in M : Index(T, k) \in Places(T)
    BY IndexInTable DEF GoodTable
  <2> QED BY <1>1, <2>1 DEF KeysOf, Places
<1>5. R.used = Cardinality(KeysOf(R))
  <2>1. /\ IsFiniteSet(KeysOf(T)) /\ IsFiniteSet(M)
        /\ Cardinality(KeysOf(T) \cap M) = 0
    BY FiniteKeys, KeysAreKeys, FS_EmptySet
  <2>2. Cardinality(KeysOf(T) \cup M)
          = Cardinality(KeysOf(T)) + Cardinality(M) - Cardinality(KeysOf(T) \cap M)
    BY <2>1, FS_Union, Zenon
  <2>3. R.used = T.used + Cardinality(M)
    BY <1>1
  <2>4. T.used = Cardinality(KeysOf(T)) /\ Cardinality(KeysOf(R)) = Cardinality(KeysOf(T) \cup M)
    BY <1>4 DEF GoodTable
  <2> QED BY <1>1, <2>1, <2>2, <2>3, <2>4
<1>6. \A i \in Places(R) : \A k \in R.bucket[i] : Index(R, k) = i
  BY <1>1 DEF GoodTable, Index, Places
<1>7. GoodTable(R) /\ R.size = T.size
  BY <1>1, <1>2, <1>3, <1>5, <1>6 DEF GoodTable, Places
<1> QED BY <1>4, <1>7 DEF R

\* A table one of whose buckets is replaced by part of it.
Reduced(T, i, left) ==
    [T EXCEPT !.bucket[i] = left, !.used = @ - Cardinality(T.bucket[i] \ left)]

LEMMA ReducedGood ==
  ASSUME DictAssumption, NEW T, GoodTable(T), NEW i \in Places(T),
         NEW left \in SUBSET T.bucket[i]
  PROVE  /\ GoodTable(Reduced(T, i, left))
         /\ KeysOf(Reduced(T, i, left)) = KeysOf(T) \ (T.bucket[i] \ left)
         /\ Reduced(T, i, left).size = T.size
<1> DEFINE R == Reduced(T, i, left)
           gone == T.bucket[i] \ left
<1>1. gone \subseteq KeysOf(T) /\ KeysOf(T) \subseteq Key
  BY KeysAreKeys DEF KeysOf, Places
<1>2. /\ IsFiniteSet(KeysOf(T)) /\ IsFiniteSet(gone)
      /\ Cardinality(KeysOf(T)) \in Nat /\ Cardinality(gone) \in Nat
      /\ Cardinality(gone) <= Cardinality(KeysOf(T))
      /\ Cardinality(KeysOf(T) \ gone) = Cardinality(KeysOf(T)) - Cardinality(gone)
  <2>1. KeysOf(T) \cap gone = gone
    BY <1>1
  <2> HIDE DEF gone
  <2> QED BY <1>1, <2>1, FiniteKeys, FS_Difference, FS_Subset
<1>3. /\ R = [size |-> T.size, used |-> T.used - Cardinality(gone),
               bucket |-> [T.bucket EXCEPT ![i] = left]]
      /\ T.used \in Nat /\ T.size \in Nat
  <2>1. T = [size |-> T.size, used |-> T.used, bucket |-> T.bucket]
        /\ T.used \in Nat /\ T.size \in Nat
    BY DEF GoodTable, Table
  <2>2. R = [T EXCEPT !.bucket = [T.bucket EXCEPT ![i] = left],
                      !.used = T.used - Cardinality(gone)]
    BY <2>1 DEF Reduced
  <2> HIDE DEF R, gone
  <2> QED BY <2>1, <2>2
<1> HIDE DEF R
<1>4. R.bucket \in [Places(T) -> SUBSET Key]
  BY <1>3 DEF GoodTable
<1>5. KeysOf(R) = KeysOf(T) \ gone
  <2>1. \A j \in Places(T) : R.bucket[j] = IF j = i THEN left ELSE T.bucket[j]
    BY <1>3 DEF GoodTable
  <2>2. \A j \in Places(T) : j # i => T.bucket[j] \cap gone = {}
    BY DEF GoodTable
  <2> QED BY <1>3, <2>1, <2>2 DEF KeysOf, Places
<1>6. R \in Table
  <2>1. R = [size |-> T.size, used |-> R.used, bucket |-> R.bucket] /\ R.used \in Nat
    BY <1>2, <1>3 DEF GoodTable
  <2>2. R.bucket \in Chains
    BY <1>3, <1>4, ChainsOfSize DEF Places
  <2> QED BY <1>3, <2>1, <2>2 DEF Table
<1>7. R.used = Cardinality(KeysOf(R))
  BY <1>2, <1>3, <1>5 DEF GoodTable
<1>8. \A j \in Places(R) : \A k \in R.bucket[j] : Index(R, k) = j
  BY <1>3 DEF GoodTable, Index, Places
<1>9. GoodTable(R) /\ R.size = T.size
  BY <1>3, <1>4, <1>6, <1>7, <1>8 DEF GoodTable, Places
<1> QED BY <1>5, <1>9 DEF R

-----------------------------------------------------------------------------
(***************************************************************************)
(* Loops.  A recursive function on 0..n exists by induction on n: there is *)
(* no least n for which it does not.                                       *)
(***************************************************************************)
LEMMA NoLeastException ==
  ASSUME NEW S, S \subseteq Nat, 0 \in S, \A n \in S : n + 1 \in S
  PROVE  S = Nat
<1> SUFFICES ASSUME S # Nat PROVE FALSE
  OBVIOUS
<1> DEFINE out == Nat \ S
          m == LeastOf(out)
<1>1. m \in out /\ \A j \in out : m <= j
  <2>1. out \subseteq Nat /\ out # {}
    OBVIOUS
  <2> HIDE DEF out
  <2> QED BY <2>1, LeastOfNaturals
<1> HIDE DEF m
<1>2. m \in Nat /\ m # 0 /\ m - 1 \in Nat
  BY <1>1
<1>3. m - 1 \in S
  BY <1>1, <1>2
<1>4. (m - 1) + 1 = m
  BY <1>2
<1> QED BY <1>1, <1>3, <1>4

\* The loop of _dictNextPower ends, and what it returns is a size.
LEMMA NextPower ==
  ASSUME DictAssumption, NEW n \in Nat
  PROVE  _dictNextPower(n) \in Nat \ {0} /\ _dictNextPower(n) >= n
<1> DEFINE Doubles(m, f) ==
             f = [i \in 0..m |-> IF i = 0 THEN DICT_HT_INITIAL_SIZE ELSE f[i - 1] * 2]
           S == {m \in Nat : \E f : Doubles(m, f)}
<1>1. 0 \in S
  <2>1. Doubles(0, [i \in 0..0 |-> DICT_HT_INITIAL_SIZE])
    OBVIOUS
  <2> QED BY <2>1
<1>2. ASSUME NEW m \in S PROVE m + 1 \in S
  <2>1. PICK f : Doubles(m, f)
    OBVIOUS
  <2> DEFINE g == [i \in 0..(m + 1) |-> IF i <= m THEN f[i] ELSE f[m] * 2]
  <2>2. \A i \in 0..(m + 1) : g[i] = IF i = 0 THEN DICT_HT_INITIAL_SIZE ELSE g[i - 1] * 2
    <3>1. TAKE i \in 0..(m + 1)
    <3>2. CASE i = 0
      BY <2>1, <3>2
    <3>3. CASE i \in 1..m
      BY <2>1, <3>3
    <3>4. CASE i = m + 1
      BY <2>1, <3>4
    <3> QED BY <3>2, <3>3, <3>4
  <2>3. DOMAIN g = 0..(m + 1) /\ g = [i \in DOMAIN g |-> g[i]]
    OBVIOUS
  <2> HIDE DEF g
  <2>4. Doubles(m + 1, g)
    BY <2>2, <2>3
  <2>5. m + 1 \in Nat
    OBVIOUS
  <2> HIDE DEF Doubles
  <2> QED BY <2>4, <2>5
<1>3. S = Nat
  <2>1. S \subseteq Nat
    OBVIOUS
  <2> HIDE DEF S
  <2> QED BY <1>1, <1>2, <2>1, NoLeastException
<1> DEFINE doubled == CHOOSE f : Doubles(n, f)
           Right == {i \in Nat : i <= n => doubled[i] \in Nat /\ doubled[i] > i}
           sizes == {s \in {doubled[i] : i \in 0..n} : s >= n}
<1>4. Doubles(n, doubled)
  <2>1. \E f : Doubles(n, f)
    BY <1>3
  <2> HIDE DEF Doubles
  <2> QED BY <2>1
<1>5. _dictNextPower(n) = LeastOf(sizes)
  BY DEF _dictNextPower
<1> HIDE DEF doubled
<1>6. Right = Nat
  <2>1. 0 \in Right
    BY <1>4 DEF DictAssumption
  <2>2. ASSUME NEW i \in Right PROVE i + 1 \in Right
    <3>1. CASE i + 1 <= n
      <4>1. doubled[i + 1] = doubled[i] * 2
        BY <1>4, <3>1
      <4> QED BY <3>1, <4>1
    <3> QED BY <3>1
  <2>3. Right \subseteq Nat
    OBVIOUS
  <2> HIDE DEF Right
  <2> QED BY <2>1, <2>2, <2>3, NoLeastException
<1>7. \A i \in 0..n : doubled[i] \in Nat /\ doubled[i] > i
  <2>1. TAKE i \in 0..n
  <2>2. i \in Right
    BY <1>6
  <2> QED BY <2>2
<1>8. sizes \subseteq Nat \ {0} /\ sizes # {}
  <2>1. doubled[n] \in sizes
    BY <1>7
  <2>2. \A s \in sizes : s \in Nat /\ s # 0
    BY <1>7
  <2> QED BY <2>1, <2>2
<1>9. LeastOf(sizes) \in sizes
  <2> HIDE DEF sizes
  <2> QED BY <1>8, LeastOfNaturals
<1> QED BY <1>5, <1>8, <1>9

-----------------------------------------------------------------------------
(***************************************************************************)
(* Both tables                                                             *)
(***************************************************************************)
LEMMA StructParts ==
  ASSUME NEW d \in Struct
  PROVE  /\ DOMAIN d.ht = 0..1 /\ d.ht[0] \in Table /\ d.ht[1] \in Table
         /\ d.rehashidx \in Nat \cup {-1} /\ d.iterators \in Nat
         /\ d = [ht |-> d.ht, rehashidx |-> d.rehashidx, iterators |-> d.iterators]
  BY DEF Struct

LEMMA CreateGood ==
  Good(dictCreate) /\ KeysIn(dictCreate) = {}
<1>1. GoodTable(NewTable(0)) /\ KeysOf(NewTable(0)) = {} /\ NewTable(0) \in Table
  BY NewTableGood DEF GoodTable
<1>2. /\ dictCreate.ht = [t \in 0..1 |-> NewTable(0)]
      /\ dictCreate.rehashidx = -1
  BY DEF dictCreate
<1>3. dictCreate \in Struct
  BY <1>1 DEF dictCreate, Struct
<1> QED BY <1>1, <1>2, <1>3 DEF Good, KeysIn, dictIsRehashing

\* Growing and shrinking only attach an empty table.
LEMMA ExpandGood ==
  ASSUME DictAssumption, NEW d, Good(d), NEW size \in Nat
  PROVE  /\ Good(dictExpand(d, size)) /\ KeysIn(dictExpand(d, size)) = KeysIn(d)
         /\ dictExpand(d, size).iterators = d.iterators
         /\ d.ht[0].size > 0 => dictExpand(d, size).ht[0] = d.ht[0]
         /\ dictIsRehashing(d) => dictExpand(d, size) = d
<1> DEFINE e == dictExpand(d, size)
<1>1. CASE ~ CanExpand(d, size)
  BY <1>1, StructParts DEF dictExpand, Good, CanExpand
<1> DEFINE n == _dictNextPower(size)
           N == NewTable(n)
<1>2. /\ n \in Nat \ {0} /\ GoodTable(N) /\ KeysOf(N) = {}
      /\ N \in Table /\ N.size = n /\ \A i \in Places(N) : N.bucket[i] = {}
  BY NextPower, NewTableGood DEF NewTable, GoodTable, Places
<1>3. d \in Struct /\ GoodTable(d.ht[0]) /\ GoodTable(d.ht[1])
  BY DEF Good
<1>4. CASE CanExpand(d, size) /\ d.ht[0].size = 0
  <2>1. ~ dictIsRehashing(d) /\ d.ht[1] = NewTable(0) /\ d.rehashidx = -1
    BY <1>4 DEF CanExpand, Good, dictIsRehashing
  <2>2. e = [d EXCEPT !.ht[0] = N]
    BY <1>4 DEF dictExpand
  <2> HIDE DEF N, n, e
  <2>3. /\ e.ht[0] = N /\ e.ht[1] = d.ht[1] /\ e.rehashidx = -1
        /\ e.iterators = d.iterators /\ e \in Struct
    BY <1>2, <1>3, <2>1, <2>2 DEF Struct
  <2>4. KeysOf(d.ht[0]) = {}
    BY <1>4 DEF KeysOf
  <2>5. Good(e) /\ KeysIn(e) = KeysIn(d)
    BY <1>2, <1>3, <1>4, <2>1, <2>3, <2>4 DEF Good, KeysIn, dictIsRehashing
  <2> QED BY <1>4, <2>1, <2>3, <2>5 DEF e
<1>5. CASE CanExpand(d, size) /\ d.ht[0].size # 0
  <2>1. ~ dictIsRehashing(d) /\ d.ht[1] = NewTable(0) /\ d.ht[0].size \in Nat \ {0}
    BY <1>3, <1>5, StructParts DEF CanExpand, Good, Table
  <2>2. e = [d EXCEPT !.ht[1] = N, !.rehashidx = 0]
    BY <1>5 DEF dictExpand
  <2> HIDE DEF N, n, e
  <2>3. /\ e.ht[0] = d.ht[0] /\ e.ht[1] = N /\ e.rehashidx = 0
        /\ e.iterators = d.iterators /\ e \in Struct
    <3>1. e = [ht |-> [d.ht EXCEPT ![1] = N], rehashidx |-> 0, iterators |-> d.iterators]
      <4>1. d = [ht |-> d.ht, rehashidx |-> d.rehashidx, iterators |-> d.iterators]
        BY <1>3, StructParts
      <4> QED BY <2>2, <4>1
    <3> QED BY <1>2, <1>3, <3>1, StructParts DEF Struct
  <2>4. KeysOf(d.ht[1]) = {}
    BY <2>1, NewTableGood
  <2>5. Good(e) /\ KeysIn(e) = KeysIn(d)
    BY <1>2, <1>3, <1>5, <2>1, <2>3, <2>4 DEF Good, KeysIn, dictIsRehashing, Places
  <2> QED BY <2>1, <2>3, <2>5 DEF e
<1> QED BY <1>1, <1>4, <1>5

\* One round of dictRehash moves a bucket, or gives the new table the old one's
\* place.
LEMMA FirstFullFound ==
  ASSUME DictAssumption, NEW d, Good(d), dictIsRehashing(d), d.ht[0].used # 0
  PROVE  /\ FirstFull(d) \in Places(d.ht[0]) /\ FirstFull(d) >= d.rehashidx
         /\ d.ht[0].bucket[FirstFull(d)] # {}
         /\ \A i \in Places(d.ht[0]) : i < FirstFull(d) => d.ht[0].bucket[i] = {}
<1> DEFINE full == {i \in d.rehashidx..(d.ht[0].size - 1) : d.ht[0].bucket[i] # {}}
<1>1. d \in Struct /\ GoodTable(d.ht[0]) /\ d.rehashidx \in Nat /\ d.ht[0].size \in Nat
  BY StructParts DEF Good, dictIsRehashing, Table
<1>2. KeysOf(d.ht[0]) # {}
  BY <1>1, FS_EmptySet DEF GoodTable
<1>3. PICK j \in Places(d.ht[0]) : d.ht[0].bucket[j] # {}
  BY <1>2 DEF KeysOf, Places
<1>4. full \subseteq Nat /\ full # {}
  <2>1. ~ (j < d.rehashidx)
    BY <1>3 DEF Good
  <2>2. j \in full
    BY <1>1, <1>3, <2>1 DEF Places
  <2> QED BY <1>1, <2>2
<1>5. FirstFull(d) = LeastOf(full)
  BY DEF FirstFull
<1>6. LeastOf(full) \in full /\ \A i \in full : LeastOf(full) <= i
  <2> HIDE DEF full
  <2> QED BY <1>4, LeastOfNaturals
<1>7. FirstFull(d) \in full /\ \A i \in full : FirstFull(d) <= i
  BY <1>5, <1>6
<1>8. ASSUME NEW i \in Places(d.ht[0]), i < FirstFull(d) PROVE d.ht[0].bucket[i] = {}
  <2>1. CASE i < d.rehashidx
    BY <2>1 DEF Good
  <2>2. CASE ~ (i < d.rehashidx)
    <3>1. i \in d.rehashidx..(d.ht[0].size - 1) /\ i \notin full
      BY <1>1, <1>7, <1>8, <2>2 DEF Places
    <3> QED BY <3>1
  <2> QED BY <2>1, <2>2
<1>9. /\ FirstFull(d) \in Places(d.ht[0]) /\ FirstFull(d) >= d.rehashidx
      /\ d.ht[0].bucket[FirstFull(d)] # {}
  BY <1>1, <1>7 DEF Places
<1> QED BY <1>8, <1>9

LEMMA Rehash1Good ==
  ASSUME DictAssumption, NEW d, Good(d)
  PROVE  /\ Good(Rehash1(d)) /\ KeysIn(Rehash1(d)) = KeysIn(d)
         /\ Rehash1(d).iterators = d.iterators
<1> DEFINE e == Rehash1(d)
<1>1. /\ d \in Struct /\ GoodTable(d.ht[0]) /\ GoodTable(d.ht[1])
      /\ DOMAIN d.ht = 0..1 /\ d.ht[0] \in Table /\ d.ht[1] \in Table
      /\ d = [ht |-> d.ht, rehashidx |-> d.rehashidx, iterators |-> d.iterators]
      /\ d.iterators \in Nat
  BY StructParts DEF Good
<1>2. CASE ~ dictIsRehashing(d)
  BY <1>2 DEF Rehash1
<1>3. CASE dictIsRehashing(d) /\ d.ht[0].used = 0
  <2>1. e = [ht |-> [t \in 0..1 |-> IF t = 0 THEN d.ht[1] ELSE NewTable(0)],
             rehashidx |-> -1, iterators |-> d.iterators]
    BY <1>1, <1>3 DEF Rehash1
  <2>2. GoodTable(NewTable(0)) /\ NewTable(0) \in Table /\ KeysOf(NewTable(0)) = {}
    BY NewTableGood DEF GoodTable
  <2>3. KeysOf(d.ht[0]) = {}
    BY <1>1, <1>3, FiniteKeys, KeysAreKeys, FS_EmptySet DEF GoodTable
  <2> HIDE DEF e
  <2>4. e \in Struct
    BY <1>1, <2>1, <2>2 DEF Struct
  <2>5. e.ht[0] = d.ht[1] /\ e.ht[1] = NewTable(0) /\ ~ dictIsRehashing(e)
    BY <2>1 DEF dictIsRehashing
  <2>6. KeysIn(e) = KeysIn(d) /\ e.iterators = d.iterators
    BY <2>1, <2>2, <2>3, <2>5 DEF KeysIn
  <2>7. Good(e)
    BY <1>1, <2>2, <2>4, <2>5 DEF Good
  <2> QED BY <2>6, <2>7 DEF e
<1>4. CASE dictIsRehashing(d) /\ d.ht[0].used # 0
  <2> DEFINE i == FirstFull(d)
             moved == d.ht[0].bucket[i]
             A == [d.ht[0] EXCEPT !.bucket[i] = {}, !.used = @ - Cardinality(moved)]
             B == Received(d.ht[1], moved)
  <2>1. /\ i \in Places(d.ht[0]) /\ i >= d.rehashidx /\ moved # {}
        /\ \A j \in Places(d.ht[0]) : j < i => d.ht[0].bucket[j] = {}
    BY <1>4, FirstFullFound
  <2>2. e = [ht |-> [d.ht EXCEPT ![0] = A, ![1] = B], rehashidx |-> i + 1,
             iterators |-> d.iterators]
    BY <1>1, <1>4 DEF Rehash1
  <2> HIDE DEF i
  <2>3. moved \subseteq KeysOf(d.ht[0]) /\ moved \in SUBSET Key /\ moved \cap KeysOf(d.ht[1]) = {}
    BY <1>1, <2>1, KeysAreKeys DEF Good, KeysOf, Places
  <2>4. GoodTable(B) /\ KeysOf(B) = KeysOf(d.ht[1]) \cup moved /\ B.size = d.ht[1].size
    BY <1>1, <1>4, <2>3, ReceivedGood DEF Good
  <2>5. GoodTable(A) /\ KeysOf(A) = KeysOf(d.ht[0]) \ moved /\ A.size = d.ht[0].size
    <3>1. {} \in SUBSET d.ht[0].bucket[i] /\ d.ht[0].bucket[i] \ {} = moved
      OBVIOUS
    <3>2. A = Reduced(d.ht[0], i, {})
      BY <3>1 DEF Reduced
    <3> QED BY <1>1, <2>1, <3>1, <3>2, ReducedGood
  <2>6. \A j \in Places(A) : j < i + 1 => A.bucket[j] = {}
    <3>1. A.bucket = [d.ht[0].bucket EXCEPT ![i] = {}] /\ Places(A) = Places(d.ht[0])
      BY <1>1, <2>5 DEF Table, Places
    <3>2. d.ht[0].bucket \in [Places(d.ht[0]) -> SUBSET Key]
      BY <1>1 DEF GoodTable
    <3>3. i \in Nat /\ Places(d.ht[0]) \subseteq Nat
      BY <2>1 DEF Places
    <3> HIDE DEF A
    <3> QED BY <2>1, <3>1, <3>2, <3>3
  <2> HIDE DEF A, B, e
  <2>7. e \in Struct /\ e.ht[0] = A /\ e.ht[1] = B /\ dictIsRehashing(e)
    BY <1>1, <2>1, <2>2, <2>4, <2>5 DEF Struct, GoodTable, Places, dictIsRehashing
  <2>8. KeysOf(A) \cap KeysOf(B) = {} /\ KeysOf(A) \cup KeysOf(B) = KeysIn(d)
    BY <2>3, <2>4, <2>5 DEF Good, KeysIn
  <2>9. Good(e)
    BY <1>4, <2>2, <2>4, <2>5, <2>6, <2>7, <2>8 DEF Good
  <2> QED BY <2>2, <2>7, <2>8, <2>9 DEF KeysIn, e
<1> QED BY <1>2, <1>3, <1>4

LEMMA StepGood ==
  ASSUME DictAssumption, NEW d, Good(d)
  PROVE  /\ Good(_dictRehashStep(d)) /\ KeysIn(_dictRehashStep(d)) = KeysIn(d)
         /\ _dictRehashStep(d).iterators = d.iterators
  BY Rehash1Good DEF _dictRehashStep

\* Any number of rounds: dictRehash.
LEMMA RehashGood ==
  ASSUME DictAssumption, NEW d, Good(d), NEW n \in Nat
  PROVE  /\ Good(dictRehash(d, n)) /\ KeysIn(dictRehash(d, n)) = KeysIn(d)
         /\ dictRehash(d, n).iterators = d.iterators
<1> DEFINE Rounds(m, f) == f = [i \in 0..m |-> IF i = 0 THEN d ELSE Rehash1(f[i - 1])]
           S == {m \in Nat : \E f : Rounds(m, f)}
<1>1. 0 \in S
  <2>1. Rounds(0, [i \in 0..0 |-> d])
    OBVIOUS
  <2> QED BY <2>1
<1>2. ASSUME NEW m \in S PROVE m + 1 \in S
  <2>1. PICK f : Rounds(m, f)
    OBVIOUS
  <2> DEFINE g == [i \in 0..(m + 1) |-> IF i <= m THEN f[i] ELSE Rehash1(f[m])]
  <2>2. \A i \in 0..(m + 1) : g[i] = IF i = 0 THEN d ELSE Rehash1(g[i - 1])
    <3>1. TAKE i \in 0..(m + 1)
    <3>2. CASE i = 0
      BY <2>1, <3>2
    <3>3. CASE i \in 1..m
      BY <2>1, <3>3
    <3>4. CASE i = m + 1
      BY <2>1, <3>4
    <3> QED BY <3>2, <3>3, <3>4
  <2>3. DOMAIN g = 0..(m + 1) /\ g = [i \in DOMAIN g |-> g[i]]
    OBVIOUS
  <2> HIDE DEF g
  <2>4. Rounds(m + 1, g)
    BY <2>2, <2>3
  <2>5. m + 1 \in Nat
    OBVIOUS
  <2> HIDE DEF Rounds
  <2> QED BY <2>4, <2>5
<1>3. S = Nat
  <2>1. S \subseteq Nat
    OBVIOUS
  <2> HIDE DEF S
  <2> QED BY <1>1, <1>2, <2>1, NoLeastException
<1> DEFINE after == CHOOSE f : Rounds(n, f)
           Right == {i \in Nat : i <= n => /\ Good(after[i]) /\ KeysIn(after[i]) = KeysIn(d)
                                           /\ after[i].iterators = d.iterators}
<1>4. Rounds(n, after)
  <2>1. \E f : Rounds(n, f)
    BY <1>3
  <2> HIDE DEF Rounds
  <2> QED BY <2>1
<1>5. dictRehash(d, n) = after[n]
  BY DEF dictRehash
<1> HIDE DEF after
<1>6. Right = Nat
  <2>1. 0 \in Right
    BY <1>4
  <2>2. ASSUME NEW i \in Right PROVE i + 1 \in Right
    <3>1. CASE i + 1 <= n
      <4>1. after[i + 1] = Rehash1(after[i]) /\ i <= n
        BY <1>4, <3>1
      <4> QED BY <3>1, <4>1, Rehash1Good
    <3> QED BY <3>1
  <2>3. Right \subseteq Nat
    OBVIOUS
  <2> HIDE DEF Right
  <2> QED BY <2>1, <2>2, <2>3, NoLeastException
<1>7. n \in Right
  BY <1>6
<1> QED BY <1>5, <1>7

\* A call that may add first makes room for that.
LEMMA ExpandIfNeededGood ==
  ASSUME DictAssumption, NEW d, Good(d), NEW e, e = _dictExpandIfNeeded(d)
  PROVE  /\ Good(e) /\ KeysIn(e) = KeysIn(d) /\ e.iterators = d.iterators
         /\ e.ht[0].size > 0
         /\ d.ht[0].size > 0 => e.ht[0] = d.ht[0]
         /\ dictIsRehashing(d) => e = d
<1>1. /\ d.ht[0].used \in Nat /\ d.ht[0].size \in Nat
      /\ DICT_HT_INITIAL_SIZE \in Nat \ {0}
  BY StructParts DEF Good, Table, DictAssumption
<1>2. CASE dictIsRehashing(d)
  BY <1>2 DEF _dictExpandIfNeeded, Good
<1>3. CASE ~ dictIsRehashing(d) /\ d.ht[0].size = 0
  <2>1. d.ht[0].used = 0
    <3>1. KeysOf(d.ht[0]) = {}
      BY <1>3, FoundInTable DEF KeysOf
    <3> QED BY <3>1, FS_EmptySet DEF Good, GoodTable
  <2>2. e = [d EXCEPT !.ht[0] = NewTable(_dictNextPower(DICT_HT_INITIAL_SIZE))]
    BY <1>1, <1>3, <2>1 DEF _dictExpandIfNeeded, dictExpand, CanExpand
  <2>3. e.ht[0].size > 0
    BY <1>1, <2>2, NextPower, StructParts DEF Good, NewTable
  <2> QED BY <1>1, <1>3, <2>3, ExpandGood DEF _dictExpandIfNeeded
<1>4. CASE ~ dictIsRehashing(d) /\ d.ht[0].size # 0
  <2> DEFINE n == d.ht[0].used * 2
  <2>1. e = d \/ e = dictExpand(d, n)
    BY <1>4 DEF _dictExpandIfNeeded
  <2>2. n \in Nat /\ d.ht[0].size > 0
    BY <1>1, <1>4
  <2> HIDE DEF n
  <2>3. CASE e = d
    BY <1>1, <1>4, <2>3
  <2>4. CASE e = dictExpand(d, n)
    BY <2>2, <2>4, ExpandGood
  <2> QED BY <2>1, <2>3, <2>4
<1> QED BY <1>2, <1>3, <1>4

LEMMA PreparedGood ==
  ASSUME DictAssumption, NEW d, Good(d)
  PROVE  /\ Good(Prepared(d)) /\ KeysIn(Prepared(d)) = KeysIn(d)
         /\ Prepared(d).iterators = d.iterators
         /\ Prepared(d).ht[0].size > 0
  BY StepGood, ExpandIfNeededGood DEF Prepared

\* A lookup finds the key in the table that has it.
LEMMA HoldingIsThere ==
  ASSUME DictAssumption, NEW d, Good(d), NEW k \in Key
  PROVE  /\ Holding(d, k) = {t \in 0..1 : k \in KeysOf(d.ht[t])}
         /\ Holds(d, k) <=> k \in KeysIn(d)
<1>1. /\ GoodTable(d.ht[0]) /\ GoodTable(d.ht[1])
      /\ d.ht[0].size \in Nat /\ d.ht[1].size \in Nat
  BY StructParts DEF Good, Table
<1>2. ~ dictIsRehashing(d) => KeysOf(d.ht[1]) = {}
  BY NewTableGood DEF Good
<1>3. \A t \in 0..1 : t \in Holding(d, k) <=> k \in KeysOf(d.ht[t])
  <2>1. dictIsRehashing(d) => d.ht[0].size > 0 /\ d.ht[1].size > 0
    BY DEF Good
  <2>2. \A t \in {0, 1} : /\ d.ht[t].size = 0 => KeysOf(d.ht[t]) = {}
                          /\ d.ht[t].size > 0 => (k \in KeysOf(d.ht[t]) <=>
                                    k \in d.ht[t].bucket[Index(d.ht[t], k)])
    BY <1>1, FoundInTable
  <2> QED BY <1>1, <1>2, <2>1, <2>2 DEF Holding, Searched
<1>4. Holding(d, k) \subseteq 0..1
  BY DEF Holding, Searched
<1>5. Holding(d, k) = {t \in 0..1 : k \in KeysOf(d.ht[t])}
  BY <1>3, <1>4
<1> QED BY <1>5 DEF Holds, KeysIn

LEMMA InsertGood ==
  ASSUME DictAssumption, NEW d, Good(d), NEW k \in Key, k \notin KeysIn(d), d.ht[0].size > 0
  PROVE  /\ Good(Insert(d, k)) /\ KeysIn(Insert(d, k)) = KeysIn(d) \cup {k}
         /\ Insert(d, k).iterators = d.iterators
         /\ Insert(d, k).rehashidx = d.rehashidx
         /\ IF dictIsRehashing(d)
            THEN Insert(d, k).ht[0] = d.ht[0] /\ Insert(d, k).ht[1] = Received(d.ht[1], {k})
            ELSE Insert(d, k).ht[1] = d.ht[1] /\ Insert(d, k).ht[0] = Received(d.ht[0], {k})
<1> DEFINE e == Insert(d, k)
           t == IF dictIsRehashing(d) THEN 1 ELSE 0
           R == Received(d.ht[t], {k})
<1>1. /\ d \in Struct /\ d.ht[0] \in Table /\ d.ht[1] \in Table /\ DOMAIN d.ht = 0..1
      /\ GoodTable(d.ht[t]) /\ d.ht[t].size > 0 /\ t \in 0..1
      /\ d = [ht |-> d.ht, rehashidx |-> d.rehashidx, iterators |-> d.iterators]
  BY StructParts DEF Good
<1>2. {k} \in SUBSET Key /\ {k} \cap KeysOf(d.ht[t]) = {}
  BY DEF KeysIn
<1>3. GoodTable(R) /\ KeysOf(R) = KeysOf(d.ht[t]) \cup {k} /\ R.size = d.ht[t].size
  BY <1>1, <1>2, ReceivedGood
<1>4. e = [ht |-> [d.ht EXCEPT ![t] = R], rehashidx |-> d.rehashidx, iterators |-> d.iterators]
  <2> DEFINE i == Index(d.ht[t], k)
             T == [d.ht[t] EXCEPT !.bucket[i] = @ \cup {k}, !.used = @ + 1]
  <2>1. e = [d EXCEPT !.ht[t] = T]
    BY <1>1 DEF Insert
  <2>2. T = R
    <3>1. /\ d.ht[t] \in Table /\ d.ht[t].bucket \in [Places(d.ht[t]) -> SUBSET Key]
          /\ DOMAIN d.ht[t].bucket = Places(d.ht[t])
      BY <1>1 DEF GoodTable
    <3>2. [d.ht[t].bucket EXCEPT ![i] = @ \cup {k}]
            = [j \in Places(d.ht[t]) |->
                 d.ht[t].bucket[j] \cup {x \in {k} : Index(d.ht[t], x) = j}]
      BY <3>1
    <3>3. Cardinality({k}) = 1
      BY FS_Singleton
    <3> QED BY <3>1, <3>2, <3>3 DEF Received, Table
  <2> HIDE DEF T, R, t
  <2> QED BY <1>1, <2>1, <2>2
<1> HIDE DEF R, e
<1>5. e \in Struct /\ (dictIsRehashing(e) <=> dictIsRehashing(d))
  BY <1>1, <1>3, <1>4 DEF Struct, GoodTable, dictIsRehashing
<1>8. k \notin KeysOf(d.ht[0]) /\ k \notin KeysOf(d.ht[1])
      /\ KeysOf(d.ht[0]) \cap KeysOf(d.ht[1]) = {}
  BY DEF KeysIn, Good
<1>6. CASE dictIsRehashing(d)
  <2>1. e.ht[0] = d.ht[0] /\ e.ht[1] = R
    BY <1>1, <1>4, <1>6
  <2>2. t = 1 /\ R = Received(d.ht[1], {k})
    BY <1>6 DEF R
  <2>3. KeysIn(e) = KeysIn(d) \cup {k}
    BY <1>3, <2>1, <2>2 DEF KeysIn
  <2>4. KeysOf(e.ht[0]) \cap KeysOf(e.ht[1]) = {}
    BY <1>3, <1>8, <2>1, <2>2 DEF KeysIn
  <2>5. IF dictIsRehashing(e)
        THEN /\ e.ht[0].size > 0 /\ e.ht[1].size > 0
             /\ \A i \in Places(e.ht[0]) : i < e.rehashidx => e.ht[0].bucket[i] = {}
        ELSE e.ht[1] = NewTable(0)
    BY <1>3, <1>4, <1>5, <1>6, <2>1, <2>2 DEF Good
  <2>6. GoodTable(e.ht[0]) /\ GoodTable(e.ht[1])
    BY <1>3, <2>1, <2>2 DEF Good
  <2>7. Good(e)
    BY <1>5, <2>4, <2>5, <2>6 DEF Good
  <2> QED BY <1>4, <1>6, <2>1, <2>2, <2>3, <2>7 DEF e
<1>7. CASE ~ dictIsRehashing(d)
  <2>1. e.ht[1] = d.ht[1] /\ e.ht[0] = R
    BY <1>1, <1>4, <1>7
  <2>2. t = 0 /\ R = Received(d.ht[0], {k})
    BY <1>7 DEF R
  <2>3. KeysIn(e) = KeysIn(d) \cup {k}
    BY <1>3, <2>1, <2>2 DEF KeysIn
  <2>4. KeysOf(e.ht[0]) \cap KeysOf(e.ht[1]) = {}
    BY <1>3, <1>8, <2>1, <2>2 DEF KeysIn
  <2>5. IF dictIsRehashing(e)
        THEN /\ e.ht[0].size > 0 /\ e.ht[1].size > 0
             /\ \A i \in Places(e.ht[0]) : i < e.rehashidx => e.ht[0].bucket[i] = {}
        ELSE e.ht[1] = NewTable(0)
    BY <1>3, <1>4, <1>5, <1>7, <2>1, <2>2 DEF Good
  <2>6. GoodTable(e.ht[0]) /\ GoodTable(e.ht[1])
    BY <1>3, <2>1, <2>2 DEF Good
  <2>7. Good(e)
    BY <1>5, <2>4, <2>5, <2>6 DEF Good
  <2> QED BY <1>4, <1>7, <2>1, <2>2, <2>3, <2>7 DEF e
<1> QED BY <1>6, <1>7

LEMMA RemovedGood ==
  ASSUME DictAssumption, NEW d, Good(d), NEW k \in Key, NEW t \in 0..1, k \in KeysOf(d.ht[t])
  PROVE  /\ Good(Removed(d, t, k)) /\ KeysIn(Removed(d, t, k)) = KeysIn(d) \ {k}
         /\ Removed(d, t, k).iterators = d.iterators
         /\ Removed(d, t, k).rehashidx = d.rehashidx
         /\ Removed(d, t, k).ht[1 - t] = d.ht[1 - t]
         /\ LET i == Index(d.ht[t], k)
            IN  Removed(d, t, k).ht[t] = Reduced(d.ht[t], i, d.ht[t].bucket[i] \ {k})
<1> DEFINE e == Removed(d, t, k)
           i == Index(d.ht[t], k)
           left == d.ht[t].bucket[i] \ {k}
           R == Reduced(d.ht[t], i, left)
<1>1. /\ d \in Struct /\ d.ht[0] \in Table /\ d.ht[1] \in Table /\ DOMAIN d.ht = 0..1
      /\ GoodTable(d.ht[t]) /\ d.ht[t].size \in Nat
      /\ d = [ht |-> d.ht, rehashidx |-> d.rehashidx, iterators |-> d.iterators]
  BY StructParts DEF Good, GoodTable, Table
<1>2. d.ht[t].size > 0 /\ i \in Places(d.ht[t]) /\ k \in d.ht[t].bucket[i]
  BY <1>1, FoundInTable, IndexInTable DEF GoodTable
<1>3. d.ht[t].bucket[i] \ left = {k}
  BY <1>2
<1>4. GoodTable(R) /\ KeysOf(R) = KeysOf(d.ht[t]) \ {k} /\ R.size = d.ht[t].size
  <2>1. left \in SUBSET d.ht[t].bucket[i]
    OBVIOUS
  <2> HIDE DEF left, i
  <2> QED BY <1>1, <1>2, <1>3, <2>1, ReducedGood
<1>5. e = [ht |-> [d.ht EXCEPT ![t] = R], rehashidx |-> d.rehashidx, iterators |-> d.iterators]
  <2> DEFINE T == [d.ht[t] EXCEPT !.bucket[i] = @ \ {k}, !.used = @ - 1]
  <2>1. e = [d EXCEPT !.ht[t] = T]
    BY <1>1 DEF Removed
  <2>2. T = R
    <3>1. Cardinality({k}) = 1
      BY FS_Singleton
    <3> QED BY <1>3, <3>1 DEF Reduced
  <2> HIDE DEF T, R
  <2> QED BY <1>1, <2>1, <2>2
<1> HIDE DEF R, e
<1>6. e \in Struct /\ (dictIsRehashing(e) <=> dictIsRehashing(d))
  BY <1>1, <1>4, <1>5 DEF Struct, GoodTable, dictIsRehashing
<1>7. CASE t = 0
  <2>1. e.ht[0] = R /\ e.ht[1] = d.ht[1]
    BY <1>1, <1>5, <1>7
  <2>2. \A j \in Places(d.ht[0]) : d.ht[0].bucket[j] = {} => R.bucket[j] = {}
    BY <1>1, <1>2, <1>7 DEF R, Reduced, GoodTable, Table
  <2>3. Good(e)
    BY <1>4, <1>5, <1>6, <1>7, <2>1, <2>2 DEF Good, Places
  <2>4. KeysIn(e) = KeysIn(d) \ {k}
    BY <1>4, <1>7, <2>1 DEF Good, KeysIn
  <2> QED BY <1>5, <1>7, <2>1, <2>3, <2>4 DEF e, R
<1>8. CASE t = 1
  <2>1. e.ht[1] = R /\ e.ht[0] = d.ht[0]
    BY <1>1, <1>5, <1>8
  <2>2. dictIsRehashing(d)
    BY <1>8, NewTableGood DEF Good
  <2>3. Good(e)
    BY <1>4, <1>5, <1>6, <1>8, <2>1, <2>2 DEF Good
  <2>4. KeysIn(e) = KeysIn(d) \ {k}
    BY <1>4, <1>8, <2>1 DEF Good, KeysIn
  <2>5. e.ht[1 - t] = d.ht[1 - t] /\ e.ht[t] = R
    BY <1>8, <2>1
  <2>6. e.iterators = d.iterators /\ e.rehashidx = d.rehashidx
    BY <1>5
  <2> HIDE DEF i, left
  <2> QED BY <2>3, <2>4, <2>5, <2>6 DEF e, R, i, left
<1> QED BY <1>7, <1>8

LEMMA AddGood ==
  ASSUME DictAssumption, NEW d, Good(d), NEW k \in Key
  PROVE  /\ Good(dictAdd(d, k)) /\ KeysIn(dictAdd(d, k)) = KeysIn(d) \cup {k}
         /\ dictAdd(d, k).iterators = d.iterators
         /\ Holds(Prepared(d), k) <=> k \in KeysIn(d)
<1> DEFINE p == Prepared(d)
<1>1. Good(p) /\ KeysIn(p) = KeysIn(d) /\ p.iterators = d.iterators /\ p.ht[0].size > 0
  BY PreparedGood
<1>2. dictAdd(d, k) = IF Holds(p, k) THEN p ELSE Insert(p, k)
  BY DEF dictAdd
<1> HIDE DEF p
<1>3. Holds(p, k) <=> k \in KeysIn(d)
  BY <1>1, HoldingIsThere
<1>4. CASE k \in KeysIn(d)
  <2>1. dictAdd(d, k) = p /\ KeysIn(d) \cup {k} = KeysIn(d)
    BY <1>2, <1>3, <1>4
  <2> QED BY <1>1, <1>3, <2>1 DEF p
<1>5. CASE k \notin KeysIn(d)
  <2>1. dictAdd(d, k) = Insert(p, k)
    BY <1>2, <1>3, <1>5
  <2>2. /\ Good(Insert(p, k)) /\ KeysIn(Insert(p, k)) = KeysIn(p) \cup {k}
        /\ Insert(p, k).iterators = p.iterators
    BY <1>1, <1>5, InsertGood
  <2> QED BY <1>1, <1>3, <2>1, <2>2 DEF p
<1> QED BY <1>4, <1>5

LEMMA DeleteGood ==
  ASSUME DictAssumption, NEW d, Good(d), NEW k \in Key
  PROVE  /\ Good(dictGenericDelete(d, k)) /\ KeysIn(dictGenericDelete(d, k)) = KeysIn(d) \ {k}
         /\ dictGenericDelete(d, k).iterators = d.iterators
         /\ Holds(_dictRehashStep(d), k) <=> k \in KeysIn(d)
<1> DEFINE p == _dictRehashStep(d)
<1>1. Good(p) /\ KeysIn(p) = KeysIn(d) /\ p.iterators = d.iterators
  BY StepGood
<1> HIDE DEF p
<1>2. /\ Holds(p, k) <=> k \in KeysIn(d)
      /\ Holding(p, k) = {t \in 0..1 : k \in KeysOf(p.ht[t])}
  BY <1>1, HoldingIsThere
<1>3. dictGenericDelete(d, k)
        = IF Holds(p, k) THEN Removed(p, LeastOf(Holding(p, k)), k) ELSE p
  BY DEF dictGenericDelete, p
<1>4. CASE Holds(p, k)
  <2>1. Holding(p, k) \subseteq Nat /\ Holding(p, k) # {}
    BY <1>2, <1>4 DEF Holds
  <2>2. LeastOf(Holding(p, k)) \in Holding(p, k)
    BY <2>1, LeastOfNaturals
  <2>3. LeastOf(Holding(p, k)) \in 0..1 /\ k \in KeysOf(p.ht[LeastOf(Holding(p, k))])
    BY <1>2, <2>2
  <2> DEFINE e == Removed(p, LeastOf(Holding(p, k)), k)
  <2>4. Good(e) /\ KeysIn(e) = KeysIn(p) \ {k} /\ e.iterators = p.iterators
    BY <1>1, <2>3, RemovedGood
  <2>5. dictGenericDelete(d, k) = e
    BY <1>3, <1>4
  <2> HIDE DEF e
  <2> QED BY <1>1, <1>2, <2>4, <2>5 DEF p
<1>5. CASE ~ Holds(p, k)
  <2>1. dictGenericDelete(d, k) = p /\ k \notin KeysIn(d)
    BY <1>2, <1>3, <1>5
  <2> QED BY <1>1, <1>2, <2>1 DEF p
<1> QED BY <1>4, <1>5

-----------------------------------------------------------------------------
(***************************************************************************)
(* The calls: each keeps the struct good, and answers as the set does.     *)
(***************************************************************************)
DictInv == Good(dict) /\ dict_can_resize \in BOOLEAN

\* The size counts the keys.
LEMMA SizeZero ==
  ASSUME DictAssumption, NEW d, Good(d)
  PROVE  dictSize(d) = 0 <=> KeysIn(d) = {}
<1>1. /\ d.ht[0].used = Cardinality(KeysOf(d.ht[0]))
      /\ d.ht[1].used = Cardinality(KeysOf(d.ht[1]))
      /\ IsFiniteSet(KeysOf(d.ht[0])) /\ IsFiniteSet(KeysOf(d.ht[1]))
      /\ d.ht[0].used \in Nat /\ d.ht[1].used \in Nat
  BY FiniteKeys, KeysAreKeys DEF Good, GoodTable
<1>2. /\ d.ht[0].used = 0 <=> KeysOf(d.ht[0]) = {}
      /\ d.ht[1].used = 0 <=> KeysOf(d.ht[1]) = {}
  BY <1>1, FS_EmptySet
<1> QED BY <1>1, <1>2 DEF dictSize, KeysIn

LEMMA KeyCallKeeps ==
  ASSUME DictAssumption, Good(dict), NEW k \in Key,
         Add(k) \/ Replace(k) \/ Ensure(k) \/ Delete(k) \/ Find(k)
  PROVE  /\ Good(dict') /\ dict'.iterators = dict.iterators
         /\ Set!Add(k) \/ Set!Replace(k) \/ Set!Ensure(k) \/ Set!Delete(k) \/ Set!Find(k)
<1> DEFINE p == _dictRehashStep(dict)
<1>1. Good(p) /\ KeysIn(p) = KeysIn(dict) /\ p.iterators = dict.iterators
  BY StepGood
<1>2. Holds(p, k) <=> k \in KeysIn(dict)
  BY <1>1, HoldingIsThere
<1> DEFINE a == dictAdd(dict, k)
<1>3. /\ Good(a) /\ KeysIn(a) = KeysIn(dict) \cup {k} /\ a.iterators = dict.iterators
      /\ Holds(Prepared(dict), k) <=> k \in KeysIn(dict)
  BY AddGood
<1> HIDE DEF p, a
<1>4. CASE Add(k)
  <2>1. Good(dict') /\ KeysIn(dict') = KeysIn(dict) \cup {k} /\ dict'.iterators = dict.iterators
    BY <1>3, <1>4 DEF Add, a
  <2>2. result' = Ret(<<"add", k>>, IF k \in KeysIn(dict) THEN "err" ELSE "ok")
    BY <1>3, <1>4 DEF Add
  <2>3. Set!Add(k)
    BY <2>1, <2>2 DEF Set!Add, Set!Ret, Ret
  <2> QED BY <2>1, <2>3
<1>5. CASE Replace(k)
  <2>1. /\ Good(_dictRehashStep(a)) /\ KeysIn(_dictRehashStep(a)) = KeysIn(a)
        /\ _dictRehashStep(a).iterators = a.iterators
    BY <1>3, StepGood
  <2>2. dict' = IF k \in KeysIn(dict) THEN _dictRehashStep(a) ELSE a
    BY <1>3, <1>5 DEF Replace, a
  <2>3. result' = Ret(<<"replace", k>>, IF k \in KeysIn(dict) THEN "updated" ELSE "added")
    BY <1>3, <1>5 DEF Replace
  <2>4. Good(dict') /\ KeysIn(dict') = KeysIn(dict) \cup {k} /\ dict'.iterators = dict.iterators
    BY <1>3, <2>1, <2>2
  <2>5. Set!Replace(k)
    BY <2>3, <2>4 DEF Set!Replace, Set!Ret, Ret
  <2> QED BY <2>4, <2>5
<1>6. CASE Ensure(k)
  <2> DEFINE d == IF Holds(p, k) THEN p ELSE dictAdd(p, k)
  <2>1. /\ Good(dictAdd(p, k)) /\ KeysIn(dictAdd(p, k)) = KeysIn(p) \cup {k}
        /\ dictAdd(p, k).iterators = p.iterators
    BY <1>1, AddGood
  <2>2. Good(d) /\ KeysIn(d) = KeysIn(dict) \cup {k} /\ d.iterators = dict.iterators
    BY <1>1, <1>2, <2>1
  <2>3. dict' = d /\ result' = IF Holds(d, k) THEN EntryOf(<<"ensure", k>>, k)
                               ELSE Ret(<<"ensure", k>>, "missing")
    BY <1>6 DEF Ensure, p
  <2> HIDE DEF d
  <2>4. Holds(d, k)
    BY <2>2, HoldingIsThere
  <2>5. Set!Ensure(k)
    BY <2>2, <2>3, <2>4 DEF Set!Ensure, Set!Entry, EntryOf
  <2> QED BY <2>2, <2>3, <2>5
<1>7. CASE Delete(k)
  <2> DEFINE d == dictGenericDelete(dict, k)
  <2>1. Good(d) /\ KeysIn(d) = KeysIn(dict) \ {k} /\ d.iterators = dict.iterators
    BY DeleteGood
  <2>2. /\ dict' = d
        /\ result' = Ret(<<"delete", k>>, IF k \in KeysIn(dict) THEN "ok" ELSE "err")
    BY <1>2, <1>7 DEF Delete, p
  <2> HIDE DEF d
  <2>3. Set!Delete(k)
    BY <2>1, <2>2 DEF Set!Delete, Set!Ret, Ret
  <2> QED BY <2>1, <2>2, <2>3
<1>8. CASE Find(k)
  <2>1. dict' = p /\ result' = IF Holds(dict', k) THEN EntryOf(<<"find", k>>, k)
                               ELSE Ret(<<"find", k>>, "missing")
    BY <1>8 DEF Find, p
  <2>2. Set!Find(k)
    BY <1>1, <1>2, <2>1 DEF Set!Find, Set!Ret, Set!Entry, Ret, EntryOf
  <2> QED BY <1>1, <2>1, <2>2
<1> QED BY <1>4, <1>5, <1>6, <1>7, <1>8

LEMMA RandomKeyKeeps ==
  ASSUME DictAssumption, Good(dict), dictGetRandomKey
  PROVE  Good(dict') /\ dict'.iterators = dict.iterators /\ Set!RandomKey
<1>1. /\ Good(_dictRehashStep(dict)) /\ KeysIn(_dictRehashStep(dict)) = KeysIn(dict)
      /\ _dictRehashStep(dict).iterators = dict.iterators
  BY StepGood
<1>2. Good(dict') /\ KeysIn(dict') = KeysIn(dict) /\ dict'.iterators = dict.iterators
  BY <1>1 DEF dictGetRandomKey
<1>3. CASE KeysIn(dict) = {}
  BY <1>2, <1>3, SizeZero DEF dictGetRandomKey, Set!RandomKey, Set!Ret, Ret
<1>4. CASE KeysIn(dict) # {}
  <2>1. PICK t \in Searched(dict') :
            \E k \in KeysOf(dict'.ht[t]) : result' = EntryOf(<<"random">>, k)
    BY <1>4, SizeZero DEF dictGetRandomKey
  <2>2. PICK k \in KeysOf(dict'.ht[t]) : result' = EntryOf(<<"random">>, k)
    BY <2>1
  <2>3. t \in {0, 1}
    BY DEF Searched
  <2>4. k \in KeysIn(dict)
    BY <1>2, <2>2, <2>3 DEF KeysIn
  <2>5. Set!RandomKey
    BY <1>2, <1>4, <2>2, <2>4 DEF Set!RandomKey, Set!Entry, EntryOf
  <2> QED BY <1>2, <2>5
<1> QED BY <1>3, <1>4

\* Resizing, rehashing and permitting it: the set stays as it is.
LEMMA ResizeKeeps ==
  ASSUME DictAssumption, Good(dict),
         \/ Resize
         \/ \E size \in 1..MaxSize : Expand(size)
         \/ \E b \in BOOLEAN : SetResize(b)
  PROVE  Good(dict') /\ dict'.iterators = dict.iterators /\ UNCHANGED <<KeysIn(dict), result>>
<1>1. CASE Resize
  <2>1. dict.ht[0].used \in Nat /\ DICT_HT_INITIAL_SIZE \in Nat
    BY StructParts DEF Good, Table, DictAssumption
  <2>2. \A size \in Nat : dict' = dictExpand(dict, size) =>
             Good(dict') /\ dict'.iterators = dict.iterators /\ KeysIn(dict') = KeysIn(dict)
    BY ExpandGood
  <2>3. dict' = dict \/ \E size \in Nat : dict' = dictExpand(dict, size)
    BY <1>1, <2>1 DEF Resize, dictResize
  <2> QED BY <1>1, <2>2, <2>3 DEF Resize
<1>2. CASE \E size \in 1..MaxSize : Expand(size)
  <2>1. PICK size \in 1..MaxSize : Expand(size)
    BY <1>2
  <2>2. size \in Nat
    BY DEF DictAssumption
  <2>3. dict' = dictExpand(dict, size) /\ UNCHANGED result
    BY <2>1 DEF Expand
  <2> QED BY <2>2, <2>3, ExpandGood
<1>3. CASE \E b \in BOOLEAN : SetResize(b)
  BY <1>3 DEF SetResize
<1> QED BY <1>1, <1>2, <1>3

-----------------------------------------------------------------------------
(***************************************************************************)
(* Any calls, with a walk beside them                                      *)
(***************************************************************************)
Iterator ==
    [kind : {"iterator"}, table : 0..1, index : Nat \cup {-1}, next : Key \cup {NULL},
     rest : SUBSET Key, over : BOOLEAN]

\* The keys the iterator has saved, and those in the buckets it is still to visit.
Held == walk.rest \cup ({walk.next} \ {NULL})
IsAhead(d, w, k) ==
    \E t \in 0..1 :
        /\ k \in KeysOf(d.ht[t])
        /\ t > w.table \/ (t = w.table /\ Index(d.ht[t], k) > w.index)

\* A key that is still to be returned is saved or ahead, and one that was returned
\* is neither: so nothing is missed and nothing returned twice.
IteratorInv ==
    /\ walk \in Iterator
    /\ seen \cup missing \cup Held \subseteq KeysIn(dict)
    /\ \A k \in missing : k \in Held \/ IsAhead(dict, walk, k)
    /\ \A k \in seen \cup Held : ~ IsAhead(dict, walk, k)
    /\ seen \cap Held = {}
    /\ walk.next \notin walk.rest /\ (walk.next = NULL => walk.rest = {})
    /\ walk.over => missing = {}
    /\ ~ Started => seen = {} /\ walk.next = NULL

\* The iterator stops the rehashing from its first call to its release.
WalkInv ==
    /\ DictInv
    /\ Iterating => IteratorInv
    /\ Scanning => walk = [kind |-> "scan", v |-> walk.v, over |-> walk.over]
    /\ dict.iterators = IF Iterating /\ Started THEN 1 ELSE 0

LEMMA IteratorCountGood ==
  ASSUME NEW d, Good(d), NEW n \in Nat, NEW e, e = [d EXCEPT !.iterators = n]
  PROVE  /\ Good(e) /\ KeysIn(e) = KeysIn(d) /\ e.iterators = n
         /\ e.ht = d.ht /\ e.rehashidx = d.rehashidx
<1>1. /\ d \in Struct /\ DOMAIN d.ht = 0..1 /\ d.ht \in [0..1 -> Table]
      /\ d.rehashidx \in Nat \cup {-1}
      /\ d = [ht |-> d.ht, rehashidx |-> d.rehashidx, iterators |-> d.iterators]
  BY StructParts DEF Good, Struct
<1>2. e = [ht |-> d.ht, rehashidx |-> d.rehashidx, iterators |-> n]
  BY <1>1
<1>3. e \in Struct
  BY <1>1, <1>2 DEF Struct
<1>4. e.ht = d.ht /\ e.rehashidx = d.rehashidx /\ e.iterators = n
  BY <1>2
<1> QED BY <1>3, <1>4 DEF Good, KeysIn, dictIsRehashing

LEMMA CallKeeps ==
  ASSUME DictAssumption, DictInv, Call \/ \E k \in Key : Delete(k)
  PROVE  /\ DictInv' /\ dict'.iterators = dict.iterators
         /\ [Set!Next]_(Set!vars)
<1> USE DEF DictInv
<1>1. CASE \E k \in Key : Add(k) \/ Replace(k) \/ Ensure(k) \/ Delete(k) \/ Find(k)
  <2>1. PICK k \in Key : Add(k) \/ Replace(k) \/ Ensure(k) \/ Delete(k) \/ Find(k)
    BY <1>1
  <2>2. /\ Good(dict') /\ dict'.iterators = dict.iterators
        /\ Set!Add(k) \/ Set!Replace(k) \/ Set!Ensure(k) \/ Set!Delete(k) \/ Set!Find(k)
    BY <2>1, KeyCallKeeps
  <2>3. UNCHANGED dict_can_resize
    BY <2>1 DEF Add, Replace, Ensure, Delete, Find
  <2> QED BY <2>2, <2>3 DEF Set!Next
<1>2. CASE dictGetRandomKey
  <2>1. UNCHANGED dict_can_resize
    BY <1>2 DEF dictGetRandomKey
  <2> QED BY <1>2, <2>1, RandomKeyKeeps DEF Set!Next
<1>3. CASE \/ Resize
           \/ \E size \in 1..MaxSize : Expand(size)
           \/ \E b \in BOOLEAN : SetResize(b)
  <2>1. dict_can_resize' \in BOOLEAN
    BY <1>3 DEF Resize, Expand, SetResize
  <2> QED BY <1>3, <2>1, ResizeKeeps DEF Set!vars
<1> QED BY <1>1, <1>2, <1>3 DEF Call

LEMMA EmptyKeeps ==
  ASSUME DictAssumption, DictInv, dictEmpty
  PROVE  DictInv' /\ dict'.iterators = 0 /\ Set!Empty
<1>1. dict' = dictCreate /\ Good(dict') /\ KeysIn(dict') = {}
  BY CreateGood DEF dictEmpty
<1> QED BY <1>1 DEF dictEmpty, DictInv, dictCreate, Set!Empty, Set!Ret, Ret

LEMMA RehashMillisecondsKeeps ==
  ASSUME DictAssumption, DictInv, RehashMilliseconds
  PROVE  DictInv' /\ dict'.iterators = dict.iterators /\ UNCHANGED Set!vars
<1>1. PICK rounds \in 1..MaxRounds : dict' = dictRehash(dict, rounds * RehashesAtOnce)
  BY DEF RehashMilliseconds
<1> DEFINE n == rounds * RehashesAtOnce
<1>2. n \in Nat
  <2>1. rounds \in Nat /\ RehashesAtOnce \in Nat
    BY DEF DictAssumption
  <2> QED BY <2>1
<1> HIDE DEF n
<1>3. /\ Good(dictRehash(dict, n)) /\ KeysIn(dictRehash(dict, n)) = KeysIn(dict)
      /\ dictRehash(dict, n).iterators = dict.iterators
  BY <1>2, RehashGood DEF DictInv
<1>4. dict' = dictRehash(dict, n)
  BY <1>1 DEF n
<1> QED BY <1>3, <1>4 DEF RehashMilliseconds, DictInv, Set!vars

LEMMA InitWalkInv ==
  DictAssumption /\ WalkInit => WalkInv /\ Set!Init
<1> SUFFICES ASSUME DictAssumption, WalkInit PROVE WalkInv /\ Set!Init
  OBVIOUS
<1>1. Good(dict) /\ KeysIn(dict) = {} /\ dict.iterators = 0
  BY CreateGood DEF WalkInit, Init, dictCreate
<1> QED BY <1>1 DEF WalkInit, Init, WalkInv, DictInv, NoWalk, Iterating, Scanning,
                    Set!Init, Set!Ret, Ret

-----------------------------------------------------------------------------
(***************************************************************************)
(* The iterator goes through the buckets in their order                    *)
(***************************************************************************)
\* What is ahead is in the buckets that dictNext is still to visit.
LEMMA AheadBuckets ==
  ASSUME DictAssumption, Good(dict), walk \in Iterator
  PROVE  /\ \A p \in Ahead : p[1] \in 0..1 /\ p[2] \in Places(dict.ht[p[1]])
         /\ \A k \in Key : IsAhead(dict, walk, k)
                <=> \E p \in Ahead : k \in dict.ht[p[1]].bucket[p[2]]
<1>1. /\ GoodTable(dict.ht[0]) /\ GoodTable(dict.ht[1])
      /\ dict.ht[0].size \in Nat /\ dict.ht[1].size \in Nat
  BY StructParts DEF Good, Table
<1>2. \A t \in 0..1 : \A k \in KeysOf(dict.ht[t]) :
        /\ t \in Searched(dict)
        /\ Index(dict.ht[t], k) \in Places(dict.ht[t])
        /\ k \in dict.ht[t].bucket[Index(dict.ht[t], k)]
  <2> SUFFICES ASSUME NEW t \in 0..1, NEW k \in KeysOf(dict.ht[t])
               PROVE  /\ t \in Searched(dict)
                      /\ Index(dict.ht[t], k) \in Places(dict.ht[t])
                      /\ k \in dict.ht[t].bucket[Index(dict.ht[t], k)]
    OBVIOUS
  <2>1. GoodTable(dict.ht[t]) /\ dict.ht[t].size \in Nat
    BY <1>1
  <2>2. k \in Key
    BY <2>1, KeysAreKeys
  <2>3. dict.ht[t].size > 0
    BY <2>1, <2>2, FoundInTable
  <2>4. t = 1 => dictIsRehashing(dict) /\ dict.ht[0].size > 0
    BY NewTableGood DEF Good
  <2>5. t \in Searched(dict)
    BY <2>3, <2>4 DEF Searched
  <2> QED BY <2>1, <2>2, <2>3, <2>5, IndexInTable, FoundInTable DEF GoodTable
<1>3. \A p \in Ahead : p[1] \in 0..1 /\ p[2] \in Places(dict.ht[p[1]])
  BY <1>1 DEF Ahead, Searched, Places
<1>4. ASSUME NEW k \in Key, NEW p \in Ahead, k \in dict.ht[p[1]].bucket[p[2]]
      PROVE  IsAhead(dict, walk, k)
  <2> DEFINE t == p[1]
             i == p[2]
  <2>1. /\ t \in 0..1 /\ i \in Places(dict.ht[t])
        /\ t > walk.table \/ (t = walk.table /\ i > walk.index)
    BY <1>3 DEF Ahead
  <2>2. k \in dict.ht[t].bucket[i]
    BY <1>4
  <2> HIDE DEF t, i
  <2>3. GoodTable(dict.ht[t])
    BY <1>1, <2>1
  <2>4. Index(dict.ht[t], k) = i /\ k \in KeysOf(dict.ht[t])
    BY <2>1, <2>2, <2>3 DEF GoodTable, KeysOf, Places
  <2> QED BY <2>1, <2>4 DEF IsAhead
<1>5. ASSUME NEW k \in Key, IsAhead(dict, walk, k)
      PROVE  \E p \in Ahead : k \in dict.ht[p[1]].bucket[p[2]]
  <2>1. PICK t \in 0..1 :
            /\ k \in KeysOf(dict.ht[t])
            /\ t > walk.table \/ (t = walk.table /\ Index(dict.ht[t], k) > walk.index)
    BY <1>5 DEF IsAhead
  <2> DEFINE i == Index(dict.ht[t], k)
             p == <<t, i>>
  <2>2. /\ t \in Searched(dict) /\ i \in Places(dict.ht[t])
        /\ k \in dict.ht[t].bucket[i] /\ dict.ht[t].size \in Nat
    BY <1>1, <1>2, <2>1
  <2> HIDE DEF i
  <2>3. i \in 0..(dict.ht[0].size + dict.ht[1].size) /\ i < dict.ht[t].size
    BY <1>1, <2>2 DEF Places
  <2>4. p[1] = t /\ p[2] = i /\ p \in Searched(dict) \X (0..(dict.ht[0].size + dict.ht[1].size))
    BY <2>2, <2>3
  <2> HIDE DEF p
  <2>5. p \in Ahead
    BY <2>1, <2>2, <2>3, <2>4 DEF Ahead, i
  <2> QED BY <2>2, <2>4, <2>5
<1> QED BY <1>3, <1>4, <1>5

LEMMA FirstAheadLeast ==
  ASSUME DictAssumption, Good(dict), walk \in Iterator, Ahead # {}
  PROVE  /\ FirstAhead \in Ahead
         /\ \A q \in Ahead : \/ FirstAhead[1] < q[1]
                             \/ FirstAhead[1] = q[1] /\ FirstAhead[2] <= q[2]
<1>1. \A p \in Ahead : p[1] \in Nat /\ p[2] \in Nat
  BY AheadBuckets DEF Places
<1> DEFINE tables == {p[1] : p \in Ahead}
           t == LeastOf(tables)
           places == {p[2] : p \in {q \in Ahead : q[1] = t}}
           i == LeastOf(places)
<1>2. tables \subseteq Nat /\ tables # {}
  BY <1>1
<1>3. t \in tables /\ \A j \in tables : t <= j
  <2> HIDE DEF tables
  <2> QED BY <1>2, LeastOfNaturals
<1> HIDE DEF t
<1>4. places \subseteq Nat /\ places # {}
  BY <1>1, <1>3
<1>5. i \in places /\ \A j \in places : i <= j
  <2> HIDE DEF places
  <2> QED BY <1>4, LeastOfNaturals
<1> HIDE DEF i
<1>6. PICK p \in Ahead : p[1] = t /\ p[2] = i
  BY <1>5
<1>7. \A q \in Ahead : t < q[1] \/ (t = q[1] /\ i <= q[2])
  <2> SUFFICES ASSUME NEW q \in Ahead PROVE t < q[1] \/ (t = q[1] /\ i <= q[2])
    OBVIOUS
  <2>1. t <= q[1] /\ t \in Nat /\ q[1] \in Nat
    BY <1>1, <1>2, <1>3
  <2>2. t = q[1] => i <= q[2]
    BY <1>5
  <2> QED BY <2>1, <2>2
<1>8. \A q \in Ahead : p[1] < q[1] \/ (p[1] = q[1] /\ p[2] <= q[2])
  BY <1>6, <1>7
<1> QED BY <1>8 DEF FirstAhead

At(w, t, i) == [w EXCEPT !.table = t, !.index = i]

LEMMA AtIterator ==
  ASSUME NEW w \in Iterator, NEW t, NEW i
  PROVE  At(w, t, i) = [kind |-> "iterator", table |-> t, index |-> i, next |-> w.next,
                        rest |-> w.rest, over |-> w.over]
<1>1. PICK x, y, n, r, o :
          w = [kind |-> "iterator", table |-> x, index |-> y, next |-> n, rest |-> r, over |-> o]
  BY DEF Iterator
<1> DEFINE m == At(w, t, i)
<1>2. m = [w EXCEPT !.table = t, !.index = i]
  BY DEF At
<1> HIDE DEF m
<1>3. m = [kind |-> "iterator", table |-> t, index |-> i, next |-> n, rest |-> r, over |-> o]
  BY <1>1, <1>2
<1>4. w.next = n /\ w.rest = r /\ w.over = o
  BY <1>1
<1> QED BY <1>3, <1>4 DEF m

Without(w, k) == [w EXCEPT !.rest = @ \ {k}]

LEMMA WithoutIterator ==
  ASSUME NEW w \in Iterator, NEW k
  PROVE  Without(w, k) = [kind |-> "iterator", table |-> w.table, index |-> w.index,
                          next |-> w.next, rest |-> w.rest \ {k}, over |-> w.over]
<1>1. PICK x, y, n, r, o :
          w = [kind |-> "iterator", table |-> x, index |-> y, next |-> n, rest |-> r, over |-> o]
  BY DEF Iterator
<1> DEFINE m == Without(w, k)
<1>2. m = [w EXCEPT !.rest = r \ {k}]
  BY <1>1 DEF Without
<1> HIDE DEF m
<1>3. m = [kind |-> "iterator", table |-> x, index |-> y, next |-> n, rest |-> r \ {k}, over |-> o]
  BY <1>1, <1>2
<1>4. w.table = x /\ w.index = y /\ w.next = n /\ w.rest = r /\ w.over = o
  BY <1>1
<1> QED BY <1>3, <1>4 DEF m

\* Returning k and saving what is behind it, when the iterator is at w.
LEMMA ReturnKeeps ==
  ASSUME NEW w \in Iterator, NEW k \in KeysIn(dict), NEW behind \in SUBSET KeysIn(dict),
         KeysIn(dict) \subseteq Key, WalkAssumption,
         Return(w, k, behind), dict'.ht = dict.ht, ~ w.over,
         w.index # -1 \/ w.table # 0, k \notin behind,
         seen \cup missing \subseteq KeysIn(dict),
         seen \cap (behind \cup {k}) = {},
         \A x \in missing : x \in behind \cup {k} \/ IsAhead(dict, w, x),
         \A x \in seen \cup behind \cup {k} : ~ IsAhead(dict, w, x)
  PROVE  Iterating' /\ IteratorInv' /\ Started' /\ seen' = seen \cup {k} /\ k \notin seen
<1>1. \E n, r : /\ walk' = [w EXCEPT !.next = n, !.rest = r]
               /\ r \cup ({n} \ {NULL}) = behind
               /\ r \subseteq Key /\ n \in Key \cup {NULL} /\ n \notin r
               /\ (n = NULL => r = {})
  <2>1. CASE behind = {}
    <3>1. walk' = [w EXCEPT !.next = NULL, !.rest = {}]
      BY <2>1 DEF Return
    <3> QED BY <2>1, <3>1
  <2>2. CASE behind # {}
    <3>1. PICK n \in behind : walk' = [w EXCEPT !.next = n, !.rest = behind \ {n}]
      BY <2>2 DEF Return
    <3>2. n # NULL /\ (behind \ {n}) \cup ({n} \ {NULL}) = behind
      BY DEF WalkAssumption
    <3> QED BY <3>1, <3>2
  <2> QED BY <2>1, <2>2
<1>2. PICK n, r : /\ walk' = [w EXCEPT !.next = n, !.rest = r]
                  /\ r \cup ({n} \ {NULL}) = behind
                  /\ r \subseteq Key /\ n \in Key \cup {NULL} /\ n \notin r
                  /\ (n = NULL => r = {})
  BY <1>1
<1>3. walk' = [kind |-> "iterator", table |-> w.table, index |-> w.index,
               next |-> n, rest |-> r, over |-> FALSE]
  BY <1>2 DEF Iterator
<1>4. walk' \in Iterator /\ Iterating' /\ Started' /\ Held' = behind
  BY <1>2, <1>3 DEF Iterator, Iterating, Started, Held
<1>5. KeysIn(dict)' = KeysIn(dict) /\ \A x : IsAhead(dict, walk, x)' <=> IsAhead(dict, w, x)
  BY <1>3 DEF KeysIn, IsAhead
<1>6. seen' = seen \cup {k} /\ missing' = missing \ {k}
  BY DEF Return
<1>7. IteratorInv'
  BY <1>2, <1>3, <1>4, <1>5, <1>6 DEF IteratorInv
<1> QED BY <1>4, <1>6, <1>7

\* dictNext returns a key that it has not returned, or it is over and none is left.
LEMMA NextKeeps ==
  ASSUME DictAssumption, WalkAssumption, WalkInv, dictNext
  PROVE  WalkInv' /\ UNCHANGED Set!vars /\ (seen' # seen \/ walk'.over)
<1>1. Good(dict) /\ walk \in Iterator /\ Iterating /\ IteratorInv /\ ~ walk.over
  BY DEF dictNext, WalkInv, DictInv, IteratorInv
<1>2. UNCHANGED <<dict_can_resize, result>>
  BY DEF dictNext
<1>3. /\ Good(dict') /\ KeysIn(dict') = KeysIn(dict) /\ dict'.iterators = 1
      /\ dict'.ht = dict.ht
  <2>1. CASE Started
    BY <1>1, <2>1 DEF dictNext, WalkInv
  <2>2. CASE ~ Started
    <3>1. dict' = [dict EXCEPT !.iterators = 1]
      BY <1>1, <2>2 DEF dictNext, WalkInv
    <3> QED BY <1>1, <3>1, IteratorCountGood
  <2> QED BY <2>1, <2>2
<1>4. KeysIn(dict) \subseteq Key
  BY <1>1, KeysAreKeys DEF Good, KeysIn
<1>5. CASE walk.next # NULL
  <2>1. Return(walk, walk.next, walk.rest) /\ Started
    BY <1>1, <1>5 DEF dictNext, IteratorInv
  <2>2. walk.next \in KeysIn(dict) /\ walk.rest \in SUBSET KeysIn(dict) /\ Held = walk.rest \cup {walk.next}
    BY <1>1, <1>5 DEF IteratorInv, Held
  <2>3. Iterating' /\ IteratorInv' /\ Started' /\ seen' = seen \cup {walk.next} /\ walk.next \notin seen
    BY <1>1, <1>3, <1>4, <2>1, <2>2, ReturnKeeps DEF IteratorInv, Started
  <2> QED BY <1>2, <1>3, <2>3 DEF WalkInv, DictInv, Iterating, Scanning, Set!vars
<1>6. CASE walk.next = NULL /\ Ahead = {}
  <2>1. walk' = [walk EXCEPT !.over = TRUE, !.index = @ + 1] /\ UNCHANGED <<seen, missing>>
    BY <1>6 DEF dictNext
  <2>2. walk' = [kind |-> "iterator", table |-> walk.table, index |-> walk.index + 1,
                 next |-> NULL, rest |-> {}, over |-> TRUE]
    BY <1>1, <1>6, <2>1 DEF Iterator, IteratorInv
  <2>3. walk.index \in Nat \cup {-1} /\ walk.table \in 0..1
    BY <1>1 DEF Iterator
  <2>4. walk' \in Iterator /\ Iterating' /\ Started' /\ Held' = {} /\ walk'.over
    BY <2>2, <2>3 DEF Iterator, Iterating, Started, Held
  <2>5. \A x \in KeysIn(dict) : ~ IsAhead(dict, walk, x)
    BY <1>1, <1>4, <1>6, AheadBuckets
  <2>6. \A x \in KeysIn(dict) : ~ IsAhead(dict', walk', x)
    <3> SUFFICES ASSUME NEW x \in KeysIn(dict), NEW t \in 0..1, x \in KeysOf(dict.ht[t]),
                        t > walk.table \/ (t = walk.table /\ Index(dict.ht[t], x) > walk.index + 1)
                 PROVE  IsAhead(dict, walk, x)
      BY <1>3, <2>2, <2>5 DEF IsAhead
    <3>1. x \in Key /\ GoodTable(dict.ht[t])
      BY <1>1, <1>4 DEF Good
    <3>2. Index(dict.ht[t], x) \in Int
      BY <3>1, FoundInTable, IndexInTable DEF GoodTable, Places, Table
    <3> QED BY <2>3, <3>2 DEF IsAhead
  <2>7. missing = {} /\ seen \subseteq KeysIn(dict)
    BY <1>1, <1>6, <2>5 DEF IteratorInv, Held
  <2>8. IteratorInv'
    <3>1. seen' = seen /\ missing' = {} /\ Held' = {} /\ KeysIn(dict') = KeysIn(dict)
      BY <1>3, <2>1, <2>4, <2>7
    <3>2. walk'.next = NULL /\ walk'.rest = {}
      BY <2>2
    <3>3. \A x \in seen' \cup Held' : ~ IsAhead(dict', walk', x)
      BY <2>6, <2>7, <3>1
    <3> QED BY <2>4, <2>7, <3>1, <3>2, <3>3 DEF IteratorInv
  <2> QED BY <1>2, <1>3, <2>4, <2>8 DEF WalkInv, DictInv, Iterating, Scanning, Set!vars
<1>7. CASE walk.next = NULL /\ Ahead # {}
  <2>0. /\ FirstAhead \in Ahead /\ FirstAhead[1] \in 0..1
        /\ FirstAhead[2] \in Places(dict.ht[FirstAhead[1]])
    BY <1>1, <1>7, FirstAheadLeast, AheadBuckets
  <2>1. PICK t \in 0..1, i \in Nat : t = FirstAhead[1] /\ i = FirstAhead[2]
    BY <2>0 DEF Places
  <2> DEFINE chain == dict.ht[t].bucket[i]
             w == At(walk, t, i)
  <2>2. FirstAhead \in Ahead /\ i \in Places(dict.ht[t])
    BY <2>0, <2>1
  <2>10. PICK k \in chain : Return(w, k, chain \ {k})
    BY <1>7, <2>1 DEF dictNext, At
  <2>3. \A q \in Ahead : t < q[1] \/ (t = q[1] /\ i <= q[2])
    BY <1>1, <1>7, <2>1, FirstAheadLeast
  <2>4. t > walk.table \/ (t = walk.table /\ i > walk.index)
    BY <2>1, <2>2 DEF Ahead
  <2>5. /\ GoodTable(dict.ht[t]) /\ chain \subseteq KeysOf(dict.ht[t])
        /\ chain \subseteq KeysIn(dict) /\ i \in Nat
    <3>1. GoodTable(dict.ht[t])
      BY <1>1, <2>2 DEF Good
    <3> QED BY <2>2, <3>1 DEF GoodTable, KeysOf, KeysIn, Places
  <2>6. /\ w \in Iterator /\ ~ w.over /\ w.table = t /\ w.index = i
        /\ w.index # -1 \/ w.table # 0
    <3>1. w = [kind |-> "iterator", table |-> t, index |-> i, next |-> walk.next,
               rest |-> walk.rest, over |-> walk.over]
      BY <1>1, AtIterator
    <3> HIDE DEF w, chain
    <3>2. i # -1
      OBVIOUS
    <3>3. w \in Iterator
      BY <1>1, <3>1 DEF Iterator
    <3> QED BY <1>1, <3>1, <3>2, <3>3
  <2> HIDE DEF w, chain
  <2>7. \A x \in KeysIn(dict) : IsAhead(dict, w, x) => IsAhead(dict, walk, x)
    <3> SUFFICES ASSUME NEW x \in KeysIn(dict), NEW u \in 0..1, x \in KeysOf(dict.ht[u]),
                        u > t \/ (u = t /\ Index(dict.ht[u], x) > i)
                 PROVE  IsAhead(dict, walk, x)
      BY <2>6 DEF IsAhead
    <3>1. x \in Key /\ GoodTable(dict.ht[u])
      BY <1>1, <1>4 DEF Good
    <3>2. Index(dict.ht[u], x) \in Int
      BY <3>1, FoundInTable, IndexInTable DEF GoodTable, Places, Table
    <3>3. walk.index \in Int /\ walk.table \in Int
      BY <1>1 DEF Iterator
    <3> QED BY <2>2, <2>4, <2>5, <3>2, <3>3 DEF IsAhead
  <2>8. \A x \in KeysIn(dict) : IsAhead(dict, walk, x) => x \in chain \/ IsAhead(dict, w, x)
    <3> SUFFICES ASSUME NEW x \in KeysIn(dict), IsAhead(dict, walk, x)
                 PROVE  x \in chain \/ IsAhead(dict, w, x)
      OBVIOUS
    <3>1. PICK q \in Ahead : x \in dict.ht[q[1]].bucket[q[2]]
      BY <1>1, <1>4, AheadBuckets
    <3> DEFINE u == q[1]
               j == q[2]
    <3>2. u \in 0..1 /\ j \in Places(dict.ht[u]) /\ x \in dict.ht[u].bucket[j]
      BY <1>1, <3>1, AheadBuckets
    <3>3. t < u \/ (t = u /\ i <= j)
      BY <2>3
    <3> HIDE DEF u, j
    <3>4. GoodTable(dict.ht[u])
      BY <1>1, <3>2 DEF Good
    <3>5. Index(dict.ht[u], x) = j /\ x \in KeysOf(dict.ht[u]) /\ j \in Nat
      BY <3>2, <3>4 DEF GoodTable, KeysOf, Places
    <3>6. CASE t = u /\ i = j
      BY <3>2, <3>6 DEF chain
    <3>7. CASE ~ (t = u /\ i = j)
      BY <2>5, <2>6, <3>2, <3>3, <3>5, <3>7 DEF IsAhead
    <3> QED BY <3>6, <3>7
  <2>9. \A x \in chain : IsAhead(dict, walk, x) /\ ~ IsAhead(dict, w, x)
    <3> SUFFICES ASSUME NEW x \in chain PROVE IsAhead(dict, walk, x) /\ ~ IsAhead(dict, w, x)
      OBVIOUS
    <3>1. Index(dict.ht[t], x) = i /\ x \in KeysOf(dict.ht[t])
      BY <2>2, <2>5 DEF GoodTable, chain
    <3>2. \A u \in 0..1 : x \in KeysOf(dict.ht[u]) => u = t
      BY <1>1, <2>2, <3>1 DEF Good
    <3> QED BY <2>2, <2>4, <2>5, <2>6, <3>1, <3>2 DEF IsAhead
  <2>12. Held = {} /\ Held \cap chain = {}
    BY <1>1, <1>7 DEF IteratorInv, Held
  <2>11. Iterating' /\ IteratorInv' /\ Started' /\ seen' = seen \cup {k} /\ k \notin seen
    <3>1. seen \cap chain = {} /\ seen \cup missing \subseteq KeysIn(dict)
      BY <1>1, <2>9 DEF IteratorInv
    <3>2. (chain \ {k}) \cup {k} = chain /\ k \in KeysIn(dict) /\ chain \ {k} \in SUBSET KeysIn(dict)
      BY <2>10, <2>5
    <3>3. \A x \in missing : x \in chain \/ IsAhead(dict, w, x)
      BY <1>1, <2>8, <2>12, <3>1 DEF IteratorInv
    <3>4. \A x \in seen \cup chain : ~ IsAhead(dict, w, x)
      BY <1>1, <2>7, <2>9, <3>1 DEF IteratorInv
    <3> DEFINE behind == chain \ {k}
    <3>5. Return(w, k, behind) /\ k \notin behind /\ behind \cup {k} = chain
      BY <2>10
    <3>6. behind \in SUBSET KeysIn(dict) /\ \A x \in seen \cup behind \cup {k} : ~ IsAhead(dict, w, x)
      BY <2>5, <3>2, <3>4
    <3> HIDE DEF behind
    <3> QED BY <1>3, <1>4, <2>6, <3>1, <3>2, <3>3, <3>5, <3>6, ReturnKeeps
  <2> QED BY <1>2, <1>3, <2>11 DEF WalkInv, DictInv, Iterating, Scanning, Set!vars
<1> QED BY <1>5, <1>6, <1>7

LEMMA AllAhead ==
  ASSUME DictAssumption, NEW d, Good(d), NEW w, w.table = 0, w.index = -1, NEW k \in KeysIn(d)
  PROVE  IsAhead(d, w, k)
<1> SUFFICES ASSUME NEW t \in 0..1, k \in KeysOf(d.ht[t])
             PROVE  t > 0 \/ (t = 0 /\ Index(d.ht[t], k) > -1)
  BY DEF IsAhead, KeysIn
<1>1. GoodTable(d.ht[t]) /\ k \in Key
  BY KeysAreKeys DEF Good
<1>2. d.ht[t] \in Table /\ d.ht[t].size \in Nat \ {0}
  BY <1>1, FoundInTable DEF GoodTable, Table
<1>3. Index(d.ht[t], k) \in Nat
  BY <1>1, <1>2, IndexInTable DEF Places
<1> QED BY <1>3

-----------------------------------------------------------------------------
(***************************************************************************)
(* While an iterator runs, no key leaves its bucket                        *)
(***************************************************************************)
Settled(d, e) ==
    \A k \in KeysIn(d) \cap KeysIn(e) : \A t \in 0..1 :
        /\ k \in KeysOf(d.ht[t]) <=> k \in KeysOf(e.ht[t])
        /\ k \in KeysOf(d.ht[t]) => Index(e.ht[t], k) = Index(d.ht[t], k)

\* A table that begins to grow: its keys stay in the old one.
LEMMA ExpandedSettled ==
  ASSUME NEW d, Good(d), NEW e, Good(e), KeysIn(e) = KeysIn(d),
         d.ht[0].size > 0 => e.ht[0] = d.ht[0], dictIsRehashing(d) => e = d
  PROVE  Settled(d, e)
<1>1. CASE dictIsRehashing(d)
  BY <1>1 DEF Settled
<1>2. CASE ~ dictIsRehashing(d)
  <2>1. KeysOf(d.ht[1]) = {}
    BY <1>2, NewTableGood DEF Good
  <2>2. CASE d.ht[0].size > 0
    BY <2>1, <2>2 DEF Settled, KeysIn, Good
  <2>3. CASE ~ (d.ht[0].size > 0)
    <3>1. KeysOf(d.ht[0]) = {}
      BY <2>3, StructParts DEF Good, KeysOf, Table
    <3> QED BY <2>1, <3>1 DEF Settled, KeysIn
  <2> QED BY <2>2, <2>3
<1> QED BY <1>1, <1>2

LEMMA AddSettled ==
  ASSUME DictAssumption, NEW d, Good(d), d.iterators # 0, NEW k \in Key
  PROVE  Settled(d, dictAdd(d, k))
<1> DEFINE p == _dictExpandIfNeeded(d)
<1>1. /\ Good(p) /\ KeysIn(p) = KeysIn(d) /\ Settled(d, p) /\ p.ht[0].size > 0
  BY ExpandIfNeededGood, ExpandedSettled
<1>2. Prepared(d) = p
  BY DEF Prepared, _dictRehashStep
<1>3. dictAdd(d, k) = IF Holds(p, k) THEN p ELSE Insert(p, k)
  BY <1>2 DEF dictAdd
<1> HIDE DEF p
<1>4. CASE Holds(p, k)
  BY <1>1, <1>3, <1>4
<1>5. CASE ~ Holds(p, k)
  <2> DEFINE e == Insert(p, k)
  <2>1. k \notin KeysIn(p)
    BY <1>1, <1>5, HoldingIsThere
  <2>2. /\ KeysIn(e) = KeysIn(p) \cup {k}
        /\ IF dictIsRehashing(p)
           THEN e.ht[0] = p.ht[0] /\ e.ht[1] = Received(p.ht[1], {k})
           ELSE e.ht[1] = p.ht[1] /\ e.ht[0] = Received(p.ht[0], {k})
    BY <1>1, <2>1, InsertGood
  <2>3. \A t \in 0..1 : p.ht[t].size > 0 =>
            /\ KeysOf(Received(p.ht[t], {k})) = KeysOf(p.ht[t]) \cup {k}
            /\ Received(p.ht[t], {k}).size = p.ht[t].size
    <3> SUFFICES ASSUME NEW t \in 0..1, p.ht[t].size > 0
                 PROVE  /\ KeysOf(Received(p.ht[t], {k})) = KeysOf(p.ht[t]) \cup {k}
                        /\ Received(p.ht[t], {k}).size = p.ht[t].size
      OBVIOUS
    <3>1. GoodTable(p.ht[t]) /\ {k} \in SUBSET Key /\ {k} \cap KeysOf(p.ht[t]) = {}
      BY <1>1, <2>1 DEF Good, KeysIn
    <3> QED BY <3>1, ReceivedGood
  <2>4. dictIsRehashing(p) => p.ht[1].size > 0
    BY <1>1 DEF Good
  <2> HIDE DEF e
  <2>5. \A x \in KeysIn(p) : \A t \in 0..1 :
            /\ x \in KeysOf(p.ht[t]) <=> x \in KeysOf(e.ht[t])
            /\ Index(e.ht[t], x) = Index(p.ht[t], x)
    <3> SUFFICES ASSUME NEW x \in KeysIn(p), NEW t \in 0..1
                 PROVE  /\ x \in KeysOf(p.ht[t]) <=> x \in KeysOf(e.ht[t])
                        /\ Index(e.ht[t], x) = Index(p.ht[t], x)
      OBVIOUS
    <3>1. CASE e.ht[t] = p.ht[t]
      BY <3>1
    <3>2. CASE e.ht[t] # p.ht[t]
      <4>1. e.ht[t] = Received(p.ht[t], {k}) /\ p.ht[t].size > 0
        BY <1>1, <2>2, <2>4, <3>2
      <4>2. KeysOf(e.ht[t]) = KeysOf(p.ht[t]) \cup {k} /\ e.ht[t].size = p.ht[t].size
        BY <2>3, <4>1
      <4> QED BY <2>1, <4>2 DEF Index
    <3> QED BY <3>1, <3>2
  <2>6. dictAdd(d, k) = e
    BY <1>3, <1>5 DEF e
  <2> QED BY <1>1, <2>2, <2>5, <2>6 DEF Settled
<1> QED BY <1>4, <1>5

LEMMA DeleteSettled ==
  ASSUME DictAssumption, NEW d, Good(d), d.iterators # 0, NEW k \in Key
  PROVE  Settled(d, dictGenericDelete(d, k))
<1>1. dictGenericDelete(d, k)
        = IF Holds(d, k) THEN Removed(d, LeastOf(Holding(d, k)), k) ELSE d
  BY DEF dictGenericDelete, _dictRehashStep
<1>2. Settled(d, d)
  BY DEF Settled
<1>3. CASE ~ Holds(d, k)
  BY <1>1, <1>2, <1>3
<1>4. CASE Holds(d, k)
  <2>1. Holding(d, k) = {t \in 0..1 : k \in KeysOf(d.ht[t])} /\ Holding(d, k) # {}
    BY <1>4, HoldingIsThere DEF Holds
  <2>2. LeastOf(Holding(d, k)) \in Holding(d, k)
    BY <2>1, LeastOfNaturals
  <2>3. PICK t \in 0..1 : t = LeastOf(Holding(d, k)) /\ k \in KeysOf(d.ht[t])
    BY <2>1, <2>2
  <2> DEFINE e == Removed(d, t, k)
             i == Index(d.ht[t], k)
             left == d.ht[t].bucket[i] \ {k}
  <2>4. KeysIn(e) = KeysIn(d) \ {k} /\ e.ht[1 - t] = d.ht[1 - t] /\ e.ht[t] = Reduced(d.ht[t], i, left)
    <3>1. /\ KeysIn(e) = KeysIn(d) \ {k}
          /\ e.ht[1 - t] = d.ht[1 - t]
      <4> HIDE DEF i, left
      <4> QED BY <2>3, RemovedGood
    <3>2. e.ht[t] = Reduced(d.ht[t], i, left)
      BY <2>3, RemovedGood, Zenon
    <3> QED BY <3>1, <3>2
  <2>5. GoodTable(d.ht[t]) /\ k \in Key /\ d.ht[t].size \in Nat \ {0}
    BY <2>3, FoundInTable, StructParts DEF Good, Table
  <2>6. k \in d.ht[t].bucket[i] /\ i \in Places(d.ht[t])
    BY <2>3, <2>5, FoundInTable, IndexInTable DEF GoodTable
  <2>7. left \in SUBSET d.ht[t].bucket[i] /\ d.ht[t].bucket[i] \ left = {k}
    BY <2>6
  <2> HIDE DEF i, left, e
  <2>8. KeysOf(e.ht[t]) = KeysOf(d.ht[t]) \ {k} /\ e.ht[t].size = d.ht[t].size
    BY <2>4, <2>5, <2>6, <2>7, ReducedGood
  <2>9. \A u \in 0..1 : u = t \/ u = 1 - t
    OBVIOUS
  <2>10. dictGenericDelete(d, k) = e
    BY <1>1, <1>4, <2>3 DEF e
  <2> QED BY <2>4, <2>8, <2>9, <2>10 DEF Settled, Index
<1> QED BY <1>3, <1>4

\* A call other than Delete loses no key.
LEMMA CallSettled ==
  ASSUME DictAssumption, Good(dict), dict.iterators # 0, Call
  PROVE  Settled(dict, dict') /\ KeysIn(dict) \subseteq KeysIn(dict')
<1>0. Settled(dict, dict)
  BY DEF Settled
<1>1. ASSUME NEW k \in Key, Add(k) \/ Replace(k) \/ Ensure(k) \/ Find(k)
      PROVE  dict' = dict \/ dict' = dictAdd(dict, k)
  <2>1. dictAdd(dict, k).iterators # 0
    BY AddGood
  <2>2. _dictRehashStep(dict) = dict /\ _dictRehashStep(dictAdd(dict, k)) = dictAdd(dict, k)
    BY <2>1 DEF _dictRehashStep
  <2> QED BY <1>1, <2>2 DEF Add, Replace, Ensure, Find
<1>2. CASE \E k \in Key : Add(k) \/ Replace(k) \/ Ensure(k) \/ Find(k)
  <2>1. PICK k \in Key : dict' = dict \/ dict' = dictAdd(dict, k)
    BY <1>1, <1>2
  <2>2. Settled(dict, dictAdd(dict, k)) /\ KeysIn(dict) \subseteq KeysIn(dictAdd(dict, k))
    BY AddSettled, AddGood
  <2> QED BY <1>0, <2>1, <2>2
<1>3. CASE dictGetRandomKey \/ \E b \in BOOLEAN : SetResize(b)
  <2>1. dict' = dict
    BY <1>3 DEF dictGetRandomKey, SetResize, _dictRehashStep
  <2> QED BY <1>0, <2>1
<1>4. ASSUME NEW size \in Nat
      PROVE  /\ Settled(dict, dictExpand(dict, size))
             /\ KeysIn(dict) \subseteq KeysIn(dictExpand(dict, size))
  BY <1>4, ExpandGood, ExpandedSettled
<1>5. CASE Resize \/ \E size \in 1..MaxSize : Expand(size)
  <2>1. dict.ht[0].used \in Nat /\ DICT_HT_INITIAL_SIZE \in Nat /\ 1..MaxSize \subseteq Nat
    BY StructParts DEF Good, Table, DictAssumption
  <2>2. dict' = dict \/ \E size \in Nat : dict' = dictExpand(dict, size)
    BY <1>5, <2>1 DEF Resize, dictResize, Expand
  <2> QED BY <1>0, <1>4, <2>2
<1> QED BY <1>2, <1>3, <1>5 DEF Call

\* What a call besides the iterator leaves of it.
LEMMA BesideKeeps ==
  ASSUME DictAssumption, WalkAssumption, Good(dict), Good(dict'), Iterating, IteratorInv,
         NEW w \in Iterator, Beside(w),
         w.table = walk.table, w.index = walk.index, w.next = walk.next, w.over = walk.over,
         w.rest = walk.rest \cap KeysIn(dict'), walk.next \in KeysIn(dict') \cup {NULL},
         Started => Settled(dict, dict')
  PROVE  Iterating' /\ IteratorInv' /\ (Started' <=> Started)
<1>1. /\ walk' = w /\ seen' = seen \cap KeysIn(dict') /\ missing' = missing \cap KeysIn(dict')
      /\ Held' = Held \cap KeysIn(dict')
  BY DEF Beside, Held
<1>2. walk' \in Iterator /\ Iterating' /\ (Started' <=> Started)
  BY <1>1 DEF Iterator, Iterating, Started
<1>3. CASE ~ Started
  <2>1. seen' = {} /\ Held' = {} /\ walk'.next = NULL /\ walk'.rest = {}
    BY <1>1, <1>3 DEF IteratorInv, Held
  <2>2. \A x \in missing' : IsAhead(dict', walk', x)
    BY <1>1, <1>3, AllAhead DEF Started
  <2>3. walk'.over => missing' = {}
    BY <1>1 DEF IteratorInv
  <2> QED BY <1>1, <1>2, <2>1, <2>2, <2>3 DEF IteratorInv
<1>4. CASE Started
  <2>1. \A x \in KeysIn(dict) \cap KeysIn(dict') :
            IsAhead(dict', walk', x) <=> IsAhead(dict, walk, x)
    BY <1>1, <1>4 DEF Settled, IsAhead
  <2>2. /\ seen' \cup missing' \cup Held' \subseteq KeysIn(dict')
        /\ seen' \cup missing' \cup Held' \subseteq KeysIn(dict)
    BY <1>1 DEF IteratorInv
  <2>3. \A x \in missing' : x \in Held' \/ IsAhead(dict', walk', x)
    BY <1>1, <2>1, <2>2 DEF IteratorInv
  <2>4. \A x \in seen' \cup Held' : ~ IsAhead(dict', walk', x)
    BY <1>1, <2>1, <2>2 DEF IteratorInv
  <2>5. /\ seen' \cap Held' = {} /\ walk'.next \notin walk'.rest
        /\ walk'.next = NULL => walk'.rest = {}
        /\ walk'.over => missing' = {}
    BY <1>1 DEF IteratorInv
  <2> QED BY <1>2, <1>4, <2>2, <2>3, <2>4, <2>5 DEF IteratorInv
<1> QED BY <1>2, <1>3, <1>4

LEMMA CallBesideKeeps ==
  ASSUME DictAssumption, WalkAssumption, WalkInv, Call, Beside(walk)
  PROVE  WalkInv' /\ [Set!Next]_(Set!vars)
<1>1. DictInv /\ DictInv' /\ dict'.iterators = dict.iterators /\ [Set!Next]_(Set!vars)
  BY CallKeeps DEF WalkInv
<1>2. walk' = walk
  BY DEF Beside
<1>3. CASE ~ Iterating
  BY <1>1, <1>2, <1>3 DEF WalkInv, Iterating, Scanning
<1>4. CASE Iterating
  <2>1. IteratorInv /\ walk \in Iterator
    BY <1>4 DEF WalkInv, IteratorInv
  <2>2. Started => Settled(dict, dict') /\ KeysIn(dict) \subseteq KeysIn(dict')
    BY <1>1, <1>4, CallSettled DEF WalkInv, DictInv
  <2>3. ~ Started => walk.rest = {} /\ walk.next = NULL
    BY <2>1 DEF IteratorInv
  <2>4. walk.rest \cup ({walk.next} \ {NULL}) \subseteq KeysIn(dict)
    BY <2>1 DEF IteratorInv, Held
  <2>5. walk.rest = walk.rest \cap KeysIn(dict') /\ walk.next \in KeysIn(dict') \cup {NULL}
    BY <2>2, <2>3, <2>4
  <2>6. Iterating' /\ IteratorInv' /\ (Started' <=> Started)
    BY <1>1, <1>4, <2>1, <2>2, <2>5, BesideKeeps DEF DictInv
  <2> QED BY <1>1, <1>4, <2>6 DEF WalkInv, Iterating, Scanning
<1> QED BY <1>3, <1>4

LEMMA DeleteBesideKeeps ==
  ASSUME DictAssumption, WalkAssumption, WalkInv, NEW k \in Key, DeleteBeside(k)
  PROVE  WalkInv' /\ [Set!Next]_(Set!vars)
<1>0. Delete(k)
  BY DEF DeleteBeside
<1>1. DictInv /\ DictInv' /\ dict'.iterators = dict.iterators /\ [Set!Next]_(Set!vars)
  BY <1>0, CallKeeps DEF WalkInv
<1>2. dict' = dictGenericDelete(dict, k) /\ KeysIn(dict') = KeysIn(dict) \ {k}
  BY <1>0, <1>1, DeleteGood DEF Delete, DictInv
<1>3. CASE ~ Iterating
  <2>1. walk' = walk
    BY <1>3 DEF DeleteBeside, Beside
  <2> QED BY <1>1, <1>3, <2>1 DEF WalkInv, Iterating, Scanning
<1>4. CASE Iterating
  <2>1. IteratorInv /\ walk \in Iterator
    BY <1>4 DEF WalkInv, IteratorInv
  <2>2. k # walk.next /\ Beside(Without(walk, k))
    BY <1>4 DEF DeleteBeside, Without
  <2>3. Started => Settled(dict, dict')
    BY <1>1, <1>2, <1>4, DeleteSettled DEF WalkInv, DictInv
  <2>4. walk.rest \cup ({walk.next} \ {NULL}) \subseteq KeysIn(dict)
    BY <2>1 DEF IteratorInv, Held
  <2> DEFINE w == Without(walk, k)
  <2>5. w = [kind |-> "iterator", table |-> walk.table, index |-> walk.index, next |-> walk.next,
             rest |-> walk.rest \ {k}, over |-> walk.over]
    BY <2>1, WithoutIterator
  <2> HIDE DEF w
  <2>6. w \in Iterator
    BY <2>1, <2>5 DEF Iterator
  <2>7. /\ w.rest = walk.rest \cap KeysIn(dict') /\ walk.next \in KeysIn(dict') \cup {NULL}
        /\ w.table = walk.table /\ w.index = walk.index /\ w.next = walk.next /\ w.over = walk.over
    BY <1>2, <2>2, <2>4, <2>5
  <2>8. Beside(w)
    BY <2>2 DEF w
  <2>9. Iterating' /\ IteratorInv' /\ (Started' <=> Started)
    BY <1>1, <1>4, <2>1, <2>3, <2>6, <2>7, <2>8, BesideKeeps DEF DictInv
  <2> QED BY <1>1, <1>4, <2>9 DEF WalkInv, Iterating, Scanning
<1> QED BY <1>3, <1>4

\* The steps of a walk change no table.
LEMMA WalkStepKeeps ==
  ASSUME DictAssumption, WalkAssumption, WalkInv,
         \/ dictGetSafeIterator \/ dictNext \/ dictReleaseIterator
         \/ BeginScan \/ dictScan \/ EndScan
  PROVE  WalkInv' /\ UNCHANGED Set!vars
<1> USE DEF DictInv
<1>1. CASE dictGetSafeIterator
  <2>1. UNCHANGED <<dict, dict_can_resize, result>>
    BY <1>1 DEF dictGetSafeIterator, Begin, vars
  <2>2. /\ walk = NoWalk
        /\ walk' = [kind |-> "iterator", table |-> 0, index |-> -1,
                    next |-> NULL, rest |-> {}, over |-> FALSE]
    BY <1>1 DEF dictGetSafeIterator, Begin
  <2>3. walk' \in Iterator /\ Held' = {} /\ seen' = {} /\ missing' = KeysIn(dict)
    BY <1>1, <2>2 DEF Iterator, Held, dictGetSafeIterator, Begin
  <2>4. \A k \in KeysIn(dict) : IsAhead(dict', walk', k)
    BY <2>1, <2>2, AllAhead DEF WalkInv
  <2>5. IteratorInv'
    BY <2>1, <2>2, <2>3, <2>4 DEF IteratorInv
  <2> QED BY <2>1, <2>2, <2>5 DEF WalkInv, NoWalk, Iterating, Scanning, Started, Set!vars
<1>2. CASE dictNext
  BY <1>2, NextKeeps
<1>3. CASE dictReleaseIterator
  <2>1. walk' = NoWalk /\ UNCHANGED <<dict_can_resize, result>>
    BY <1>3 DEF dictReleaseIterator, End
  <2>2. Good(dict') /\ KeysIn(dict') = KeysIn(dict) /\ dict'.iterators = 0
    <3>1. CASE Started
      <4>1. dict' = [dict EXCEPT !.iterators = 0]
        BY <1>3, <3>1 DEF dictReleaseIterator, WalkInv
      <4> QED BY <4>1, IteratorCountGood DEF WalkInv
    <3>2. CASE ~ Started
      BY <1>3, <3>2 DEF dictReleaseIterator, WalkInv
    <3> QED BY <3>1, <3>2
  <2> QED BY <2>1, <2>2 DEF WalkInv, NoWalk, Iterating, Scanning, Set!vars
<1>4. CASE BeginScan
  <2>1. UNCHANGED <<dict, dict_can_resize, result>>
    BY <1>4 DEF BeginScan, Begin, vars
  <2>2. walk = NoWalk /\ walk' = [kind |-> "scan", v |-> 0, over |-> FALSE]
    BY <1>4 DEF BeginScan, Begin
  <2> QED BY <2>1, <2>2 DEF WalkInv, NoWalk, Iterating, Scanning, Set!vars
<1>5. CASE dictScan
  <2>1. UNCHANGED <<dict, dict_can_resize, result>> /\ Scanning
    BY <1>5 DEF dictScan, vars
  <2>2. walk = [kind |-> "scan", v |-> walk.v, over |-> walk.over]
    BY <2>1 DEF WalkInv
  <2>3. PICK v, over : walk' = [walk EXCEPT !.v = v, !.over = over]
    BY <1>5 DEF dictScan
  <2>4. walk' = [kind |-> "scan", v |-> v, over |-> over]
    <3>1. PICK x, y : walk = [kind |-> "scan", v |-> x, over |-> y]
      BY <2>2
    <3> QED BY <2>3, <3>1
  <2> QED BY <2>1, <2>2, <2>4 DEF WalkInv, Iterating, Scanning, Set!vars
<1>6. CASE EndScan
  BY <1>6 DEF EndScan, End, WalkInv, NoWalk, Iterating, Scanning, Set!vars
<1> QED BY <1>1, <1>2, <1>3, <1>4, <1>5, <1>6

-----------------------------------------------------------------------------
(***************************************************************************)
(* The invariant, and what follows from it                                 *)
(***************************************************************************)
LEMMA NextWalkInv ==
  ASSUME DictAssumption, WalkAssumption, WalkInv, [WalkNext]_allVars
  PROVE  WalkInv' /\ [Set!Next]_(Set!vars) /\ (dictNext => seen' # seen \/ walk'.over)
<1>1. dictNext => seen' # seen \/ walk'.over
  BY NextKeeps
<1>2. CASE \/ dictGetSafeIterator \/ dictNext \/ dictReleaseIterator
           \/ BeginScan \/ dictScan \/ EndScan
  BY <1>1, <1>2, WalkStepKeeps
<1>3. CASE Call /\ Beside(walk)
  BY <1>1, <1>3, CallBesideKeeps
<1>4. CASE \E k \in Key : DeleteBeside(k)
  BY <1>1, <1>4, DeleteBesideKeeps
<1>5. CASE ~ Iterating /\ (dictEmpty \/ RehashMilliseconds) /\ Beside(walk)
  <2>1. DictInv /\ dict.iterators = 0 /\ walk' = walk
    BY <1>5 DEF WalkInv, Beside
  <2>2. DictInv' /\ dict'.iterators = 0 /\ [Set!Next]_(Set!vars)
    BY <1>5, <2>1, EmptyKeeps, RehashMillisecondsKeeps DEF Set!Next
  <2> QED BY <1>1, <1>5, <2>1, <2>2 DEF WalkInv, Iterating, Scanning
<1>6. CASE UNCHANGED allVars
  <2>1. UNCHANGED <<dict, dict_can_resize, result, walk, seen, missing, misled>>
    BY <1>6 DEF allVars
  <2>2. WalkInv' /\ UNCHANGED Set!vars
    BY <2>1 DEF WalkInv, DictInv, Iterating, Scanning, Started, IteratorInv, Held, Set!vars
  <2> QED BY <1>1, <2>2
<1> QED BY <1>2, <1>3, <1>4, <1>5, <1>6 DEF WalkNext

\* The inductive invariant holds in every reachable state.
THEOREM WalkInvariant == WalkSpec => []WalkInv
<1>1. WalkInit => WalkInv
  BY DictAssumption, InitWalkInv
<1>2. WalkInv /\ [WalkNext]_allVars => WalkInv'
  BY DictAssumption, WalkAssumption, NextWalkInv
<1> QED BY <1>1, <1>2, PTL DEF WalkSpec

\* The tables in terms of Dict's own properties.
LEMMA GoodIsSafe ==
  ASSUME DictAssumption, WalkInv
  PROVE  KeysOnce /\ UsedCounts /\ RehashFindsBucket
<1>1. Good(dict) /\ dict_can_resize \in BOOLEAN
  BY DEF WalkInv, DictInv
<1>2. /\ dict \in Struct /\ DOMAIN dict.ht = 0..1
      /\ \A t \in 0..1 : GoodTable(dict.ht[t])
      /\ dict.rehashidx \in Nat \cup {-1} /\ dict.iterators \in Nat
  BY <1>1, StructParts DEF Good, Struct
<1>3. TypeOK
  BY <1>1, <1>2 DEF TypeOK, IsTable, GoodTable, Table, Places
<1>4. KeysOnce
  BY <1>1, <1>2 DEF KeysOnce, Placed, GoodTable, Good, Places
<1>5. UsedCounts
  BY <1>2, <1>3 DEF UsedCounts, GoodTable
<1>6. RehashedBehind
  BY <1>1 DEF RehashedBehind, Good, Places
<1>7. dictIsRehashing(dict) /\ dict.ht[0].used # 0 =>
        \E i \in dict.rehashidx..(dict.ht[0].size - 1) : dict.ht[0].bucket[i] # {}
  <2> SUFFICES ASSUME dictIsRehashing(dict), dict.ht[0].used # 0
               PROVE  \E i \in dict.rehashidx..(dict.ht[0].size - 1) : dict.ht[0].bucket[i] # {}
    OBVIOUS
  <2>1. /\ FirstFull(dict) \in Places(dict.ht[0]) /\ FirstFull(dict) >= dict.rehashidx
        /\ dict.ht[0].bucket[FirstFull(dict)] # {}
    BY <1>1, FirstFullFound
  <2>2. FirstFull(dict) \in dict.rehashidx..(dict.ht[0].size - 1)
    BY <1>2, <2>1 DEF Places, GoodTable, Table
  <2> QED BY <2>1, <2>2
<1> QED BY <1>4, <1>5, <1>6, <1>7 DEF RehashFindsBucket

\* A key is in the bucket of its hash and in one table only, with tables that grow,
\* shrink and are rehashed bucket by bucket (dict.c: dictRehash, _dictKeyIndex).
THEOREM WalkKeysOnce == WalkSpec => []KeysOnce
<1>1. WalkInv => KeysOnce
  BY DictAssumption, GoodIsSafe
<1> QED BY <1>1, WalkInvariant, PTL

\* ht[t].used is the number of keys in the table (dict.c: dictRehash trusts it).
THEOREM WalkUsedCounts == WalkSpec => []UsedCounts
<1>1. WalkInv => UsedCounts
  BY DictAssumption, GoodIsSafe
<1> QED BY <1>1, WalkInvariant, PTL

\* The assertion of dictRehash holds: there is a bucket to move.
THEOREM WalkRehashFindsBucket == WalkSpec => []RehashFindsBucket
<1>1. WalkInv => RehashFindsBucket
  BY DictAssumption, GoodIsSafe
<1> QED BY <1>1, WalkInvariant, PTL

\* The safe iterator misses no key that was there all the time (dict.c:300).
THEOREM WalkIterationComplete == WalkSpec => []IterationComplete
<1>1. WalkInv => IterationComplete
  BY DEF WalkInv, IteratorInv, IterationComplete
<1> QED BY <1>1, WalkInvariant, PTL

\* ... and returns none twice.
THEOREM WalkNoDuplicates == WalkSpec => NoDuplicates
<1>1. WalkInv /\ [WalkNext]_allVars => [dictNext => seen' # seen \/ walk'.over]_allVars
  BY DictAssumption, WalkAssumption, NextWalkInv
<1> QED BY <1>1, WalkInvariant, PTL DEF WalkSpec, NoDuplicates

\* The hash table implements the set of keys: every call of dict.c answers as the
\* set does.
THEOREM WalkIsSet == WalkSpec => IsSet
<1>1. WalkInit => Set!Init
  BY DictAssumption, InitWalkInv
<1>2. WalkInv /\ [WalkNext]_allVars => [Set!Next]_(Set!vars)
  BY DictAssumption, WalkAssumption, NextWalkInv
<1> QED BY <1>1, <1>2, WalkInvariant, PTL DEF WalkSpec, IsSet, Set!Spec
=============================================================================
