-------------------------------- MODULE Dict --------------------------------
(***************************************************************************)
(* dict.c: a hash table that grows and shrinks step by step.  While it is  *)
(* rehashed there are two tables, and every call that is not stopped by an *)
(* iterator moves one bucket from the old to the new one.                  *)
(*                                                                         *)
(* A chain is the set of its keys: nothing but the order in which an       *)
(* iterator returns them depends on their order, see DictWalk.  An entry   *)
(* moves as a whole and its value is the caller's: it is left out.  Sizes  *)
(* are powers of two, and h & sizemask is the remainder of h.              *)
(***************************************************************************)
EXTENDS Integers, FiniteSets

CONSTANTS
    Key,
    Hash,                       \* d->type->hashFunction
    DICT_HT_INITIAL_SIZE,
    dict_force_resize_ratio,
    RehashesAtOnce,             \* 100
    MaxSize,                    \* bound: the largest size dictExpand() is asked for
    MaxRounds                   \* bound: rounds of dictRehashMilliseconds

ASSUME DictAssumption ==
    /\ IsFiniteSet(Key)
    /\ Hash \in [Key -> Nat]
    /\ DICT_HT_INITIAL_SIZE \in Nat \ {0}
    /\ dict_force_resize_ratio \in Nat
    /\ RehashesAtOnce \in Nat /\ MaxSize \in Nat /\ MaxRounds \in Nat

VARIABLES
    dict,       \* the struct: two tables, rehashidx, running safe iterators
    dict_can_resize,
    result      \* the last call with its key, and what it returned

vars == <<dict, dict_can_resize, result>>

NewTable(n) == [size |-> n, used |-> 0, bucket |-> [i \in 0..(n - 1) |-> {}]]

dictCreate ==
    [ht |-> [t \in 0..1 |-> NewTable(0)], rehashidx |-> -1, iterators |-> 0]

dictIsRehashing(d) == d.rehashidx # -1
dictSize(d) == d.ht[0].used + d.ht[1].used

Index(table, k) == Hash[k] % table.size

LeastOf(S) == CHOOSE i \in S : \A j \in S : i <= j

\* The sizes that are tried one after the other.
_dictNextPower(n) ==
    LET doubled[i \in 0..n] == IF i = 0 THEN DICT_HT_INITIAL_SIZE ELSE doubled[i - 1] * 2
    IN  LeastOf({s \in {doubled[i] : i \in 0..n} : s >= n})

-----------------------------------------------------------------------------
(***************************************************************************)
(* Resizing and rehashing                                                  *)
(***************************************************************************)
CanExpand(d, size) == ~ dictIsRehashing(d) /\ d.ht[0].used <= size

dictExpand(d, size) ==
    IF ~ CanExpand(d, size) THEN d
    ELSE IF d.ht[0].size = 0
    THEN [d EXCEPT !.ht[0] = NewTable(_dictNextPower(size))]
    ELSE [d EXCEPT !.ht[1] = NewTable(_dictNextPower(size)), !.rehashidx = 0]

dictResize(d) ==
    IF ~ dict_can_resize \/ dictIsRehashing(d) THEN d
    ELSE dictExpand(d, IF d.ht[0].used < DICT_HT_INITIAL_SIZE
                       THEN DICT_HT_INITIAL_SIZE ELSE d.ht[0].used)

_dictExpandIfNeeded(d) ==
    IF dictIsRehashing(d) THEN d
    ELSE IF d.ht[0].size = 0 THEN dictExpand(d, DICT_HT_INITIAL_SIZE)
    ELSE IF /\ d.ht[0].used >= d.ht[0].size
            /\ \/ dict_can_resize
               \/ d.ht[0].used \div d.ht[0].size > dict_force_resize_ratio
    THEN dictExpand(d, d.ht[0].used * 2)
    ELSE d

\* The first bucket from rehashidx on that is not empty.
FirstFull(d) ==
    LeastOf({i \in d.rehashidx..(d.ht[0].size - 1) : d.ht[0].bucket[i] # {}})

Received(table, moved) ==
    [table EXCEPT
        !.used = @ + Cardinality(moved),
        !.bucket = [i \in DOMAIN @ |->
                        @[i] \cup {k \in moved : Index(table, k) = i}]]

\* Mutant: the bucket that has moved is not cleared.
RehashCopies(d) ==
    IF ~ dictIsRehashing(d) \/ d.ht[0].used = 0 THEN d
    ELSE LET i == FirstFull(d)
             moved == d.ht[0].bucket[i]
         IN  [d EXCEPT !.ht[0].used = @ - Cardinality(moved),
                       !.ht[1] = Received(@, moved), !.rehashidx = i + 1]

\* One round of the loop of dictRehash: a bucket moves, or all have moved.
Rehash1(d) ==
    IF ~ dictIsRehashing(d) THEN d
    ELSE IF d.ht[0].used = 0
    THEN [d EXCEPT !.ht = [t \in 0..1 |-> IF t = 0 THEN d.ht[1] ELSE NewTable(0)],
                   !.rehashidx = -1]
    ELSE LET i == FirstFull(d)
             moved == d.ht[0].bucket[i]
         IN  [d EXCEPT !.ht[0].bucket[i] = {},
                       !.ht[0].used = @ - Cardinality(moved),
                       !.ht[1] = Received(@, moved),
                       !.rehashidx = i + 1]

dictRehash(d, n) ==
    LET after[i \in 0..n] == IF i = 0 THEN d ELSE Rehash1(after[i - 1])
    IN  after[n]

\* Mutant: buckets move under a running iterator.
AlwaysStep(d) == Rehash1(d)

_dictRehashStep(d) == IF d.iterators = 0 THEN Rehash1(d) ELSE d

-----------------------------------------------------------------------------
(***************************************************************************)
(* Looking up, adding, deleting                                            *)
(***************************************************************************)

\* The tables that are searched for a key, in this order.
Searched(d) ==
    IF d.ht[0].size = 0 THEN {} ELSE IF dictIsRehashing(d) THEN {0, 1} ELSE {0}

\* The tables the key is found in; the first one is where it is looked up.
Holding(d, k) ==
    {t \in Searched(d) : k \in d.ht[t].bucket[Index(d.ht[t], k)]}
Holds(d, k) == Holding(d, k) # {}

\* _dictKeyIndex may start to rehash before it looks for the key.
Prepared(d) == _dictExpandIfNeeded(_dictRehashStep(d))

\* Mutant: a new key goes to the old table while that is emptied.
InsertOld(d, k) ==
    LET i == Index(d.ht[0], k)
    IN  [d EXCEPT !.ht[0].bucket[i] = @ \cup {k}, !.ht[0].used = @ + 1]

Insert(d, k) ==
    LET t == IF dictIsRehashing(d) THEN 1 ELSE 0
        i == Index(d.ht[t], k)
    IN  [d EXCEPT !.ht[t].bucket[i] = @ \cup {k}, !.ht[t].used = @ + 1]

dictAdd(d, k) ==
    LET p == Prepared(d) IN IF Holds(p, k) THEN p ELSE Insert(p, k)

\* Mutant: the old table is counted down, whichever the key was in.
RemovedFromOld(d, t, k) ==
    LET i == Index(d.ht[t], k)
    IN  [d EXCEPT !.ht[t].bucket[i] = @ \ {k}, !.ht[0].used = @ - 1]

\* The key leaves the table t.
Removed(d, t, k) ==
    LET i == Index(d.ht[t], k)
    IN  [d EXCEPT !.ht[t].bucket[i] = @ \ {k}, !.ht[t].used = @ - 1]

\* Mutant: only the first table is searched.
DeleteOld(d, k) ==
    LET p == _dictRehashStep(d)
    IN  IF 0 \in Holding(p, k) THEN Removed(p, 0, k) ELSE p

dictGenericDelete(d, k) ==
    LET p == _dictRehashStep(d)
    IN  IF Holds(p, k) THEN Removed(p, LeastOf(Holding(p, k)), k) ELSE p

-----------------------------------------------------------------------------
(***************************************************************************)
(* The calls                                                               *)
(***************************************************************************)
Ret(call, code) == <<call, code>>
EntryOf(call, k) == <<call, "entry", k>>

Init ==
    /\ dict = dictCreate
    /\ dict_can_resize = TRUE
    /\ result = Ret(<<"none">>, "none")

\* dictAdd, dictAddRaw
Add(k) ==
    /\ dict' = dictAdd(dict, k)
    /\ result' = Ret(<<"add", k>>, IF Holds(Prepared(dict), k) THEN "err" ELSE "ok")
    /\ UNCHANGED dict_can_resize

\* dictReplace looks for the key again where dictAdd has found it.
Replace(k) ==
    LET added == dictAdd(dict, k)
    IN  /\ IF Holds(Prepared(dict), k)
           THEN /\ dict' = _dictRehashStep(added)
                /\ result' = Ret(<<"replace", k>>, "updated")
           ELSE /\ dict' = added
                /\ result' = Ret(<<"replace", k>>, "added")
        /\ UNCHANGED dict_can_resize

\* dictReplaceRaw
Ensure(k) ==
    LET found == _dictRehashStep(dict)
        d == IF Holds(found, k) THEN found ELSE dictAdd(found, k)
    IN  /\ dict' = d
        /\ result' = IF Holds(d, k) THEN EntryOf(<<"ensure", k>>, k)
                     ELSE Ret(<<"ensure", k>>, "missing")
        /\ UNCHANGED dict_can_resize

\* dictDelete, dictDeleteNoFree
Delete(k) ==
    /\ dict' = dictGenericDelete(dict, k)
    /\ result' = Ret(<<"delete", k>>, IF Holds(_dictRehashStep(dict), k) THEN "ok" ELSE "err")
    /\ UNCHANGED dict_can_resize

\* dictFind, dictFetchValue
Find(k) ==
    /\ dict' = _dictRehashStep(dict)
    /\ result' = IF Holds(dict', k) THEN EntryOf(<<"find", k>>, k)
                 ELSE Ret(<<"find", k>>, "missing")
    /\ UNCHANGED dict_can_resize

KeysOf(table) == UNION {table.bucket[i] : i \in 0..(table.size - 1)}

\* A bucket is drawn until one is not empty, then one of its entries.
dictGetRandomKey ==
    /\ dict' = IF dictSize(dict) = 0 THEN dict ELSE _dictRehashStep(dict)
    /\ IF dictSize(dict) = 0 THEN result' = Ret(<<"random">>, "missing")
       ELSE \E t \in Searched(dict') :
                \E k \in KeysOf(dict'.ht[t]) : result' = EntryOf(<<"random">>, k)
    /\ UNCHANGED dict_can_resize

\* dictRelease and dictCreate end in the same state as dictEmpty.
dictEmpty ==
    /\ dict' = dictCreate
    /\ result' = Ret(<<"empty">>, "ok")
    /\ UNCHANGED dict_can_resize

Resize ==
    /\ dict' = dictResize(dict)
    /\ UNCHANGED <<dict_can_resize, result>>

Expand(size) ==
    /\ dict' = dictExpand(dict, size)
    /\ UNCHANGED <<dict_can_resize, result>>

\* A number of steps at once, again until all is moved or the time is over.
RehashMilliseconds ==
    /\ \E rounds \in 1..MaxRounds : dict' = dictRehash(dict, rounds * RehashesAtOnce)
    /\ UNCHANGED <<dict_can_resize, result>>

\* dictEnableResize, dictDisableResize
SetResize(b) ==
    /\ dict_can_resize' = b
    /\ UNCHANGED <<dict, result>>

\* The calls that a safe iterator allows besides it.
Call ==
    \/ \E k \in Key : Add(k) \/ Replace(k) \/ Ensure(k) \/ Find(k)
    \/ dictGetRandomKey \/ Resize
    \/ \E size \in 1..MaxSize : Expand(size)
    \/ \E b \in BOOLEAN : SetResize(b)

Next ==
    \/ Call
    \/ \E k \in Key : Delete(k)
    \/ dictEmpty \/ RehashMilliseconds

Spec == Init /\ [][Next]_vars

-----------------------------------------------------------------------------
(***************************************************************************)
(* Properties                                                              *)
(***************************************************************************)
IsTable(table) ==
    /\ table.size \in Nat /\ table.used \in Nat
    /\ table.bucket \in [0..(table.size - 1) -> SUBSET Key]

TypeOK ==
    /\ DOMAIN dict.ht = 0..1
    /\ \A t \in 0..1 : IsTable(dict.ht[t])
    /\ dict.rehashidx \in Nat \cup {-1}
    /\ dict.iterators \in Nat
    /\ dict_can_resize \in BOOLEAN

\* Every key is in the bucket its hash leads to, of the table it is in: it can be
\* found there with the mask of that table.
Placed ==
    \A t \in 0..1 : \A i \in 0..(dict.ht[t].size - 1) :
        \A k \in dict.ht[t].bucket[i] : Index(dict.ht[t], k) = i

\* A key is where it is looked for, and in one table only: it would be found again
\* after it was deleted.
KeysOnce ==
    /\ Placed
    /\ KeysOf(dict.ht[0]) \cap KeysOf(dict.ht[1]) = {}

\* d->ht[t].used counts the keys: dictRehash trusts it to know that there is
\* another bucket to move, and dictGetRandomKey that there is one to find.
UsedCounts ==
    /\ TypeOK
    /\ \A t \in 0..1 : dict.ht[t].used = Cardinality(KeysOf(dict.ht[t]))

\* The part of the old table behind rehashidx is empty, the new table exists
\* exactly while rehashing, and a table that holds keys has buckets.
RehashedBehind ==
    /\ dictIsRehashing(dict) =>
        /\ \A i \in 0..(dict.ht[0].size - 1) :
                i < dict.rehashidx => dict.ht[0].bucket[i] = {}
        /\ dict.ht[0].size > 0 /\ dict.ht[1].size > 0
    /\ ~ dictIsRehashing(dict) => dict.ht[1] = NewTable(0)

\* The assertion of dictRehash, and that its loop ends within the table.
RehashFindsBucket ==
    /\ RehashedBehind
    /\ dictIsRehashing(dict) /\ dict.ht[0].used # 0 =>
        \E i \in dict.rehashidx..(dict.ht[0].size - 1) : dict.ht[0].bucket[i] # {}
=============================================================================
