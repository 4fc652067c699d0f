------------------------------ MODULE DictWalk ------------------------------
(***************************************************************************)
(* Walking over a dict while it is used: with the safe iterator, and with  *)
(* dictScan, which keeps nothing but a cursor between its calls.  One walk *)
(* at a time.                                                              *)
(*                                                                         *)
(* The order of a chain is found out while it is walked: next is the key   *)
(* of iter->nextEntry, rest are the keys behind it.  New entries are put   *)
(* in front of a chain and are never among them.                           *)
(***************************************************************************)
EXTENDS Dict, FiniteSetsExt

CONSTANTS
    NULL,
    WORD            \* bits of an unsigned long

ASSUME WalkAssumption == NULL \notin Key

VARIABLES
    walk,           \* the dictIterator, or the cursor of the scan
    seen,           \* keys the iterator returned that were not deleted since
    missing,        \* keys there since the walk began that it did not return yet
    misled          \* dictScan was called with a cursor it cannot make use of

allVars == <<dict, dict_can_resize, result, walk, seen, missing, misled>>

NoWalk == [kind |-> "none"]
KeysIn(d) == KeysOf(d.ht[0]) \cup KeysOf(d.ht[1])

WalkInit ==
    Init /\ walk = NoWalk /\ seen = {} /\ missing = {} /\ misled = FALSE

Begin(w) ==
    /\ walk = NoWalk
    /\ walk' = w /\ seen' = {} /\ missing' = KeysIn(dict) /\ misled' = FALSE
    /\ UNCHANGED vars

End ==
    /\ walk' = NoWalk /\ seen' = {} /\ missing' = {} /\ misled' = FALSE
    /\ UNCHANGED <<dict_can_resize, result>>

-----------------------------------------------------------------------------
(***************************************************************************)
(* The safe iterator                                                       *)
(***************************************************************************)
Iterating == walk.kind = "iterator"
Started == walk.index # -1 \/ walk.table # 0

dictGetSafeIterator ==
    Begin([kind |-> "iterator", table |-> 0, index |-> -1,
           next |-> NULL, rest |-> {}, over |-> FALSE])

\* The buckets that are still to be visited: table 1 only while rehashing.
Ahead ==
    {p \in Searched(dict) \X (0..(dict.ht[0].size + dict.ht[1].size)) :
        LET t == p[1]
            i == p[2]
        IN  /\ i < dict.ht[t].size /\ dict.ht[t].bucket[i] # {}
            /\ t > walk.table \/ (t = walk.table /\ i > walk.index)}
FirstAhead ==
    CHOOSE p \in Ahead : \A q \in Ahead : p[1] < q[1] \/ (p[1] = q[1] /\ p[2] <= q[2])

\* Mutant: the rest of the chain is forgotten.
ReturnHead(iter, k, behind) ==
    /\ seen' = seen \cup {k} /\ missing' = missing \ {k}
    /\ walk' = [iter EXCEPT !.next = NULL, !.rest = {}]

\* The entry that follows the returned one is saved before it is returned.
Return(iter, k, behind) ==
    /\ seen' = seen \cup {k} /\ missing' = missing \ {k}
    /\ IF behind = {} THEN walk' = [iter EXCEPT !.next = NULL, !.rest = {}]
       ELSE \E n \in behind :
                walk' = [iter EXCEPT !.next = n, !.rest = behind \ {n}]

\* The first call stops the rehashing.
dictNext ==
    /\ Iterating /\ ~ walk.over
    /\ dict' = IF Started THEN dict ELSE [dict EXCEPT !.iterators = @ + 1]
    /\ IF walk.next # NULL THEN Return(walk, walk.next, walk.rest)
       ELSE IF Ahead = {}
       THEN walk' = [walk EXCEPT !.over = TRUE, !.index = @ + 1] /\ UNCHANGED <<seen, missing>>
       ELSE LET t == FirstAhead[1]
                i == FirstAhead[2]
                chain == dict.ht[t].bucket[i]
            IN  \E k \in chain :
                    Return([walk EXCEPT !.table = t, !.index = i], k, chain \ {k})
    /\ UNCHANGED <<dict_can_resize, result, misled>>

dictReleaseIterator ==
    /\ Iterating
    /\ dict' = IF Started THEN [dict EXCEPT !.iterators = @ - 1] ELSE dict
    /\ End

-----------------------------------------------------------------------------
(***************************************************************************)
(* dictScan: the cursor counts with its bits in reverse                    *)
(***************************************************************************)
Scanning == walk.kind = "scan"

BeginScan == Begin([kind |-> "scan", v |-> 0, over |-> FALSE])

rev(v) ==
    MapThenSumSet(LAMBDA i : ((v \div 2^i) % 2) * 2^(WORD - 1 - i), 0..(WORD - 1))

\* v |= ~m0, and the increment of the reversed cursor.
Advanced(v, size) ==
    rev((rev((v % size) + (2^WORD - size)) + 1) % 2^WORD)

\* Mutant: only the bucket of the cursor itself.
OneExpansion(v, small, large) == {v % large}

\* The expansions of v in the larger table: the bits that the smaller mask does
\* not cover count up from where they are, until they are zero again.
Expansions(v, small, large) ==
    {(v % small) + (small * j) : j \in ((v % large) \div small)..(large \div small - 1)}

Emitted(t, places) == UNION {dict.ht[t].bucket[i] : i \in places}

\* A cursor from the time of larger tables has bits that only the larger mask
\* covers; they were counted in reverse, and the loop counts them up.
Misleading(v) ==
    /\ dictIsRehashing(dict)
    /\ LET sizes == {dict.ht[0].size, dict.ht[1].size}
           small == LeastOf(sizes)
       IN  \E large \in sizes :
                large >= 4 * small /\ (v % large) \div small # 0

dictScan ==
    /\ Scanning /\ ~ walk.over
    /\ LET small == IF dictIsRehashing(dict) /\ dict.ht[0].size > dict.ht[1].size
                    THEN 1 ELSE 0
           size == dict.ht[small].size
           larger == dict.ht[1 - small].size
           \* after the expansions the bits above both masks may differ, which
           \* Advanced sets anyway
           v == Advanced(walk.v, size)
       IN  IF dictSize(dict) = 0
           THEN walk' = [walk EXCEPT !.v = 0, !.over = TRUE] /\ UNCHANGED missing
           ELSE /\ walk' = [walk EXCEPT !.v = v, !.over = (v = 0)]
                /\ missing' = missing \ (Emitted(small, {walk.v % size})
                        \cup IF dictIsRehashing(dict)
                             THEN Emitted(1 - small,
                                          Expansions(walk.v, size, larger))
                             ELSE {})
    /\ misled' = (misled \/ Misleading(walk.v))
    /\ UNCHANGED <<vars, seen>>

EndScan == Scanning /\ End /\ UNCHANGED dict

-----------------------------------------------------------------------------
(***************************************************************************)
(* The table is used during the walk                                       *)
(***************************************************************************)
Beside(iter) ==
    /\ walk' = iter
    /\ seen' = seen \cap KeysIn(dict')
    /\ missing' = missing \cap KeysIn(dict')
    /\ UNCHANGED misled

\* Not the entry that the iterator has saved.
DeleteBeside(k) ==
    IF Iterating
    THEN k # walk.next /\ Delete(k) /\ Beside([walk EXCEPT !.rest = @ \ {k}])
    ELSE Delete(k) /\ Beside(walk)

\* dictEmpty frees what an iterator is at, dictRehashMilliseconds() does not ask
\* whether there is one: neither is called besides an iterator.
WalkNext ==
    \/ dictGetSafeIterator \/ dictNext \/ dictReleaseIterator
    \/ BeginScan \/ dictScan \/ EndScan
    \/ Call /\ Beside(walk)
    \/ \E k \in Key : DeleteBeside(k)
    \/ ~ Iterating /\ (dictEmpty \/ RehashMilliseconds) /\ Beside(walk)

WalkSpec == WalkInit /\ [][WalkNext]_allVars

-----------------------------------------------------------------------------
(***************************************************************************)
(* Properties                                                              *)
(***************************************************************************)

\* dict.c:300: rehashing stops for the iterator so that no element is missed:
\* when dictNext has returned NULL, every key that was there all the time has
\* been returned, though the table may have begun to grow in between.
IterationComplete == Iterating /\ walk.over => missing = {}

\* ... or duplicated: no key is returned a second time, unless it was deleted and
\* added again.
NoDuplicates == [][dictNext => seen' # seen \/ walk'.over]_allVars

\* dict.c:658: all elements that are present from the start of a scan to its end
\* get returned.
ScanComplete == Scanning /\ walk.over => missing = {}

\* What dictScan does guarantee: keys are missed only if it was called while
\* one table was four times as large as the other, or more, with a cursor from the
\* time of tables larger than the smaller one.
ScanCompleteUnlessMisled == ~ misled => ScanComplete

\* Every call answers as the set of keys does, walked over or not.
Set == INSTANCE DictSet WITH keys <- KeysIn(dict), answer <- result
IsSet == Set!Spec
=============================================================================
