------------------------------ MODULE SkipList ------------------------------
(***************************************************************************)
(* skiplist.c: the list of nodes that keeps the key/value pairs in order.  *)
(* A node is named by its key, HEAD is the sentinel, and next[x][i] is     *)
(* x->next[i] for the levels i < height[x] the node was allocated with     *)
(* (NULL above them).  The operations are actions on these variables; the  *)
(* commands of module Commands call them.                                  *)
(*                                                                         *)
(* The search loop of the operations is stated by where it stops, in       *)
(* StopsAt; module SkipListWalk has the loop itself and checks that both   *)
(* agree in every reachable state.                                         *)
(***************************************************************************)
EXTENDS KeyOrder, FiniteSets

CONSTANTS
    Val,            \* the values clients store
    MAX_LEVEL,      \* number of levels the head node has
    HEAD, NULL,     \* the sentinel node, the null pointer
    FREED           \* the content of a string that was freed

ASSUME SkipListAssumption ==
    /\ MAX_LEVEL \in Nat \ {0}
    /\ HEAD \notin Key
    /\ NULL \notin Key \cup {HEAD} \cup Val
    /\ FREED \notin Val \cup {NULL}

VARIABLES
    level,          \* sl->level
    length,         \* sl->length
    height,         \* height[k]: levels of k's node, 0 when k has no node
    next,           \* next[x][i]: x->next[i]
    val             \* val[k]: the string k's node points to

listVars == <<level, length, height, next, val>>

Levels == 0..(MAX_LEVEL - 1)
Nodes  == {k \in Key : height[k] > 0}

SkipListTypeOK ==
    /\ level \in 0..MAX_LEVEL
    /\ length \in Int
    /\ height \in [Key -> 0..MAX_LEVEL]
    /\ next \in [Key \cup {HEAD} -> [Levels -> Key \cup {NULL}]]
    /\ val \in [Key -> Val \cup {FREED, NULL}]

create_skiplist ==
    /\ level = 1
    /\ length = 0
    /\ height = [k \in Key |-> 0]
    /\ next = [x \in Key \cup {HEAD} |-> [i \in Levels |-> NULL]]
    /\ val = [k \in Key |-> NULL]

-----------------------------------------------------------------------------
(***************************************************************************)
(* Searching.  The loop moves along level i while the next key is smaller. *)
(***************************************************************************)

OnLevel(x, i) == x = HEAD \/ (x \in Key /\ height[x] > i)

StopsAt(x, i, key) ==
    /\ OnLevel(x, i)
    /\ x # HEAD => slKeyCompare(x, key) < 0
    /\ next[x][i] # NULL => slKeyCompare(next[x][i], key) >= 0

\* update[i]: the last node before key on level i
update(i, key) == CHOOSE x \in Key \cup {HEAD} : StopsAt(x, i, key)

\* q when the loop over level i ends, and when the whole search ends.
Landing(i, key) == next[update(i, key)][i]
Target(key) == IF level = 0 THEN NULL ELSE Landing(0, key)

Hit(q, key) == q # NULL /\ slKeyCompare(q, key) = 0

\* Mutant: the node the highest level lands on is returned for the key.
FirstLanding(key) ==
    LET landed == {i \in 0..(level - 1) : Landing(i, key) # NULL}
    IN  IF landed = {} THEN NULL
        ELSE Landing(CHOOSE i \in landed : \A j \in landed : j <= i, key)

\* The search returns from the highest level on which it lands on the key.
HitLevels(key) == {i \in 0..(level - 1) : Hit(Landing(i, key), key)}
SearchNode(key) ==
    IF HitLevels(key) = {} THEN NULL
    ELSE LET top == CHOOSE i \in HitLevels(key) :
                        \A j \in HitLevels(key) : j <= i
         IN  Landing(top, key)

\* The string search_skiplist returns, NULL when it finds no node.
search_skiplist(key) ==
    IF SearchNode(key) = NULL THEN NULL ELSE val[SearchNode(key)]

\* while (node->next[0]) node = node->next[0];
LastFrom[x \in Key] == IF next[x][0] = NULL THEN x ELSE LastFrom[next[x][0]]

\* sl->head->next[sl->level - 1], from which the search for the last node
\* starts.  Both functions dereference it without a check.
MaxStart == IF level = 0 THEN NULL ELSE next[HEAD][level - 1]
find_max_skiplist == LastFrom[MaxStart]

-----------------------------------------------------------------------------
(***************************************************************************)
(* Updating.                                                               *)
(***************************************************************************)

\* Mutant: the level is capped one too high.
TooHighLevel == 1..(MAX_LEVEL + 1)

\* The coin tosses can end at any level.
gen_random_level == 1..MAX_LEVEL

\* A node with an equal key gets the caller's string itself, which the caller
\* frees as soon as its request is done; the length grows all the same.
OverwriteNode(q) ==
    /\ val' = [val EXCEPT ![q] = FREED]
    /\ length' = length + 1
    /\ UNCHANGED <<level, height, next>>

\* Mutant: every level is linked behind the predecessor on the lowest.
LowestPredecessor(i, key) == update(0, key)

\* Levels the list did not have yet start at the head.
Predecessor(i, key) == IF i < level THEN update(i, key) ELSE HEAD

LinkNode(key, v, target_level) ==
    /\ level' = IF target_level > level THEN target_level ELSE level
    /\ height' = [height EXCEPT ![key] = target_level]
    /\ val' = [val EXCEPT ![key] = v]
    /\ length' = length + 1
    /\ next' = [x \in Key \cup {HEAD} |-> [i \in Levels |->
                  IF x = key
                  THEN IF i < target_level
                       THEN next[Predecessor(i, key)][i] ELSE NULL
                  ELSE IF i < target_level /\ x = Predecessor(i, key)
                       THEN key ELSE next[x][i]]]

\* The node cannot be allocated: the list has its new level already.
LinkFails(target_level) ==
    /\ level' = IF target_level > level THEN target_level ELSE level
    /\ UNCHANGED <<length, height, next, val>>

insert_skiplist(key, v, target_level, allocated) ==
    IF Hit(Target(key), key) THEN OverwriteNode(Target(key))
    ELSE IF allocated THEN LinkNode(key, v, target_level)
    ELSE LinkFails(target_level)

Unlinked(x, i, q, key) == i < level /\ x = update(i, key) /\ next[x][i] = q

\* Mutants: no level is ever given up; each level that starts with q is.
KeptLevels(q) == {}
FirstLevels(q) == {i \in 0..(level - 1) : next[HEAD][i] = q}

\* The levels of the list that lose their last node with q.
EmptiedLevels(q) ==
    {i \in 0..(level - 1) : next[HEAD][i] = q /\ next[q][i] = NULL}

Bypass(q, key) ==
    [x \in Key \cup {HEAD} |-> [i \in Levels |->
        IF x = q THEN NULL
        ELSE IF Unlinked(x, i, q, key) THEN next[q][i]
        ELSE next[x][i]]]

\* Mutant: the length is not counted down.
UnlinkUncounted(q, key) ==
    /\ next' = Bypass(q, key)
    /\ level' = level - Cardinality(EmptiedLevels(q))
    /\ height' = [height EXCEPT ![q] = 0]
    /\ val' = [val EXCEPT ![q] = NULL]
    /\ UNCHANGED length

UnlinkNode(q, key) ==
    /\ next' = Bypass(q, key)
    /\ level' = level - Cardinality(EmptiedLevels(q))
    /\ height' = [height EXCEPT ![q] = 0]
    /\ val' = [val EXCEPT ![q] = NULL]
    /\ length' = length - 1

delete_skiplist(key) ==
    IF Hit(Target(key), key) THEN UnlinkNode(Target(key), key)
    ELSE UNCHANGED listVars

replace_skiplist(key, newVal) ==
    /\ val' = IF SearchNode(key) = NULL THEN val
              ELSE [val EXCEPT ![SearchNode(key)] = newVal]
    /\ UNCHANGED <<level, length, height, next>>

-----------------------------------------------------------------------------
(***************************************************************************)
(* What the operations rely on and keep: on every level, next leads to the *)
(* immediate successor among the nodes that reach the level.               *)
(***************************************************************************)

On(i) == {k \in Nodes : height[k] > i}
Rank(x) == IF x = HEAD THEN -1 ELSE KeyRank[x]

\* next[x][i] is the node that follows x on level i, NULL when x is the last.
Successor(x, i) ==
    IF next[x][i] = NULL
    THEN \A k \in On(i) : Rank(k) <= Rank(x)
    ELSE /\ next[x][i] \in On(i)
         /\ Rank(x) < Rank(next[x][i])
         /\ \A k \in On(i) : Rank(k) <= Rank(x) \/ Rank(next[x][i]) <= Rank(k)

\* Each level links exactly the nodes that reach it, in ascending order: no
\* operation on skiplist.c's forward pointers loses, repeats or misplaces one.
Linked == \A i \in Levels : \A x \in On(i) \cup {HEAD} : Successor(x, i)

\* The nodes' keys have one length, whatever the lengths clients send: a key of
\* another length compares as equal to a node and never gets a node of its own.
SameLength == \A j, k \in Nodes : KeyLen[j] = KeyLen[k]

\* The searches start at sl->level, so no node may stand higher than that.
Reachable == \A k \in Nodes : height[k] <= level

\* find_max_skiplist starts at the first node of the top level, which has to
\* exist: no level of sl->level is empty, but the first one of a new list.
LevelTight ==
    \A i \in 0..(level - 1) : next[HEAD][i] # NULL \/ (i = 0 /\ Nodes = {})
=============================================================================
