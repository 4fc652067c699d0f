---------------------------- MODULE SkipListWalk ----------------------------
(***************************************************************************)
(* The search loop of skiplist.c as it is written: from the top level      *)
(* down, each level continuing where the level above stopped, node by      *)
(* node.  Module SkipList says where the loop ends and not how it gets     *)
(* there; WalkAgrees is the statement that this is the same.               *)
(***************************************************************************)
EXTENDS Commands

Smaller(q, key) == q # NULL /\ slKeyCompare(q, key) < 0

\* while ((q = x->next[i]) && slKeyCompare(q->key, key) < 0) x = q;
Advance(i, key) ==
    LET from[x \in Key \cup {HEAD}] ==
            IF Smaller(next[x][i], key) THEN from[next[x][i]] ELSE x
    IN  from

\* Mutant: a level starts behind the node that ended the level above.
OvershootTo(key) ==
    LET over(x, i) == IF next[x][i] = NULL THEN x ELSE next[x][i]
        at[i \in 0..level] ==
            IF i = level THEN HEAD
            ELSE Advance(i, key)[IF i + 1 = level THEN HEAD
                                 ELSE over(at[i + 1], i + 1)]
    IN  at

\* x when the loop over level i ends: update[i] of insert and delete.
WalkTo(key) ==
    LET at[i \in 0..level] ==
            IF i = level THEN HEAD ELSE Advance(i, key)[at[i + 1]]
    IN  at

\* The node whose string search_skiplist returns and replace_skiplist replaces:
\* it stops on the first level that lands on the key, NULL without one.
WalkSearch(key) ==
    LET q(i) == next[WalkTo(key)[i]][i]
        at[i \in -1..level] ==
            IF i = -1 THEN NULL
            ELSE IF Hit(q(i), key) THEN q(i) ELSE at[i - 1]
    IN  at[level - 1]

\* Whatever list the operations have built, each search loop visits only nodes
\* that exist and stops at the node the operations of SkipList are stated with:
\* continuing from the level above skips no node it has to stop at.
WalkAgrees ==
    \A key \in Key :
        /\ \A i \in 0..(level - 1) : WalkTo(key)[i] = update(i, key)
        /\ WalkSearch(key) = SearchNode(key)
=============================================================================
