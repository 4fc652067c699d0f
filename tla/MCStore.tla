------------------------------ MODULE MCStore ------------------------------
(***************************************************************************)
(* Instances of the commands for TLC: ranks and lengths of a few keys.     *)
(***************************************************************************)
EXTENDS StoreRefinement, TLC

CONSTANTS k1, k2, k3, long, v1, v2, wide

\* Three keys of the configured length and a longer one.
MCKey == {k1, k2, k3, long}
MCKeyLen == [k \in MCKey |-> IF k = long THEN 2 ELSE 1]
MCKeyRank == (k1 :> 0) @@ (k2 :> 1) @@ (k3 :> 2) @@ (long :> 1)

\* Two values of the configured length and a longer one.
MCVal == {v1, v2, wide}
MCValLen == [v \in Val |-> IF v = wide THEN 2 ELSE 1]

\* With no configured length: two keys of each of two lengths.
FlexKeyLen == [k \in MCKey |-> IF k \in {k1, k2} THEN 1 ELSE 2]
FlexKeyRank == (k1 :> 0) @@ (k2 :> 1) @@ (k3 :> 0) @@ (long :> 1)

\* A single value, where the values do not matter.
MCVal1 == {v1}

\* Without a configured length sl->length can grow for ever: up to here.
MaxLength == 4

BoundedNext == Next /\ length' <= MaxLength
BoundedSpec == Init /\ [][BoundedNext]_vars
=============================================================================
