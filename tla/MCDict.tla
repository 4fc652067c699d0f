------------------------------- MODULE MCDict -------------------------------
(***************************************************************************)
(* An instance of DictWalk: three keys, whose hashes collide in small      *)
(* tables and, two of them, in tables of four.                             *)
(***************************************************************************)
EXTENDS DictWalk

CONSTANTS a, b, c

Keys == {a, b, c}
HashCollide == [k \in Keys |-> CASE k = a -> 1 [] k = b -> 3 [] k = c -> 5]

\* What the last call returned says nothing of the steps to come; it is left out
\* of the comparison of states during a walk.
View == <<dict, dict_can_resize, walk, seen, missing, misled,
          IF walk = NoWalk THEN result ELSE NULL>>
=============================================================================
