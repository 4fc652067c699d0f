------------------------------ MODULE KeyOrder ------------------------------
(***************************************************************************)
(* Keys as the skiplist and the hash table see them.  A key is an opaque   *)
(* value with a length and a place in the byte order memcmp() gives the    *)
(* keys of one length; nothing in the server looks at a key in any other   *)
(* way.                                                                    *)
(***************************************************************************)
EXTENDS Integers

CONSTANTS
    Key,        \* the byte strings clients use as keys
    KeyLen,     \* KeyLen[k]: sdslen() of k
    KeyRank,    \* KeyRank[k]: place of k in the memcmp() order of its length
    MaxKeyRank  \* there are finitely many keys of a length

ASSUME KeyAssumption ==
    /\ MaxKeyRank \in Nat
    /\ KeyLen \in [Key -> Nat]
    /\ KeyRank \in [Key -> 0..MaxKeyRank]
    /\ \A j, k \in Key :
          KeyLen[j] = KeyLen[k] /\ KeyRank[j] = KeyRank[k] => j = k

\* memcmp() of two keys of the same length: only its sign is ever used.
memcmp(j, k) == KeyRank[j] - KeyRank[k]

\* Mutant: shorter keys come first.
lengthFirstCompare(j, k) ==
    IF KeyLen[j] # KeyLen[k] THEN KeyLen[j] - KeyLen[k] ELSE memcmp(j, k)

\* The skiplist's comparison: keys of different lengths compare as EQUAL.
slKeyCompare(j, k) == IF KeyLen[j] # KeyLen[k] THEN 0 ELSE memcmp(j, k)

\* The hash table's comparison, for which keys of different lengths differ.
dictSdsKeyCompare(j, k) == KeyLen[j] = KeyLen[k] /\ memcmp(j, k) = 0
=============================================================================
