-------------------------- MODULE StoreRefinement --------------------------
(***************************************************************************)
(* The properties of the commands, and the abstract store they implement   *)
(* when the server is configured with a fixed length.                      *)
(***************************************************************************)
EXTENDS SkipListWalk

\* The map a client sees: the keys that have a node, with their strings.
Stored == [k \in Key |-> IF height[k] > 0 THEN val[k] ELSE NULL]

Store == INSTANCE KVStore WITH kv <- Stored, NoVal <- NULL

\* Every command of a fixed-length server, whatever was put and deleted before,
\* does and answers what a sorted map does and answers for the same command with
\* the same arguments, and no sequence of commands crashes the server.
StoreSpec == Store!Spec

\* deleteCommand, putCommand: the hash table never forgets a key the list
\* still has, so no node can be left that no command can reach.
NodesIndexed == Nodes \subseteq dict

\* getCommand and deleteCommand ask the hash table whether there is something
\* to find: it and the skiplist always hold the same keys.
IndexAgreement == Nodes = dict

\* show answers sl->length: with a fixed length and insertions that always find
\* memory it counts the keys of the hash table.
LengthCounts == length = Cardinality(dict)

\* No sequence of commands makes a fixed-length server free a string twice or
\* follow a null pointer: the process only ends by a shutdown.
NeverCrashes == status # "crashed"

\* A put that is answered OK can be read back: the next search for the key
\* returns the value that was put.
PutIsStored ==
    [][\A key \in Key, v \in Val :
          putCommand(key, v) /\ reply' = <<"ok">> => search_skiplist(key)' = v]_vars
=============================================================================
