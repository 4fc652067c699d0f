------------------------------ MODULE KVStore ------------------------------
(***************************************************************************)
(* What a tadpole server in fixed-length mode promises its clients: a map  *)
(* from keys to values.  Keys and values of another length are refused,    *)
(* scan returns the keys of a range in ascending order and show the number *)
(* of keys with the smallest and the largest of them.  The command is part *)
(* of the state, so that a command can only do and answer what the map     *)
(* does and answers for its own arguments.                                 *)
(***************************************************************************)
EXTENDS KeyOrder, FiniteSets, Sequences

CONSTANTS
    Val, ValLen,        \* the values clients store and their lengths
    key_len, val_len,   \* the configured lengths
    NoVal               \* the "value" of a key the store does not have

VARIABLES
    kv,                 \* the map
    cmd,                \* the last command, with its arguments
    status,             \* "up", or "exited" after a shutdown
    reply               \* what the last command answered

kvVars == <<kv, cmd, status, reply>>

Known == {k \in Key : kv[k] # NoVal}
LegalKey == {k \in Key : KeyLen[k] = key_len}
LegalVal == {v \in Val : ValLen[v] = val_len}

\* The sequence of a set of keys of one length, in ascending order.
Ascending(K) ==
    CHOOSE s \in [1..Cardinality(K) -> K] :
        \A i, j \in 1..Cardinality(K) : i < j => KeyRank[s[i]] < KeyRank[s[j]]

Between(start, end) ==
    {k \in Known : KeyRank[start] <= KeyRank[k] /\ KeyRank[k] <= KeyRank[end]}

Init ==
    /\ kv = [k \in Key |-> NoVal]
    /\ cmd = <<"none">>
    /\ status = "up"
    /\ reply = <<"none">>

Answer(r) ==
    /\ reply' = r
    /\ UNCHANGED <<kv, status>>

Refuse == Answer(<<"illegal">>)

Get(k) ==
    /\ cmd' = <<"get", k>>
    /\ \/ k \notin LegalKey /\ Refuse
       \/ /\ k \in LegalKey
          /\ Answer(IF k \in Known THEN <<"value", kv[k]>> ELSE <<"null">>)

Put(k, v) ==
    /\ cmd' = <<"put", k, v>>
    /\ \/ (k \notin LegalKey \/ v \notin LegalVal) /\ Refuse
       \/ /\ k \in LegalKey /\ v \in LegalVal
          /\ kv' = [kv EXCEPT ![k] = v]
          /\ reply' = <<"ok">>
          /\ UNCHANGED status

Delete(k) ==
    /\ cmd' = <<"delete", k>>
    /\ \/ k \notin LegalKey /\ Refuse
       \/ /\ k \in LegalKey
          /\ kv' = [kv EXCEPT ![k] = NoVal]
          /\ reply' = <<"deleted", IF k \in Known THEN 1 ELSE 0>>
          /\ UNCHANGED status

Scan(start, end) ==
    /\ cmd' = <<"scan", start, end>>
    /\ \/ ~ ({start, end} \subseteq LegalKey) /\ Refuse
       \/ /\ {start, end} \subseteq LegalKey
          /\ Answer(IF KeyRank[start] > KeyRank[end] THEN <<"cursorerr">>
                    ELSE <<"keys", Ascending(Between(start, end))>>)

Show ==
    LET sorted == Ascending(Known)
        n == Cardinality(Known)
    IN  /\ cmd' = <<"show">>
        /\ Answer(IF n = 0 THEN <<"info", 0>>
                  ELSE <<"info", n, sorted[1], sorted[n]>>)

Ping ==
    /\ cmd' = <<"ping">>
    /\ Answer(<<"pong">>)

Shutdown ==
    /\ cmd' = <<"shutdown">>
    /\ status' = "exited"
    /\ UNCHANGED <<kv, reply>>

Next ==
    /\ status = "up"
    /\ \/ \E k \in Key : Get(k) \/ Delete(k)
       \/ \E k \in Key, v \in Val : Put(k, v)
       \/ \E start, end \in Key : Scan(start, end)
       \/ Show \/ Ping \/ Shutdown

Spec == Init /\ [][Next]_kvVars
=============================================================================
