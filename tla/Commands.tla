------------------------------ MODULE Commands ------------------------------
(***************************************************************************)
(* commands.c: the commands, over the skiplist and the hash table of its   *)
(* keys.  The server runs one command at a time, from the arguments to the *)
(* reply.  What the C leaves undefined is a choice of what the process can *)
(* do: go on, or crash.                                                    *)
(***************************************************************************)
EXTENDS SkipList, Sequences

CONSTANTS
    ValLen,             \* ValLen[v]: sdslen() of v
    FixedLength,        \* the config file has a fixed-length line
    key_len, val_len,   \* its two numbers
    MallocCanFail       \* malloc() of a node can return NULL

ASSUME CommandsAssumption ==
    /\ ValLen \in [Val -> Nat]
    /\ FixedLength \in BOOLEAN
    /\ key_len \in Nat /\ val_len \in Nat
    /\ MallocCanFail \in BOOLEAN

VARIABLES
    dict,       \* the keys of server.dict
    cmd,        \* the request of the last command: its name and arguments
    status,     \* "up", "crashed" or "exited"
    reply       \* what the last command sent to its client

vars == <<listVars, dict, cmd, status, reply>>

LegalKey(k) == FixedLength => KeyLen[k] = key_len
LegalVal(v) == FixedLength => ValLen[v] = val_len

TypeOK ==
    /\ SkipListTypeOK
    /\ dict \subseteq Key
    /\ status \in {"up", "crashed", "exited"}

Init ==
    /\ create_skiplist
    /\ dict = {}
    /\ cmd = <<"none">>
    /\ status = "up"
    /\ reply = <<"none">>

-----------------------------------------------------------------------------
Answer(r) ==
    /\ reply' = r
    /\ status' = "up"

\* The process dies in the middle of the command and its memory is gone.
Crash ==
    /\ status' = "crashed"
    /\ reply' = <<"none">>
    /\ UNCHANGED <<listVars, dict>>

Refuse ==
    /\ Answer(<<"illegal">>)
    /\ UNCHANGED <<listVars, dict>>

pingCommand ==
    /\ Answer(<<"pong">>)
    /\ UNCHANGED <<listVars, dict>>

\* convertToResp() asks for the length of what the search returned.
GetFound(key) ==
    LET res == search_skiplist(key)
    IN  \/ /\ res # NULL
           /\ Answer(<<"value", res>>)
           /\ UNCHANGED <<listVars, dict>>
        \/ /\ res \in {NULL, FREED}
           /\ Crash

GetMissing ==
    /\ Answer(<<"null">>)
    /\ UNCHANGED <<listVars, dict>>

getCommand(key) ==
    \/ ~ LegalKey(key) /\ Refuse
    \/ LegalKey(key) /\ key \notin dict /\ GetMissing
    \/ LegalKey(key) /\ key \in dict /\ GetFound(key)

\* The allocator may notice that a string is freed for the second time.
DoubleFree(q) == q # NULL /\ val[q] = FREED

PutReplaces(key, v) ==
    \/ /\ replace_skiplist(key, v)
       /\ Answer(<<"ok">>)
       /\ UNCHANGED dict
    \/ /\ DoubleFree(SearchNode(key))
       /\ Crash

\* Mutant: the key is not added to the hash table.
PutUnindexed(key, v) ==
    /\ insert_skiplist(key, v, 1, TRUE)
    /\ Answer(<<"ok">>)
    /\ UNCHANGED dict

PutInserts(key, v) ==
    \/ /\ dict' = dict \cup {key}
       /\ \E target_level \in gen_random_level :
          \E allocated \in {TRUE, ~ MallocCanFail} :
             insert_skiplist(key, v, target_level, allocated)
       /\ Answer(<<"ok">>)
    \/ /\ Hit(Target(key), key) /\ DoubleFree(Target(key))
       /\ Crash

putCommand(key, v) ==
    \/ ~ (LegalKey(key) /\ LegalVal(v)) /\ Refuse
    \/ LegalKey(key) /\ LegalVal(v) /\ key \in dict /\ PutReplaces(key, v)
    \/ LegalKey(key) /\ LegalVal(v) /\ key \notin dict /\ PutInserts(key, v)

DeleteMissing ==
    /\ Answer(<<"deleted", 0>>)
    /\ UNCHANGED <<listVars, dict>>

\* Mutant: the key stays in the hash table.
DeleteFromList(key) ==
    /\ delete_skiplist(key)
    /\ Answer(<<"deleted", 1>>)
    /\ UNCHANGED dict

DeleteFound(key) ==
    \/ /\ delete_skiplist(key)
       /\ dict' = dict \ {key}
       /\ Answer(<<"deleted", 1>>)
    \/ /\ Hit(Target(key), key) /\ DoubleFree(Target(key))
       /\ Crash

deleteCommand(key) ==
    \/ ~ LegalKey(key) /\ Refuse
    \/ LegalKey(key) /\ key \notin dict /\ DeleteMissing
    \/ LegalKey(key) /\ key \in dict /\ DeleteFound(key)

InRange(start, end, k) == slKeyCompare(k, start) >= 0 /\ slKeyCompare(k, end) <= 0

\* All nodes from the first to the last, whether or not the range is over.
Scanned(start, end) ==
    LET from[x \in Key \cup {NULL}] ==
            IF x = NULL THEN << >>
            ELSE (IF InRange(start, end, x) THEN <<x>> ELSE << >>) \o from[next[x][0]]
    IN  from[next[HEAD][0]]

scanCommand(start, end) ==
    /\ UNCHANGED <<listVars, dict>>
    /\ IF ~ (LegalKey(start) /\ LegalKey(end)) THEN Answer(<<"illegal">>)
       ELSE IF slKeyCompare(start, end) > 0 THEN Answer(<<"cursorerr">>)
       ELSE Answer(<<"keys", Scanned(start, end)>>)

\* show: a length that is not 0 makes it read the first and the last node.
InfoOfEmpty ==
    /\ Answer(<<"info", 0>>)
    /\ UNCHANGED <<listVars, dict>>

InfoOfNodes ==
    /\ next[HEAD][0] # NULL /\ MaxStart # NULL
    /\ Answer(<<"info", length, next[HEAD][0], find_max_skiplist>>)
    /\ UNCHANGED <<listVars, dict>>

infoCommand ==
    \/ length = 0 /\ InfoOfEmpty
    \/ length # 0 /\ InfoOfNodes
    \/ length # 0 /\ NULL \in {next[HEAD][0], MaxStart} /\ Crash

shutdownCommand ==
    /\ status' = "exited"
    /\ UNCHANGED <<listVars, dict, reply>>

Next ==
    /\ status = "up"
    /\ \/ \E key \in Key : getCommand(key) /\ cmd' = <<"get", key>>
       \/ \E key \in Key, v \in Val : putCommand(key, v) /\ cmd' = <<"put", key, v>>
       \/ \E key \in Key : deleteCommand(key) /\ cmd' = <<"delete", key>>
       \/ \E start, end \in Key : scanCommand(start, end) /\ cmd' = <<"scan", start, end>>
       \/ infoCommand /\ cmd' = <<"show">>
       \/ pingCommand /\ cmd' = <<"ping">>
       \/ shutdownCommand /\ cmd' = <<"shutdown">>

Spec == Init /\ [][Next]_vars
=============================================================================
