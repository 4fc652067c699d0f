------------------------------ MODULE DictSet ------------------------------
(***************************************************************************)
(* What dict.h offers: a set of keys, and an answer to every call.         *)
(* Tables, their sizes and the keys that move between them do not exist    *)
(* here.  An answer is kept with the call it answers, so that a call can   *)
(* only be answered as the set answers that call for that key.             *)
(***************************************************************************)
CONSTANT Key

VARIABLES keys, answer

vars == <<keys, answer>>

Ret(call, code) == <<call, code>>
Entry(call, k) == <<call, "entry", k>>

Init == keys = {} /\ answer = Ret(<<"none">>, "none")

Add(k) ==
    /\ answer' = Ret(<<"add", k>>, IF k \in keys THEN "err" ELSE "ok")
    /\ keys' = keys \cup {k}

Replace(k) ==
    /\ answer' = Ret(<<"replace", k>>, IF k \in keys THEN "updated" ELSE "added")
    /\ keys' = keys \cup {k}

\* dictReplaceRaw: the entry of the key, a new one where there is none.
Ensure(k) == answer' = Entry(<<"ensure", k>>, k) /\ keys' = keys \cup {k}

Delete(k) ==
    /\ answer' = Ret(<<"delete", k>>, IF k \in keys THEN "ok" ELSE "err")
    /\ keys' = keys \ {k}

Find(k) ==
    /\ answer' = IF k \in keys THEN Entry(<<"find", k>>, k) ELSE Ret(<<"find", k>>, "missing")
    /\ UNCHANGED keys

RandomKey ==
    /\ IF keys = {} THEN answer' = Ret(<<"random">>, "missing")
       ELSE \E k \in keys : answer' = Entry(<<"random">>, k)
    /\ UNCHANGED keys

Empty == answer' = Ret(<<"empty">>, "ok") /\ keys' = {}

Next ==
    \/ \E k \in Key : Add(k) \/ Replace(k) \/ Ensure(k) \/ Delete(k) \/ Find(k)
    \/ RandomKey \/ Empty

Spec == Init /\ [][Next]_vars
=============================================================================
