----------------------------- MODULE Persistence -----------------------------
(***************************************************************************)
(* db.c: the life of the server process.  It loads the data file, serves,  *)
(* and writes the data file when it exits, whatever makes it exit: the     *)
(* shutdown command or a signal, between two commands or inside one.  A    *)
(* process that is killed, or aborts, writes nothing.                      *)
(*                                                                         *)
(* Of the skiplist only its lowest level is kept, which is all that        *)
(* saveDb() walks; see module SkipList for the others.  Keys, values and   *)
(* the files are sequences of bytes, because loading depends on them.      *)
(***************************************************************************)
EXTENDS Integers, Sequences

CONSTANTS
    Key,            \* the keys clients use, of one length
    Val,            \* the values
    ByteRank,       \* the order of bytes memcmp() goes by
    SP, NL, NUL,    \* the bytes that end a key, a line and a C string
    Stale,          \* bytes that memory can hold that nobody has written
    FREED,          \* the value of a node that points to freed memory
    Garbage,        \* what a string there can read as
    MIN_CAP,        \* the least size of the buffer of getline()
    Signal          \* the signals whose handler exits

ASSUME PersistenceAssumption ==
    /\ MIN_CAP \in Nat \ {0, 1}
    /\ FREED \notin Val
    /\ \A j, k \in Key : Len(j) = Len(k) /\ Len(k) > 0

VARIABLES
    phase,          \* where the process is, or how the last one ended
    list,           \* the nodes on the lowest level, in order
    pending,        \* the node and the value replace_skiplist() is to assign
    file,           \* what the data file holds, nothing when there is none
    rest,           \* the part of it that is not yet read
    line,           \* the buffer of getline()
    temp,           \* what the temporary file holds
    node,           \* the node saveDb() writes next
    handling,       \* the signal whose handler runs, "none" without one
    saved,          \* history: the nodes that the data file was written from
    cut,            \* history: a write to the temporary file has failed
    damaged,        \* history: a file with failed writes has been renamed
    deleted         \* history: the keys deleted by this process

fileVars == <<file, rest, line, temp, node, saved, cut, damaged>>
vars == <<phase, list, pending, fileVars, handling, deleted>>

\* A process "exited" through saveDb(), or was "cut short" in it, or could not
\* rename its file and left all "unsaved"; it "quit" before there was anything
\* to save, or was "killed".
Ended == {"exited", "cut short", "unsaved", "quit", "killed"}
Running == {"loading", "serving", "replacing", "saving"}

Init ==
    /\ phase = "quit"
    /\ list = << >> /\ pending = << >>
    /\ file = << >> /\ rest = << >> /\ line = << >> /\ temp = << >>
    /\ node = 0
    /\ handling = "none"
    /\ saved = << >> /\ cut = FALSE /\ damaged = FALSE /\ deleted = {}

-----------------------------------------------------------------------------
(***************************************************************************)
(* Nodes in their order                                                    *)
(***************************************************************************)
Node(k, v) == [key |-> k, val |-> v]

\* slKeyCompare() < 0 and = 0; keys of different lengths count as equal.
Less(j, k) ==
    /\ Len(j) = Len(k)
    /\ \E i \in 1..Len(k) :
        /\ ByteRank[j[i]] < ByteRank[k[i]]
        /\ \A h \in 1..(i - 1) : j[h] = k[h]
Equal(j, k) == j = k \/ Len(j) # Len(k)

\* Where the search for k can end: at the first node that is not less, though
\* a node of another length may be passed on the levels above.
Places(k) ==
    {i \in 1..(Len(list) + 1) :
        /\ \A j \in 1..(i - 1) : Less(list[j].key, k) \/ Len(list[j].key) # Len(k)
        /\ i <= Len(list) => ~ Less(list[i].key, k)}

\* insert_skiplist() links a copy, or keeps a value that its caller frees.
Inserted(k, v, i) ==
    IF i <= Len(list) /\ Equal(list[i].key, k)
    THEN [list EXCEPT ![i].val = FREED]
    ELSE SubSeq(list, 1, i - 1) \o <<Node(k, v)>> \o SubSeq(list, i, Len(list))

Without(i) == SubSeq(list, 1, i - 1) \o SubSeq(list, i + 1, Len(list))

-----------------------------------------------------------------------------
(***************************************************************************)
(* loadDb                                                                  *)
(***************************************************************************)
Start ==
    /\ phase \in Ended
    /\ phase' = "loading"
    /\ list' = << >> /\ pending' = << >>
    /\ rest' = file /\ line' = << >> /\ temp' = << >>
    /\ node' = 0 /\ handling' = "none"
    /\ cut' = FALSE /\ deleted' = {}
    /\ UNCHANGED <<file, saved, damaged>>

Positions(s, b) == {i \in 1..Len(s) : s[i] = b}
First(S) == CHOOSE i \in S : \A j \in S : i <= j

\* The length of the next line with its end.
LineLength == IF Positions(rest, NL) = {} THEN Len(rest) ELSE First(Positions(rest, NL))

\* getline() doubles a buffer that is too small, or takes what it needs.
Capacity(needed) ==
    LET cap == IF line = << >> THEN MIN_CAP ELSE Len(line)
    IN  IF needed <= cap THEN cap
        ELSE IF needed < 2 * cap THEN 2 * cap ELSE needed

\* Behind the line and its NUL the buffer holds what earlier lines left there,
\* and behind that what the memory held.
Older == SubSeq(line, LineLength + 2, Len(line))
Unwritten == Capacity(LineLength + 1) - LineLength - 1 - Len(Older)
Fetched(stale) == SubSeq(rest, 1, LineLength) \o <<NUL>> \o Older \o stale

\* Mutant: the last byte of the line, its end, is kept.
KeptLineEnd == SubSeq(line', 1, Len(line') - 1)

\* sdsnewlen(line, len - 2): not the line, but the buffer without two bytes.
LineRead == SubSeq(line', 1, Len(line') - 2)

LoadLine ==
    /\ phase = "loading"
    /\ rest # << >>
    /\ \E stale \in [1..Unwritten -> Stale] : line' = Fetched(stale)
    /\ rest' = SubSeq(rest, LineLength + 1, Len(rest))
    /\ LET blanks == Positions(LineRead, SP)
           blank == First(blanks)
           k == SubSeq(LineRead, 1, blank - 1)
           v == SubSeq(LineRead, blank + 1, Len(LineRead))
       IN  IF \E i \in blanks : blanks = {i}
           THEN /\ \E i \in Places(k) : list' = Inserted(k, v, i)
                /\ UNCHANGED phase
           ELSE /\ phase' = "quit"      \* "Data file format error, load failed."
                /\ UNCHANGED list
    /\ UNCHANGED <<pending, file, temp, node, handling, saved, cut, damaged, deleted>>

\* The end of the file; main() registers saveDb() only now.
LoadEnd ==
    /\ phase = "loading"
    /\ rest = << >>
    /\ phase' = "serving"
    /\ UNCHANGED <<list, pending, fileVars, handling, deleted>>

-----------------------------------------------------------------------------
(***************************************************************************)
(* Commands, cut where an interruption would leave something else to save. *)
(***************************************************************************)
Holds(k) == \E i \in 1..Len(list) : list[i].key = k

PutNew(k, v) ==
    /\ phase = "serving"
    /\ ~ Holds(k)
    /\ \E i \in Places(k) : list' = Inserted(k, v, i)
    /\ UNCHANGED <<phase, pending, fileVars, handling, deleted>>

\* replace_skiplist() frees the old value first ...
FreeOld(k, v) ==
    /\ phase = "serving"
    /\ Holds(k)
    /\ phase' = "replacing"
    /\ \E i \in Places(k) :
        /\ i <= Len(list) /\ Equal(list[i].key, k)
        /\ list' = [list EXCEPT ![i].val = FREED]
        /\ pending' = <<i, v>>
    /\ UNCHANGED <<fileVars, handling, deleted>>

\* ... and then assigns the copy of the new one.
AssignNew ==
    /\ phase = "replacing"
    /\ phase' = "serving"
    /\ list' = [list EXCEPT ![pending[1]].val = pending[2]]
    /\ pending' = << >>
    /\ UNCHANGED <<fileVars, handling, deleted>>

Delete(k) ==
    /\ phase = "serving"
    /\ Holds(k)
    /\ \E i \in Places(k) :
        /\ i <= Len(list) /\ Equal(list[i].key, k)
        /\ list' = Without(i)
    /\ deleted' = deleted \cup {k}
    /\ UNCHANGED <<phase, pending, fileVars, handling>>

-----------------------------------------------------------------------------
(***************************************************************************)
(* exit(0) and saveDb                                                      *)
(***************************************************************************)
BeginSave ==
    /\ phase' = "saving"
    /\ node' = 1
    /\ temp' = << >> /\ cut' = FALSE
    /\ UNCHANGED <<list, pending, file, rest, line, saved, damaged, deleted>>

Shutdown ==
    /\ phase = "serving"
    /\ BeginSave
    /\ UNCHANGED handling

\* Mutant: saveDb() is registered before the data is loaded.
SaveWhileLoading(s) ==
    /\ phase \in {"loading", "serving", "replacing"}
    /\ BeginSave
    /\ handling' = s

\* The handler exits at once, whatever it interrupts.
SignalExits(s) ==
    /\ phase \in {"serving", "replacing"}
    /\ BeginSave
    /\ handling' = s

SignalWhileLoading(s) ==
    /\ phase = "loading"
    /\ phase' = "quit"
    /\ UNCHANGED <<list, pending, fileVars, handling, deleted>>

\* No other signal is masked while the handler runs: its exit() inside of
\* exit() goes on with the functions behind saveDb(), and there are none.
SignalWhileSaving(s) ==
    /\ phase = "saving"
    /\ s # handling
    /\ phase' = "cut short"
    /\ UNCHANGED <<list, pending, fileVars, handling, deleted>>

\* The bytes that fprintf("%s") writes of a string.
Printed(s) ==
    LET ends == Positions(s, NUL)
    IN  IF ends = {} THEN s ELSE SubSeq(s, 1, First(ends) - 1)

Line(n, v) == Printed(n.key) \o <<SP>> \o Printed(v) \o <<NL>>

Readable(n) == IF n.val = FREED THEN Garbage ELSE {n.val}

\* What failed writes leave of a line: the buffer of stdio is written, wholly,
\* partly or not at all, wherever it is full, which can be at any byte.
Torn(l) ==
    {SubSeq(l, 1, p[1]) \o SubSeq(l, p[2], Len(l)) :
        p \in {q \in (0..Len(l)) \X (2..(Len(l) + 1)) : q[1] + 1 < q[2]}}

\* Nobody looks at what fprintf() and fclose() return.
SaveNode ==
    /\ phase = "saving"
    /\ node <= Len(list)
    /\ \E v \in Readable(list[node]) :
        \/ temp' = temp \o Line(list[node], v) /\ UNCHANGED cut
        \/ /\ \E t \in Torn(Line(list[node], v)) : temp' = temp \o t
           /\ cut' = TRUE
    /\ node' = node + 1
    /\ UNCHANGED <<phase, list, pending, file, rest, line, handling, saved, damaged, deleted>>

Renamed ==
    /\ phase' = "exited"
    /\ file' = temp /\ temp' = << >>
    /\ saved' = list
    /\ damaged' = (damaged \/ cut)

\* Nobody looks at what rename() returns either.
RenameFails ==
    /\ phase' = "unsaved"
    /\ UNCHANGED <<file, temp, saved, damaged>>

SaveDone ==
    /\ phase = "saving"
    /\ node > Len(list)
    /\ Renamed \/ RenameFails
    /\ UNCHANGED <<list, pending, rest, line, node, handling, cut, deleted>>

\* SIGKILL, a failed assertion, or a crash.
Killed ==
    /\ phase \in Running
    /\ phase' = "killed"
    /\ UNCHANGED <<list, pending, fileVars, handling, deleted>>

-----------------------------------------------------------------------------
Load == LoadLine \/ LoadEnd

Command ==
    \/ \E k \in Key, v \in Val : PutNew(k, v) \/ FreeOld(k, v)
    \/ AssignNew
    \/ \E k \in Key : Delete(k)

Interrupt ==
    \E s \in Signal : SignalExits(s) \/ SignalWhileLoading(s) \/ SignalWhileSaving(s)

Next ==
    \/ Start \/ Load \/ Command
    \/ Shutdown \/ Interrupt \/ Killed
    \/ SaveNode \/ SaveDone

Spec == Init /\ [][Next]_vars

-----------------------------------------------------------------------------
(***************************************************************************)
(* Properties                                                              *)
(***************************************************************************)

\* The data file has a line for the key.
InFile(k) ==
    \E i \in 1..(Len(file) - Len(k)) :
        /\ i = 1 \/ file[i - 1] = NL
        /\ SubSeq(file, i, i + Len(k)) = k \o <<SP>>

\* A key that is in the data file stays there until a client deletes it: not a
\* signal while the file is loaded, not an exit in the middle of a command, not
\* a save that is cut short, not a rename that fails and not a crash ever takes
\* it out.  Only a save whose writes fail does, at once or when the torn file is
\* loaded and saved again, since saveDb() renames the file all the same.
KeysKept ==
    [][\A k \in Key : InFile(k) => InFile(k)' \/ k \in deleted \/ damaged']_vars

IsStored(nodes) == \A i \in 1..Len(nodes) : nodes[i].val \in Val

\* What the server loads is what was in memory when the last save was finished,
\* the same nodes with the same values, in the same order, unless writes of that
\* save or of an earlier one have failed.
LoadsWhatWasSaved ==
    [][phase = "loading" /\ phase' = "serving" /\ IsStored(saved) /\ ~ damaged
       => list = saved]_vars

\* Once a process that had loaded its data has exited in an orderly way, the
\* data file was written from what was in memory, values that clients have put
\* (README.md:56); full disks and failed renames are left aside.
ExitSaves ==
    phase \in {"exited", "cut short"} /\ ~ cut /\ ~ damaged
        => saved = list /\ IsStored(list)
=============================================================================
