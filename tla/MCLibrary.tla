----------------------------- MODULE MCLibrary -----------------------------
(***************************************************************************)
(* The parts the server is built on, side by side in one run: each         *)
(* behaviour runs one of them, and the others stay where they begin.       *)
(***************************************************************************)
EXTENDS EventLoop, TimeEvents, Sds, SdsSplit, Numbers, Zmalloc, Anet, Startup,
        AsyncClient

CONSTANTS proc, data, a, b, b1, b2, b3, c1, c2

VARIABLE part       \* the part that runs

libraryVars ==
    <<part, eventVars, timeVars, sdsVars, splitVars, numberVars, zmallocVars, anetVars, startupVars,
      asyncVars>>

Seps == {<<32>>, <<32, 97>>, <<32, 32>>}

\* A tree of directories, the last of which the server cannot write in.
StartDirs == {<<"/">>, <<"/", "a">>, <<"/", "a", "/", "b">>}
Tree == {<< >>, <<<<"a">>>>, <<<<"a">>, <<"b">>>>}
WritableDirs == {<< >>, <<<<"a">>>>}
ConfigPlace == <<<<"a">>, <<"a">>>>
PidFile == <<"/", "v">>
Lines ==
    {<<"#", "">>, <<"unbalanced quotes", "">>, <<"bad directive", "">>,
     <<"port", 0>>, <<"port", 1>>, <<"port", 65536>>,
     <<"loglevel", "verbose">>, <<"loglevel", "warning">>, <<"loglevel", "loud">>,
     <<"dir", <<"b">>>>, <<"dir", <<"/", "a">>>>, <<"dir", <<".", ".">>>>,
     <<"logfile", << >>>>, <<"logfile", <<"l">>>>,
     <<"daemonize", "yes">>, <<"daemonize", "no">>, <<"daemonize", "maybe">>,
     <<"pidfile", <<"p">>>>, <<"fixed-length", <<1, 2>>>>,
     <<"dbfilename", <<"d">>>>, <<"dbfilename", <<"a", "/", "d">>>>}

EventIdle == loop = aeCreateEventLoop(2) /\ file = [fd \in Fd |-> CLOSED] /\ fired = << >>
SdsIdle == sds = sdsnewlen(<< >>) /\ text = << >>
SplitIdle == src = << >> /\ cut = IdleCut /\ arg = IdleArg
NumberIdle == word = << >> /\ parse = Fresh
StartupIdle ==
    /\ name = <<SLASH>> /\ cwd = <<SLASH>> /\ path = [state |-> "start", rel |-> << >>, abs |-> << >>]
    /\ phase = "naming" /\ conf = << >> /\ server = init_config /\ tested = {} /\ written = {}

Channels == Permutations(Channel)

LibraryInit ==
    /\ part \in {"events", "timers", "strings", "splitting", "numbers", "memory", "sockets", "startup", "async"}
    /\ IF part = "events" THEN AnyInit ELSE EventIdle
    /\ IF part = "strings" THEN SdsInit ELSE SdsIdle
    /\ IF part = "splitting" THEN SplitInit ELSE SplitIdle
    /\ IF part = "numbers" THEN NumberInit ELSE NumberIdle
    /\ IF part = "startup" THEN StartupInit ELSE StartupIdle
    /\ AsyncInit /\ (part # "async" => ~ac.onConnect)
    /\ TimeInit /\ ZmallocInit /\ AnetInit

Events == part = "events" /\ AnyNext /\ UNCHANGED
    <<part, timeVars, sdsVars, splitVars, numberVars, zmallocVars, anetVars, startupVars, asyncVars>>
Timers == part = "timers" /\ TimeNext /\ UNCHANGED
    <<part, eventVars, sdsVars, splitVars, numberVars, zmallocVars, anetVars, startupVars, asyncVars>>
Strings_ == part = "strings" /\ SdsNext /\ UNCHANGED
    <<part, eventVars, timeVars, splitVars, numberVars, zmallocVars, anetVars, startupVars, asyncVars>>
Splitting == part = "splitting" /\ SplitNext /\ UNCHANGED
    <<part, eventVars, timeVars, sdsVars, numberVars, zmallocVars, anetVars, startupVars, asyncVars>>
Numbers_ == part = "numbers" /\ NumberNext /\ UNCHANGED
    <<part, eventVars, timeVars, sdsVars, splitVars, zmallocVars, anetVars, startupVars, asyncVars>>
Memory == part = "memory" /\ ZmallocNext /\ UNCHANGED
    <<part, eventVars, timeVars, sdsVars, splitVars, numberVars, anetVars, startupVars, asyncVars>>
Sockets == part = "sockets" /\ AnetNext /\ UNCHANGED
    <<part, eventVars, timeVars, sdsVars, splitVars, numberVars, zmallocVars, startupVars, asyncVars>>
Starting == part = "startup" /\ StartupNext /\ UNCHANGED
    <<part, eventVars, timeVars, sdsVars, splitVars, numberVars, zmallocVars, anetVars, asyncVars>>
Async == part = "async" /\ AsyncNext /\ UNCHANGED
    <<part, eventVars, timeVars, sdsVars, splitVars, numberVars, zmallocVars, anetVars, startupVars>>

LibraryNext ==
    \/ Events \/ Timers \/ Strings_ \/ Splitting \/ Numbers_ \/ Memory \/ Sockets \/ Starting
    \/ Async

LibrarySpec == LibraryInit /\ [][LibraryNext]_libraryVars
=============================================================================
