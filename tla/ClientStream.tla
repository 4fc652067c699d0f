---------------------------- MODULE ClientStream ----------------------------
(***************************************************************************)
(* What the parser of module Client owes a client: the requests the client *)
(* encoded, each one once, in order, as soon as all of it has arrived, and *)
(* however the bytes were cut into reads.                                  *)
(***************************************************************************)
EXTENDS Client, SequencesExt

CONSTANT Scripts        \* what clients send: sequences of requests

VARIABLE script         \* what this client sends

\* A request is sent as arrays of arguments or as a line of text.
Multibulk(args) == [kind |-> "multibulk", args |-> args, eol |-> <<CR, LF>>]
Inline(words, eol) == [kind |-> "inline", args |-> words, eol |-> eol]

\* Bytes that are sent as they are, well formed or not.
Raw(bytes) == [kind |-> "raw", args |-> <<bytes>>, eol |-> << >>]

CountByte(n) == CHOOSE b \in DOMAIN StarCount : StarCount[b] = n
LengthByte(n) == CHOOSE b \in DOMAIN DollarLen : DollarLen[b] = n

EncodeArgument(arg) == <<LengthByte(Len(arg)), CR, LF>> \o arg \o <<CR, LF>>

Joined(words) == IF words = << >> THEN << >>
                 ELSE FoldLeft(LAMBDA s, w : s \o <<SP>> \o w, words[1], Tail(words))

EncodeRequest(r) ==
    CASE r.kind = "multibulk" ->
            <<CountByte(Len(r.args)), CR, LF>>
                \o FlattenSeq([i \in DOMAIN r.args |-> EncodeArgument(r.args[i])])
      [] r.kind = "inline" -> Joined(r.args) \o r.eol
      [] r.kind = "raw" -> r.args[1]

Encode(s) == FlattenSeq([i \in DOMAIN s |-> EncodeRequest(s[i])])

-----------------------------------------------------------------------------
StreamInit == script \in Scripts /\ unread = Encode(script) /\ Init
StreamNext == Next /\ UNCHANGED script

streamVars == <<vars, script>>

StreamSpec == StreamInit /\ [][StreamNext]_streamVars

StreamFairSpec ==
    /\ StreamSpec
    /\ WF_streamVars(Receive /\ UNCHANGED script)
    /\ WF_streamVars(Process /\ UNCHANGED script)

-----------------------------------------------------------------------------
(***************************************************************************)
(* Properties                                                              *)
(***************************************************************************)

\* How many requests of the script lie wholly in the bytes read so far.
Arrived ==
    LET read == Len(Encode(script)) - Len(unread)
    IN  CHOOSE n \in 0..Len(script) :
            /\ Len(Encode(SubSeq(script, 1, n))) <= read
            /\ n < Len(script) => Len(Encode(SubSeq(script, 1, n + 1))) > read

\* The commands among the first n requests, those without arguments left out.
Requested(n) ==
    LET args == [i \in 1..n |-> script[i].args]
    IN  SelectSeq(args, LAMBDA a : a # << >>)

\* Whenever the server waits for this client it has run exactly the requests
\* that have arrived, in order and with the arguments sent: none is lost at a
\* cut between reads, none waits in the buffer behind another one, and none is
\* made up from the bytes of an argument (processInputBuffer).
ExecutedInOrder ==
    phase = "poll" => executed = Requested(Arrived)

\* Requests as a client library sends them; QUIT is not among them.
WellFormed ==
    \A i \in DOMAIN script :
        /\ script[i].kind # "raw" /\ script[i].eol = <<CR, LF>>
        /\ script[i].args # << >> => script[i].args[1] # QUIT

\* What an argument became, but for the line end of a big one, which
\* processMultibulkBuffer leaves or removes depending on how it was read.
SameButLineEnd(a, b) ==
    \/ a = b
    \/ Len(b) >= BIG_ARG /\ a = b \o <<CR, LF>>

\* The same for well-formed requests, with big arguments among them, up to the
\* line end of those.
BigExecutedInOrder ==
    WellFormed /\ phase = "poll" =>
        LET wanted == Requested(Arrived)
        IN  /\ Len(executed) = Len(wanted)
            /\ \A i \in DOMAIN wanted :
                /\ Len(executed[i]) = Len(wanted[i])
                /\ \A j \in DOMAIN wanted[i] :
                       SameButLineEnd(executed[i][j], wanted[i][j])

\* Everything that a client has sent well formed is run in the end, as long as it
\* keeps its connection: the parser never waits for bytes that were already read.
AllExecuted ==
    WellFormed => <>(phase = "freed" \/ Len(executed) = Len(Requested(Len(script))))
=============================================================================
