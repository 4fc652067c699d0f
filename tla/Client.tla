------------------------------- MODULE Client -------------------------------
(***************************************************************************)
(* db.c: a connection, from the bytes that arrive to the commands that are *)
(* run.  Reads deliver any number of bytes, so that the parser must be     *)
(* able to stop anywhere and go on with the next read.                     *)
(*                                                                         *)
(* A byte is an opaque value.  The count line "*<n>" and the length line   *)
(* "$<n>" are one byte each, followed by CR and LF: the parser does not    *)
(* look at them before their CR is there.  Commands are not run here but   *)
(* recorded, see module Commands.                                          *)
(***************************************************************************)
EXTENDS Integers, Sequences, FiniteSets

CONSTANTS
    Byte,           \* the bytes of the streams below
    Stream,         \* what a client may send, as sequences of bytes
    CR, LF, SP,     \* line ends and the blank between inline arguments
    QUOTE,          \* a quotation mark without its counterpart
    StarCount,      \* StarCount[b]: the number n of the byte b = "*<n>"
    DollarLen,      \* DollarLen[b]: the number n of the byte b = "$<n>"
    MAX_COUNT,      \* the largest count and the largest length accepted
    MAX_BULK,
    QUIT,           \* the argument "quit"
    IOBUF_LEN,      \* PROTO_IOBUF_LEN, most bytes of a read
    BIG_ARG,        \* PROTO_MBULK_BIG_ARG
    INLINE_MAX_SIZE \* PROTO_INLINE_MAX_SIZE

ASSUME ClientAssumption ==
    /\ Stream \subseteq Seq(Byte)
    /\ StarCount \in [DOMAIN StarCount -> Int]
    /\ DollarLen \in [DOMAIN DollarLen -> Int]
    /\ MAX_COUNT \in Nat /\ MAX_BULK \in Nat
    /\ IOBUF_LEN \in Nat \ {0} /\ BIG_ARG \in Nat \ {0} /\ INLINE_MAX_SIZE \in Nat

VARIABLES
    unread,         \* bytes sent and not yet read
    querybuf,       \* bytes read and not yet consumed
    reqtype,        \* "none", "inline" or "multibulk"
    multibulklen,   \* arguments the request still lacks
    bulklen,        \* length of the next argument, -1 when not known
    argv,           \* arguments of the request so far
    argvcap,        \* the number of arguments c->argv has room for
    pos,            \* processMultibulkBuffer's position in querybuf
    phase,          \* where the server is in handling the connection
    executed        \* the requests given to processCommand()

parserVars == <<reqtype, multibulklen, bulklen, argv, argvcap>>
vars == <<unread, querybuf, parserVars, pos, phase, executed>>

\* In "poll" the connection waits for data, in "input" the loop of
\* processInputBuffer() starts over, in "execute" a request is complete.
Phase == {"poll", "input", "inline", "multibulk", "bulk", "execute",
          "freed", "aborted"}

IsCount(b) == b \in DOMAIN StarCount
IsLength(b) == b \in DOMAIN DollarLen

Drop(s, n) == SubSeq(s, n + 1, Len(s))

First(S) == CHOOSE i \in S : \A j \in S : i <= j

\* Position of the first b behind the first n bytes of s, 0 without one.
Find(s, n, b) ==
    LET at == {i \in (n + 1)..Len(s) : s[i] = b}
    IN  IF at = {} THEN 0 ELSE First(at)

Init ==
    /\ unread \in Stream
    /\ querybuf = << >>
    /\ reqtype = "none"
    /\ multibulklen = 0
    /\ bulklen = -1
    /\ argv = << >>
    /\ argvcap = 0
    /\ pos = 0
    /\ phase = "poll"
    /\ executed = << >>

-----------------------------------------------------------------------------
(***************************************************************************)
(* readQueryFromClient                                                     *)
(***************************************************************************)

\* A big argument is read on its own, to find it alone in the buffer.
readlen ==
    IF reqtype = "multibulk" /\ multibulklen # 0 /\ bulklen >= BIG_ARG
    THEN LET remaining == bulklen + 2 - Len(querybuf)
         IN  IF remaining < IOBUF_LEN THEN remaining ELSE IOBUF_LEN
    ELSE IOBUF_LEN

Read(n) ==
    /\ phase = "poll"
    /\ n <= readlen /\ n <= Len(unread)
    /\ querybuf' = querybuf \o SubSeq(unread, 1, n)
    /\ unread' = Drop(unread, n)
    /\ phase' = "input"
    /\ UNCHANGED <<parserVars, pos, executed>>

\* The client has closed the connection, or reading from it fails.
freeClient ==
    /\ phase = "poll"
    /\ phase' = "freed"
    /\ querybuf' = << >>
    /\ argv' = << >>
    /\ UNCHANGED <<unread, reqtype, multibulklen, bulklen, argvcap, pos, executed>>

-----------------------------------------------------------------------------
(***************************************************************************)
(* processInputBuffer                                                      *)
(***************************************************************************)
Wait ==
    /\ phase' = "poll"
    /\ pos' = 0

Abort ==
    /\ phase' = "aborted"
    /\ UNCHANGED <<unread, querybuf, parserVars, pos, executed>>

BufferEmpty ==
    /\ phase = "input"
    /\ querybuf = << >>
    /\ Wait
    /\ UNCHANGED <<unread, querybuf, parserVars, executed>>

StartRequest ==
    /\ phase = "input"
    /\ querybuf # << >>
    /\ reqtype' = IF reqtype # "none" THEN reqtype
                  ELSE IF IsCount(querybuf[1]) THEN "multibulk" ELSE "inline"
    /\ phase' = reqtype'
    /\ UNCHANGED <<unread, querybuf, multibulklen, bulklen, argv, argvcap, pos,
                   executed>>

resetClient ==
    /\ argv' = << >>
    /\ reqtype' = "none"
    /\ multibulklen' = 0
    /\ bulklen' = -1
    /\ UNCHANGED argvcap

\* An empty line or a count that is not positive: nothing to run.
SkipRequest ==
    /\ phase = "execute"
    /\ argv = << >>
    /\ resetClient
    /\ phase' = "input"
    /\ UNCHANGED <<unread, querybuf, pos, executed>>

\* Mutant: the request type survives the request.
ForgetReset ==
    /\ phase = "execute"
    /\ argv # << >> /\ argv[1] # QUIT
    /\ executed' = Append(executed, argv)
    /\ argv' = << >>
    /\ phase' = "input"
    /\ UNCHANGED <<unread, querybuf, reqtype, multibulklen, bulklen, argvcap, pos>>

\* Mutant: one request per read, where the loop should go on.
OneRequestPerRead ==
    /\ phase = "execute"
    /\ argv # << >> /\ argv[1] # QUIT
    /\ executed' = Append(executed, argv)
    /\ resetClient
    /\ phase' = "poll"
    /\ UNCHANGED <<unread, querybuf, pos>>

\* processCommand() answers the request and lets the client be reset, ...
Execute ==
    /\ phase = "execute"
    /\ argv # << >> /\ argv[1] # QUIT
    /\ executed' = Append(executed, argv)
    /\ resetClient
    /\ phase' = "input"
    /\ UNCHANGED <<unread, querybuf, pos>>

\* ... but not after QUIT, which is answered and leaves everything as it is.
ExecuteQuit ==
    /\ phase = "execute"
    /\ argv # << >> /\ argv[1] = QUIT
    /\ executed' = Append(executed, argv)
    /\ phase' = "input"
    /\ UNCHANGED <<unread, querybuf, parserVars, pos>>

-----------------------------------------------------------------------------
(***************************************************************************)
(* processInlineBuffer                                                     *)
(***************************************************************************)
newline == Find(querybuf, 0, LF)

\* The length of the line without its end.
querylen ==
    IF newline > 1 /\ querybuf[newline - 1] = CR THEN newline - 2 ELSE newline - 1

line == SubSeq(querybuf, 1, querylen)
Unbalanced == \E i \in 1..Len(line) : line[i] = QUOTE

\* sdssplitargs(): the runs of bytes between blanks.
Blank(b) == b \in {SP, CR}
Starts(s) == {i \in 1..Len(s) : ~ Blank(s[i]) /\ (i = 1 \/ Blank(s[i - 1]))}
Word(s, n) ==
    {i \in 1..Len(s) : ~ Blank(s[i]) /\ Cardinality({j \in Starts(s) : j <= i}) = n}
WordBytes(s, n) ==
    [i \in 1..Cardinality(Word(s, n)) |-> s[First(Word(s, n)) + i - 1]]
Words(s) == [n \in 1..Cardinality(Starts(s)) |-> WordBytes(s, n)]

InlineWaits ==
    /\ phase = "inline"
    /\ newline = 0 \/ Unbalanced
    /\ Wait
    /\ UNCHANGED <<unread, querybuf, parserVars, executed>>

\* The line end is taken to have two bytes, whichever it has.
ProcessInline ==
    /\ phase = "inline"
    /\ newline # 0 /\ ~ Unbalanced
    /\ querybuf' = Drop(querybuf, querylen + 2)
    /\ argv' = Words(line)
    /\ argvcap' = IF argv' = << >> THEN argvcap ELSE Len(argv')
    /\ phase' = "execute"
    /\ UNCHANGED <<unread, reqtype, multibulklen, bulklen, pos, executed>>

-----------------------------------------------------------------------------
(***************************************************************************)
(* processMultibulkBuffer                                                  *)
(***************************************************************************)

\* The line that starts behind the first n bytes has its CR and its LF.
LineComplete(n) == LET i == Find(querybuf, n, CR) IN i # 0 /\ i < Len(querybuf)

\* The line is nothing but the one byte of its number.
IsNumber(n) == Find(querybuf, n, CR) = n + 2

ContinueRequest ==
    /\ phase = "multibulk"
    /\ multibulklen # 0
    /\ phase' = "bulk"
    /\ pos' = 0
    /\ UNCHANGED <<unread, querybuf, parserVars, executed>>

\* assert(c->argc == 0), and assert(c->querybuf[0] == '*') once the line is there
AssertionFails ==
    /\ phase = "multibulk"
    /\ multibulklen = 0
    /\ argv # << >> \/ (LineComplete(0) /\ ~ IsCount(querybuf[1]))
    /\ Abort

CountAccepted == IsNumber(0) /\ StarCount[querybuf[1]] <= MAX_COUNT

\* The count line is incomplete or no number: it is looked at again when more
\* bytes have come.
CountWaits ==
    /\ phase = "multibulk"
    /\ multibulklen = 0 /\ argv = << >>
    /\ ~ LineComplete(0) \/ (IsCount(querybuf[1]) /\ ~ CountAccepted)
    /\ Wait
    /\ UNCHANGED <<unread, querybuf, parserVars, executed>>

\* Mutant: c->argv is allocated once and then kept.
KeptRoom(ll) == IF argvcap = 0 THEN ll ELSE argvcap

\* c->argv is allocated anew for every request.
ArgvRoom(ll) == ll

ReadCount ==
    /\ phase = "multibulk"
    /\ multibulklen = 0 /\ argv = << >>
    /\ LineComplete(0) /\ IsCount(querybuf[1]) /\ CountAccepted
    /\ LET ll == StarCount[querybuf[1]]
       IN  IF ll <= 0
           THEN /\ querybuf' = Drop(querybuf, 3)
                /\ phase' = "execute"
                /\ UNCHANGED <<multibulklen, argvcap, pos>>
           ELSE /\ multibulklen' = ll
                /\ argvcap' = ArgvRoom(ll)
                /\ pos' = 3
                /\ phase' = "bulk"
                /\ UNCHANGED querybuf
    /\ UNCHANGED <<unread, reqtype, bulklen, argv, executed>>

\* break: what was consumed is trimmed, the rest waits for more bytes.
TrimAndWait ==
    /\ querybuf' = Drop(querybuf, pos)
    /\ Wait
    /\ UNCHANGED <<unread, parserVars, executed>>

\* return SERVER_ERR: nothing is trimmed, although arguments may be stored.
ProtocolError ==
    /\ Wait
    /\ UNCHANGED <<unread, querybuf, parserVars, executed>>

LengthMissing ==
    /\ phase = "bulk"
    /\ multibulklen # 0 /\ bulklen = -1
    /\ ~ LineComplete(pos)
    /\ IF Find(querybuf, pos, CR) = 0 /\ Len(querybuf) > INLINE_MAX_SIZE
       THEN ProtocolError ELSE TrimAndWait

\* Mutant: a negative length is not refused.
LengthUnsigned ==
    /\ IsLength(querybuf[pos + 1])
    /\ IsNumber(pos)
    /\ DollarLen[querybuf[pos + 1]] <= MAX_BULK

LengthAccepted ==
    /\ IsLength(querybuf[pos + 1])
    /\ IsNumber(pos)
    /\ DollarLen[querybuf[pos + 1]] \in 0..MAX_BULK

LengthRefused ==
    /\ phase = "bulk"
    /\ multibulklen # 0 /\ bulklen = -1
    /\ LineComplete(pos) /\ ~ LengthAccepted
    /\ ProtocolError

ReadLength ==
    /\ phase = "bulk"
    /\ multibulklen # 0 /\ bulklen = -1
    /\ LineComplete(pos) /\ LengthAccepted
    /\ bulklen' = DollarLen[querybuf[pos + 1]]
    /\ IF bulklen' >= BIG_ARG
       THEN /\ querybuf' = Drop(querybuf, pos + 3)
            /\ pos' = 0
       ELSE /\ pos' = pos + 3
            /\ UNCHANGED querybuf
    /\ UNCHANGED <<unread, reqtype, multibulklen, argv, argvcap, phase, executed>>

\* Mutant: it is waited for a byte more.
WantsMore == Len(querybuf) - pos <= bulklen + 2

ArgumentMissing == Len(querybuf) - pos < bulklen + 2

WaitForArgument ==
    /\ phase = "bulk"
    /\ multibulklen # 0 /\ bulklen # -1
    /\ ArgumentMissing
    /\ TrimAndWait

\* A big argument alone in the buffer is taken with the buffer, CR and LF too:
\* they are cut off from the buffer the argument is a copy of.
TakeBuffer ==
    /\ argv' = Append(argv, querybuf)
    /\ querybuf' = << >>
    /\ pos' = 0

\* Mutant: the position stops before the CR and LF of the argument.
CopyShort ==
    /\ argv' = Append(argv, SubSeq(querybuf, pos + 1, pos + bulklen))
    /\ pos' = pos + bulklen
    /\ UNCHANGED querybuf

CopyArgument ==
    /\ argv' = Append(argv, SubSeq(querybuf, pos + 1, pos + bulklen))
    /\ pos' = pos + bulklen + 2
    /\ UNCHANGED querybuf

ReadArgument ==
    /\ phase = "bulk"
    /\ multibulklen # 0 /\ bulklen # -1
    /\ ~ ArgumentMissing
    /\ IF pos = 0 /\ bulklen >= BIG_ARG /\ Len(querybuf) = bulklen + 2
       THEN TakeBuffer ELSE CopyArgument
    /\ bulklen' = -1
    /\ multibulklen' = multibulklen - 1
    /\ UNCHANGED <<unread, reqtype, argvcap, phase, executed>>

RequestComplete ==
    /\ phase = "bulk"
    /\ multibulklen = 0
    /\ querybuf' = Drop(querybuf, pos)
    /\ pos' = 0
    /\ phase' = "execute"
    /\ UNCHANGED <<unread, parserVars, executed>>

-----------------------------------------------------------------------------
processInputBuffer ==
    \/ BufferEmpty \/ StartRequest \/ SkipRequest \/ Execute \/ ExecuteQuit

processInlineBuffer == InlineWaits \/ ProcessInline

processMultibulkBuffer ==
    \/ ContinueRequest \/ AssertionFails \/ CountWaits \/ ReadCount
    \/ LengthMissing \/ LengthRefused \/ ReadLength
    \/ WaitForArgument \/ ReadArgument \/ RequestComplete

Process == processInputBuffer \/ processInlineBuffer \/ processMultibulkBuffer

Receive == \E n \in 1..IOBUF_LEN : Read(n)

Next == Receive \/ freeClient \/ Process

Spec == Init /\ [][Next]_vars

\* The event loop reads a readable connection again and again, and a handler
\* that has started runs to its end.
FairSpec == Spec /\ WF_vars(Receive) /\ WF_vars(Process)

-----------------------------------------------------------------------------
(***************************************************************************)
(* Properties                                                              *)
(***************************************************************************)
Arguments == Seq(Seq(Byte))

\* Every field of the client stays in its range: in particular bulklen, which
\* sizes the copy of an argument, is -1 or a length that was accepted.
TypeOK ==
    /\ unread \in Seq(Byte) /\ querybuf \in Seq(Byte)
    /\ reqtype \in {"none", "inline", "multibulk"}
    /\ multibulklen \in 0..MAX_COUNT
    /\ bulklen \in -1..MAX_BULK
    /\ argv \in Arguments
    /\ argvcap \in Nat
    /\ pos \in 0..Len(querybuf)
    /\ phase \in Phase
    /\ executed \in Seq(Arguments)

\* c->argv has room for the arguments the request still lacks, whatever the
\* client sends and even if a malformed request is parsed again from the start.
ArgvFits == Len(argv) + multibulklen <= argvcap

\* An argument that is longer than what was read is not there yet: the next
\* read asks for at least one byte.  A read of none would be taken for the end
\* of the connection (readQueryFromClient, nread == 0).
ReadsSomething == phase = "poll" => readlen > 0

QuitExecuted == \E i \in 1..Len(executed) : executed[i][1] = QUIT

\* The assertions of processMultibulkBuffer hold, whatever the bytes, as long
\* as no client has sent QUIT.
AssertsHoldUntilQuit == phase = "aborted" => QuitExecuted

\* "The client should have been reset" whenever a request starts (db.c:317).
NeverAborts == phase # "aborted"
=============================================================================
