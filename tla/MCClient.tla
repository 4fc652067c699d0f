------------------------------ MODULE MCClient ------------------------------
(***************************************************************************)
(* Instances of the parser for TLC.  The bytes are strings; "*n" and "$n"  *)
(* stand for the numbers they are written with.                            *)
(***************************************************************************)
EXTENDS ClientStream, TLC

MCByte == {"p", "k", "q", "CR", "LF", "SP", "QUOTE",
           "*-1", "*0", "*1", "*2", "*9", "$-2", "$0", "$1", "$3", "$4", "$5", "$9", "$11", "$12", "$13", "$99"}
MCStarCount == ("*-1" :> -1) @@ ("*0" :> 0) @@ ("*1" :> 1) @@ ("*2" :> 2) @@ ("*9" :> 9)
MCDollarLen == ("$-2" :> -2) @@ ("$0" :> 0) @@ ("$1" :> 1) @@ ("$3" :> 3)
               @@ ("$4" :> 4) @@ ("$5" :> 5) @@ ("$9" :> 9)
               @@ ("$11" :> 11) @@ ("$12" :> 12) @@ ("$13" :> 13) @@ ("$99" :> 99)

MCQuit == <<"q">>
MCStream == {Encode(s) : s \in Scripts}

CRLF == <<"CR", "LF">>
ping == Multibulk(<<<<"p">>>>)
pingLine == Inline(<<<<"p">>>>, CRLF)
UpTo(n, R) == UNION {[1..i -> R] : i \in 1..n}

Big(b, n) == [i \in 1..n |-> b]

\* Well-formed requests: without arguments, with an empty one, with one that
\* looks like the protocol, and lines of text; with arguments around
\* PROTO_MBULK_BIG_ARG, alone, in front of and behind another one.
Small ==
    {ping, Multibulk(<< >>), Multibulk(<<<<"p">>, << >>>>),
     Multibulk(<<<<"k">>, <<"CR", "LF", "*1">>>>),
     pingLine, Inline(<< >>, CRLF), Inline(<<<<"p">>, <<"*1", "k">>>>, CRLF)}
Bigs ==
    {Multibulk(<<Big("p", 11)>>), Multibulk(<<Big("p", 12)>>),
     Multibulk(<<Big("k", 12), Big("p", 13)>>), Multibulk(<<Big("p", 13), <<"k">>>>)}
WellFormedScripts ==
    UpTo(2, Small) \cup UpTo(3, {ping, Multibulk(<< >>), pingLine})
        \cup UpTo(2, Bigs) \cup {<<q, b, q>> : q \in {ping, pingLine}, b \in Bigs}

\* A line that ends with LF alone, in front of another one.
LineFeedScripts == {<<Inline(<<<<"p">>>>, <<"LF">>), pingLine>>}

QuitScripts == {<<Multibulk(<<MCQuit>>)>>, <<Multibulk(<<MCQuit>>), ping>>}

\* What no well-behaved client sends.
Malformed ==
    {Raw(<<"*9", "CR", "LF">>), Raw(<<"*-1", "CR", "LF">>), Raw(<<"*2", "k", "CR", "LF">>),
     Raw(<<"*2", "CR", "LF", "$99", "CR", "LF">>),
     Raw(<<"*2", "CR", "LF", "$-2", "CR", "LF", "k", "CR", "LF">>),
     Raw(<<"*2", "CR", "LF", "p", "CR", "LF">>),
     Raw(<<"*1", "CR", "LF", "$1", "CR">>),
     Raw(<<"$1", "CR", "LF", "k", "CR", "LF", "p", "CR", "LF">>),
     Raw(<<"*1", "CR", "LF">> \o Big("k", 13)), Raw(Big("k", 13)), Raw(<<"QUOTE", "p", "LF">>),
     Inline(<<MCQuit, <<"p">>>>, <<"LF">>), Inline(<<MCQuit>>, CRLF),
     Multibulk(<<<<"p">>, <<"k">>>>), Multibulk(<<MCQuit>>), ping}
MalformedScripts == UpTo(2, Malformed)

AllScripts == WellFormedScripts \cup MalformedScripts
=============================================================================
