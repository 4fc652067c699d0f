------------------------------ MODULE SdsSplit ------------------------------
(***************************************************************************)
(* sds.c: strings taken apart and put together again, one turn of the loop *)
(* at a time.  sdssplitlen and sdsjoin with a separator, which loadDb and  *)
(* the configuration use; sdssplitargs and sdscatrepr, words with quotes   *)
(* and escapes.  Bytes are their codes.                                    *)
(***************************************************************************)
EXTENDS Integers, Sequences, SequencesExt

CONSTANTS
    Sep,            \* separators
    SplitByte,      \* bytes of the strings that are split
    ArgByte,        \* bytes of the words that are written and read again
    MaxSplit,       \* bound: the longest string that is split
    MaxArg,         \* bound: the longest word
    SLOTS           \* tokens that sdssplitlen starts with room for

\* sdssplitlen refuses an empty separator.
ASSUME SplitAssumption ==
    /\ Sep \subseteq Seq(SplitByte) /\ << >> \notin Sep
    /\ ArgByte \subseteq 0..255
    /\ MaxSplit \in Nat /\ MaxArg \in Nat /\ SLOTS \in Nat \ {0}

VARIABLES
    src,            \* what is split: the string, or the word that was written
    cut,            \* the locals of sdssplitlen
    arg             \* the locals of sdssplitargs

splitVars == <<src, cut, arg>>

Strings(B, n) == UNION {[1..k -> B] : k \in 0..n}
At(s, p) == IF p < Len(s) THEN s[p + 1] ELSE 0      \* C strings end with NUL
Bytes(s, from, to) == SubSeq(s, from + 1, to)       \* from, and up to before to

IdleCut == [on |-> FALSE, sep |-> << >>, j |-> 0, start |-> 0, slots |-> SLOTS, tokens |-> << >>,
            done |-> FALSE]
IdleArg == [on |-> FALSE, line |-> << >>, p |-> 0, mode |-> "blank", current |-> << >>,
            vector |-> << >>, balanced |-> TRUE]

SplitInit ==
    \/ /\ src \in Strings(SplitByte, MaxSplit)
       /\ cut \in {[IdleCut EXCEPT !.on = TRUE, !.sep = s] : s \in Sep}
       /\ arg = IdleArg
    \/ /\ src \in Strings(ArgByte, MaxArg)
       /\ cut = IdleCut
       /\ arg = [IdleArg EXCEPT !.on = TRUE]

-----------------------------------------------------------------------------
(***************************************************************************)
(* sdssplitlen                                                             *)
(***************************************************************************)
IsSeparator == Bytes(src, cut.j, cut.j + Len(cut.sep)) = cut.sep
Searching == cut.on /\ ~ cut.done /\ src # << >> /\ cut.j < Len(src) - (Len(cut.sep) - 1)

\* Mutant: no room is kept for the final token.
RoomForNext == IF cut.slots < Len(cut.tokens) + 1 THEN 2 * cut.slots ELSE cut.slots

\* Room for the next token and the final one.
Slots == IF cut.slots < Len(cut.tokens) + 2 THEN 2 * cut.slots ELSE cut.slots

FoundSeparator ==
    /\ Searching /\ IsSeparator
    /\ cut' = [cut EXCEPT !.slots = Slots, !.tokens = Append(@, Bytes(src, cut.start, cut.j)),
                          !.start = cut.j + Len(cut.sep), !.j = @ + Len(cut.sep)]
    /\ UNCHANGED <<src, arg>>

NoSeparator ==
    /\ Searching /\ ~ IsSeparator
    /\ cut' = [cut EXCEPT !.slots = Slots, !.j = @ + 1]
    /\ UNCHANGED <<src, arg>>

FinalToken ==
    /\ cut.on /\ ~ cut.done /\ ~ Searching
    /\ cut' = [cut EXCEPT !.done = TRUE,
                          !.tokens = IF src = << >> THEN << >>
                                     ELSE Append(@, Bytes(src, cut.start, Len(src)))]
    /\ UNCHANGED <<src, arg>>

sdsjoin(argv, sep) ==
    FlattenSeq([i \in DOMAIN argv |-> IF i < Len(argv) THEN argv[i] \o sep ELSE argv[i]])

-----------------------------------------------------------------------------
(***************************************************************************)
(* sdscatrepr                                                              *)
(***************************************************************************)
QUOTE == 34  APOSTROPHE == 39  BACKSLASH == 92
isprint(c) == c \in 32..126
isspace(c) == c \in {32} \cup 9..13
\* \n \r \t \a \b: what the escape stands for, by its letter.
Escape == [c \in {110, 114, 116, 97, 98} |->
    CASE c = 110 -> 10 [] c = 114 -> 13 [] c = 116 -> 9 [] c = 97 -> 7 [] c = 98 -> 8]

HexDigit(d) == IF d < 10 THEN 48 + d ELSE 87 + d
is_hex_digit(c) == c \in 48..57 \cup 97..102 \cup 65..70
hex_digit_to_int(c) ==
    CASE c \in 48..57 -> c - 48 [] c \in 97..102 -> c - 87 [] c \in 65..70 -> c - 55

ReprOf(c) ==
    CASE c \in {BACKSLASH, QUOTE} -> <<BACKSLASH, c>>
      [] \E e \in DOMAIN Escape : Escape[e] = c -> <<BACKSLASH, CHOOSE e \in DOMAIN Escape : Escape[e] = c>>
      [] isprint(c) /\ c \notin {BACKSLASH, QUOTE} -> <<c>>
      [] OTHER -> <<BACKSLASH, 120, HexDigit(c \div 16), HexDigit(c % 16)>>

sdscatrepr(s, p) ==
    ((s \o <<QUOTE>>) \o FlattenSeq([i \in DOMAIN p |-> ReprOf(p[i])])) \o <<QUOTE>>

\* How people write a word: in single quotes, or as it is.
SingleQuoted(p) ==
    (<<APOSTROPHE>> \o
     FlattenSeq([i \in DOMAIN p |-> IF p[i] = APOSTROPHE THEN <<BACKSLASH, APOSTROPHE>> ELSE <<p[i]>>]))
    \o <<APOSTROPHE>>
Written(p) ==
    {sdscatrepr(<< >>, p)}
    \cup (IF ToSet(p) \cap {0, BACKSLASH} = {} THEN {SingleQuoted(p)} ELSE {})
    \cup (IF p # << >> /\ \A c \in ToSet(p) : c # 0 /\ ~ isspace(c) /\ c \notin {QUOTE, APOSTROPHE}
          THEN {p} ELSE {})

\* The same word twice, in any two ways of writing it.
WriteLine ==
    /\ arg.on /\ arg.line = << >>
    /\ \E one, two \in Written(src), between \in {<<32>>, <<9, 32>>} :
        arg' = [arg EXCEPT !.line = (one \o between) \o two, !.balanced = TRUE]
    /\ UNCHANGED <<src, cut>>

\* The closing quote is missing, or something follows it at once.
WriteUnbalanced ==
    /\ arg.on /\ arg.line = << >>
    /\ \E quoted \in {sdscatrepr(<<97, 32>>, src)} \cup (Written(src) \cap {SingleQuoted(src)}) :
        \E line \in {SubSeq(quoted, 1, Len(quoted) - 1), Append(quoted, 97)} :
            arg' = [arg EXCEPT !.line = line, !.balanced = FALSE]
    /\ UNCHANGED <<src, cut>>

-----------------------------------------------------------------------------
(***************************************************************************)
(* sdssplitargs                                                            *)
(***************************************************************************)
Here == At(arg.line, arg.p)
There(i) == At(arg.line, arg.p + i)
Reading(mode) == arg.on /\ arg.line # << >> /\ arg.mode = mode

\* The loop ends with: if (*p) p++.
Goes(a, n) == [a EXCEPT !.p = IF At(a.line, a.p + n) = 0 THEN a.p + n ELSE a.p + n + 1]
Takes(c, n) == arg' = Goes([arg EXCEPT !.current = Append(@, c)], n)
TokenDone == Goes([arg EXCEPT !.mode = "blank", !.vector = Append(@, arg.current),
                              !.current = << >>], 0)

SkipBlanks ==
    /\ Reading("blank")
    /\ arg' = IF isspace(Here) THEN [arg EXCEPT !.p = @ + 1]
              ELSE [arg EXCEPT !.mode = IF Here = 0 THEN "end" ELSE "plain"]
    /\ UNCHANGED <<src, cut>>

Plain ==
    /\ Reading("plain")
    /\ \/ Here \in {32, 10, 13, 9, 0} /\ arg' = TokenDone
       \/ Here = QUOTE /\ arg' = Goes([arg EXCEPT !.mode = "quotes"], 0)
       \/ Here = APOSTROPHE /\ arg' = Goes([arg EXCEPT !.mode = "single"], 0)
       \/ Here \notin {32, 10, 13, 9, 0, QUOTE, APOSTROPHE} /\ Takes(Here, 0)
    /\ UNCHANGED <<src, cut>>

IsHex == Here = BACKSLASH /\ There(1) = 120 /\ is_hex_digit(There(2)) /\ is_hex_digit(There(3))
Failed == [arg EXCEPT !.mode = "error", !.vector = << >>]
Closes == IF There(1) # 0 /\ ~ isspace(There(1)) THEN Failed ELSE TokenDone

HexByte == Takes(hex_digit_to_int(There(2)) * 16 + hex_digit_to_int(There(3)), 3)

InQuotes ==
    /\ Reading("quotes")
    /\ \/ IsHex /\ HexByte
       \/ /\ ~ IsHex /\ Here = BACKSLASH /\ There(1) # 0
          /\ Takes(IF There(1) \in DOMAIN Escape THEN Escape[There(1)] ELSE There(1), 1)
       \/ Here = QUOTE /\ arg' = Closes
       \/ Here = 0 /\ arg' = Failed
       \/ Here \notin {QUOTE, 0} /\ (Here = BACKSLASH => There(1) = 0) /\ Takes(Here, 0)
    /\ UNCHANGED <<src, cut>>

InSingleQuotes ==
    /\ Reading("single")
    /\ \/ Here = BACKSLASH /\ There(1) = APOSTROPHE /\ Takes(APOSTROPHE, 1)
       \/ Here = APOSTROPHE /\ arg' = Closes
       \/ Here = 0 /\ arg' = Failed
       \/ /\ Here \notin {APOSTROPHE, 0} /\ ~ (Here = BACKSLASH /\ There(1) = APOSTROPHE)
          /\ Takes(Here, 0)
    /\ UNCHANGED <<src, cut>>

SplitNext ==
    \/ FoundSeparator \/ NoSeparator \/ FinalToken
    \/ WriteLine \/ WriteUnbalanced \/ SkipBlanks \/ Plain \/ InQuotes \/ InSingleQuotes

SplitSpec == SplitInit /\ [][SplitNext]_splitVars

-----------------------------------------------------------------------------
(***************************************************************************)
(* Properties                                                              *)
(***************************************************************************)

\* Joining what was split gives the string again, no token holds the separator,
\* and no token is stored where there is no room ("We are sure there is room in the
\* tokens array").  What sdscatrepr wrote, sdssplitargs reads back, whatever bytes
\* it is made of ("sdscatrepr() is able to convert back a string into a quoted
\* string in the same format sdssplitargs() is able to parse"), also next to words
\* in the other forms; exactly the unbalanced lines are refused.
SplitsUndo ==
    /\ Len(cut.tokens) <= cut.slots
    /\ cut.done =>
        /\ sdsjoin(cut.tokens, cut.sep) = src
        /\ \A i \in DOMAIN cut.tokens : \A j \in 0..(Len(cut.tokens[i]) - Len(cut.sep)) :
            Bytes(cut.tokens[i], j, j + Len(cut.sep)) # cut.sep
    /\ arg.mode = "error" => ~ arg.balanced
    /\ arg.mode = "end" => arg.balanced /\ arg.vector = <<src, src>>
=============================================================================
