------------------------------ MODULE Numbers ------------------------------
(***************************************************************************)
(* Numbers as text: sdsll2str and sdsull2str of sds.c, with which replies  *)
(* are built, and string2ll of util.c, which reads the counts and lengths  *)
(* of requests.  Machine integers end at LLONG_MAX; the arithmetic wraps   *)
(* or is guarded as it is in the code.  Characters are their codes.        *)
(***************************************************************************)
EXTENDS Integers, Sequences, SequencesExt

CONSTANTS
    LLONG_MAX,      \* the greatest long long
    Char,           \* characters that a peer may send
    MaxWord         \* bound: the longest text

ASSUME NumberAssumption == LLONG_MAX \in Nat /\ MaxWord \in Nat

VARIABLES word, parse

numberVars == <<word, parse>>

\* Two's complement: there is one more negative number than positive ones.
ULLONG_MAX == 2 * LLONG_MAX + 1
LLONG_MIN == -LLONG_MAX - 1
Unsigned(n) == n % (ULLONG_MAX + 1)
Signed(n) == IF n > LLONG_MAX THEN n - (ULLONG_MAX + 1) ELSE n

MINUS == 45  ZERO == 48
IsDigit(c) == c \in ZERO..(ZERO + 9)

-----------------------------------------------------------------------------
(***************************************************************************)
(* Writing: the digits from the last one on, then turned round.            *)
(***************************************************************************)
Digits[v \in Nat] == IF v < 10 THEN <<ZERO + v>> ELSE <<ZERO + (v % 10)>> \o Digits[v \div 10]

sdsull2str(v) == Reverse(Digits[v])

\* -value of the least number is itself in the build, and LLONG_MAX + 1 as unsigned.
sdsll2str(value) ==
    LET v == IF value < 0 THEN Unsigned(-value) ELSE value
    IN  Reverse(Digits[v] \o IF value < 0 THEN <<MINUS>> ELSE << >>)

-----------------------------------------------------------------------------
(***************************************************************************)
(* Reading, a digit at a time                                              *)
(***************************************************************************)
Fresh == [state |-> "start", v |-> 0, plen |-> 0, negative |-> FALSE]
Refused == [parse EXCEPT !.state = "refused"]
Accepted(n) == [parse EXCEPT !.state = "accepted", !.v = n]

NumberInit == word \in UNION {[1..n -> Char] : n \in 0..MaxWord} /\ parse = Fresh

C == word[parse.plen + 1]
More == parse.plen < Len(word)

\* The sign and the first digit, which is 0 only alone.
FirstDigit ==
    LET negative == word # << >> /\ word[1] = MINUS
        p == IF negative THEN 1 ELSE 0
    IN  /\ parse.state = "start"
        /\ parse' = IF word = <<ZERO>> THEN Accepted(0)
                    ELSE IF p >= Len(word) THEN Refused
                    ELSE IF ~ IsDigit(word[p + 1]) \/ word[p + 1] = ZERO THEN Refused
                    ELSE [state |-> "digits", v |-> word[p + 1] - ZERO, plen |-> p + 1,
                          negative |-> negative]
        /\ UNCHANGED word

\* Mutant: only the addition is guarded.
OverflowsLate(v, d) == Unsigned(v * 10) > ULLONG_MAX - d
Overflows(v, d) == v > ULLONG_MAX \div 10 \/ Unsigned(v * 10) > ULLONG_MAX - d

NextDigit ==
    /\ parse.state = "digits" /\ More /\ IsDigit(C)
    /\ LET d == C - ZERO
       IN  parse' = IF Overflows(parse.v, d) THEN Refused
                    ELSE [parse EXCEPT !.v = Unsigned(@ * 10 + d), !.plen = @ + 1]
    /\ UNCHANGED word

LastDigit ==
    /\ parse.state = "digits" /\ ~ (More /\ IsDigit(C))
    /\ parse' = IF More THEN Refused
                ELSE IF parse.negative
                     THEN IF parse.v > Unsigned(-(LLONG_MIN + 1)) + 1 THEN Refused
                          ELSE Accepted(Signed(Unsigned(-parse.v)))
                ELSE IF parse.v > LLONG_MAX THEN Refused ELSE Accepted(parse.v)
    /\ UNCHANGED word

NumberNext == FirstDigit \/ NextDigit \/ LastDigit

NumberSpec == NumberInit /\ [][NumberNext]_numberVars

-----------------------------------------------------------------------------
(***************************************************************************)
(* Properties                                                              *)
(***************************************************************************)

\* string2ll accepts exactly the texts that sdsll2str writes, down to the least
\* number and up to the greatest, and returns the number they were written from:
\* a text that is too large by one, or whose last multiplication would wrap to
\* something small, is refused, and so is a leading zero or "-0".
NumbersExact ==
    /\ parse.state = "accepted" => parse.v \in LLONG_MIN..LLONG_MAX /\ sdsll2str(parse.v) = word
    /\ parse.state = "refused" => \A n \in LLONG_MIN..LLONG_MAX : sdsll2str(n) # word
    /\ parse.state = "accepted" /\ parse.v >= 0 => sdsull2str(parse.v) = word
=============================================================================
