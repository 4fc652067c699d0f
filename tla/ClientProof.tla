----------------------------- MODULE ClientProof -----------------------------
(***************************************************************************)
(* What holds of the parser for every stream of bytes, every way to cut it *)
(* into reads and all sizes of the buffers.                                *)
(***************************************************************************)
EXTENDS Client, SequenceTheorems, FiniteSetTheorems, WellFoundedInduction, TLAPS

\* The position in the buffer is only used while arguments are read.
ReadsFromStart == phase # "bulk" => pos = 0

\* A number of missing arguments belongs to a multibulk request, and each parser
\* only sees requests of its kind.
KindsAgree ==
    /\ reqtype # "multibulk" => multibulklen = 0
    /\ phase \in {"multibulk", "bulk"} => reqtype = "multibulk"
    /\ phase = "inline" => reqtype = "inline"

\* Between two requests the client has been reset, ...
IsReset ==
    multibulklen = 0 /\ phase \in {"poll", "input", "inline", "multibulk"}
        => argv = << >> \/ QuitExecuted

\* ... and a multibulk request whose count is not read yet is at the front.
StartsWithCount ==
    reqtype = "multibulk" /\ multibulklen = 0 /\ phase \in {"poll", "input", "multibulk"}
        => (querybuf # << >> /\ IsCount(querybuf[1])) \/ QuitExecuted

ParserInv ==
    /\ TypeOK
    /\ ArgvFits
    /\ ReadsFromStart
    /\ KindsAgree
    /\ IsReset
    /\ StartsWithCount
    /\ AssertsHoldUntilQuit

-----------------------------------------------------------------------------
(***************************************************************************)
(* The helpers                                                             *)
(***************************************************************************)
LEMMA FirstIsIn ==
  ASSUME NEW T, T \subseteq Nat, T # {}
  PROVE  First(T) \in T /\ \A n \in T : First(T) <= n
<1>1. PICK m \in T : \A y \in T : ~ (<<y, m>> \in OpToRel(<, Nat))
  BY NatLessThanWellFounded, WFMin, Zenon
<1>2. ASSUME NEW n \in T PROVE m <= n
  <2>1. ~ (n < m)
    BY <1>1 DEF OpToRel
  <2>2. m \in Nat /\ n \in Nat
    OBVIOUS
  <2> QED BY <2>1, <2>2
<1> QED BY <1>2 DEF First

\* A byte that is found is in the sequence, behind the bytes that are skipped.
LEMMA FindFacts ==
  ASSUME NEW S, NEW s \in Seq(S), NEW n \in Nat, NEW b
  PROVE  /\ Find(s, n, b) \in Nat
         /\ Find(s, n, b) # 0 => /\ Find(s, n, b) \in (n + 1)..Len(s)
                                 /\ s[Find(s, n, b)] = b
<1> DEFINE at == {i \in (n + 1)..Len(s) : s[i] = b}
<1>1. Len(s) \in Nat /\ at \subseteq Nat
  BY LenProperties
<1>2. CASE at = {}
  BY <1>2 DEF Find
<1>3. CASE at # {}
  <2>1. First(at) \in at
    <3> HIDE DEF at
    <3> QED BY <1>1, <1>3, FirstIsIn
  <2>2. Find(s, n, b) = First(at)
    BY <1>3 DEF Find
  <2> QED BY <1>1, <2>1, <2>2
<1> QED BY <1>2, <1>3

LEMMA PartIsSeq ==
  ASSUME NEW S, NEW s \in Seq(S), NEW m \in Nat \ {0}, NEW n \in Int, n <= Len(s)
  PROVE  SubSeq(s, m, n) \in Seq(S)
<1>1. \A i \in m..n : s[i] \in S
  BY LenProperties, ElementOfSeq
<1> QED BY <1>1, SubSeqProperties

LEMMA DropIsSeq ==
  ASSUME NEW S, NEW s \in Seq(S), NEW n \in Nat
  PROVE  /\ Drop(s, n) \in Seq(S)
         /\ Len(Drop(s, n)) = IF n <= Len(s) THEN Len(s) - n ELSE 0
<1>1. Len(s) \in Nat
  BY LenProperties
<1>2. \A i \in (n + 1)..Len(s) : s[i] \in S
  BY <1>1, ElementOfSeq
<1>3. /\ SubSeq(s, n + 1, Len(s)) \in Seq(S)
      /\ Len(SubSeq(s, n + 1, Len(s)))
           = IF n + 1 <= Len(s) THEN Len(s) - (n + 1) + 1 ELSE 0
  BY <1>1, <1>2, SubSeqProperties
<1> QED BY <1>1, <1>3 DEF Drop

\* The bytes of a word are bytes of the line: its positions lie between its
\* first one and the end of the line, so there are not more of them.
LEMMA WordIsArgument ==
  ASSUME NEW s \in Seq(Byte), NEW n \in Nat
  PROVE  WordBytes(s, n) \in Seq(Byte)
<1> DEFINE w == Word(s, n)
           c == Cardinality(w)
<1>1. Len(s) \in Nat /\ w \subseteq 1..Len(s)
  BY LenProperties DEF Word
<1>2. IsFiniteSet(1..Len(s))
  BY <1>1, FS_Interval
<1>3. IsFiniteSet(w) /\ c \in Nat
  BY <1>1, <1>2, FS_Subset, FS_CardinalityType
<1>4. \A i \in 1..c : s[First(w) + i - 1] \in Byte
  <2> SUFFICES ASSUME NEW i \in 1..c PROVE s[First(w) + i - 1] \in Byte
    OBVIOUS
  <2>1. w # {}
    <3> SUFFICES ASSUME w = {} PROVE FALSE
      OBVIOUS
    <3>1. c = 0
      BY FS_EmptySet
    <3> HIDE DEF c
    <3> QED BY <3>1
  <2>2. First(w) \in w /\ \A j \in w : First(w) <= j
    <3>1. w \subseteq Nat
      BY <1>1
    <3> HIDE DEF w
    <3> QED BY <2>1, <3>1, FirstIsIn
  <2>3. First(w) \in 1..Len(s)
    BY <1>1, <2>2
  <2>4. w \subseteq First(w)..Len(s)
    <3> HIDE DEF w
    <3> QED BY <1>1, <2>2, <2>3
  <2>5. IsFiniteSet(First(w)..Len(s))
        /\ Cardinality(First(w)..Len(s)) = Len(s) - First(w) + 1
    <3> HIDE DEF w
    <3>1. First(w) \in Int /\ Len(s) \in Int /\ ~ (First(w) > Len(s))
      BY <1>1, <2>3
    <3> QED BY <3>1, FS_Interval
  <2>6. c <= Len(s) - First(w) + 1
    <3> HIDE DEF w
    <3> QED BY <2>4, <2>5, FS_Subset
  <2>7. First(w) + i - 1 \in 1..Len(s)
    <3> HIDE DEF w, c
    <3> QED BY <1>1, <1>3, <2>3, <2>6
  <2> QED BY <2>7, ElementOfSeq
<1>5. [i \in 1..c |-> s[First(w) + i - 1]] \in Seq(Byte)
  <2> HIDE DEF w, c
  <2>1. [i \in 1..c |-> s[First(w) + i - 1]] \in [1..c -> Byte]
    BY <1>4
  <2> QED BY <2>1, <1>3, SeqDef
<1> QED BY <1>5 DEF WordBytes

LEMMA WordsAreArguments ==
  ASSUME NEW s \in Seq(Byte)
  PROVE  Words(s) \in Arguments
<1> DEFINE c == Cardinality(Starts(s))
<1>1. Len(s) \in Nat /\ Starts(s) \subseteq 1..Len(s)
  BY LenProperties DEF Starts
<1>2. c \in Nat
  <2>1. IsFiniteSet(1..Len(s))
    BY <1>1, FS_Interval
  <2>2. IsFiniteSet(Starts(s))
    BY <1>1, <2>1, FS_Subset
  <2> QED BY <2>2, FS_CardinalityType
<1>3. \A n \in 1..c : WordBytes(s, n) \in Seq(Byte)
  BY <1>2, WordIsArgument
<1>4. [n \in 1..c |-> WordBytes(s, n)] \in [1..c -> Seq(Byte)]
  BY <1>3
<1>5. [n \in 1..c |-> WordBytes(s, n)] \in Seq(Seq(Byte))
  <2> HIDE DEF c
  <2> QED BY <1>2, <1>4, SeqDef
<1> QED BY <1>5 DEF Words, Arguments

-----------------------------------------------------------------------------
(***************************************************************************)
(* The invariant                                                           *)
(***************************************************************************)

\* Requests are only added to those that were executed.
LEMMA ExecutedGrows ==
  ASSUME executed \in Seq(Arguments), NEW a \in Arguments
  PROVE  /\ Append(executed, a) \in Seq(Arguments)
         /\ executed' = Append(executed, a) /\ QuitExecuted => QuitExecuted'
         /\ executed' = Append(executed, a) /\ a[1] = QUIT => QuitExecuted'
<1>1. /\ Append(executed, a) \in Seq(Arguments)
      /\ Len(executed) \in Nat
      /\ Len(Append(executed, a)) = Len(executed) + 1
      /\ \A i \in 1..Len(executed) : Append(executed, a)[i] = executed[i]
      /\ Append(executed, a)[Len(executed) + 1] = a
  BY AppendProperties, LenProperties
<1>2. ASSUME executed' = Append(executed, a), QuitExecuted PROVE QuitExecuted'
  BY <1>1, <1>2 DEF QuitExecuted
<1>3. ASSUME executed' = Append(executed, a), a[1] = QUIT PROVE QuitExecuted'
  <2>1. Len(executed) + 1 \in 1..Len(executed') /\ executed'[Len(executed) + 1] = a
    BY <1>1, <1>3
  <2> QED BY <2>1, <1>3 DEF QuitExecuted
<1> QED BY <1>1, <1>2, <1>3

LEMMA ArgumentAppended ==
  ASSUME argv \in Arguments, NEW a \in Seq(Byte)
  PROVE  Append(argv, a) \in Arguments /\ Len(Append(argv, a)) = Len(argv) + 1
  BY AppendProperties DEF Arguments

LEMMA InitParserInv ==
  ASSUME Init
  PROVE  ParserInv
<1>1. unread \in Seq(Byte)
  BY ClientAssumption DEF Init
<1>2. << >> \in Seq(Byte) /\ << >> \in Arguments /\ << >> \in Seq(Arguments)
      /\ Len(argv) = 0 /\ Len(querybuf) = 0
  BY EmptySeq DEF Arguments, Init
<1>3. TypeOK
  BY <1>1, <1>2, ClientAssumption DEF TypeOK, Init, Phase
<1> QED BY <1>2, <1>3 DEF ParserInv, Init, ArgvFits, ReadsFromStart, KindsAgree,
           IsReset, StartsWithCount, AssertsHoldUntilQuit

LEMMA ReadInv ==
  ASSUME ParserInv, NEW n \in Nat \ {0}, Read(n)
  PROVE  ParserInv'
<1>1. SubSeq(unread, 1, n) \in Seq(Byte) /\ unread' \in Seq(Byte)
  <2>1. unread \in Seq(Byte) /\ n <= Len(unread) /\ unread' = Drop(unread, n)
        /\ 1 \in Nat \ {0} /\ n \in Nat /\ n \in Int
    BY DEF Read, ParserInv, TypeOK
  <2> QED BY <2>1, PartIsSeq, DropIsSeq
<1>2. /\ querybuf' \in Seq(Byte)
      /\ Len(querybuf') >= Len(querybuf)
      /\ \A i \in 1..Len(querybuf) : querybuf'[i] = querybuf[i]
  BY <1>1, ConcatProperties, LenProperties DEF Read, ParserInv, TypeOK
<1>3. querybuf # << >> => querybuf' # << >> /\ querybuf'[1] = querybuf[1]
  BY <1>2, EmptySeq DEF ParserInv, TypeOK
<1>4. /\ UNCHANGED <<reqtype, multibulklen, bulklen, argv, argvcap, pos, executed>>
      /\ phase = "poll" /\ phase' = "input"
  BY DEF Read, parserVars
<1>5. TypeOK'
  BY <1>1, <1>2, <1>4, LenProperties DEF ParserInv, TypeOK, Phase
<1>6. QuitExecuted' = QuitExecuted
  BY <1>4 DEF QuitExecuted
<1> QED BY <1>3, <1>4, <1>5, <1>6 DEF ParserInv, ArgvFits, ReadsFromStart, KindsAgree,
           IsReset, StartsWithCount, AssertsHoldUntilQuit, IsCount

LEMMA FreeInv ==
  ASSUME ParserInv, freeClient
  PROVE  ParserInv'
<1>1. << >> \in Seq(Byte) /\ << >> \in Arguments /\ Len(argv') = 0 /\ Len(querybuf') = 0
  BY EmptySeq DEF Arguments, freeClient
<1>2. Len(argv) \in Nat
  BY LenProperties DEF ParserInv, TypeOK, Arguments
<1>3. TypeOK'
  BY <1>1 DEF freeClient, ParserInv, TypeOK, Phase, ReadsFromStart
<1>4. QuitExecuted' = QuitExecuted
  BY DEF QuitExecuted, freeClient
<1> QED BY <1>1, <1>2, <1>3, <1>4 DEF freeClient, ParserInv, TypeOK, ArgvFits, ReadsFromStart,
           KindsAgree, IsReset, StartsWithCount, AssertsHoldUntilQuit

LEMMA LoopInv ==
  ASSUME ParserInv, BufferEmpty \/ StartRequest
  PROVE  ParserInv'
<1>1. QuitExecuted' = QuitExecuted
  BY DEF QuitExecuted, BufferEmpty, StartRequest
<1>2. CASE BufferEmpty
  <2>1. TypeOK'
    BY <1>2, LenProperties DEF BufferEmpty, Wait, parserVars, ParserInv, TypeOK, Phase
  <2> QED BY <1>1, <1>2, <2>1 DEF BufferEmpty, Wait, parserVars, ParserInv, ArgvFits,
             ReadsFromStart, KindsAgree, IsReset, StartsWithCount, AssertsHoldUntilQuit
<1>3. CASE StartRequest
  <2>1. reqtype' \in {"inline", "multibulk"} /\ (reqtype # "none" => reqtype' = reqtype)
        /\ (reqtype = "none" /\ reqtype' = "multibulk" => IsCount(querybuf[1]))
    BY <1>3 DEF StartRequest, ParserInv, TypeOK
  <2>2. TypeOK'
    BY <1>3, <2>1 DEF StartRequest, ParserInv, TypeOK, Phase
  <2> QED BY <1>1, <1>3, <2>1, <2>2 DEF StartRequest, ParserInv, ArgvFits, IsCount,
             ReadsFromStart, KindsAgree, IsReset, StartsWithCount, AssertsHoldUntilQuit
<1> QED BY <1>2, <1>3

LEMMA ExecuteInv ==
  ASSUME ParserInv, SkipRequest \/ Execute \/ ExecuteQuit
  PROVE  ParserInv'
<1>1. << >> \in Arguments /\ Len(<< >>) = 0
  BY EmptySeq DEF Arguments
<1>2. argv \in Arguments /\ executed \in Seq(Arguments) /\ Len(argv) \in Nat
  BY LenProperties DEF ParserInv, TypeOK, Arguments
<1>3. CASE SkipRequest
  <2>1. TypeOK'
    BY <1>1, <1>3, ClientAssumption DEF SkipRequest, resetClient, ParserInv, TypeOK, Phase
  <2>2. QuitExecuted' = QuitExecuted
    BY <1>3 DEF SkipRequest, QuitExecuted
  <2> QED BY <1>1, <1>2, <1>3, <2>1, <2>2 DEF SkipRequest, resetClient, ParserInv, TypeOK,
             ArgvFits, ReadsFromStart, KindsAgree, IsReset, StartsWithCount, AssertsHoldUntilQuit
<1>4. CASE Execute
  <2>1. executed' \in Seq(Arguments)
    BY <1>2, <1>4, ExecutedGrows DEF Execute
  <2>2. TypeOK'
    BY <1>1, <1>4, <2>1, ClientAssumption DEF Execute, resetClient, ParserInv, TypeOK, Phase
  <2> QED BY <1>1, <1>2, <1>4, <2>2 DEF Execute, resetClient, ParserInv, TypeOK,
             ArgvFits, ReadsFromStart, KindsAgree, IsReset, StartsWithCount, AssertsHoldUntilQuit
<1>5. CASE ExecuteQuit
  <2>1. executed' \in Seq(Arguments) /\ QuitExecuted'
    BY <1>2, <1>5, ExecutedGrows DEF ExecuteQuit
  <2>2. TypeOK'
    BY <1>5, <2>1 DEF ExecuteQuit, parserVars, ParserInv, TypeOK, Phase
  <2> QED BY <1>5, <2>1, <2>2 DEF ExecuteQuit, parserVars, ParserInv, ArgvFits,
             ReadsFromStart, KindsAgree, IsReset, StartsWithCount, AssertsHoldUntilQuit
<1> QED BY <1>3, <1>4, <1>5

\* Waiting for bytes keeps the invariant, in front of an unchanged buffer or in
\* the middle of a request.
LEMMA WaitInv ==
  ASSUME ParserInv, Wait, UNCHANGED <<unread, parserVars, executed>>,
         querybuf' \in Seq(Byte),
         \/ phase \in {"inline", "multibulk"} /\ querybuf' = querybuf
         \/ phase = "bulk" /\ multibulklen # 0
  PROVE  ParserInv'
<1>1. Len(querybuf') \in Nat /\ QuitExecuted' = QuitExecuted
  BY LenProperties DEF QuitExecuted
<1>2. TypeOK'
  BY <1>1 DEF Wait, parserVars, ParserInv, TypeOK, Phase
<1> QED BY <1>1, <1>2 DEF Wait, parserVars, ParserInv, ArgvFits, ReadsFromStart,
           KindsAgree, IsReset, StartsWithCount, AssertsHoldUntilQuit

LEMMA InlineInv ==
  ASSUME ParserInv, processInlineBuffer
  PROVE  ParserInv'
<1>1. querybuf \in Seq(Byte) /\ Len(querybuf) \in Nat
  BY LenProperties DEF ParserInv, TypeOK
<1>2. CASE InlineWaits
  BY <1>1, <1>2, WaitInv DEF InlineWaits
<1>3. CASE ProcessInline
  <2>1. newline \in 1..Len(querybuf)
    <3>1. newline \in Nat /\ (newline # 0 => newline \in (0 + 1)..Len(querybuf))
      BY <1>1, FindFacts DEF newline
    <3> QED BY <1>1, <1>3, <3>1 DEF ProcessInline
  <2>2. querylen \in Nat /\ querylen <= Len(querybuf)
    BY <1>1, <2>1 DEF querylen
  <2>3. argv' \in Arguments /\ Len(argv') \in Nat /\ (argv' = << >> => Len(argv') = 0)
    <3>1. line \in Seq(Byte)
      BY <1>1, <2>2, PartIsSeq DEF line
    <3>2. argv' \in Arguments
      BY <1>3, <3>1, WordsAreArguments DEF ProcessInline
    <3> QED BY <3>2, LenProperties, EmptySeq DEF Arguments
  <2>4. querybuf' \in Seq(Byte) /\ Len(querybuf') \in Nat
    <3>1. querylen + 2 \in Nat /\ querybuf' = Drop(querybuf, querylen + 2)
      BY <1>3, <2>2 DEF ProcessInline
    <3>2. querybuf' \in Seq(Byte)
      BY <1>1, <3>1, DropIsSeq
    <3> QED BY <3>2, LenProperties
  <2>5. /\ phase = "inline" /\ phase' = "execute" /\ pos = 0 /\ multibulklen = 0
        /\ argvcap' = (IF argv' = << >> THEN argvcap ELSE Len(argv'))
        /\ UNCHANGED <<unread, reqtype, multibulklen, bulklen, pos, executed>>
    BY <1>3 DEF ProcessInline, ParserInv, ReadsFromStart, KindsAgree
  <2>6. argvcap' \in Nat
    BY <2>3, <2>5 DEF ParserInv, TypeOK
  <2>7. TypeOK'
    BY <2>3, <2>4, <2>5, <2>6 DEF ParserInv, TypeOK, Phase
  <2>8. QuitExecuted' = QuitExecuted
    BY <2>5 DEF QuitExecuted
  <2>9. ArgvFits'
    BY <2>3, <2>5, <2>6 DEF ArgvFits
  <2> QED BY <2>5, <2>7, <2>8, <2>9 DEF ParserInv, ReadsFromStart, KindsAgree, IsReset,
             StartsWithCount, AssertsHoldUntilQuit
<1> QED BY <1>2, <1>3 DEF processInlineBuffer

\* A line that is complete and nothing but a number has three bytes.
LEMMA NumberLine ==
  ASSUME querybuf \in Seq(Byte), NEW n \in Nat, LineComplete(n), IsNumber(n)
  PROVE  n + 3 <= Len(querybuf)
<1>1. Len(querybuf) \in Nat
  BY LenProperties
<1> QED BY <1>1 DEF LineComplete, IsNumber

LEMMA CountInv ==
  ASSUME ParserInv, ContinueRequest \/ AssertionFails \/ CountWaits \/ ReadCount
  PROVE  ParserInv'
<1>1. querybuf \in Seq(Byte) /\ Len(querybuf) \in Nat
  BY LenProperties DEF ParserInv, TypeOK
<1>2. QuitExecuted' = QuitExecuted
  BY DEF QuitExecuted, ContinueRequest, AssertionFails, Abort, CountWaits, ReadCount
<1>3. CASE ContinueRequest
  <2>1. TypeOK'
    BY <1>1, <1>3 DEF ContinueRequest, parserVars, ParserInv, TypeOK, Phase
  <2> QED BY <1>2, <1>3, <2>1 DEF ContinueRequest, parserVars, ParserInv, ArgvFits,
             ReadsFromStart, KindsAgree, IsReset, StartsWithCount, AssertsHoldUntilQuit
<1>4. CASE AssertionFails
  <2>1. QuitExecuted
    BY <1>4 DEF AssertionFails, ParserInv, IsReset, StartsWithCount, KindsAgree
  <2>2. TypeOK'
    BY <1>1, <1>4 DEF AssertionFails, Abort, parserVars, ParserInv, TypeOK, Phase
  <2> QED BY <1>2, <1>4, <2>1, <2>2 DEF AssertionFails, Abort, parserVars, ParserInv, ArgvFits,
             ReadsFromStart, KindsAgree, IsReset, StartsWithCount, AssertsHoldUntilQuit
<1>5. CASE CountWaits
  BY <1>1, <1>5, WaitInv DEF CountWaits
<1>6. CASE ReadCount
  <2> DEFINE ll == StarCount[querybuf[1]]
  <2>1. /\ phase = "multibulk" /\ multibulklen = 0 /\ argv = << >> /\ pos = 0
        /\ reqtype = "multibulk"
        /\ UNCHANGED <<unread, reqtype, bulklen, argv, executed>>
    BY <1>6 DEF ReadCount, ParserInv, ReadsFromStart, KindsAgree
  <2>2. ll \in Int /\ ll <= MAX_COUNT
    BY <1>6, ClientAssumption DEF ReadCount, CountAccepted, IsCount
  <2>3. 3 <= Len(querybuf)
    <3>1. LineComplete(0) /\ IsNumber(0) /\ 0 \in Nat /\ 0 + 3 = 3
      BY <1>6 DEF ReadCount, CountAccepted
    <3> QED BY <1>1, <3>1, NumberLine
  <2>4. Len(argv) = 0
    BY <2>1, EmptySeq
  <2>5. CASE ll <= 0
    <3>1. querybuf' = Drop(querybuf, 3) /\ phase' = "execute"
          /\ UNCHANGED <<multibulklen, argvcap, pos>>
      BY <1>6, <2>5 DEF ReadCount
    <3>2. querybuf' \in Seq(Byte) /\ Len(querybuf') \in Nat
      <4>1. querybuf' \in Seq(Byte)
        BY <1>1, <3>1, DropIsSeq
      <4> QED BY <4>1, LenProperties
    <3>3. TypeOK'
      BY <2>1, <3>1, <3>2 DEF ParserInv, TypeOK, Phase
    <3> QED BY <1>2, <2>1, <3>1, <3>3 DEF ParserInv, ArgvFits, ReadsFromStart, KindsAgree,
               IsReset, StartsWithCount, AssertsHoldUntilQuit
  <2>6. CASE ll > 0
    <3>1. /\ multibulklen' = ll /\ argvcap' = ll /\ pos' = 3 /\ phase' = "bulk"
          /\ UNCHANGED querybuf
      BY <1>6, <2>2, <2>6 DEF ReadCount, ArgvRoom
    <3> HIDE DEF ll
    <3>2. TypeOK'
      BY <1>1, <2>1, <2>2, <2>3, <2>6, <3>1, ClientAssumption DEF ParserInv, TypeOK, Phase
    <3>3. ArgvFits'
      BY <2>1, <2>2, <2>4, <3>1 DEF ArgvFits
    <3> QED BY <1>2, <2>1, <2>6, <3>1, <3>2, <3>3 DEF ParserInv, ReadsFromStart, KindsAgree,
               IsReset, StartsWithCount, AssertsHoldUntilQuit
  <2> QED BY <2>2, <2>5, <2>6
<1> QED BY <1>3, <1>4, <1>5, <1>6

LEMMA BulkWaitInv ==
  ASSUME ParserInv, LengthMissing \/ LengthRefused \/ WaitForArgument
  PROVE  ParserInv'
<1>1. querybuf \in Seq(Byte) /\ pos \in Nat
  BY LenProperties DEF ParserInv, TypeOK
<1>2. Drop(querybuf, pos) \in Seq(Byte)
  BY <1>1, DropIsSeq
<1>3. /\ Wait /\ UNCHANGED <<unread, parserVars, executed>>
      /\ querybuf' = querybuf \/ querybuf' = Drop(querybuf, pos)
      /\ phase = "bulk" /\ multibulklen # 0
  BY DEF LengthMissing, LengthRefused, WaitForArgument, ProtocolError, TrimAndWait
<1> QED BY <1>1, <1>2, <1>3, WaitInv

LEMMA ReadLengthInv ==
  ASSUME ParserInv, ReadLength
  PROVE  ParserInv'
<1>1. querybuf \in Seq(Byte) /\ Len(querybuf) \in Nat /\ pos \in Nat
  BY LenProperties DEF ParserInv, TypeOK
<1>2. pos + 3 <= Len(querybuf)
  BY <1>1, NumberLine DEF ReadLength, LengthAccepted
<1>3. bulklen' \in 0..MAX_BULK
  BY DEF ReadLength, LengthAccepted
<1>4. /\ phase = "bulk" /\ multibulklen # 0
      /\ UNCHANGED <<unread, reqtype, multibulklen, argv, argvcap, phase, executed>>
      /\ \/ querybuf' = Drop(querybuf, pos + 3) /\ pos' = 0
         \/ querybuf' = querybuf /\ pos' = pos + 3
  BY DEF ReadLength
<1>5. querybuf' \in Seq(Byte) /\ Len(querybuf') \in Nat
  <2>1. Drop(querybuf, pos + 3) \in Seq(Byte)
    BY <1>1, DropIsSeq
  <2>2. querybuf' \in Seq(Byte)
    BY <1>1, <1>4, <2>1
  <2> QED BY <2>2, LenProperties
<1>6. pos' \in 0..Len(querybuf')
  BY <1>1, <1>2, <1>4, <1>5
<1>7. TypeOK'
  BY <1>3, <1>4, <1>5, <1>6, ClientAssumption DEF ParserInv, TypeOK, Phase
<1>8. QuitExecuted' = QuitExecuted
  BY <1>4 DEF QuitExecuted
<1> QED BY <1>4, <1>7, <1>8 DEF ParserInv, ArgvFits, ReadsFromStart, KindsAgree,
           IsReset, StartsWithCount, AssertsHoldUntilQuit

LEMMA ReadArgumentInv ==
  ASSUME ParserInv, ReadArgument
  PROVE  ParserInv'
<1>1. /\ querybuf \in Seq(Byte) /\ Len(querybuf) \in Nat /\ pos \in Nat
      /\ argv \in Arguments /\ Len(argv) \in Nat
  BY LenProperties DEF ParserInv, TypeOK, Arguments
<1>2. /\ phase = "bulk" /\ multibulklen # 0 /\ bulklen # -1
      /\ bulklen' = -1 /\ multibulklen' = multibulklen - 1
      /\ UNCHANGED <<unread, reqtype, argvcap, phase, executed>>
  BY DEF ReadArgument
<1>3. bulklen \in Nat /\ pos + bulklen + 2 <= Len(querybuf)
  BY <1>1 DEF ReadArgument, ArgumentMissing, ParserInv, TypeOK
<1>4. /\ argv' \in Arguments /\ Len(argv') = Len(argv) + 1
      /\ querybuf' \in Seq(Byte) /\ pos' \in 0..Len(querybuf')
  <2>1. CASE TakeBuffer
    <3>1. << >> \in Seq(Byte) /\ Len(<< >>) = 0
      BY EmptySeq
    <3> QED BY <1>1, <2>1, <3>1, ArgumentAppended DEF TakeBuffer
  <2>2. CASE CopyArgument
    <3>1. SubSeq(querybuf, pos + 1, pos + bulklen) \in Seq(Byte)
      <4>1. pos + 1 \in Nat \ {0} /\ pos + bulklen \in Int /\ pos + bulklen <= Len(querybuf)
        BY <1>1, <1>3
      <4> QED BY <1>1, <4>1, PartIsSeq
    <3>2. argv' \in Arguments /\ Len(argv') = Len(argv) + 1
      BY <1>1, <2>2, <3>1, ArgumentAppended DEF CopyArgument
    <3> QED BY <1>1, <1>3, <2>2, <3>2 DEF CopyArgument
  <2> QED BY <2>1, <2>2 DEF ReadArgument
<1>5. TypeOK'
  <2>1. multibulklen' \in 0..MAX_COUNT /\ bulklen' \in -1..MAX_BULK
    BY <1>2, ClientAssumption DEF ParserInv, TypeOK
  <2>2. /\ unread' \in Seq(Byte) /\ executed' \in Seq(Arguments) /\ argvcap' \in Nat
        /\ reqtype' \in {"none", "inline", "multibulk"} /\ phase' \in Phase
    BY <1>2 DEF ParserInv, TypeOK
  <2> QED BY <1>4, <2>1, <2>2 DEF TypeOK
<1>6. QuitExecuted' = QuitExecuted
  BY <1>2 DEF QuitExecuted
<1>7. ArgvFits'
  BY <1>1, <1>2, <1>4 DEF ParserInv, TypeOK, ArgvFits
<1> QED BY <1>2, <1>5, <1>6, <1>7 DEF ParserInv, ReadsFromStart, KindsAgree,
           IsReset, StartsWithCount, AssertsHoldUntilQuit

LEMMA RequestCompleteInv ==
  ASSUME ParserInv, RequestComplete
  PROVE  ParserInv'
<1>1. querybuf \in Seq(Byte) /\ pos \in Nat
  BY LenProperties DEF ParserInv, TypeOK
<1>2. querybuf' \in Seq(Byte) /\ Len(querybuf') \in Nat
  <2>1. querybuf' \in Seq(Byte)
    BY <1>1, DropIsSeq DEF RequestComplete
  <2> QED BY <2>1, LenProperties
<1>3. TypeOK'
  BY <1>2 DEF RequestComplete, parserVars, ParserInv, TypeOK, Phase
<1>4. QuitExecuted' = QuitExecuted
  BY DEF RequestComplete, QuitExecuted
<1> QED BY <1>3, <1>4 DEF RequestComplete, parserVars, ParserInv, ArgvFits, ReadsFromStart,
           KindsAgree, IsReset, StartsWithCount, AssertsHoldUntilQuit

LEMMA StepInv ==
  ASSUME ParserInv, [Next]_vars
  PROVE  ParserInv'
<1>1. CASE Receive
  <2>1. PICK n \in 1..IOBUF_LEN : Read(n)
    BY <1>1 DEF Receive
  <2>2. n \in Nat \ {0}
    BY ClientAssumption
  <2> QED BY <2>1, <2>2, ReadInv
<1>2. CASE freeClient
  BY <1>2, FreeInv
<1>3. CASE processInputBuffer
  BY <1>3, LoopInv, ExecuteInv DEF processInputBuffer
<1>4. CASE processInlineBuffer
  BY <1>4, InlineInv
<1>5. CASE processMultibulkBuffer
  BY <1>5, CountInv, BulkWaitInv, ReadLengthInv, ReadArgumentInv, RequestCompleteInv
     DEF processMultibulkBuffer
<1>6. CASE UNCHANGED vars
  BY <1>6 DEF vars, parserVars, ParserInv, TypeOK, ArgvFits, ReadsFromStart, KindsAgree,
     IsReset, StartsWithCount, AssertsHoldUntilQuit, QuitExecuted
<1> QED BY <1>1, <1>2, <1>3, <1>4, <1>5, <1>6 DEF Next, Process

\* A server that waits for the rest of an argument has not got all of it.
ArgumentIncomplete ==
    phase = "poll" /\ reqtype = "multibulk" /\ multibulklen # 0 /\ bulklen # -1
        => Len(querybuf) < bulklen + 2

LEMMA IncompleteInv ==
  ASSUME ParserInv, ArgumentIncomplete, [Next]_vars
  PROVE  ArgumentIncomplete'
<1> SUFFICES ASSUME phase' = "poll", reqtype' = "multibulk", multibulklen' # 0, bulklen' # -1
             PROVE  Len(querybuf') < bulklen' + 2
  BY DEF ArgumentIncomplete
<1>1. querybuf \in Seq(Byte) /\ Len(querybuf) \in Nat /\ pos \in 0..Len(querybuf)
      /\ multibulklen \in Int /\ bulklen \in -1..MAX_BULK
  BY LenProperties DEF ParserInv, TypeOK
<1>2. CASE UNCHANGED vars
  BY <1>2 DEF vars, parserVars, ArgumentIncomplete
<1>3. CASE BufferEmpty
  <2>1. Len(querybuf) = 0 /\ querybuf' = querybuf /\ bulklen' = bulklen
    BY <1>3, EmptySeq DEF BufferEmpty, parserVars
  <2> QED BY <1>1, <2>1, ClientAssumption
\* Every other parser waits for something else than an argument.
<1>4. CASE InlineWaits
  BY <1>4 DEF InlineWaits, parserVars, ParserInv, KindsAgree
<1>5. CASE CountWaits
  BY <1>5 DEF CountWaits, parserVars
<1>6. CASE LengthMissing \/ LengthRefused
  BY <1>6 DEF LengthMissing, LengthRefused, TrimAndWait, ProtocolError, parserVars
<1>7. CASE WaitForArgument
  <2>1. bulklen' = bulklen /\ querybuf' = Drop(querybuf, pos)
    BY <1>7 DEF WaitForArgument, TrimAndWait, parserVars
  <2>2. Len(Drop(querybuf, pos)) = Len(querybuf) - pos
    <3>1. pos \in Nat /\ pos <= Len(querybuf)
      BY <1>1
    <3> QED BY <1>1, <3>1, DropIsSeq
  <2> QED BY <1>7, <2>1, <2>2 DEF WaitForArgument, ArgumentMissing
<1>8. CASE ProcessInline
  BY <1>8 DEF ProcessInline
<1>9. CASE Receive
  BY <1>9 DEF Receive, Read
<1>10. CASE freeClient
  BY <1>10 DEF freeClient
<1>11. CASE StartRequest \/ SkipRequest \/ Execute \/ ExecuteQuit
  <2>1. CASE StartRequest
    BY <2>1 DEF StartRequest
  <2>2. CASE SkipRequest \/ Execute \/ ExecuteQuit
    BY <2>2 DEF SkipRequest, Execute, ExecuteQuit
  <2> QED BY <1>11, <2>1, <2>2
<1>12. CASE ContinueRequest \/ AssertionFails \/ RequestComplete
  BY <1>12 DEF ContinueRequest, AssertionFails, Abort, RequestComplete
<1>13. CASE ReadCount
  BY <1>13 DEF ReadCount
<1>14. CASE ReadLength \/ ReadArgument
  BY <1>14 DEF ReadLength, ReadArgument
<1> QED BY <1>2, <1>3, <1>4, <1>5, <1>6, <1>7, <1>8, <1>9, <1>10, <1>11, <1>12, <1>13, <1>14
        DEF Next, Process, processInputBuffer, processInlineBuffer, processMultibulkBuffer

-----------------------------------------------------------------------------
(***************************************************************************)
(* The theorems                                                            *)
(***************************************************************************)

\* Whatever bytes a client sends, in whatever pieces they arrive: every step of
\* the parser (db.c, 246-542) keeps the invariant.
THEOREM ParserInvariant == Spec => []ParserInv
<1>1. Init => ParserInv
  BY InitParserInv
<1>2. ParserInv /\ [Next]_vars => ParserInv'
  BY StepInv
<1> QED BY <1>1, <1>2, PTL DEF Spec

\* The fields of a client stay in their ranges: bulklen, which sizes the copy
\* of an argument, is never another negative number than -1.
THEOREM ParserTypeOK == Spec => []TypeOK
<1>1. ParserInv => TypeOK
  BY DEF ParserInv
<1> QED BY <1>1, ParserInvariant, PTL

\* processMultibulkBuffer never stores an argument behind the end of c->argv,
\* also after a length that was refused and a request that is parsed on.
THEOREM ArgvNeverOverflows == Spec => []ArgvFits
<1>1. ParserInv => ArgvFits
  BY DEF ParserInv
<1> QED BY <1>1, ParserInvariant, PTL

\* The assertions of processMultibulkBuffer hold for every client that has not
\* sent QUIT.
THEOREM AssertionsHold == Spec => []AssertsHoldUntilQuit
<1>1. ParserInv => AssertsHoldUntilQuit
  BY DEF ParserInv
<1> QED BY <1>1, ParserInvariant, PTL

\* readQueryFromClient asks for at least one byte whenever it reads, also for the
\* rest of a big argument: read() returns 0 only where the client has closed.
THEOREM ReadsAsk == Spec => []ReadsSomething
<1>1. Init => ParserInv /\ ArgumentIncomplete
  BY InitParserInv DEF Init, ArgumentIncomplete
<1>2. ParserInv /\ ArgumentIncomplete /\ [Next]_vars => (ParserInv /\ ArgumentIncomplete)'
  BY StepInv, IncompleteInv
<1>3. ParserInv /\ ArgumentIncomplete => ReadsSomething
  <2> SUFFICES ASSUME ParserInv, ArgumentIncomplete, phase = "poll" PROVE readlen > 0
    BY DEF ReadsSomething
  <2>1. querybuf \in Seq(Byte) /\ Len(querybuf) \in Nat /\ bulklen \in -1..MAX_BULK
    BY LenProperties DEF ParserInv, TypeOK
  <2>2. IOBUF_LEN \in Nat \ {0} /\ BIG_ARG \in Nat \ {0} /\ MAX_BULK \in Nat
    BY ClientAssumption
  <2>3. CASE reqtype = "multibulk" /\ multibulklen # 0 /\ bulklen >= BIG_ARG
    <3>1. Len(querybuf) < bulklen + 2
      BY <2>1, <2>2, <2>3 DEF ArgumentIncomplete
    <3> QED BY <2>1, <2>2, <2>3, <3>1 DEF readlen
  <2> QED BY <2>2, <2>3 DEF readlen
<1> QED BY <1>1, <1>2, <1>3, PTL DEF Spec
=============================================================================
