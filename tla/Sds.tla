-------------------------------- MODULE Sds --------------------------------
(***************************************************************************)
(* sds.c: strings with a header in front of the characters.  The header    *)
(* has one of several types, chosen by how large a number its fields must  *)
(* hold; operations change the type, the allocation and the characters     *)
(* separately.  The limits of the types and of the preallocation are       *)
(* constants, so that small strings cross them.                            *)
(*                                                                         *)
(* Of the memory behind the header the model keeps the bytes that were     *)
(* written, up to the terminator.  Beside it, text is the string that the  *)
(* caller believes in.                                                     *)
(***************************************************************************)
EXTENDS Integers, Sequences, SequencesExt

CONSTANTS
    Letter,         \* bytes other than NUL that strings are made of
    NUL,
    LIMIT_5, LIMIT_8, LIMIT_16,   \* what the fields of each header type cannot hold
    SDS_MAX_PREALLOC,
    MaxText,        \* bound: the longest string
    MaxPart         \* bound: the longest string that is added at a time

ASSUME SdsAssumption ==
    /\ NUL \notin Letter
    /\ LIMIT_5 \in Nat /\ LIMIT_8 \in Nat /\ LIMIT_16 \in Nat
    /\ 0 < LIMIT_5 /\ LIMIT_5 < LIMIT_8 /\ LIMIT_8 < LIMIT_16

VARIABLES
    sds,            \* [type, len, alloc, size, buf]: header, bytes allocated, bytes written
    text

sdsVars == <<sds, text>>

Byte == Letter \cup {NUL}
Part == UNION {[1..n -> Byte] : n \in 0..MaxPart}

Limit(type) == CASE type = 5 -> LIMIT_5 [] type = 8 -> LIMIT_8 [] type = 16 -> LIMIT_16

-----------------------------------------------------------------------------
(***************************************************************************)
(* The header                                                              *)
(***************************************************************************)
sdsReqType(n) == IF n < LIMIT_5 THEN 5 ELSE IF n < LIMIT_8 THEN 8 ELSE 16

\* A header of type 5 does not remember free space.
sdsalloc(s) == IF s.type = 5 THEN s.len ELSE s.alloc
sdsavail(s) == sdsalloc(s) - s.len

\* Fields are cut to their width.
sdssetlen(s, n) == [s EXCEPT !.len = n % Limit(s.type)]
sdsinclen(s, n) == sdssetlen(s, s.len + n)
sdssetalloc(s, n) == IF s.type = 5 THEN s ELSE [s EXCEPT !.alloc = n % Limit(s.type)]

sdsnewlen(init) ==
    LET n == Len(init)
        type == IF n = 0 THEN 8 ELSE sdsReqType(n)
    IN  [type |-> type, len |-> n % Limit(type), alloc |-> n % Limit(type),
         size |-> n + 1, buf |-> Append(init, NUL)]

-----------------------------------------------------------------------------
(***************************************************************************)
(* Room                                                                    *)
(***************************************************************************)
\* Mutant: the type is chosen before the length is doubled.
TypeBefore(n, newlen) == IF sdsReqType(n) = 5 THEN 8 ELSE sdsReqType(n)

\* Not type 5, which could not remember the room.
TypeFor(n, newlen) == IF sdsReqType(newlen) = 5 THEN 8 ELSE sdsReqType(newlen)

Grown(n) == IF n < SDS_MAX_PREALLOC THEN 2 * n ELSE n + SDS_MAX_PREALLOC

\* No string is so long that the widest type could not hold what it grows to.
ASSUME StringsAssumption ==
    /\ MaxText \in Nat /\ MaxPart \in Nat /\ SDS_MAX_PREALLOC \in Nat
    /\ \A n \in 0..(MaxText + 2 * MaxPart + 2) : Grown(n) < LIMIT_16

Moved(s, type, n) ==
    sdssetalloc([s EXCEPT !.type = type, !.size = n + 1, !.len = @ % Limit(type)], n)

sdsMakeRoomFor(s, addlen) ==
    LET newlen == Grown(s.len + addlen)
    IN  IF sdsavail(s) >= addlen THEN s
        ELSE Moved(s, TypeFor(s.len + addlen, newlen), newlen)

sdsRemoveFreeSpace(s) == Moved(s, sdsReqType(s.len), s.len)

\* The bytes up to position n are kept, t is written behind them.
Wrote(s, n, t) == [s EXCEPT !.buf = SubSeq(@, 1, n) \o t]
Terminated(s, n) == Wrote(s, n, <<NUL>>)

-----------------------------------------------------------------------------
(***************************************************************************)
(* Operations                                                              *)
(***************************************************************************)
sdscatlen(s, t) ==
    LET r == sdsMakeRoomFor(s, Len(t))
        n == s.len + Len(t)
    IN  Terminated(sdssetlen(Wrote(r, s.len, t), n), n)

sdsgrowzero(s, n) ==
    IF n <= s.len THEN s
    ELSE LET r == sdsMakeRoomFor(s, n - s.len)
         IN  sdssetlen(Wrote(r, s.len, [i \in 1..(n - s.len + 1) |-> NUL]), n)

sdscpylen(s, t) ==
    LET r == IF sdsalloc(s) < Len(t) THEN sdsMakeRoomFor(s, Len(t) - s.len) ELSE s
    IN  sdssetlen(Terminated(Wrote(r, 0, t), Len(t)), Len(t))

sdsclear(s) == Terminated(sdssetlen(s, 0), 0)

\* strlen() of the buffer.
sdsupdatelen(s) ==
    LET first == CHOOSE i \in DOMAIN s.buf :
                    s.buf[i] = NUL /\ \A j \in 1..(i - 1) : s.buf[j] # NUL
    IN  sdssetlen([s EXCEPT !.buf = SubSeq(@, 1, first)], first - 1)

\* The caller wrote t behind the string, or shortens it.
sdsIncrLen(s, t, incr) ==
    Terminated(sdsinclen(Wrote(s, s.len, t), incr), s.len + incr)

\* strchr() finds the terminator of the set too.
InSet(cset, c) == c \in cset \/ c = NUL

sdstrim(s, cset) ==
    LET sp[i \in 0..s.len] ==
            IF i < s.len /\ InSet(cset, s.buf[i + 1]) THEN sp[i + 1] ELSE i
        ep[i \in -1..(s.len - 1)] ==
            IF i > sp[0] /\ InSet(cset, s.buf[i + 1]) THEN ep[i - 1] ELSE i
        len == IF sp[0] > ep[s.len - 1] THEN 0 ELSE ep[s.len - 1] - sp[0] + 1
    IN  sdssetlen(Terminated(Wrote(s, 0, SubSeq(s.buf, sp[0] + 1, sp[0] + len)), len), len)

RangeEnd(end, len) ==
    LET e == IF end >= 0 THEN end ELSE IF len + end < 0 THEN 0 ELSE len + end
    IN  IF e >= len THEN len - 1 ELSE e

sdsrange(s, first, last) ==
    LET start == IF first >= 0 THEN first ELSE IF s.len + first < 0 THEN 0 ELSE s.len + first
        end == RangeEnd(last, s.len)
        n == IF start > end \/ start >= s.len THEN 0 ELSE end - start + 1
    IN  IF s.len = 0 THEN s
        ELSE sdssetlen(Terminated(Wrote(s, 0, SubSeq(s.buf, start + 1, start + n)), n), n)

sdsmapchars(s, from, to) ==
    [s EXCEPT !.buf = [i \in DOMAIN @ |-> IF i <= s.len /\ @[i] = from THEN to ELSE @[i]]]

\* sdscatfmt: one item of the format, a character or what a specifier stands for.
CatItem(s, item) ==
    LET r == IF sdsavail(s) = 0 THEN sdsMakeRoomFor(s, 1) ELSE s
        q == IF sdsavail(r) < Len(item) THEN sdsMakeRoomFor(r, Len(item)) ELSE r
    IN  sdsinclen(Wrote(q, s.len, item), Len(item))

sdscatfmt(s, items) ==
    LET r == FoldLeft(CatItem, s, items) IN Terminated(r, r.len)

-----------------------------------------------------------------------------
(***************************************************************************)
(* A string and what its owner expects it to be                            *)
(***************************************************************************)
Becomes(s, t) == Len(t) <= MaxText /\ sds' = s /\ text' = t

SdsInit == \E t \in Part : sds = sdsnewlen(t) /\ text = t

Cat == \E t \in Part : Becomes(sdscatlen(sds, t), text \o t)
Duplicate == Becomes(sdsnewlen(SubSeq(sds.buf, 1, sds.len)), text)
Copy == \E t \in Part : Becomes(sdscpylen(sds, t), t)
CatFormat ==
    \E c \in Letter, t \in Part : Becomes(sdscatfmt(sds, <<<<c>>, t>>), (text \o <<c>>) \o t)
MakeRoom == \E n \in 0..MaxPart : Becomes(sdsMakeRoomFor(sds, n), text)
RemoveFreeSpace == Becomes(sdsRemoveFreeSpace(sds), text)
GrowZero ==
    \E n \in 0..MaxText :
        Becomes(sdsgrowzero(sds, n), text \o [i \in 1..(n - Len(text)) |-> NUL])
Clear == Becomes(sdsclear(sds), << >>)
UpdateLen ==
    Becomes(sdsupdatelen(sds),
            SubSeq(text, 1, IF NUL \in ToSet(text) THEN Min({i \in DOMAIN text : text[i] = NUL}) - 1
                            ELSE Len(text)))
Lengthen ==
    \E t \in Part \ {<< >>} :
        Len(t) <= sdsavail(sds) /\ Becomes(sdsIncrLen(sds, t, Len(t)), text \o t)
Shorten ==
    \E n \in 1..sds.len :
        Becomes(sdsIncrLen(sds, << >>, -n), SubSeq(text, 1, Len(text) - n))

\* The shortest piece with everything outside of the set.
Kept(t, cset) ==
    LET keep == {i \in DOMAIN t : t[i] \notin cset \cup {NUL}}
    IN  IF keep = {} THEN << >> ELSE SubSeq(t, Min(keep), Max(keep))
Trim == \E cset \in SUBSET Letter : Becomes(sdstrim(sds, cset), Kept(text, cset))

\* Both ends included, negative ones count from the end, down to the first one.
Between(t, first, last) ==
    LET at(i) == IF i >= 0 THEN i ELSE Max({0, Len(t) + i})
    IN  SubSeq(t, at(first) + 1, Min({at(last) + 1, Len(t)}))
Range_ ==
    \E first, last \in (-MaxText - 1)..MaxText :
        Becomes(sdsrange(sds, first, last), Between(text, first, last))

MapChars ==
    \E from, to \in Byte :
        Becomes(sdsmapchars(sds, from, to),
                [i \in DOMAIN text |-> IF text[i] = from THEN to ELSE text[i]])

SdsNext ==
    \/ Cat \/ Duplicate \/ Copy \/ CatFormat \/ MakeRoom \/ RemoveFreeSpace \/ GrowZero \/ Clear
    \/ UpdateLen \/ Lengthen \/ Shorten \/ Trim \/ Range_ \/ MapChars

SdsSpec == SdsInit /\ [][SdsNext]_sdsVars

-----------------------------------------------------------------------------
(***************************************************************************)
(* Properties                                                              *)
(***************************************************************************)

\* Whatever operations came before, the characters are the ones the caller expects,
\* as many as the header says, with a terminator behind them and NULs inside them
\* allowed; and they fit: the allocation is at least what the header says, and the
\* header's type can hold the numbers.
SdsIsString ==
    /\ sds.buf = Append(text, NUL) /\ sds.len = Len(text)
    /\ sds.len <= sdsalloc(sds) /\ sdsalloc(sds) < sds.size
    /\ sdsalloc(sds) < Limit(sds.type)
=============================================================================
