------------------------------ MODULE SdsProof ------------------------------
(***************************************************************************)
(* Strings, numbers, the start of the server, and splitting.  A string is  *)
(* always what its caller expects, for any letters, any limits of the      *)
(* header types and any preallocation, as long as the widest type holds    *)
(* what the strings grow to.  Every operation has a lemma: from a string   *)
(* that is right it makes the right string.                                *)
(***************************************************************************)
EXTENDS Sds, SdsSplit, Numbers, Startup, SequenceTheorems,
        FiniteSetTheorems, WellFoundedInduction, TLAPS

Header == [type : {5, 8, 16}, len : Nat, alloc : Nat, size : Nat, buf : Seq(Byte)]

\* There is room for n characters behind the header s.
Room(s, n) ==
    /\ n \in Nat /\ n < s.size /\ n < Limit(s.type)
    /\ s.type # 5 => n <= s.alloc /\ s.alloc < s.size /\ s.alloc < Limit(s.type)

\* w begins with the characters of u.
Begins(w, u) ==
    /\ w \in Seq(Byte) /\ u \in Seq(Byte) /\ Len(u) <= Len(w)
    /\ \A i \in 1..Len(u) : w[i] = u[i]

\* s holds the characters of t, whatever is behind them.
Carries(s, t) ==
    /\ s \in Header /\ t \in Seq(Byte)
    /\ s.len = Len(t) /\ Room(s, Len(t)) /\ Begins(s.buf, t)

IsSds(s, t) == Carries(s, t) /\ s.buf = Append(t, NUL)

LEMMA Limits ==
    /\ Limit(5) = LIMIT_5 /\ Limit(8) = LIMIT_8 /\ Limit(16) = LIMIT_16
    /\ \A type \in {5, 8, 16} : Limit(type) \in Nat /\ 0 < Limit(type) /\ Limit(type) <= LIMIT_16
<1>1. Limit(5) = LIMIT_5
  BY DEF Limit
<1>2. Limit(8) = LIMIT_8
  BY DEF Limit
<1>3. Limit(16) = LIMIT_16
  BY DEF Limit
<1> QED BY <1>1, <1>2, <1>3, SdsAssumption

\* A number that fits is not cut.
LEMMA NotCut == \A n, m \in Nat : n < m => n % m = n
OBVIOUS

LEMMA ReqType ==
  ASSUME NEW n \in Nat, n < LIMIT_16
  PROVE  sdsReqType(n) \in {5, 8, 16} /\ n < Limit(sdsReqType(n))
BY Limits, SdsAssumption DEF sdsReqType

LEMMA Cut ==
  ASSUME NEW s \in Header, NEW n \in Nat, Room(s, n)
  PROVE  /\ sdssetlen(s, n) \in Header /\ sdssetlen(s, n).len = n
         /\ sdssetlen(s, n).type = s.type /\ sdssetlen(s, n).alloc = s.alloc
         /\ sdssetlen(s, n).size = s.size /\ sdssetlen(s, n).buf = s.buf
<1>1. s.type \in {5, 8, 16} /\ n < Limit(s.type)
  BY DEF Header, Room
<1>2. n % Limit(s.type) = n
  BY <1>1, Limits, NotCut
<1>3. sdssetlen(s, n) = [s EXCEPT !.len = n]
  BY <1>2 DEF sdssetlen
<1> QED BY <1>3 DEF Header

LEMMA RoomLess ==
  ASSUME NEW s \in Header, NEW n \in Nat, Room(s, n), NEW m \in Nat, m <= n
  PROVE  Room(s, m)
<1>1. Limit(s.type) \in Nat
  BY Limits DEF Header
<1> QED BY <1>1 DEF Room, Header

LEMMA RoomSame ==
  ASSUME NEW s, NEW n, Room(s, n), NEW r, r.type = s.type, r.alloc = s.alloc, r.size = s.size
  PROVE  Room(r, n)
BY DEF Room

-----------------------------------------------------------------------------
LEMMA NulIsByte == NUL \in Byte /\ <<NUL>> \in Seq(Byte) /\ Len(<<NUL>>) = 1 /\ << >> \in Seq(Byte)
<1>1. NUL \in Byte
  BY DEF Byte
<1> QED BY <1>1

LEMMA Beginning ==
  ASSUME NEW w, NEW u, Begins(w, u), NEW m \in 0..Len(u)
  PROVE  /\ SubSeq(w, 1, m) = SubSeq(u, 1, m)
         /\ SubSeq(w, 1, m) \in Seq(Byte) /\ Len(SubSeq(w, 1, m)) = m
         /\ m = Len(u) => SubSeq(w, 1, m) = u
<1>1. Len(u) \in Nat /\ Len(w) \in Nat /\ u \in Seq(Byte)
  BY LenProperties DEF Begins
<1>2. \A i \in 1..m : w[i] = u[i]
  BY <1>1 DEF Begins
<1>3. \A i \in 1..m : u[i] \in Byte
  BY <1>1, ElementOfSeq
<1>4. \A i \in 1..m : w[i] \in Byte
  BY <1>2, <1>3
<1>5. PICK c, d : c = SubSeq(w, 1, m) /\ d = SubSeq(u, 1, m)
  OBVIOUS
<1>6. m \in Nat
  BY <1>1
<1>7. c \in Seq(Byte) /\ Len(c) = IF 1 <= m THEN m - 1 + 1 ELSE 0
  BY <1>4, <1>5, <1>6, SubSeqProperties
<1>8. \A i \in 1..(m - 1 + 1) : c[i] = w[1 + i - 1]
  BY <1>4, <1>5, <1>6, SubSeqProperties
<1>9. d \in Seq(Byte) /\ Len(d) = IF 1 <= m THEN m - 1 + 1 ELSE 0
  BY <1>3, <1>5, <1>6, SubSeqProperties
<1>10. \A i \in 1..(m - 1 + 1) : d[i] = u[1 + i - 1]
  BY <1>3, <1>5, <1>6, SubSeqProperties
<1>11. Len(c) = m /\ Len(d) = m
  BY <1>6, <1>7, <1>9
<1>12. \A i \in 1..m : c[i] = u[i] /\ d[i] = u[i]
  BY <1>2, <1>6, <1>8, <1>10
<1>13. c = d
  BY <1>7, <1>9, <1>11, <1>12, SeqEqual
<1>14. m = Len(u) => c = u
  BY <1>1, <1>7, <1>11, <1>12, SeqEqual
<1> QED BY <1>5, <1>7, <1>11, <1>13, <1>14

LEMMA JoinedBegins ==
  ASSUME NEW u \in Seq(Byte), NEW v \in Seq(Byte), NEW w, w = u \o v
  PROVE  Begins(w, u)
<1>1. Len(u) \in Nat /\ Len(v) \in Nat
  BY LenProperties
<1>2. w \in Seq(Byte)
  BY ConcatProperties
<1>3. Len(w) = Len(u) + Len(v)
  BY ConcatProperties
<1>4. \A i \in 1..(Len(u) + Len(v)) : w[i] = IF i <= Len(u) THEN u[i] ELSE v[i - Len(u)]
  BY ConcatProperties
<1>5. \A i \in 1..Len(u) : w[i] = u[i]
  BY <1>1, <1>4
<1> QED BY <1>1, <1>2, <1>3, <1>5 DEF Begins

\* v is the first n bytes of s and then t; r is s with the bytes v.
IsKeptAnd(v, s, n, t) == v \in Seq(Byte) /\ v = SubSeq(s.buf, 1, n) \o t
IsWritten(r, s, v) ==
    /\ r \in Header /\ r.buf = v
    /\ r.type = s.type /\ r.len = s.len /\ r.alloc = s.alloc /\ r.size = s.size

LEMMA WroteIs ==
  ASSUME NEW s \in Header, NEW n, NEW t, NEW r, r = Wrote(s, n, t),
         NEW v, IsKeptAnd(v, s, n, t)
  PROVE  IsWritten(r, s, v)
<1>1. r = [s EXCEPT !.buf = v] /\ v \in Seq(Byte)
  BY DEF Wrote, IsKeptAnd
<1> QED BY <1>1 DEF Header, IsWritten

\* The end of every operation that writes: the length is set and the terminator
\* written, in one order or the other.
LEMMA Finish ==
  ASSUME NEW w \in Header, NEW u \in Seq(Byte), Room(w, Len(u)), Begins(w.buf, u)
  PROVE  /\ IsSds(sdssetlen(Terminated(w, Len(u)), Len(u)), u)
         /\ IsSds(Terminated(sdssetlen(w, Len(u)), Len(u)), u)
<1>1. PICK n \in Nat : n = Len(u)
  BY LenProperties
<1>2. PICK c : c = u \o <<NUL>>
  OBVIOUS
<1>3. c = Append(u, NUL)
  BY <1>2, NulIsByte, AppendIsConcat
<1>4. c \in Seq(Byte) /\ Begins(c, u)
  <2>2. PICK e : e = <<NUL>>
    OBVIOUS
  <2>3. e \in Seq(Byte) /\ c = u \o e
    BY <1>2, <2>2, NulIsByte
  <2>1. Begins(c, u)
    BY <2>3, JoinedBegins
  <2> QED BY <2>1 DEF Begins
<1>5. ASSUME NEW x \in Header, x.type = w.type, x.alloc = w.alloc, x.size = w.size,
             x.buf = w.buf,
             NEW y, y = Terminated(x, n)
      PROVE  y \in Header /\ y.buf = c /\ y.type = w.type /\ y.alloc = w.alloc /\ y.size = w.size
             /\ y.len = x.len
  <2>3. PICK e : e = <<NUL>>
    OBVIOUS
  <2>1. c = SubSeq(x.buf, 1, n) \o e
    <3>1. n \in 0..Len(u)
      BY <1>1
    <3>2. SubSeq(w.buf, 1, n) = u
      BY <1>1, <3>1, Beginning
    <3> QED BY <1>2, <1>5, <2>3, <3>2
  <2>2. y = Wrote(x, n, e)
    BY <1>5, <2>3 DEF Terminated
  <2>4. IsKeptAnd(c, x, n, e)
    BY <1>4, <2>1 DEF IsKeptAnd
  <2>5. x \in Header
    BY <1>5
  <2>6. IsWritten(y, x, c)
    BY <2>2, <2>4, <2>5, WroteIs
  <2> QED BY <1>5, <2>6 DEF IsWritten
<1>6. ASSUME NEW y \in Header, y.buf = c, y.type = w.type, y.alloc = w.alloc, y.size = w.size,
             y.len = n
      PROVE  IsSds(y, u)
  <2>1. Room(y, n)
    BY <1>1, <1>6, RoomSame
  <2> QED BY <1>1, <1>3, <1>4, <1>6, <2>1 DEF IsSds, Carries
<1>7. IsSds(sdssetlen(Terminated(w, n), n), u)
  <2>1. PICK y : y = Terminated(w, n)
    OBVIOUS
  <2>2. y \in Header /\ y.buf = c /\ y.type = w.type /\ y.alloc = w.alloc /\ y.size = w.size
    BY <1>1, <1>5, <2>1
  <2>3. Room(y, n)
    BY <1>1, <2>2, RoomSame
  <2>4. PICK z : z = sdssetlen(y, n)
    OBVIOUS
  <2>5. /\ z \in Header /\ z.buf = c /\ z.type = w.type
        /\ z.alloc = w.alloc /\ z.size = w.size /\ z.len = n
    BY <2>2, <2>3, <2>4, Cut
  <2> QED BY <1>6, <2>1, <2>4, <2>5
<1>8. IsSds(Terminated(sdssetlen(w, n), n), u)
  <2>1. PICK z : z = sdssetlen(w, n)
    OBVIOUS
  <2>2. /\ z \in Header /\ z.buf = w.buf /\ z.type = w.type
        /\ z.alloc = w.alloc /\ z.size = w.size /\ z.len = n
    BY <1>1, <2>1, Cut
  <2>3. PICK y : y = Terminated(z, n)
    OBVIOUS
  <2>4. /\ y \in Header /\ y.buf = c /\ y.type = w.type
        /\ y.alloc = w.alloc /\ y.size = w.size /\ y.len = n
    BY <1>1, <1>5, <2>2, <2>3
  <2> QED BY <1>6, <2>1, <2>3, <2>4
<1> QED BY <1>1, <1>7, <1>8

-----------------------------------------------------------------------------
\* r is s with room for n characters.
IsRoomy(r, s, n) == r \in Header /\ r.buf = s.buf /\ r.len = s.len /\ Room(r, n)

LEMMA MovedIsRoomy ==
  ASSUME NEW s \in Header, NEW type \in {5, 8, 16}, NEW n \in Nat, n < Limit(type),
         s.len <= n, NEW m \in Nat, m <= n, NEW r, r = Moved(s, type, n)
  PROVE  IsRoomy(r, s, m)
<1>1. s.len \in Nat /\ Limit(type) \in Nat /\ s.alloc \in Nat /\ s.buf \in Seq(Byte)
  BY Limits DEF Header
<1>2. s.len % Limit(type) = s.len /\ n % Limit(type) = n
  BY <1>1, NotCut
<1>8. PICK z \in Nat : z = n + 1
  OBVIOUS
<1>9. PICK h : h = s.len
  OBVIOUS
<1>10. PICK x : x = [s EXCEPT !.type = type, !.size = z, !.len = h]
  OBVIOUS
<1>3. x = [s EXCEPT !.type = type, !.size = n + 1, !.len = s.len]
  BY <1>8, <1>9, <1>10
<1>4. /\ x \in Header /\ x.type = type /\ x.size = n + 1 /\ x.len = s.len
      /\ x.alloc = s.alloc /\ x.buf = s.buf
  <2>1. h \in Nat
    BY <1>1, <1>9
  <2>2. x \in Header
    BY <1>10, <2>1 DEF Header
  <2>3. /\ x.type = type /\ x.size = z /\ x.len = h
        /\ x.alloc = s.alloc /\ x.buf = s.buf
    BY <1>10 DEF Header
  <2> QED BY <1>8, <1>9, <2>2, <2>3
<1>5. r = sdssetalloc(x, n)
  BY <1>2, <1>3 DEF Moved
<1>6. CASE type = 5
  <2>1. r = x
    BY <1>4, <1>5, <1>6 DEF sdssetalloc
  <2> QED BY <1>1, <1>4, <1>6, <2>1 DEF IsRoomy, Room
<1>7. CASE type # 5
  <2>1. r = [x EXCEPT !.alloc = n]
    BY <1>2, <1>4, <1>5, <1>7 DEF sdssetalloc
  <2>2. /\ r \in Header /\ r.type = type /\ r.size = n + 1
        /\ r.len = s.len /\ r.alloc = n /\ r.buf = s.buf
    BY <1>4, <2>1 DEF Header
  <2> QED BY <1>1, <2>2 DEF IsRoomy, Room
<1> QED BY <1>6, <1>7

LEMMA Roomy ==
  ASSUME NEW s, NEW t, Carries(s, t), NEW n, NEW r, IsRoomy(r, s, n), n \in Nat, Len(t) <= n
  PROVE  Carries(r, t) /\ (IsSds(s, t) => IsSds(r, t))
<1>1. Len(t) \in Nat
  BY LenProperties DEF Carries
<1>2. Room(r, Len(t))
  BY <1>1, RoomLess DEF IsRoomy
<1> QED BY <1>2 DEF Carries, IsSds, IsRoomy

\* What is free is room.
LEMMA Available ==
  ASSUME NEW s, NEW t, Carries(s, t), NEW k \in Nat
  PROVE  /\ sdsalloc(s) \in Nat /\ sdsavail(s) \in Nat /\ Len(t) <= sdsalloc(s)
         /\ k <= sdsalloc(s) => Room(s, k)
         /\ k <= sdsavail(s) => Room(s, Len(t) + k)
<1>1. s \in Header /\ s.len = Len(t) /\ Room(s, Len(t)) /\ Len(t) \in Nat
  BY LenProperties DEF Carries
<1>2. s.alloc \in Nat /\ s.size \in Nat /\ Limit(s.type) \in Nat
  BY <1>1, Limits DEF Header
<1>3. /\ sdsalloc(s) \in Nat /\ sdsavail(s) = sdsalloc(s) - Len(t) /\ Len(t) <= sdsalloc(s)
      /\ sdsalloc(s) < s.size /\ sdsalloc(s) < Limit(s.type)
      /\ s.type # 5 => sdsalloc(s) = s.alloc
  BY <1>1, <1>2 DEF sdsalloc, sdsavail, Room
<1>4. ASSUME NEW j \in Nat, j <= sdsalloc(s) PROVE Room(s, j)
  BY <1>1, <1>2, <1>3, <1>4 DEF Room
<1>5. k <= sdsavail(s) => Len(t) + k \in Nat /\ Len(t) + k <= sdsalloc(s)
  BY <1>1, <1>3
<1>6. sdsavail(s) \in Nat
  BY <1>1, <1>3
<1> QED BY <1>3, <1>4, <1>5, <1>6

LEMMA RoomMade ==
  ASSUME NEW s, NEW t, Carries(s, t), NEW k \in Nat,
         Len(t) + k <= MaxText + 2 * MaxPart + 2, NEW r, r = sdsMakeRoomFor(s, k)
  PROVE  IsRoomy(r, s, Len(t) + k) /\ Carries(r, t) /\ (IsSds(s, t) => IsSds(r, t))
<1>1. s \in Header /\ s.len = Len(t) /\ Len(t) \in Nat
  BY LenProperties DEF Carries
<1>2. PICK n \in Nat : n = Len(t) + k
  BY <1>1
<1>3. IsRoomy(r, s, n)
  <2>1. CASE sdsavail(s) >= k
    <3>1. r = s
      BY <2>1 DEF sdsMakeRoomFor
    <3>2. Room(s, n)
      <4>1. k <= sdsavail(s)
        BY <2>1, Available
      <4> QED BY <1>2, <4>1, Available
    <3> QED BY <1>1, <3>1, <3>2 DEF IsRoomy
  <2>2. CASE ~ (sdsavail(s) >= k)
    <3>1. PICK g : g = Grown(n)
      OBVIOUS
    <3>2. n \in 0..(MaxText + 2 * MaxPart + 2)
      BY <1>2, StringsAssumption
    <3>3. g < LIMIT_16
      BY <3>1, <3>2, StringsAssumption
    <3>4. g \in Nat /\ n <= g
      BY <3>1, StringsAssumption DEF Grown
    <3>5. PICK type : type = TypeFor(n, g)
      OBVIOUS
    <3>6. type \in {5, 8, 16} /\ g < Limit(type)
      <4>1. sdsReqType(g) \in {5, 8, 16} /\ g < Limit(sdsReqType(g))
        BY <3>3, <3>4, ReqType
      <4>2. Limit(5) \in Nat /\ Limit(8) \in Nat /\ Limit(5) <= Limit(8)
        BY Limits, SdsAssumption
      <4> QED BY <3>4, <3>5, <4>1, <4>2 DEF TypeFor
    <3>7. r = Moved(s, type, g)
      BY <1>1, <1>2, <2>2, <3>1, <3>5 DEF sdsMakeRoomFor
    <3>8. s.len <= g
      BY <1>1, <1>2, <3>4
    <3> QED BY <1>1, <3>4, <3>6, <3>7, <3>8, MovedIsRoomy
  <2> QED BY <2>1, <2>2
<1>4. Len(t) <= n
  BY <1>1, <1>2
<1>5. Carries(r, t) /\ (IsSds(s, t) => IsSds(r, t))
  BY <1>3, <1>4, Roomy
<1> QED BY <1>2, <1>3, <1>5

-----------------------------------------------------------------------------
LEMMA PartShape ==
  ASSUME NEW t \in Part
  PROVE  t \in Seq(Byte) /\ Len(t) \in Nat /\ Len(t) <= MaxPart
<1>1. PICK n \in 0..MaxPart : t \in [1..n -> Byte]
  BY DEF Part
<1>2. n \in Nat /\ n <= MaxPart
  BY <1>1, StringsAssumption
<1>3. t \in Seq(Byte) /\ Len(t) = n
  BY <1>1, <1>2, SeqDef, LenProperties
<1> QED BY <1>2, <1>3

LEMMA WroteBehind ==
  ASSUME NEW r \in Header, NEW t, Begins(r.buf, t), NEW p \in Seq(Byte),
         NEW u, u = t \o p, NEW w, w = Wrote(r, Len(t), p)
  PROVE  /\ IsWritten(w, r, u) /\ u \in Seq(Byte)
         /\ Len(u) = Len(t) + Len(p) /\ Len(t) \in Nat /\ Len(p) \in Nat
<1>1. t \in Seq(Byte) /\ Len(t) \in Nat /\ Len(p) \in Nat
  BY LenProperties DEF Begins
<1>2. u \in Seq(Byte) /\ Len(u) = Len(t) + Len(p)
  BY <1>1, ConcatProperties
<1>3. Len(t) \in 0..Len(t)
  BY <1>1
<1>4. PICK c : c = SubSeq(r.buf, 1, Len(t))
  OBVIOUS
<1>5. c = t
  BY <1>3, <1>4, Beginning
<1>6. IsKeptAnd(u, r, Len(t), p)
  BY <1>2, <1>4, <1>5 DEF IsKeptAnd
<1>7. IsWritten(w, r, u)
  BY <1>6, WroteIs
<1> QED BY <1>1, <1>2, <1>7

LEMMA BeginsItself == \A u \in Seq(Byte) : Begins(u, u)
<1> SUFFICES ASSUME NEW u \in Seq(Byte) PROVE Begins(u, u)
  OBVIOUS
<1>1. Len(u) \in Nat
  BY LenProperties
<1> QED BY <1>1 DEF Begins

\* Everything that has room for u and begins with it becomes u.
LEMMA FinishWritten ==
  ASSUME NEW w, NEW r, NEW u \in Seq(Byte), IsWritten(w, r, u), Room(r, Len(u))
  PROVE  /\ IsSds(sdssetlen(Terminated(w, Len(u)), Len(u)), u)
         /\ IsSds(Terminated(sdssetlen(w, Len(u)), Len(u)), u)
<1>1. w \in Header /\ w.buf = u
  BY DEF IsWritten
<1>2. Room(w, Len(u))
  BY RoomSame DEF IsWritten
<1>3. Begins(w.buf, u)
  BY <1>1, BeginsItself
<1> QED BY <1>1, <1>2, <1>3, Finish

LEMMA NewSds ==
  ASSUME NEW t \in Seq(Byte), Len(t) < LIMIT_16
  PROVE  IsSds(sdsnewlen(t), t)
<1>1. PICK n \in Nat : n = Len(t)
  BY LenProperties
<1>2. PICK type : type = IF n = 0 THEN 8 ELSE sdsReqType(n)
  OBVIOUS
<1>3. type \in {5, 8, 16} /\ n < Limit(type)
  <2>1. 0 < Limit(8)
    BY Limits
  <2>2. sdsReqType(n) \in {5, 8, 16} /\ n < Limit(sdsReqType(n))
    BY <1>1, ReqType
  <2> QED BY <1>2, <2>1, <2>2
<1>4. n % Limit(type) = n
  BY <1>3, Limits, NotCut
<1>5. PICK c : c = Append(t, NUL)
  OBVIOUS
<1>6. c \in Seq(Byte) /\ Begins(c, t)
  <2>1. c \in Seq(Byte)
    BY <1>5, NulIsByte, AppendProperties
  <2>2. Len(c) = Len(t) + 1
    BY <1>5, NulIsByte, AppendProperties
  <2>3. \A i \in 1..Len(t) : c[i] = t[i]
    BY <1>5, NulIsByte, AppendProperties
  <2> QED BY <1>1, <2>1, <2>2, <2>3 DEF Begins
<1>7. PICK z \in Nat : z = n + 1
  OBVIOUS
<1>8. PICK s : s = sdsnewlen(t)
  OBVIOUS
<1>9. s = [type |-> type, len |-> n, alloc |-> n, size |-> z, buf |-> c]
  BY <1>1, <1>2, <1>4, <1>5, <1>7, <1>8 DEF sdsnewlen
<1>10. s \in Header /\ s.type = type /\ s.len = n /\ s.alloc = n /\ s.size = z /\ s.buf = c
  BY <1>3, <1>6, <1>9 DEF Header
<1>11. Room(s, n)
  BY <1>3, <1>7, <1>10 DEF Room
<1>12. Carries(s, t)
  BY <1>1, <1>6, <1>10, <1>11 DEF Carries
<1> QED BY <1>5, <1>8, <1>10, <1>12 DEF IsSds

LEMMA CatSds ==
  ASSUME NEW s, NEW t, IsSds(s, t), NEW p \in Seq(Byte),
         Len(t) + Len(p) <= MaxText + 2 * MaxPart + 2, NEW u, u = t \o p
  PROVE  IsSds(sdscatlen(s, p), u) /\ u \in Seq(Byte)
<1>1. Carries(s, t) /\ s.len = Len(t) /\ Len(p) \in Nat
  BY LenProperties DEF IsSds, Carries
<1>2. PICK k \in Nat : k = Len(p)
  BY <1>1
<1>3. PICK r : r = sdsMakeRoomFor(s, k)
  OBVIOUS
<1>4. IsRoomy(r, s, Len(t) + k) /\ Carries(r, t)
  BY <1>1, <1>2, <1>3, RoomMade
<1>5. r \in Header /\ Begins(r.buf, t)
  BY <1>4 DEF Carries
<1>6. PICK w : w = Wrote(r, Len(t), p)
  OBVIOUS
<1>7. IsWritten(w, r, u) /\ u \in Seq(Byte) /\ Len(u) = Len(t) + Len(p)
  BY <1>5, <1>6, WroteBehind
<1>8. Room(r, Len(u))
  BY <1>2, <1>4, <1>7 DEF IsRoomy
<1>9. IsSds(Terminated(sdssetlen(w, Len(u)), Len(u)), u)
  BY <1>7, <1>8, FinishWritten
<1>10. sdscatlen(s, p) = Terminated(sdssetlen(w, Len(u)), Len(u))
  BY <1>1, <1>2, <1>3, <1>6, <1>7 DEF sdscatlen
<1> QED BY <1>7, <1>9, <1>10

LEMMA WroteFront ==
  ASSUME NEW r \in Header, NEW p \in Seq(Byte), NEW w, w = Wrote(r, 0, p)
  PROVE  IsWritten(w, r, p)
<1>1. PICK c, z : z = 0 /\ c = SubSeq(r.buf, 1, z)
  OBVIOUS
<1>2. c = << >>
  BY <1>1, SubSeqEmpty
<1>3. p = c \o p
  BY <1>2, ConcatEmptySeq
<1>4. IsKeptAnd(p, r, z, p)
  BY <1>1, <1>3 DEF IsKeptAnd
<1>5. w = Wrote(r, z, p)
  BY <1>1
<1> QED BY <1>4, <1>5, WroteIs

LEMMA CopySds ==
  ASSUME NEW s, NEW t, IsSds(s, t), Len(t) <= MaxText + MaxPart, NEW p \in Part
  PROVE  IsSds(sdscpylen(s, p), p)
<1>1. Carries(s, t) /\ s.len = Len(t) /\ Len(t) \in Nat /\ s \in Header
  BY LenProperties DEF IsSds, Carries
<1>2. p \in Seq(Byte) /\ Len(p) \in Nat /\ Len(p) <= MaxPart
  BY PartShape
<1>3. PICK r : r = IF sdsalloc(s) < Len(p) THEN sdsMakeRoomFor(s, Len(p) - s.len) ELSE s
  OBVIOUS
<1>4. r \in Header /\ Room(r, Len(p))
  <2>1. CASE sdsalloc(s) < Len(p)
    <3>1. Len(t) <= sdsalloc(s) /\ sdsalloc(s) \in Nat
      BY <1>1, Available
    <3>2. PICK k \in Nat : k = Len(p) - s.len
      BY <1>1, <1>2, <2>1, <3>1
    <3>3. r = sdsMakeRoomFor(s, k)
      BY <1>3, <2>1, <3>2
    <3>4. Len(t) + k = Len(p) /\ Len(t) + k <= MaxText + 2 * MaxPart + 2
      BY <1>1, <1>2, <3>2, StringsAssumption
    <3>5. IsRoomy(r, s, Len(t) + k)
      BY <1>1, <3>3, <3>4, RoomMade
    <3> QED BY <3>4, <3>5 DEF IsRoomy
  <2>2. CASE ~ (sdsalloc(s) < Len(p))
    <3>1. r = s
      BY <1>3, <2>2
    <3>2. sdsalloc(s) \in Nat
      BY <1>1, Available
    <3>3. Len(p) <= sdsalloc(s)
      BY <1>2, <2>2, <3>2
    <3>4. Room(s, Len(p))
      BY <1>1, <1>2, <3>3, Available
    <3> QED BY <1>1, <3>1, <3>4
  <2> QED BY <2>1, <2>2
<1>5. PICK w : w = Wrote(r, 0, p)
  OBVIOUS
<1>6. IsWritten(w, r, p)
  BY <1>2, <1>4, <1>5, WroteFront
<1>7. IsSds(sdssetlen(Terminated(w, Len(p)), Len(p)), p)
  BY <1>2, <1>4, <1>6, FinishWritten
<1>8. sdscpylen(s, p) = sdssetlen(Terminated(w, Len(p)), Len(p))
  BY <1>3, <1>5 DEF sdscpylen
<1> QED BY <1>7, <1>8

LEMMA ClearSds ==
  ASSUME NEW s, NEW t, IsSds(s, t)
  PROVE  IsSds(sdsclear(s), << >>)
<1>1. s \in Header /\ Room(s, Len(t)) /\ Len(t) \in Nat /\ s.buf \in Seq(Byte)
  BY LenProperties DEF IsSds, Carries, Header
<1>2. PICK u : u = << >>
  OBVIOUS
<1>3. u \in Seq(Byte) /\ Len(u) = 0
  BY <1>2, NulIsByte
<1>4. Room(s, Len(u))
  BY <1>1, <1>3, RoomLess
<1>5. Len(s.buf) \in Nat
  BY <1>1, LenProperties
<1>6. Begins(s.buf, u)
  BY <1>1, <1>3, <1>5 DEF Begins
<1>7. IsSds(Terminated(sdssetlen(s, Len(u)), Len(u)), u)
  BY <1>1, <1>3, <1>4, <1>6, Finish
<1> QED BY <1>2, <1>3, <1>7 DEF sdsclear

LEMMA RemoveFreeSpaceSds ==
  ASSUME NEW s, NEW t, IsSds(s, t)
  PROVE  IsSds(sdsRemoveFreeSpace(s), t)
<1>1. Carries(s, t) /\ s \in Header /\ s.len = Len(t) /\ Room(s, Len(t)) /\ Len(t) \in Nat
  BY LenProperties DEF IsSds, Carries
<1>2. PICK n \in Nat : n = Len(t)
  BY <1>1
<1>3. n < LIMIT_16
  <2>1. n < Limit(s.type) /\ s.type \in {5, 8, 16}
    BY <1>1, <1>2 DEF Room, Header
  <2> QED BY <2>1, Limits, SdsAssumption
<1>4. PICK type \in {5, 8, 16} : type = sdsReqType(n) /\ n < Limit(type)
  BY <1>3, ReqType
<1>5. PICK r : r = Moved(s, type, n)
  OBVIOUS
<1>6. IsRoomy(r, s, n)
  BY <1>1, <1>2, <1>4, <1>5, MovedIsRoomy
<1>7. IsSds(r, t)
  BY <1>1, <1>2, <1>6, Roomy
<1> QED BY <1>1, <1>2, <1>4, <1>5, <1>7 DEF sdsRemoveFreeSpace

\* A part of the string is moved to its start.
PartFrom(t, h, n) == SubSeq(t, h + 1, h + n)
Middle(s, h, n) == sdssetlen(Terminated(Wrote(s, 0, PartFrom(s.buf, h, n)), n), n)

LEMMA MiddleSds ==
  ASSUME NEW s, NEW t, IsSds(s, t), NEW h \in Nat, NEW n \in Nat, h + n <= Len(t),
         NEW u, u = PartFrom(t, h, n)
  PROVE  IsSds(Middle(s, h, n), u)
<1>1. /\ s \in Header /\ Room(s, Len(t)) /\ Len(t) \in Nat /\ t \in Seq(Byte) /\ Begins(s.buf, t)
  BY LenProperties DEF IsSds, Carries
<1>2. PICK b : b = s.buf
  OBVIOUS
<1>3. PICK a, e \in Int : a = h + 1 /\ e = h + n
  OBVIOUS
<1>4. \A i \in a..e : b[i] = t[i] /\ t[i] \in Byte
  <2>1. \A i \in a..e : i \in 1..Len(t)
    BY <1>1, <1>3
  <2>2. \A i \in 1..Len(t) : b[i] = t[i]
    BY <1>1, <1>2 DEF Begins
  <2>3. \A i \in 1..Len(t) : t[i] \in Byte
    BY <1>1, ElementOfSeq
  <2> QED BY <2>1, <2>2, <2>3
<1>5. \A i \in a..e : b[i] \in Byte
  BY <1>4
<1>6. PICK c : c = SubSeq(b, a, e)
  OBVIOUS
<1>21. PICK d : d = SubSeq(t, a, e)
  OBVIOUS
<1>7. u = d
  BY <1>3, <1>21 DEF PartFrom
<1>8. c \in Seq(Byte) /\ Len(c) = IF a <= e THEN e - a + 1 ELSE 0
  BY <1>5, <1>6, SubSeqProperties
<1>9. \A i \in 1..(e - a + 1) : c[i] = b[a + i - 1]
  BY <1>5, <1>6, SubSeqProperties
<1>20. \A i \in a..e : t[i] \in Byte
  BY <1>4
<1>22. d \in Seq(Byte) /\ Len(d) = IF a <= e THEN e - a + 1 ELSE 0
  BY <1>20, <1>21, SubSeqProperties
<1>23. \A i \in 1..(e - a + 1) : d[i] = t[a + i - 1]
  BY <1>20, <1>21, SubSeqProperties
<1>10. u \in Seq(Byte) /\ Len(u) = IF a <= e THEN e - a + 1 ELSE 0
  BY <1>7, <1>22, Zenon
<1>11. \A i \in 1..(e - a + 1) : u[i] = t[a + i - 1]
  BY <1>7, <1>23, Zenon
<1>12. Len(u) = n /\ Len(c) = n /\ e - a + 1 = n
  BY <1>3, <1>8, <1>10
<1>13. \A i \in 1..n : a + i - 1 \in a..e
  BY <1>3
<1>14. \A i \in 1..n : c[i] = u[i]
  BY <1>4, <1>9, <1>11, <1>12, <1>13
<1>15. c = u
  BY <1>8, <1>10, <1>12, <1>14, SeqEqual
<1>16. PICK w : w = Wrote(s, 0, u)
  OBVIOUS
<1>17. IsWritten(w, s, u)
  BY <1>1, <1>10, <1>16, WroteFront
<1>18. Room(s, Len(u))
  <2>1. n <= Len(t)
    BY <1>1
  <2> QED BY <1>1, <1>12, <2>1, RoomLess
<1>19. IsSds(sdssetlen(Terminated(w, Len(u)), Len(u)), u)
  BY <1>10, <1>17, <1>18, FinishWritten
<1> QED BY <1>2, <1>3, <1>6, <1>10, <1>12, <1>15, <1>16, <1>19 DEF Middle, PartFrom

-----------------------------------------------------------------------------
\* The string is there already, with its terminator, and has to be counted.
LEMMA SetLenSds ==
  ASSUME NEW w \in Header, NEW u \in Seq(Byte), Room(w, Len(u)), w.buf = Append(u, NUL)
  PROVE  IsSds(sdssetlen(w, Len(u)), u)
<1>1. PICK n \in Nat : n = Len(u)
  BY LenProperties
<1>2. PICK c : c = Append(u, NUL)
  OBVIOUS
<1>3. Begins(c, u)
  <2>1. c \in Seq(Byte)
    BY <1>2, NulIsByte, AppendProperties
  <2>2. Len(c) = Len(u) + 1
    BY <1>2, NulIsByte, AppendProperties
  <2>3. \A i \in 1..Len(u) : c[i] = u[i]
    BY <1>2, NulIsByte, AppendProperties
  <2> QED BY <1>1, <2>1, <2>2, <2>3 DEF Begins
<1>4. PICK y : y = sdssetlen(w, n)
  OBVIOUS
<1>5. /\ y \in Header /\ y.len = n /\ y.type = w.type /\ y.alloc = w.alloc
      /\ y.size = w.size /\ y.buf = w.buf
  BY <1>1, <1>4, Cut
<1>6. Room(y, n)
  BY <1>1, <1>5, RoomSame
<1>7. w.buf = c
  BY <1>2
<1>8. y.buf = c /\ Begins(y.buf, u)
  BY <1>3, <1>5, <1>7
<1>9. Carries(y, u)
  BY <1>1, <1>5, <1>6, <1>8 DEF Carries
<1> QED BY <1>1, <1>2, <1>4, <1>8, <1>9 DEF IsSds

\* NULs in a row.
LEMMA Nuls ==
  ASSUME NEW k \in Nat, NEW z, z = [i \in 1..k |-> NUL]
  PROVE  z \in Seq(Byte) /\ Len(z) = k /\ \A i \in 1..k : z[i] = NUL
<1>1. z \in [1..k -> Byte] /\ \A i \in 1..k : z[i] = NUL
  BY NulIsByte
<1> QED BY <1>1, SeqDef, LenProperties

LEMMA GrowZeroSds ==
  ASSUME NEW s, NEW t, IsSds(s, t), NEW n \in 0..MaxText,
         NEW u, u = t \o [i \in 1..(n - Len(t)) |-> NUL]
  PROVE  IsSds(sdsgrowzero(s, n), u)
<1>1. Carries(s, t) /\ s.len = Len(t) /\ Len(t) \in Nat /\ t \in Seq(Byte) /\ n \in Nat
  BY LenProperties, StringsAssumption DEF IsSds, Carries
<1>2. CASE n <= Len(t)
  <2>1. 1..(n - Len(t)) = 1..0
    BY <1>1, <1>2
  <2>2. PICK z : z = [i \in 1..0 |-> NUL]
    OBVIOUS
  <2>4. z \in Seq(Byte) /\ Len(z) = 0
    <3>1. PICK k \in Nat : k = 0
      OBVIOUS
    <3>2. z = [i \in 1..k |-> NUL]
      BY <2>2, <3>1
    <3>3. z \in Seq(Byte) /\ Len(z) = k
      BY <3>2, Nuls
    <3> QED BY <3>1, <3>3
  <2>5. z = << >>
    BY <2>4, EmptySeq
  <2>6. u = t \o z
    BY <2>1, <2>2, Zenon
  <2>3. u = t
    BY <1>1, <2>5, <2>6, ConcatEmptySeq
  <2> QED BY <1>1, <1>2, <2>3 DEF sdsgrowzero
<1>3. CASE ~ (n <= Len(t))
  <2>1. PICK k \in Nat : k = n - Len(t)
    <3>1. n - Len(t) \in Nat
      BY <1>1, <1>3
    <3> QED BY <3>1, Zenon
  <2>2. PICK z : z = [i \in 1..k |-> NUL]
    OBVIOUS
  <2>3. PICK k1 \in Nat : k1 = k + 1
    BY <2>1
  <2>4. PICK z1 : z1 = [i \in 1..k1 |-> NUL]
    OBVIOUS
  <2>5. z \in Seq(Byte) /\ Len(z) = k /\ \A i \in 1..k : z[i] = NUL
    BY <2>2, Nuls
  <2>6. z1 \in Seq(Byte) /\ Len(z1) = k1 /\ \A i \in 1..k1 : z1[i] = NUL
    BY <2>4, Nuls
  <2>7. PICK e : e = <<NUL>>
    OBVIOUS
  <2>8. e \in Seq(Byte) /\ Len(e) = 1 /\ e[1] = NUL
    BY <2>7, NulIsByte
  <2>9. z1 = z \o e
    <3>1. PICK y : y = z \o e
      OBVIOUS
    <3>2. y \in Seq(Byte)
      BY <2>5, <2>8, <3>1, ConcatProperties
    <3>3. Len(y) = Len(z) + Len(e)
      BY <2>5, <2>8, <3>1, ConcatProperties
    <3>4. \A i \in 1..(Len(z) + Len(e)) : y[i] = IF i <= Len(z) THEN z[i] ELSE e[i - Len(z)]
      BY <2>5, <2>8, <3>1, ConcatProperties
    <3>5. \A i \in 1..k1 : y[i] = NUL
      BY <2>3, <2>5, <2>8, <3>4
    <3>6. Len(y) = k1
      BY <2>3, <2>5, <2>8, <3>3
    <3>7. y = z1
      BY <2>6, <3>2, <3>5, <3>6, SeqEqual
    <3> QED BY <3>1, <3>7
  <2>10. u = t \o z
    BY <2>1, <2>2
  <2>11. u \in Seq(Byte) /\ Len(u) = n
    <3>1. u \in Seq(Byte) /\ Len(u) = Len(t) + Len(z)
      BY <1>1, <2>5, <2>10, ConcatProperties
    <3> QED BY <1>1, <2>1, <2>5, <3>1
  <2>12. PICK v : v = t \o z1
    OBVIOUS
  <2>13. v = Append(u, NUL)
    <3>0. t \in Seq(Byte) /\ z \in Seq(Byte) /\ e \in Seq(Byte)
      BY <1>1, <2>5, <2>8
    <3>1. (t \o z) \o e = t \o (z \o e)
      BY ONLY <3>0, ConcatAssociative
    <3>2. Append(u, NUL) = u \o <<NUL>>
      BY <2>11, NulIsByte, AppendIsConcat
    <3> QED BY <2>7, <2>9, <2>10, <2>12, <3>1, <3>2
  <2>14. PICK r : r = sdsMakeRoomFor(s, k)
    OBVIOUS
  <2>15. IsRoomy(r, s, Len(t) + k) /\ Carries(r, t)
    <3>1. Len(t) + k <= MaxText + 2 * MaxPart + 2
      BY <1>1, <2>1, StringsAssumption
    <3> QED BY <1>1, <2>14, <3>1, RoomMade
  <2>16. r \in Header /\ Begins(r.buf, t) /\ Room(r, n)
    BY <1>1, <2>1, <2>15 DEF Carries, IsRoomy
  <2>17. PICK w : w = Wrote(r, Len(t), z1)
    OBVIOUS
  <2>18. IsWritten(w, r, v)
    BY <2>6, <2>12, <2>16, <2>17, WroteBehind
  <2>19. w \in Header /\ w.buf = v /\ Room(w, Len(u))
    BY <2>11, <2>16, <2>18, RoomSame DEF IsWritten
  <2>20. IsSds(sdssetlen(w, Len(u)), u)
    BY <2>11, <2>13, <2>19, SetLenSds
  <2>21. sdsgrowzero(s, n) = sdssetlen(w, n)
    BY <1>1, <1>3, <2>1, <2>3, <2>4, <2>14, <2>17 DEF sdsgrowzero
  <2> QED BY <2>11, <2>20, <2>21
<1> QED BY <1>2, <1>3

LEMMA LengthenSds ==
  ASSUME NEW s, NEW t, IsSds(s, t), NEW p \in Seq(Byte), Len(p) <= sdsavail(s), NEW u, u = t \o p
  PROVE  IsSds(sdsIncrLen(s, p, Len(p)), u)
<1>1. /\ Carries(s, t) /\ s \in Header /\ s.len = Len(t) /\ Len(t) \in Nat /\ Len(p) \in Nat
      /\ Begins(s.buf, t)
  BY LenProperties DEF IsSds, Carries
<1>2. Room(s, Len(t) + Len(p))
  BY <1>1, Available
<1>3. PICK w : w = Wrote(s, Len(t), p)
  OBVIOUS
<1>4. IsWritten(w, s, u) /\ u \in Seq(Byte) /\ Len(u) = Len(t) + Len(p)
  BY <1>1, <1>3, WroteBehind
<1>5. IsSds(Terminated(sdssetlen(w, Len(u)), Len(u)), u)
  BY <1>2, <1>4, FinishWritten
<1>6. w.len = Len(t)
  BY <1>1, <1>4 DEF IsWritten
<1> QED BY <1>1, <1>3, <1>4, <1>5, <1>6 DEF sdsIncrLen, sdsinclen

LEMMA ShortenSds ==
  ASSUME NEW s, NEW t, IsSds(s, t), NEW n \in 1..s.len, NEW u, u = SubSeq(t, 1, Len(t) - n)
  PROVE  IsSds(sdsIncrLen(s, << >>, -n), u)
<1>1. /\ Carries(s, t) /\ s \in Header /\ s.len = Len(t) /\ Len(t) \in Nat /\ t \in Seq(Byte)
      /\ Begins(s.buf, t) /\ Room(s, Len(t))
  BY LenProperties DEF IsSds, Carries
<1>2. PICK m \in 0..Len(t) : m = Len(t) - n
  BY <1>1
<1>3. u \in Seq(Byte) /\ Len(u) = m
  <2>1. PICK d : d = SubSeq(t, 1, m)
    OBVIOUS
  <2>2. Begins(t, t)
    BY <1>1, BeginsItself
  <2>3. d \in Seq(Byte) /\ Len(d) = m
    BY <2>1, <2>2, Beginning
  <2> QED BY <1>2, <2>1, <2>3
<1>4. PICK e : e = << >>
  OBVIOUS
<1>5. PICK w : w = Wrote(s, Len(t), e)
  OBVIOUS
<1>6. e \in Seq(Byte) /\ t = t \o e
  BY <1>1, <1>4, NulIsByte, ConcatEmptySeq
<1>7. IsWritten(w, s, t)
  BY <1>1, <1>5, <1>6, WroteBehind
<1>8. w \in Header /\ w.buf = t /\ w.len = Len(t) /\ Room(w, Len(t))
  BY <1>1, <1>7, RoomSame DEF IsWritten
<1>9. Room(w, Len(u))
  BY <1>1, <1>2, <1>3, <1>8, RoomLess
<1>10. Begins(t, u)
  <2>1. \A i \in 1..m : t[i] \in Byte
    BY <1>1, ElementOfSeq
  <2>2. PICK d : d = SubSeq(t, 1, m)
    OBVIOUS
  <2>3. m \in Int /\ m - 1 + 1 = m
    BY <1>1, <1>2
  <2>4. \A i \in 1..(m - 1 + 1) : d[i] = t[1 + i - 1]
    BY <2>1, <2>2, <2>3, SubSeqProperties
  <2>5. \A i \in 1..m : d[i] = t[i]
    BY <2>3, <2>4
  <2>6. u = d
    BY <1>2, <2>2
  <2> QED BY <1>1, <1>2, <1>3, <2>5, <2>6 DEF Begins
<1>11. IsSds(Terminated(sdssetlen(w, Len(u)), Len(u)), u)
  BY <1>3, <1>8, <1>9, <1>10, Finish
<1>12. s.len + (-n) = Len(u) /\ w.len + (-n) = Len(u)
  BY <1>1, <1>2, <1>3, <1>8
<1> QED BY <1>1, <1>4, <1>5, <1>11, <1>12 DEF sdsIncrLen, sdsinclen

-----------------------------------------------------------------------------
LEMMA MinIs ==
  ASSUME NEW S, S \subseteq Nat, S # {}
  PROVE  Min(S) \in S /\ \A y \in S : Min(S) <= y
<1>1. PICK m \in S : \A y \in S : ~ (<<y, m>> \in OpToRel(<, Nat))
  BY NatLessThanWellFounded, WFMin, Zenon
<1>2. ASSUME NEW y \in S PROVE m <= y
  <2>1. ~ (y < m)
    BY <1>1 DEF OpToRel
  <2>2. m \in Nat /\ y \in Nat
    OBVIOUS
  <2> QED BY <2>1, <2>2
<1> QED BY <1>2 DEF Min

LEMMA MaxIs ==
  ASSUME NEW n \in Nat, NEW S, S \subseteq 0..n, S # {}
  PROVE  Max(S) \in S /\ \A y \in S : y <= Max(S)
<1>1. PICK T : T = {i \in 0..n : n - i \in S}
  OBVIOUS
<1>2. T \subseteq Nat
  BY <1>1
<1>9. T # {}
  <2>1. PICK y \in S : y \in 0..n
    OBVIOUS
  <2>2. n - y \in 0..n /\ n - (n - y) = y
    BY <2>1
  <2>3. n - y \in T
    BY <1>1, <2>1, <2>2
  <2> QED BY <2>3
<1>3. PICK m \in T : \A y \in T : m <= y
  BY <1>2, <1>9, MinIs
<1>4. PICK x \in S : m = n - x /\ x \in 0..n
  <2>1. n - m \in S /\ m \in 0..n
    BY <1>1, <1>3
  <2> QED BY <2>1
<1>5. ASSUME NEW y \in S PROVE y <= x
  <2>1. y \in 0..n
    OBVIOUS
  <2>2. n - y \in 0..n /\ n - (n - y) = y
    BY <2>1
  <2>3. n - y \in T
    BY <1>1, <2>2
  <2>4. n - x <= n - y
    BY <1>3, <1>4, <2>3
  <2> QED BY <1>4, <2>1, <2>4
<1>6. \A y \in S : x >= y
  BY <1>4, <1>5
<1>7. \E z \in S : \A y \in S : z >= y
  BY <1>6
<1>8. Max(S) \in S /\ \A y \in S : Max(S) >= y
  BY <1>7 DEF Max
<1> QED BY <1>8

\* Where strlen() finds the end.
CStringLen(t) ==
    IF NUL \in ToSet(t) THEN Min({i \in DOMAIN t : t[i] = NUL}) - 1 ELSE Len(t)

LEMMA CStringEnds ==
  ASSUME NEW t \in Seq(Byte)
  PROVE  \E m \in 0..Len(t) :
             /\ m = CStringLen(t)
             /\ \A i \in 1..m : t[i] # NUL
             /\ m < Len(t) => t[m + 1] = NUL
<1>1. Len(t) \in Nat /\ DOMAIN t = 1..Len(t)
  BY LenProperties
<1>2. CASE NUL \in ToSet(t)
  <2>1. PICK S : S = {i \in DOMAIN t : t[i] = NUL}
    OBVIOUS
  <2>2. S \subseteq Nat /\ S # {}
    <3>1. \E i \in DOMAIN t : t[i] = NUL
      BY <1>2 DEF ToSet
    <3> QED BY <1>1, <2>1, <3>1
  <2>3. PICK y : y = Min(S)
    OBVIOUS
  <2>4. y \in S /\ \A i \in S : y <= i
    BY <2>2, <2>3, MinIs
  <2>5. y \in 1..Len(t) /\ t[y] = NUL
    BY <1>1, <2>1, <2>4
  <2>6. ASSUME NEW i \in 1..(y - 1) PROVE t[i] # NUL
    <3>1. i \in DOMAIN t /\ ~ (y <= i)
      BY <1>1, <2>5
    <3> QED BY <2>1, <2>4, <3>1
  <2>7. y - 1 \in 0..Len(t) /\ y - 1 + 1 = y
    BY <1>1, <2>5
  <2>8. y - 1 = CStringLen(t)
    BY <1>2, <2>1, <2>3 DEF CStringLen
  <2> QED BY <2>5, <2>6, <2>7, <2>8
<1>3. CASE NUL \notin ToSet(t)
  <2>1. \A i \in 1..Len(t) : t[i] # NUL
    BY <1>1, <1>3 DEF ToSet
  <2>2. Len(t) = CStringLen(t)
    BY <1>3 DEF CStringLen
  <2>3. Len(t) \in 0..Len(t) /\ ~ (Len(t) < Len(t))
    BY <1>1
  <2> QED BY <2>1, <2>2, <2>3
<1> QED BY <1>2, <1>3

LEMMA UpdateLenSds ==
  ASSUME NEW s, NEW t, IsSds(s, t), NEW m \in 0..Len(t), \A i \in 1..m : t[i] # NUL,
         m < Len(t) => t[m + 1] = NUL, NEW u, u = SubSeq(t, 1, m)
  PROVE  IsSds(sdsupdatelen(s), u)
<1>1. /\ Carries(s, t) /\ s \in Header /\ s.len = Len(t) /\ Len(t) \in Nat /\ t \in Seq(Byte)
      /\ DOMAIN t = 1..Len(t) /\ Room(s, Len(t))
  BY LenProperties DEF IsSds, Carries
<1>2. PICK c : c = s.buf
  OBVIOUS
<1>3. c = Append(t, NUL) /\ Begins(c, t)
  BY <1>2 DEF IsSds, Carries
<1>4. /\ c \in Seq(Byte) /\ Len(c) = Len(t) + 1
      /\ \A i \in 1..Len(t) : c[i] = t[i]
  BY <1>1, <1>3, NulIsByte, AppendProperties DEF Begins
<1>5. c[Len(t) + 1] = NUL
  BY <1>1, <1>3, NulIsByte, AppendProperties
<1>6. DOMAIN c = 1..(Len(t) + 1)
  BY <1>4, LenProperties
<1>8. PICK f \in 1..(Len(t) + 1) : f = m + 1
  BY <1>1
<1>9. c[f] = NUL /\ \A j \in 1..(f - 1) : c[j] # NUL
  BY <1>1, <1>4, <1>5, <1>8
<1>10. ASSUME NEW g \in 1..(Len(t) + 1), c[g] = NUL, \A j \in 1..(g - 1) : c[j] # NUL
       PROVE  g = f
  <2>1. ~ (g < f)
    BY <1>1, <1>9, <1>10
  <2>2. ~ (f < g)
    BY <1>1, <1>9, <1>10
  <2> QED BY <1>1, <2>1, <2>2
<1>11. (CHOOSE i \in DOMAIN c : c[i] = NUL /\ \A j \in 1..(i - 1) : c[j] # NUL) = f
  BY <1>6, <1>9, <1>10
<1>12. PICK d : d = SubSeq(c, 1, f)
  OBVIOUS
<1>13. u \in Seq(Byte) /\ Len(u) = m /\ SubSeq(c, 1, m) = u
  BY <1>3, Beginning
<1>14. d = Append(u, NUL)
  <2>1. 1 \in 1..Len(c) /\ f \in 1..Len(c)
    BY <1>1, <1>4, <1>8
  <2>2. SubSeq(c, 1, f) = SubSeq(c, 1, f - 1) \o <<c[f]>>
    BY <1>4, <2>1, SubSeqRecursiveSecond
  <2>3. f - 1 = m
    BY <1>1, <1>8
  <2>4. d = u \o <<NUL>>
    BY <1>9, <1>12, <1>13, <2>2, <2>3
  <2> QED BY <1>13, <2>4, NulIsByte, AppendIsConcat
<1>15. PICK w : w = [s EXCEPT !.buf = d]
  OBVIOUS
<1>16. d \in Seq(Byte)
  BY <1>13, <1>14, NulIsByte, AppendProperties
<1>17. /\ w \in Header /\ w.buf = d /\ w.type = s.type /\ w.alloc = s.alloc /\ w.size = s.size
  BY <1>1, <1>15, <1>16 DEF Header
<1>18. Room(w, Len(u))
  <2>1. Room(w, Len(t))
    BY <1>1, <1>17, RoomSame
  <2>2. Len(u) \in Nat /\ Len(u) <= Len(t)
    BY <1>1, <1>13
  <2> QED BY <1>1, <1>17, <2>1, <2>2, RoomLess
<1>19. IsSds(sdssetlen(w, Len(u)), u)
  BY <1>13, <1>14, <1>17, <1>18, SetLenSds
<1>20. sdsupdatelen(s) = sdssetlen(w, f - 1)
  BY <1>2, <1>11, <1>12, <1>15 DEF sdsupdatelen
<1>21. f - 1 = Len(u)
  BY <1>1, <1>8, <1>13
<1> QED BY <1>19, <1>20, <1>21

LEMMA MapCharsSds ==
  ASSUME NEW s, NEW t, IsSds(s, t), NEW from \in Byte, NEW to \in Byte,
         NEW u, u = [i \in DOMAIN t |-> IF t[i] = from THEN to ELSE t[i]]
  PROVE  IsSds(sdsmapchars(s, from, to), u)
<1>1. /\ Carries(s, t) /\ s \in Header /\ s.len = Len(t) /\ Len(t) \in Nat /\ t \in Seq(Byte)
      /\ DOMAIN t = 1..Len(t) /\ Room(s, Len(t))
  BY LenProperties DEF IsSds, Carries
<1>2. PICK c : c = s.buf
  OBVIOUS
<1>3. c = Append(t, NUL) /\ Begins(c, t)
  BY <1>2 DEF IsSds, Carries
<1>4. /\ c \in Seq(Byte) /\ Len(c) = Len(t) + 1
      /\ \A i \in 1..Len(t) : c[i] = t[i]
  BY <1>1, <1>3, NulIsByte, AppendProperties DEF Begins
<1>5. c[Len(t) + 1] = NUL
  BY <1>1, <1>3, NulIsByte, AppendProperties
<1>6. DOMAIN c = 1..(Len(t) + 1)
  BY <1>4, LenProperties
<1>7. PICK d : d = [i \in DOMAIN c |-> IF i <= s.len /\ c[i] = from THEN to ELSE c[i]]
  OBVIOUS
<1>8. /\ DOMAIN d = 1..(Len(t) + 1) /\ d[Len(t) + 1] = NUL
      /\ \A i \in 1..Len(t) : d[i] = IF t[i] = from THEN to ELSE t[i]
  BY <1>1, <1>4, <1>5, <1>6, <1>7
<1>9. \A i \in 1..Len(t) : t[i] \in Byte
  BY <1>1, ElementOfSeq
<1>10. d \in [1..(Len(t) + 1) -> Byte]
  <2>1. \A i \in 1..(Len(t) + 1) : c[i] \in Byte
    BY <1>4, ElementOfSeq
  <2> QED BY <1>6, <1>7, <2>1
<1>11. d \in Seq(Byte) /\ Len(d) = Len(t) + 1
  BY <1>1, <1>10, SeqDef, LenProperties
<1>12. u \in [1..Len(t) -> Byte] /\ \A i \in 1..Len(t) : u[i] = IF t[i] = from THEN to ELSE t[i]
  BY <1>1, <1>9
<1>13. u \in Seq(Byte) /\ Len(u) = Len(t)
  BY <1>1, <1>12, SeqDef, LenProperties
<1>14. PICK e : e = Append(u, NUL)
  OBVIOUS
<1>15. e \in Seq(Byte) /\ Len(e) = Len(u) + 1
  BY <1>13, <1>14, NulIsByte, AppendProperties
<1>16. \A i \in 1..Len(u) : e[i] = u[i]
  BY <1>13, <1>14, NulIsByte, AppendProperties
<1>17. e[Len(u) + 1] = NUL
  BY <1>13, <1>14, NulIsByte, AppendProperties
<1>18. d = e
  <2>1. \A i \in 1..(Len(t) + 1) : d[i] = e[i]
    BY <1>1, <1>8, <1>12, <1>13, <1>16, <1>17
  <2> QED BY <1>11, <1>13, <1>15, <2>1, SeqEqual
<1>19. PICK w : w = sdsmapchars(s, from, to)
  OBVIOUS
<1>20. w = [s EXCEPT !.buf = d]
  BY <1>2, <1>7, <1>19 DEF sdsmapchars
<1>21. /\ w \in Header /\ w.buf = d /\ w.type = s.type /\ w.alloc = s.alloc /\ w.size = s.size
       /\ w.len = s.len
  BY <1>1, <1>11, <1>20 DEF Header
<1>22. Room(w, Len(t))
  BY <1>1, <1>21, RoomSame
<1>23. Begins(d, u)
  BY <1>1, <1>11, <1>13, <1>15, <1>16, <1>18 DEF Begins
<1> QED BY <1>1, <1>13, <1>14, <1>18, <1>19, <1>21, <1>22, <1>23 DEF IsSds, Carries

-----------------------------------------------------------------------------
(***************************************************************************)
(* sdscatfmt(): a fold over the items of the format, of which there are    *)
(* two                                                                     *)
(***************************************************************************)
Step(s, q, f, S) == IF S = {} THEN s ELSE CatItem(f[S \ {Max(S)}], q[Max(S)])
IsFold(s, q, f) == f = [S \in SUBSET (DOMAIN q) |-> Step(s, q, f, S)]

LEMMA Greatest == Max({1}) = 1 /\ Max({2}) = 2 /\ Max({1, 2}) = 2
<1>1. PICK n \in Nat : n = 2
  OBVIOUS
<1>2. PICK A, B, D : A = {1} /\ B = {2} /\ D = {1, 2}
  OBVIOUS
<1>3. A \subseteq 0..n /\ B \subseteq 0..n /\ D \subseteq 0..n /\ A # {} /\ B # {} /\ D # {}
  BY <1>1, <1>2
<1>4. Max(A) \in A /\ Max(B) \in B
  BY <1>3, MaxIs
<1>5. Max(D) \in D /\ \A y \in D : y <= Max(D)
  BY <1>3, MaxIs
<1>6. Max(D) = 2
  BY <1>2, <1>5
<1> QED BY <1>2, <1>4, <1>6

LEMMA FoldTwo ==
  ASSUME NEW s, NEW q, DOMAIN q = 1..2
  PROVE  FoldLeft(CatItem, s, q) = CatItem(CatItem(s, q[1]), q[2])
<1>1. FoldLeft(CatItem, s, q) = (CHOOSE f : IsFold(s, q, f))[DOMAIN q]
  BY DEF FoldLeft, MapThenFoldSet, IsFold, Step
<1>2. \A S \in SUBSET (DOMAIN q) : S = {} \/ S = {1} \/ S = {2} \/ S = {1, 2}
  <2>1. DOMAIN q = {1, 2}
    OBVIOUS
  <2> QED BY ONLY <2>1
<1>3. {} \in SUBSET (DOMAIN q) /\ {1} \in SUBSET (DOMAIN q) /\ {1, 2} \in SUBSET (DOMAIN q)
      /\ DOMAIN q = {1, 2}
  OBVIOUS
<1>4. ASSUME NEW f
      PROVE  /\ Step(s, q, f, {}) = s
             /\ Step(s, q, f, {1}) = CatItem(f[{}], q[1])
             /\ Step(s, q, f, {2}) = CatItem(f[{}], q[2])
             /\ Step(s, q, f, {1, 2}) = CatItem(f[{1}], q[2])
  <2>1. {1} \ {1} = {} /\ {2} \ {2} = {} /\ {1, 2} \ {2} = {1}
    OBVIOUS
  <2>2. {1} # {} /\ {2} # {} /\ {1, 2} # {}
    OBVIOUS
  <2> QED BY ONLY <2>1, <2>2, Greatest DEF Step
<1>5. \E f : IsFold(s, q, f)
  <2>1. PICK a, b, c : a = CatItem(s, q[1]) /\ b = CatItem(s, q[2]) /\ c = CatItem(a, q[2])
    OBVIOUS
  <2>2. PICK h : h = [S \in SUBSET (DOMAIN q) |->
                        IF S = {} THEN s ELSE IF S = {1} THEN a ELSE IF S = {2} THEN b ELSE c]
    OBVIOUS
  <2>3. h[{}] = s /\ h[{1}] = a
    BY <1>3, <2>2
  <2>4. ASSUME NEW S \in SUBSET (DOMAIN q)
        PROVE  Step(s, q, h, S)
                  = IF S = {} THEN s ELSE IF S = {1} THEN a ELSE IF S = {2} THEN b ELSE c
    <3>1. Step(s, q, h, {}) = s /\ Step(s, q, h, {1}) = a /\ Step(s, q, h, {2}) = b
          /\ Step(s, q, h, {1, 2}) = c
      BY ONLY <1>4, <2>1, <2>3
    <3>2. {1, 2} # {} /\ {1, 2} # {1} /\ {1, 2} # {2} /\ {1} # {} /\ {2} # {} /\ {2} # {1}
      OBVIOUS
    <3> QED BY ONLY <1>2, <3>1, <3>2
  <2>5. h = [S \in SUBSET (DOMAIN q) |-> Step(s, q, h, S)]
    BY <2>2, <2>4, Zenon
  <2> QED BY <2>5 DEF IsFold
<1>6. PICK g : g = (CHOOSE f : IsFold(s, q, f))
  OBVIOUS
<1>7. IsFold(s, q, g)
  BY <1>5, <1>6
<1>8. \A S \in SUBSET (DOMAIN q) : g[S] = Step(s, q, g, S)
  BY <1>7 DEF IsFold
<1>9. g[{}] = s
  BY ONLY <1>3, <1>4, <1>8
<1>10. g[{1}] = CatItem(s, q[1])
  BY ONLY <1>3, <1>4, <1>8, <1>9
<1>11. g[{1, 2}] = CatItem(CatItem(s, q[1]), q[2])
  BY ONLY <1>3, <1>4, <1>8, <1>10
<1> QED BY ONLY <1>1, <1>3, <1>6, <1>11

Added(r, u, t, p) == Carries(r, u) /\ u \in Seq(Byte) /\ Len(u) = Len(t) + Len(p)

LEMMA CatItemCarries ==
  ASSUME NEW s, NEW t, Carries(s, t), NEW p \in Seq(Byte),
         Len(t) + Len(p) + 1 <= MaxText + 2 * MaxPart + 2, NEW u, u = t \o p
  PROVE  Added(CatItem(s, p), u, t, p)
<1>1. s \in Header /\ s.len = Len(t) /\ Len(t) \in Nat /\ Len(p) \in Nat /\ t \in Seq(Byte)
  BY LenProperties DEF Carries
<1>2. PICK o \in Nat : o = 1
  OBVIOUS
<1>3. PICK r : r = IF sdsavail(s) = 0 THEN sdsMakeRoomFor(s, o) ELSE s
  OBVIOUS
<1>4. Carries(r, t) /\ r.len = Len(t)
  <2>1. CASE sdsavail(s) = 0
    <3>1. Len(t) + o <= MaxText + 2 * MaxPart + 2
      BY <1>1, <1>2, StringsAssumption
    <3>2. r = sdsMakeRoomFor(s, o)
      BY <1>3, <2>1
    <3> QED BY <3>1, <3>2, RoomMade DEF Carries
  <2>2. CASE sdsavail(s) # 0
    <3>1. r = s
      BY <1>3, <2>2
    <3> QED BY <1>1, <3>1
  <2> QED BY <2>1, <2>2
<1>5. PICK k \in Nat : k = Len(p)
  BY <1>1
<1>6. PICK q : q = sdsMakeRoomFor(r, k)
  OBVIOUS
<1>7. IsRoomy(q, r, Len(t) + k) /\ Carries(q, t)
  <2>1. Len(t) + k <= MaxText + 2 * MaxPart + 2
    BY <1>1, <1>5, StringsAssumption
  <2> QED BY <1>4, <1>6, <2>1, RoomMade
<1>8. q = IF sdsavail(r) < Len(p) THEN sdsMakeRoomFor(r, Len(p)) ELSE r
  <2>1. sdsavail(r) \in Nat
    BY <1>4, <1>5, Available
  <2>2. ~ (sdsavail(r) < Len(p)) => sdsavail(r) >= k
    BY <1>5, <2>1
  <2> QED BY <1>5, <1>6, <2>2 DEF sdsMakeRoomFor
<1>9. PICK w : w = Wrote(q, Len(t), p)
  OBVIOUS
<1>10. q \in Header /\ Begins(q.buf, t) /\ q.len = Len(t)
  BY <1>7 DEF Carries
<1>11. IsWritten(w, q, u) /\ u \in Seq(Byte) /\ Len(u) = Len(t) + Len(p)
  BY <1>9, <1>10, WroteBehind
<1>12. /\ w \in Header /\ w.buf = u /\ w.len = Len(t) /\ Room(w, Len(u))
       /\ w.type = q.type /\ w.alloc = q.alloc /\ w.size = q.size
  BY <1>5, <1>7, <1>10, <1>11, RoomSame DEF IsWritten, IsRoomy
<1>13. PICK n \in Nat : n = Len(u)
  BY <1>11, LenProperties
<1>14. PICK y : y = sdssetlen(w, n)
  OBVIOUS
<1>15. /\ y \in Header /\ y.len = n /\ y.buf = u
       /\ y.type = w.type /\ y.alloc = w.alloc /\ y.size = w.size
  BY <1>12, <1>13, <1>14, Cut
<1>16. Room(y, n) /\ Begins(u, u)
  BY <1>11, <1>12, <1>13, <1>15, RoomSame, BeginsItself
<1>17. Carries(y, u)
  BY <1>11, <1>13, <1>15, <1>16 DEF Carries
<1>18. CatItem(s, p) = y
  <2>1. w.len + Len(p) = n
    BY <1>11, <1>12, <1>13
  <2>2. y = sdsinclen(Wrote(q, s.len, p), Len(p))
    BY <1>1, <1>9, <1>14, <2>1 DEF sdsinclen
  <2> QED BY <1>2, <1>3, <1>8, <2>2 DEF CatItem
<1> QED BY <1>11, <1>17, <1>18 DEF Added

LEMMA CatFormatSds ==
  ASSUME NEW s, NEW t, IsSds(s, t), Len(t) <= MaxText + MaxPart,
         NEW c \in Letter, NEW p \in Part, NEW u, u = (t \o <<c>>) \o p
  PROVE  IsSds(sdscatfmt(s, <<<<c>>, p>>), u)
<1>1. Carries(s, t) /\ t \in Seq(Byte) /\ Len(t) \in Nat
  BY LenProperties DEF IsSds, Carries
<1>2. PICK a : a = <<c>>
  OBVIOUS
<1>3. a \in Seq(Byte) /\ Len(a) = 1
  BY <1>2 DEF Byte
<1>4. p \in Seq(Byte) /\ Len(p) \in Nat /\ Len(p) <= MaxPart
  BY PartShape
<1>5. PICK v : v = t \o a
  OBVIOUS
<1>6. PICK r : r = CatItem(s, a)
  OBVIOUS
<1>7. Carries(r, v) /\ v \in Seq(Byte) /\ Len(v) = Len(t) + 1
  <2>1. Len(t) + Len(a) + 1 <= MaxText + 2 * MaxPart + 2
    BY <1>1, <1>3, StringsAssumption
  <2>2. Added(CatItem(s, a), v, t, a)
    BY <1>1, <1>3, <1>5, <2>1, CatItemCarries
  <2> QED BY <1>3, <1>6, <2>2 DEF Added
<1>8. PICK w : w = CatItem(r, p)
  OBVIOUS
<1>9. u = v \o p
  BY <1>2, <1>5
<1>10. Carries(w, u) /\ u \in Seq(Byte) /\ Len(u) = Len(v) + Len(p)
  <2>1. Len(v) + Len(p) + 1 <= MaxText + 2 * MaxPart + 2
    BY <1>1, <1>4, <1>7, StringsAssumption
  <2>2. PICK x : x = v \o p
    OBVIOUS
  <2>3. Added(CatItem(r, p), x, v, p)
    BY <1>4, <1>7, <2>1, <2>2, CatItemCarries
  <2>4. u = x
    BY <1>9, <2>2
  <2> QED BY <1>8, <2>3, <2>4 DEF Added
<1>11. PICK n \in Nat : n = Len(u)
  BY <1>10, LenProperties
<1>12. w \in Header /\ Room(w, n) /\ w.len = n /\ Begins(w.buf, u)
  BY <1>10, <1>11 DEF Carries
<1>13. sdssetlen(w, n) = w
  <2>1. n % Limit(w.type) = n
    <3>1. w.type \in {5, 8, 16} /\ n < Limit(w.type)
      BY <1>12 DEF Header, Room
    <3> QED BY <3>1, Limits, NotCut
  <2>2. [w EXCEPT !.len = n] = w
    BY <1>12 DEF Header
  <2> QED BY <2>1, <2>2 DEF sdssetlen
<1>14. IsSds(Terminated(w, n), u)
  <2>1. IsSds(Terminated(sdssetlen(w, n), n), u)
    BY <1>10, <1>11, <1>12, Finish
  <2> QED BY <1>13, <2>1
<1>15. sdscatfmt(s, <<<<c>>, p>>) = Terminated(w, n)
  <2>1. PICK q : q = <<a, p>>
    OBVIOUS
  <2>2. DOMAIN q = 1..2 /\ q[1] = a /\ q[2] = p
    BY <2>1
  <2>3. FoldLeft(CatItem, s, q) = CatItem(CatItem(s, q[1]), q[2])
    BY <2>2, FoldTwo
  <2>4. FoldLeft(CatItem, s, q) = w
    BY <1>6, <1>8, <2>2, <2>3
  <2> QED BY <1>2, <1>12, <2>1, <2>4 DEF sdscatfmt
<1> QED BY <1>14, <1>15

-----------------------------------------------------------------------------
(***************************************************************************)
(* sdsrange() and sdstrim(): where the part that is kept begins and ends   *)
(***************************************************************************)
LEMMA MaxOfTwo == \A a, b \in Int : Max({a, b}) = IF a >= b THEN a ELSE b
<1> SUFFICES ASSUME NEW a \in Int, NEW b \in Int PROVE Max({a, b}) = IF a >= b THEN a ELSE b
  OBVIOUS
<1>1. PICK m : m = IF a >= b THEN a ELSE b
  OBVIOUS
<1>2. m \in {a, b} /\ \A y \in {a, b} : m >= y
  BY <1>1
<1>3. Max({a, b}) \in {a, b} /\ \A y \in {a, b} : Max({a, b}) >= y
  BY <1>2 DEF Max
<1> QED BY <1>3

LEMMA MinOfTwo == \A a, b \in Int : Min({a, b}) = IF a <= b THEN a ELSE b
<1> SUFFICES ASSUME NEW a \in Int, NEW b \in Int PROVE Min({a, b}) = IF a <= b THEN a ELSE b
  OBVIOUS
<1>1. PICK m : m = IF a <= b THEN a ELSE b
  OBVIOUS
<1>2. m \in {a, b} /\ \A y \in {a, b} : m <= y
  BY <1>1
<1>3. Min({a, b}) \in {a, b} /\ \A y \in {a, b} : Min({a, b}) <= y
  BY <1>2 DEF Min
<1> QED BY <1>3

\* A place that may be counted from the end.
IndexOf(i, len) == IF i >= 0 THEN i ELSE IF len + i < 0 THEN 0 ELSE len + i

LEMMA RangeSds ==
  ASSUME NEW s, NEW t, IsSds(s, t), NEW first \in Int, NEW last \in Int,
         NEW u, u = Between(t, first, last)
  PROVE  IsSds(sdsrange(s, first, last), u)
<1>1. /\ s.len = Len(t) /\ Len(t) \in Nat /\ t \in Seq(Byte) /\ s \in Header
  BY LenProperties DEF IsSds, Carries
<1>2. PICK len \in Nat : len = Len(t)
  BY <1>1
<1>3. PICK h, p \in Nat : h = IndexOf(first, len) /\ p = IndexOf(last, len)
  BY DEF IndexOf
<1>4. PICK e \in Int : e = IF p >= len THEN len - 1 ELSE p
  OBVIOUS
<1>5. PICK d : d = SubSeq(t, h + 1, e + 1)
  OBVIOUS
<1>6. u = d
  <2>1. Max({0, len + first}) = IF 0 >= len + first THEN 0 ELSE len + first
    BY MaxOfTwo
  <2>2. Max({0, len + last}) = IF 0 >= len + last THEN 0 ELSE len + last
    BY MaxOfTwo
  <2>3. /\ (IF first >= 0 THEN first ELSE Max({0, len + first})) = h
        /\ (IF last >= 0 THEN last ELSE Max({0, len + last})) = p
    BY <1>3, <2>1, <2>2 DEF IndexOf
  <2>4. Min({p + 1, len}) = IF p + 1 <= len THEN p + 1 ELSE len
    BY MinOfTwo
  <2>5. Min({p + 1, len}) = e + 1
    BY <1>4, <2>4
  <2> QED BY <1>2, <1>5, <2>3, <2>5 DEF Between
<1>7. PICK n : n = IF h > e \/ h >= len THEN 0 ELSE e - h + 1
  OBVIOUS
<1>8. /\ sdsrange(s, first, last)
            = IF len = 0 THEN s
              ELSE sdssetlen(Terminated(Wrote(s, 0, SubSeq(s.buf, h + 1, h + n)), n), n)
  <2>1. RangeEnd(last, len) = e
    BY <1>3, <1>4 DEF RangeEnd, IndexOf
  <2>2. (IF first >= 0 THEN first ELSE IF len + first < 0 THEN 0 ELSE len + first) = h
    BY <1>3 DEF IndexOf
  <2> QED BY <1>1, <1>2, <1>7, <2>1, <2>2 DEF sdsrange
<1>9. CASE len = 0
  <2>1. d = << >>
    <3>1. h + 1 \in Int /\ e + 1 \in Int /\ e + 1 < h + 1
      BY <1>3, <1>4, <1>9
    <3> QED BY <1>5, <3>1, SubSeqEmpty
  <2>2. t = << >>
    BY <1>1, <1>2, <1>9, EmptySeq
  <2> QED BY <1>6, <1>8, <1>9, <2>1, <2>2
<1>10. CASE len # 0 /\ (h > e \/ h >= len)
  <2>1. n = 0 /\ e < h
    BY <1>3, <1>4, <1>7, <1>10
  <2>2. d = << >>
    <3>1. h + 1 \in Int /\ e + 1 \in Int /\ e + 1 < h + 1
      BY <1>3, <1>4, <2>1
    <3> QED BY <1>5, <3>1, SubSeqEmpty
  <2>3. PICK z \in Nat : z = 0
    OBVIOUS
  <2>4. SubSeq(s.buf, h + 1, h + n) = << >>
    <3>1. h + 1 \in Int /\ h + n \in Int /\ h + n < h + 1
      BY <1>3, <2>1
    <3> QED BY <3>1, SubSeqEmpty
  <2>5. SubSeq(s.buf, z + 1, z + z) = << >> /\ SubSeq(t, z + 1, z + z) = << >>
    <3>1. z + 1 \in Int /\ z + z \in Int /\ z + z < z + 1
      BY <2>3
    <3> QED BY <3>1, SubSeqEmpty
  <2>6. PICK v : v = PartFrom(t, z, z)
    OBVIOUS
  <2>7. z + z <= Len(t)
    BY <1>1, <2>3
  <2>8. IsSds(Middle(s, z, z), v)
    BY <2>6, <2>7, MiddleSds
  <2>9. v = d
    BY <2>2, <2>5, <2>6 DEF PartFrom
  <2>10. sdsrange(s, first, last) = Middle(s, z, z)
    BY <1>8, <1>10, <2>1, <2>3, <2>4, <2>5 DEF Middle, PartFrom
  <2> QED BY <1>6, <2>8, <2>9, <2>10
<1>11. CASE len # 0 /\ ~ (h > e \/ h >= len)
  <2>1. n = e - h + 1 /\ n \in Nat /\ h + n = e + 1 /\ h + n <= len
    BY <1>3, <1>4, <1>7, <1>11
  <2>2. d = PartFrom(t, h, n)
    BY <1>5, <2>1 DEF PartFrom
  <2>3. IsSds(Middle(s, h, n), d)
    BY <1>2, <2>1, <2>2, MiddleSds
  <2> QED BY <1>6, <1>8, <1>11, <2>3 DEF Middle, PartFrom
<1> QED BY <1>9, <1>10, <1>11

-----------------------------------------------------------------------------
\* K is the set of the places of characters outside of the set.  The walk from
\* the left ends at x, before the first of them; the one from the right, which
\* goes no farther than h, behind the last.
LeftEnd(n, K, i, x) ==
    x \in i..n /\ (x = n \/ x + 1 \in K) /\ \A j \in i..(x - 1) : j + 1 \notin K
RightEnd(h, K, i, x) ==
    x \in -1..i /\ (x <= h \/ x + 1 \in K) /\ \A j \in (x + 1)..i : j > h /\ j + 1 \notin K

LeftWalk(n, K, f) == f = [i \in 0..n |-> IF i < n /\ i + 1 \notin K THEN f[i + 1] ELSE i]
RightWalk(n, h, K, f) ==
    f = [i \in -1..(n - 1) |-> IF i > h /\ i + 1 \notin K THEN f[i - 1] ELSE i]

LEMMA LeftEnds ==
  ASSUME NEW n \in Nat, NEW K, NEW i \in 0..n
  PROVE  /\ \E x : LeftEnd(n, K, i, x)
         /\ \A x, y : LeftEnd(n, K, i, x) /\ LeftEnd(n, K, i, y) => x = y
<1>1. PICK S : S = {x \in i..n : x = n \/ x + 1 \in K}
  OBVIOUS
<1>2. S \subseteq Nat /\ S # {}
  BY <1>1
<1>3. PICK m : m = Min(S)
  OBVIOUS
<1>4. m \in S /\ \A y \in S : m <= y
  BY <1>2, <1>3, MinIs
<1>5. \A j \in i..(m - 1) : j + 1 \notin K
  <2>1. ASSUME NEW j \in i..(m - 1) PROVE j + 1 \notin K
    <3>1. m \in i..n
      BY <1>1, <1>4
    <3>2. j \in i..n /\ ~ (m <= j)
      BY <3>1
    <3> QED BY <1>1, <1>4, <3>2
  <2> QED BY <2>1
<1>6. LeftEnd(n, K, i, m)
  BY <1>1, <1>4, <1>5 DEF LeftEnd
<1>7. ASSUME NEW x, NEW y, LeftEnd(n, K, i, x), LeftEnd(n, K, i, y) PROVE x = y
  <2>1. x \in i..n /\ y \in i..n
    BY <1>7 DEF LeftEnd
  <2>2. ~ (x < y)
    <3> SUFFICES ASSUME x < y PROVE FALSE
      OBVIOUS
    <3>1. x \in i..(y - 1) /\ x # n
      BY <2>1
    <3> QED BY <1>7, <3>1 DEF LeftEnd
  <2>3. ~ (y < x)
    <3> SUFFICES ASSUME y < x PROVE FALSE
      OBVIOUS
    <3>1. y \in i..(x - 1) /\ y # n
      BY <2>1
    <3> QED BY <1>7, <3>1 DEF LeftEnd
  <2> QED BY <2>1, <2>2, <2>3
<1> QED BY <1>6, <1>7

LEMMA RightEnds ==
  ASSUME NEW h \in Nat, NEW K, NEW i \in Nat \cup {-1}
  PROVE  /\ \E x : RightEnd(h, K, i, x)
         /\ \A x, y : RightEnd(h, K, i, x) /\ RightEnd(h, K, i, y) => x = y
<1>1. PICK l \in Nat : l = i + 1
  OBVIOUS
<1>2. PICK S : S = {y \in 0..l : y - 1 <= h \/ y \in K}
  OBVIOUS
<1>3. S \subseteq 0..l /\ S # {}
  <2>1. 0 \in S
    BY <1>2
  <2> QED BY <1>2, <2>1
<1>4. PICK m : m = Max(S)
  OBVIOUS
<1>5. m \in S /\ \A y \in S : y <= m
  BY <1>3, <1>4, MaxIs
<1>6. PICK x \in -1..i : x = m - 1
  BY <1>1, <1>2, <1>5
<1>7. ASSUME NEW j \in (x + 1)..i PROVE j > h /\ j + 1 \notin K
  <2>1. m \in 0..l
    BY <1>3, <1>5
  <2>3. j + 1 \in 0..l /\ ~ (j + 1 <= m) /\ (j + 1) - 1 = j
    BY <2>1, <1>1, <1>6
  <2>2. j + 1 \notin S
    BY <1>5, <2>3
  <2> QED BY <1>2, <2>3, <2>2
<1>8. x <= h \/ x + 1 \in K
  BY <1>2, <1>5, <1>6
<1>9. RightEnd(h, K, i, x)
  BY <1>7, <1>8 DEF RightEnd
<1>10. ASSUME NEW y, NEW z, RightEnd(h, K, i, y), RightEnd(h, K, i, z) PROVE y = z
  <2>1. y \in -1..i /\ z \in -1..i
    BY <1>10 DEF RightEnd
  <2>2. ~ (y < z)
    <3> SUFFICES ASSUME y < z PROVE FALSE
      OBVIOUS
    <3>1. z \in (y + 1)..i /\ ~ (z <= h /\ z > h)
      BY <2>1
    <3> QED BY <1>10, <2>1, <3>1 DEF RightEnd
  <2>3. ~ (z < y)
    <3> SUFFICES ASSUME z < y PROVE FALSE
      OBVIOUS
    <3>1. y \in (z + 1)..i /\ ~ (y <= h /\ y > h)
      BY <2>1
    <3> QED BY <1>10, <2>1, <3>1 DEF RightEnd
  <2> QED BY <2>1, <2>2, <2>3
<1> QED BY <1>9, <1>10

LEMMA LeftWalks ==
  ASSUME NEW n \in Nat, NEW K
  PROVE  /\ \E f : LeftWalk(n, K, f)
         /\ \A f : LeftWalk(n, K, f) => LeftEnd(n, K, 0, f[0])
<1>1. PICK g : g = [i \in 0..n |-> CHOOSE x : LeftEnd(n, K, i, x)]
  OBVIOUS
<1>2. \A i \in 0..n : LeftEnd(n, K, i, g[i])
  BY <1>1, LeftEnds
<1>3. ASSUME NEW i \in 0..n PROVE g[i] = IF i < n /\ i + 1 \notin K THEN g[i + 1] ELSE i
  <2>1. CASE i < n /\ i + 1 \notin K
    <3>1. i + 1 \in 0..n
      BY <2>1
    <3>2. LeftEnd(n, K, i + 1, g[i + 1])
      BY <1>2, <3>1
    <3>3. LeftEnd(n, K, i, g[i + 1])
      <4>1. PICK x : x = g[i + 1]
        OBVIOUS
      <4>2. x \in (i + 1)..n /\ (x = n \/ x + 1 \in K) /\ \A j \in (i + 1)..(x - 1) : j + 1 \notin K
        BY <3>2, <4>1 DEF LeftEnd
      <4>3. x \in i..n /\ \A j \in i..(x - 1) : j = i \/ j \in (i + 1)..(x - 1)
        BY <4>2
      <4> QED BY <2>1, <4>1, <4>2, <4>3 DEF LeftEnd
    <3>4. LeftEnd(n, K, i, g[i])
      BY <1>2
    <3> QED BY <2>1, <3>3, <3>4, LeftEnds
  <2>2. CASE ~ (i < n /\ i + 1 \notin K)
    <3>1. LeftEnd(n, K, i, i)
      BY <2>2 DEF LeftEnd
    <3>2. LeftEnd(n, K, i, g[i])
      BY <1>2
    <3>3. g[i] = i
      BY <3>1, <3>2, LeftEnds
    <3> QED BY <2>2, <3>3
  <2> QED BY <2>1, <2>2
<1>4. LeftWalk(n, K, g)
  <2>1. g = [i \in 0..n |-> g[i]]
    BY <1>1
  <2>2. [i \in 0..n |-> g[i]] = [i \in 0..n |-> IF i < n /\ i + 1 \notin K THEN g[i + 1] ELSE i]
    BY <1>3
  <2> QED BY <2>1, <2>2 DEF LeftWalk
<1>5. ASSUME NEW f, LeftWalk(n, K, f) PROVE LeftEnd(n, K, 0, f[0])
  <2>1. \A i \in 0..n : f[i] = IF i < n /\ i + 1 \notin K THEN f[i + 1] ELSE i
    BY <1>5 DEF LeftWalk
  <2>2. PICK S : S = {i \in 0..n : f[i] # g[i]}
    OBVIOUS
  <2>3. S = {}
    <3> SUFFICES ASSUME S # {} PROVE FALSE
      OBVIOUS
    <3>1. PICK m : m = Max(S)
      OBVIOUS
    <3>2. S \subseteq 0..n
      BY <2>2
    <3>3. m \in S /\ \A y \in S : y <= m
      BY <3>1, <3>2, MaxIs
    <3>4. m \in 0..n /\ f[m] # g[m]
      BY <2>2, <3>3
    <3>5. f[m] = (IF m < n /\ m + 1 \notin K THEN f[m + 1] ELSE m)
          /\ g[m] = (IF m < n /\ m + 1 \notin K THEN g[m + 1] ELSE m)
      BY <1>3, <2>1, <3>4
    <3>6. m < n /\ f[m + 1] # g[m + 1]
      BY <3>4, <3>5
    <3>7. m + 1 \in 0..n /\ ~ (m + 1 <= m)
      BY <3>4, <3>6
    <3>8. m + 1 \in S
      BY <2>2, <3>6, <3>7
    <3> QED BY <3>3, <3>7, <3>8
  <2>4. 0 \in 0..n
    OBVIOUS
  <2>5. f[0] = g[0]
    BY <2>2, <2>3, <2>4
  <2> QED BY <1>2, <2>4, <2>5
<1> QED BY <1>4, <1>5

LEMMA RightWalks ==
  ASSUME NEW n \in Nat, NEW h \in Nat, NEW K
  PROVE  /\ \E f : RightWalk(n, h, K, f)
         /\ \A f : RightWalk(n, h, K, f) => RightEnd(h, K, n - 1, f[n - 1])
<1> DEFINE D == -1..(n - 1)
<1>1. PICK g : g = [i \in D |-> CHOOSE x : RightEnd(h, K, i, x)]
  OBVIOUS
<1>6. \A i \in D : i \in Nat \cup {-1}
  OBVIOUS
<1>2. \A i \in D : RightEnd(h, K, i, g[i])
  BY <1>1, <1>6, RightEnds
<1>3. ASSUME NEW i \in D PROVE g[i] = IF i > h /\ i + 1 \notin K THEN g[i - 1] ELSE i
  <2>1. CASE i > h /\ i + 1 \notin K
    <3>1. i - 1 \in D
      BY <2>1
    <3>2. RightEnd(h, K, i - 1, g[i - 1])
      BY <1>2, <3>1
    <3>3. RightEnd(h, K, i, g[i - 1])
      <4>1. PICK x : x = g[i - 1]
        OBVIOUS
      <4>2. /\ x \in -1..(i - 1) /\ (x <= h \/ x + 1 \in K)
            /\ \A j \in (x + 1)..(i - 1) : j > h /\ j + 1 \notin K
        BY <3>2, <4>1 DEF RightEnd
      <4>3. x \in -1..i /\ \A j \in (x + 1)..i : j = i \/ j \in (x + 1)..(i - 1)
        BY <4>2
      <4> QED BY <2>1, <4>1, <4>2, <4>3 DEF RightEnd
    <3>4. RightEnd(h, K, i, g[i])
      BY <1>2
    <3> QED BY <1>6, <2>1, <3>3, <3>4, RightEnds
  <2>2. CASE ~ (i > h /\ i + 1 \notin K)
    <3>1. RightEnd(h, K, i, i)
      BY <2>2 DEF RightEnd
    <3>2. RightEnd(h, K, i, g[i])
      BY <1>2
    <3>3. g[i] = i
      BY <1>6, <3>1, <3>2, RightEnds
    <3> QED BY <2>2, <3>3
  <2> QED BY <2>1, <2>2
<1>4. RightWalk(n, h, K, g)
  <2>1. g = [i \in D |-> g[i]]
    BY <1>1
  <2>2. [i \in D |-> g[i]] = [i \in D |-> IF i > h /\ i + 1 \notin K THEN g[i - 1] ELSE i]
    BY <1>3
  <2> QED BY <2>1, <2>2 DEF RightWalk
<1>5. ASSUME NEW f, RightWalk(n, h, K, f) PROVE RightEnd(h, K, n - 1, f[n - 1])
  <2>1. \A i \in D : f[i] = IF i > h /\ i + 1 \notin K THEN f[i - 1] ELSE i
    BY <1>5 DEF RightWalk
  <2>2. PICK S : S = {i \in Nat : i \in D /\ f[i] # g[i]}
    OBVIOUS
  <2>3. S = {}
    <3> SUFFICES ASSUME S # {} PROVE FALSE
      OBVIOUS
    <3>1. PICK m : m = Min(S)
      OBVIOUS
    <3>2. S \subseteq Nat
      BY <2>2
    <3>3. m \in S /\ \A y \in S : m <= y
      BY <3>1, <3>2, MinIs
    <3>4. m \in Nat /\ m \in D /\ f[m] # g[m]
      BY <2>2, <3>3
    <3>5. f[m] = (IF m > h /\ m + 1 \notin K THEN f[m - 1] ELSE m)
          /\ g[m] = (IF m > h /\ m + 1 \notin K THEN g[m - 1] ELSE m)
      BY <1>3, <2>1, <3>4
    <3>6. m > h /\ f[m - 1] # g[m - 1]
      BY <3>4, <3>5
    <3>7. m - 1 \in Nat /\ m - 1 \in D /\ ~ (m <= m - 1)
      BY <3>4, <3>6
    <3>8. m - 1 \in S
      BY <2>2, <3>6, <3>7
    <3> QED BY <3>3, <3>7, <3>8
  <2>4. \A i \in D : f[i] = g[i]
    <3>1. ASSUME NEW i \in D, i \in Nat PROVE f[i] = g[i]
      BY <2>2, <2>3, <3>1
    <3>2. ASSUME NEW i \in D, i = -1 PROVE f[i] = g[i]
      <4>1. ~ (i > h)
        BY <3>2
      <4> QED BY <1>3, <2>1, <4>1
    <3> QED BY <1>6, <3>1, <3>2
  <2>5. n - 1 \in D
    OBVIOUS
  <2> QED BY <1>2, <2>4, <2>5
<1> QED BY <1>4, <1>5

LeftTrim(s, cset, f) ==
    f = [i \in 0..s.len |-> IF i < s.len /\ InSet(cset, s.buf[i + 1]) THEN f[i + 1] ELSE i]
RightTrim(s, cset, h, f) ==
    f = [i \in -1..(s.len - 1) |-> IF i > h /\ InSet(cset, s.buf[i + 1]) THEN f[i - 1] ELSE i]

TrimLen(h, x) == IF h > x THEN 0 ELSE x - h + 1
TrimmedTo(s, h, n) ==
    sdssetlen(Terminated(Wrote(s, 0, SubSeq(s.buf, h + 1, h + n)), n), n)

TrimSp(s, cset) == CHOOSE f : LeftTrim(s, cset, f)
TrimEp(s, cset) == CHOOSE f : RightTrim(s, cset, TrimSp(s, cset)[0], f)

LEMMA TrimUnfolds ==
  ASSUME NEW s, NEW cset
  PROVE  sdstrim(s, cset)
             = TrimmedTo(s, TrimSp(s, cset)[0],
                       TrimLen(TrimSp(s, cset)[0], TrimEp(s, cset)[s.len - 1]))
BY Zenon DEF sdstrim, LeftTrim, RightTrim, TrimLen, TrimmedTo, TrimSp, TrimEp

Outside(t, cset) == {i \in 1..Len(t) : t[i] \notin cset \cup {NUL}}

LEMMA TrimWalks ==
  ASSUME NEW s, NEW t, IsSds(s, t), NEW cset, NEW h \in Nat
  PROVE  /\ \A f : LeftTrim(s, cset, f) <=> LeftWalk(Len(t), Outside(t, cset), f)
         /\ \A f : RightTrim(s, cset, h, f) <=> RightWalk(Len(t), h, Outside(t, cset), f)
<1>1. s.len = Len(t) /\ Len(t) \in Nat
  BY LenProperties DEF IsSds, Carries
<1>2. PICK n \in Nat : n = Len(t)
  BY <1>1
<1>3. \A i \in 1..n : s.buf[i] = t[i]
  BY <1>2 DEF IsSds, Carries, Begins
<1>4. PICK K : K = Outside(t, cset)
  OBVIOUS
<1>5. \A i \in 1..n : InSet(cset, s.buf[i]) <=> i \notin K
  BY <1>2, <1>3, <1>4 DEF InSet, Outside
<1>6. ASSUME NEW f PROVE LeftTrim(s, cset, f) <=> LeftWalk(n, K, f)
  <2>1. ASSUME NEW i \in 0..n
        PROVE  i < n /\ InSet(cset, s.buf[i + 1]) <=> i < n /\ i + 1 \notin K
    <3>1. i < n => i + 1 \in 1..n
      OBVIOUS
    <3> QED BY <1>5, <3>1
  <2>2. ASSUME NEW i \in 0..n
        PROVE  (IF i < n /\ InSet(cset, s.buf[i + 1]) THEN f[i + 1] ELSE i)
                   = (IF i < n /\ i + 1 \notin K THEN f[i + 1] ELSE i)
    BY <2>1
  <2>3. [i \in 0..n |-> IF i < n /\ InSet(cset, s.buf[i + 1]) THEN f[i + 1] ELSE i]
            = [i \in 0..n |-> IF i < n /\ i + 1 \notin K THEN f[i + 1] ELSE i]
    BY <2>2, Zenon
  <2>4. s.len = n
    BY <1>1, <1>2
  <2> QED BY <2>3, <2>4 DEF LeftTrim, LeftWalk
<1>7. ASSUME NEW f PROVE RightTrim(s, cset, h, f) <=> RightWalk(n, h, K, f)
  <2>1. ASSUME NEW i \in -1..(n - 1)
        PROVE  i > h /\ InSet(cset, s.buf[i + 1]) <=> i > h /\ i + 1 \notin K
    <3>1. i > h => i + 1 \in 1..n
      OBVIOUS
    <3> QED BY <1>5, <3>1
  <2>2. ASSUME NEW i \in -1..(n - 1)
        PROVE  (IF i > h /\ InSet(cset, s.buf[i + 1]) THEN f[i - 1] ELSE i)
                   = (IF i > h /\ i + 1 \notin K THEN f[i - 1] ELSE i)
    BY <2>1
  <2>3. [i \in -1..(n - 1) |-> IF i > h /\ InSet(cset, s.buf[i + 1]) THEN f[i - 1] ELSE i]
            = [i \in -1..(n - 1) |-> IF i > h /\ i + 1 \notin K THEN f[i - 1] ELSE i]
    BY <2>2, Zenon
  <2> QED BY <1>1, <1>2, <2>3, Zenon DEF RightTrim, RightWalk
<1> QED BY <1>2, <1>4, <1>6, <1>7, Zenon

\* Where the two walks end.
LEMMA TrimEnds ==
  ASSUME NEW s, NEW t, IsSds(s, t), NEW cset
  PROVE  \E h \in 0..Len(t), x \in -1..(Len(t) - 1) :
             /\ LeftEnd(Len(t), Outside(t, cset), 0, h)
             /\ RightEnd(h, Outside(t, cset), Len(t) - 1, x)
             /\ sdstrim(s, cset) = TrimmedTo(s, h, TrimLen(h, x))
<1>1. s.len = Len(t) /\ Len(t) \in Nat
  BY LenProperties DEF IsSds, Carries
<1>2. PICK n \in Nat : n = Len(t)
  BY <1>1
<1>3. PICK K : K = Outside(t, cset)
  OBVIOUS
<1>4. PICK sp : sp = TrimSp(s, cset)
  OBVIOUS
<1>5. LeftWalk(n, K, sp)
  <2>1. PICK z \in Nat : z = 0
    OBVIOUS
  <2>2. \A f : LeftTrim(s, cset, f) <=> LeftWalk(n, K, f)
    BY <1>2, <1>3, <2>1, TrimWalks, Zenon
  <2>3. \E f : LeftTrim(s, cset, f)
    BY <2>2, LeftWalks, Zenon
  <2> QED BY <1>4, <2>2, <2>3, Zenon DEF TrimSp
<1>6. LeftEnd(n, K, 0, sp[0])
  BY <1>5, LeftWalks
<1>7. PICK h \in 0..n : h = sp[0]
  BY <1>6 DEF LeftEnd
<1>8. PICK ep : ep = TrimEp(s, cset)
  OBVIOUS
<1>9. h \in Nat
  BY <1>7
<1>10. RightWalk(n, h, K, ep)
  <2>1. \A f : RightTrim(s, cset, h, f) <=> RightWalk(n, h, K, f)
    BY <1>2, <1>3, <1>9, TrimWalks, Zenon
  <2>2. \E f : RightTrim(s, cset, h, f)
    BY <1>9, <2>1, RightWalks, Zenon
  <2> QED BY <1>4, <1>7, <1>8, <2>1, <2>2, Zenon DEF TrimEp
<1>11. PICK x : x = ep[n - 1]
  OBVIOUS
<1>12. RightEnd(h, K, n - 1, x)
  BY <1>9, <1>10, <1>11, RightWalks, Zenon
<1>13. x \in -1..(n - 1)
  BY <1>12 DEF RightEnd
<1>14. sdstrim(s, cset) = TrimmedTo(s, h, TrimLen(h, x))
  BY <1>1, <1>2, <1>4, <1>7, <1>8, <1>11, TrimUnfolds, Zenon
<1> QED BY <1>2, <1>3, <1>6, <1>7, <1>12, <1>13, <1>14, Zenon

\* The ends of the walks are the first and the last character that is kept.
LEMMA EndsAre ==
  ASSUME NEW n \in Nat, NEW K, K \subseteq 1..n, NEW h \in 0..n, NEW x \in -1..(n - 1),
         LeftEnd(n, K, 0, h), RightEnd(h, K, n - 1, x)
  PROVE  /\ K = {} => h = n /\ x < h
         /\ K # {} => h <= x /\ Min(K) = h + 1 /\ Max(K) = x + 1
<1>1. CASE h = n
  <2>1. \A i \in 1..n : i \notin K
    <3>1. \A i \in 1..n : i - 1 \in 0..(h - 1) /\ (i - 1) + 1 = i
      BY <1>1
    <3> QED BY <3>1 DEF LeftEnd
  <2>2. K = {}
    BY <2>1
  <2>3. x < h
    BY <1>1
  <2> QED BY <1>1, <2>2, <2>3
<1>2. CASE h # n
  <2>1. h + 1 \in K
    BY <1>2 DEF LeftEnd
  <2>2. h <= x
    <3>1. ~ (x < h)
      <4> SUFFICES ASSUME x < h PROVE FALSE
        OBVIOUS
      <4>1. h \in (x + 1)..(n - 1) /\ ~ (h > h)
        BY <1>2
      <4> QED BY <4>1 DEF RightEnd
    <3> QED BY <3>1
  <2>3. x + 1 \in K
    <3>1. CASE x = h
      BY <2>1, <3>1
    <3>2. CASE x # h
      BY <2>2, <3>2 DEF RightEnd
    <3> QED BY <3>1, <3>2
  <2>4. K \subseteq 0..n /\ K \subseteq Nat /\ K # {}
    BY <2>1
  <2>5. PICK a : a = Min(K)
    OBVIOUS
  <2>6. a \in K /\ a \in 1..n /\ a <= h + 1
    BY <2>1, <2>4, <2>5, MinIs
  <2>7. a = h + 1
    <3>1. ~ (a - 1 \in 0..(h - 1))
      <4>1. (a - 1) + 1 = a
        BY <2>6
      <4> QED BY <2>6, <4>1 DEF LeftEnd
    <3> QED BY <2>6, <3>1
  <2>8. PICK b : b = Max(K)
    OBVIOUS
  <2>9. b \in K /\ b \in 1..n /\ x + 1 <= b
    BY <2>3, <2>4, <2>8, MaxIs
  <2>10. b = x + 1
    <3>1. ~ (b - 1 \in (x + 1)..(n - 1))
      <4>1. (b - 1) + 1 = b
        BY <2>9
      <4> QED BY <2>9, <4>1 DEF RightEnd
    <3> QED BY <2>9, <3>1
  <2> QED BY <2>2, <2>4, <2>5, <2>7, <2>8, <2>10
<1> QED BY <1>1, <1>2

LEMMA TrimSds ==
  ASSUME NEW s, NEW t, IsSds(s, t), NEW cset, NEW u, u = Kept(t, cset)
  PROVE  IsSds(sdstrim(s, cset), u)
<1>1. /\ s.len = Len(t) /\ Len(t) \in Nat /\ DOMAIN t = 1..Len(t) /\ t \in Seq(Byte)
  BY LenProperties DEF IsSds, Carries
<1>2. PICK n \in Nat : n = Len(t)
  BY <1>1
<1>3. PICK K : K = Outside(t, cset)
  OBVIOUS
<1>4. PICK h \in 0..n, x \in -1..(n - 1) :
          /\ LeftEnd(n, K, 0, h) /\ RightEnd(h, K, n - 1, x)
          /\ sdstrim(s, cset) = TrimmedTo(s, h, TrimLen(h, x))
  BY <1>2, <1>3, TrimEnds, Zenon
<1>5. K \subseteq 1..n /\ K = {i \in DOMAIN t : t[i] \notin cset \cup {NUL}}
  BY <1>1, <1>2, <1>3 DEF Outside
<1>6. u = IF K = {} THEN << >> ELSE SubSeq(t, Min(K), Max(K))
  BY <1>5, Zenon DEF Kept
<1>7. CASE K = {}
  <2>1. h = n /\ x < h
    BY <1>4, <1>5, <1>7, EndsAre
  <2>2. TrimLen(h, x) = 0
    BY <2>1, <1>4 DEF TrimLen
  <2>3. PICK z \in Nat : z = 0
    OBVIOUS
  <2>4. SubSeq(s.buf, h + 1, h + z) = << >>
    <3>1. h + 1 \in Int /\ h + z \in Int /\ h + z < h + 1
      BY <1>4, <2>3
    <3> QED BY <3>1, SubSeqEmpty
  <2>5. SubSeq(s.buf, z + 1, z + z) = << >> /\ SubSeq(t, z + 1, z + z) = << >>
    <3>1. z + 1 \in Int /\ z + z \in Int /\ z + z < z + 1
      BY <2>3
    <3> QED BY <3>1, SubSeqEmpty
  <2>6. PICK v : v = PartFrom(t, z, z)
    OBVIOUS
  <2>7. z + z <= Len(t)
    BY <1>1, <2>3
  <2>8. IsSds(Middle(s, z, z), v)
    BY <2>6, <2>7, MiddleSds
  <2>9. v = u
    BY <1>6, <1>7, <2>5, <2>6 DEF PartFrom
  <2>10. sdstrim(s, cset) = Middle(s, z, z)
    BY <1>4, <2>2, <2>3, <2>4, <2>5, Zenon DEF Middle, PartFrom, TrimmedTo
  <2> QED BY <2>8, <2>9, <2>10
<1>8. CASE K # {}
  <2>1. h <= x /\ Min(K) = h + 1 /\ Max(K) = x + 1
    BY <1>4, <1>5, <1>8, EndsAre
  <2>2. PICK m \in Nat : m = x - h + 1
    BY <1>4, <2>1
  <2>3. TrimLen(h, x) = m /\ h + m = x + 1 /\ h + m <= Len(t) /\ h \in Nat
    BY <1>2, <1>4, <2>1, <2>2 DEF TrimLen
  <2>4. u = PartFrom(t, h, m)
    BY <1>6, <1>8, <2>1, <2>3, Zenon DEF PartFrom
  <2>5. IsSds(Middle(s, h, m), u)
    BY <2>3, <2>4, MiddleSds
  <2>6. sdstrim(s, cset) = Middle(s, h, m)
    BY <1>4, <2>3, Zenon DEF Middle, PartFrom, TrimmedTo
  <2> QED BY <2>5, <2>6
<1> QED BY <1>7, <1>8

-----------------------------------------------------------------------------
SdsInv == IsSds(sds, text) /\ Len(text) <= MaxText + MaxPart

\* What every operation leaves behind.
LEMMA Became ==
  ASSUME NEW s, NEW t, Becomes(s, t), IsSds(s, t)
  PROVE  SdsInv'
<1>1. t \in Seq(Byte) /\ Len(t) \in Nat /\ Len(t) <= MaxText
  BY LenProperties DEF Becomes, IsSds, Carries
<1>2. MaxText \in Nat /\ MaxPart \in Nat
  BY StringsAssumption
<1>3. Len(t) <= MaxText + MaxPart
  BY <1>1, <1>2
<1>4. sds' = s /\ text' = t
  BY DEF Becomes
<1>5. IsSds(sds, text)' <=> IsSds(sds', text')
  OBVIOUS
<1>6. IsSds(sds', text')
  BY <1>4
<1> QED BY <1>3, <1>4, <1>6 DEF SdsInv

LEMMA Short ==
  ASSUME NEW n \in Nat, n <= MaxText + 2 * MaxPart + 2
  PROVE  n < LIMIT_16
<1>1. PICK c, d \in Nat : c = SDS_MAX_PREALLOC /\ d = LIMIT_16
  BY SdsAssumption, StringsAssumption
<1>2. Grown(n) < d
  BY <1>1, StringsAssumption
<1> QED BY <1>1, <1>2 DEF Grown

LEMMA InitSds == ASSUME SdsInit PROVE SdsInv
<1>1. PICK t \in Part : sds = sdsnewlen(t) /\ text = t
  BY DEF SdsInit
<1>2. t \in Seq(Byte) /\ Len(t) \in Nat /\ Len(t) <= MaxPart
  BY PartShape
<1>3. MaxText \in Nat /\ MaxPart \in Nat
  BY StringsAssumption
<1>4. Len(t) < LIMIT_16
  BY <1>2, <1>3, Short
<1>5. IsSds(sdsnewlen(t), t)
  BY <1>2, <1>4, NewSds
<1>6. Len(t) <= MaxText + MaxPart
  BY <1>2, <1>3
<1> QED BY <1>1, <1>5, <1>6 DEF SdsInv

LEMMA NextSds == ASSUME SdsInv, SdsNext PROVE SdsInv'
<1>1. IsSds(sds, text) /\ Len(text) <= MaxText + MaxPart
  BY DEF SdsInv
<1>2. /\ text \in Seq(Byte) /\ Len(text) \in Nat /\ DOMAIN text = 1..Len(text)
      /\ sds.len = Len(text) /\ Room(sds, Len(text)) /\ Begins(sds.buf, text)
  BY <1>1, LenProperties DEF IsSds, Carries
<1>3. MaxText \in Nat /\ MaxPart \in Nat
  BY StringsAssumption
<1>4. CASE Cat
  <2>1. PICK p \in Part : Becomes(sdscatlen(sds, p), text \o p)
    BY <1>4 DEF Cat
  <2>2. p \in Seq(Byte) /\ Len(p) \in Nat /\ Len(p) <= MaxPart
    BY PartShape
  <2>3. Len(text) + Len(p) <= MaxText + 2 * MaxPart + 2
    BY <1>1, <1>2, <1>3, <2>2
  <2>4. IsSds(sdscatlen(sds, p), text \o p)
    BY <1>1, <2>2, <2>3, CatSds, Zenon
  <2> QED BY <2>1, <2>4, Became, Zenon
<1>5. CASE Duplicate
  <2>1. SubSeq(sds.buf, 1, sds.len) = text
    BY <1>2, Beginning
  <2>2. Becomes(sdsnewlen(text), text)
    BY <1>5, <2>1, Zenon DEF Duplicate
  <2>3. Len(text) < LIMIT_16
    <3>1. Len(text) <= MaxText + 2 * MaxPart + 2
      BY <1>1, <1>2, <1>3
    <3> QED BY <1>2, <3>1, Short
  <2>4. IsSds(sdsnewlen(text), text)
    BY <1>2, <2>3, NewSds
  <2> QED BY <2>2, <2>4, Became, Zenon
<1>6. CASE Copy
  <2>1. PICK p \in Part : Becomes(sdscpylen(sds, p), p)
    BY <1>6 DEF Copy
  <2>2. IsSds(sdscpylen(sds, p), p)
    BY <1>1, CopySds
  <2> QED BY <2>1, <2>2, Became, Zenon
<1>7. CASE CatFormat
  <2>1. PICK c \in Letter, p \in Part :
            Becomes(sdscatfmt(sds, <<<<c>>, p>>), (text \o <<c>>) \o p)
    BY <1>7, Zenon DEF CatFormat
  <2>2. IsSds(sdscatfmt(sds, <<<<c>>, p>>), (text \o <<c>>) \o p)
    BY <1>1, CatFormatSds, Zenon
  <2> QED BY <2>1, <2>2, Became, Zenon
<1>8. CASE MakeRoom
  <2>1. PICK n \in 0..MaxPart : Becomes(sdsMakeRoomFor(sds, n), text)
    BY <1>8 DEF MakeRoom
  <2>2. n \in Nat /\ Len(text) + n <= MaxText + 2 * MaxPart + 2
    BY <1>1, <1>2, <1>3
  <2>3. IsSds(sdsMakeRoomFor(sds, n), text)
    BY <1>1, <2>2, RoomMade, Zenon DEF IsSds
  <2> QED BY <2>1, <2>3, Became, Zenon
<1>9. CASE RemoveFreeSpace
  <2>1. IsSds(sdsRemoveFreeSpace(sds), text)
    BY <1>1, RemoveFreeSpaceSds
  <2> QED BY <1>9, <2>1, Became, Zenon DEF RemoveFreeSpace
<1>10. CASE GrowZero
  <2>1. PICK n \in 0..MaxText :
            Becomes(sdsgrowzero(sds, n), text \o [i \in 1..(n - Len(text)) |-> NUL])
    BY <1>10, Zenon DEF GrowZero
  <2>2. IsSds(sdsgrowzero(sds, n), text \o [i \in 1..(n - Len(text)) |-> NUL])
    BY <1>1, GrowZeroSds, Zenon
  <2> QED BY <2>1, <2>2, Became, Zenon
<1>11. CASE Clear
  <2>1. IsSds(sdsclear(sds), << >>)
    BY <1>1, ClearSds
  <2> QED BY <1>11, <2>1, Became, Zenon DEF Clear
<1>12. CASE UpdateLen
  <2>1. Becomes(sdsupdatelen(sds), SubSeq(text, 1, CStringLen(text)))
    BY <1>12, Zenon DEF UpdateLen, CStringLen
  <2>2. PICK m \in 0..Len(text) :
            /\ m = CStringLen(text)
            /\ \A i \in 1..m : text[i] # NUL
            /\ m < Len(text) => text[m + 1] = NUL
    BY <1>2, CStringEnds
  <2>3. IsSds(sdsupdatelen(sds), SubSeq(text, 1, m))
    BY <1>1, <2>2, UpdateLenSds, Zenon
  <2> QED BY <2>1, <2>2, <2>3, Became, Zenon
<1>13. CASE Lengthen
  <2>1. PICK p \in Part \ {<< >>} :
            /\ Len(p) <= sdsavail(sds)
            /\ Becomes(sdsIncrLen(sds, p, Len(p)), text \o p)
    BY <1>13, Zenon DEF Lengthen
  <2>2. p \in Seq(Byte)
    BY PartShape
  <2>3. IsSds(sdsIncrLen(sds, p, Len(p)), text \o p)
    BY <1>1, <2>1, <2>2, LengthenSds, Zenon
  <2> QED BY <2>1, <2>3, Became, Zenon
<1>14. CASE Shorten
  <2>1. PICK n \in 1..sds.len :
            Becomes(sdsIncrLen(sds, << >>, -n), SubSeq(text, 1, Len(text) - n))
    BY <1>14, Zenon DEF Shorten
  <2>2. IsSds(sdsIncrLen(sds, << >>, -n), SubSeq(text, 1, Len(text) - n))
    BY <1>1, ShortenSds, Zenon
  <2> QED BY <2>1, <2>2, Became, Zenon
<1>15. CASE Trim
  <2>1. PICK cset : Becomes(sdstrim(sds, cset), Kept(text, cset))
    BY <1>15, Zenon DEF Trim
  <2>2. IsSds(sdstrim(sds, cset), Kept(text, cset))
    BY <1>1, TrimSds, Zenon
  <2> QED BY <2>1, <2>2, Became, Zenon
<1>16. CASE Range_
  <2>1. PICK first, last \in (-MaxText - 1)..MaxText :
            Becomes(sdsrange(sds, first, last), Between(text, first, last))
    BY <1>16, Zenon DEF Range_
  <2>2. first \in Int /\ last \in Int
    OBVIOUS
  <2>3. IsSds(sdsrange(sds, first, last), Between(text, first, last))
    BY <1>1, <2>2, RangeSds, Zenon
  <2> QED BY <2>1, <2>3, Became, Zenon
<1>17. CASE MapChars
  <2>1. PICK from, to \in Byte :
            Becomes(sdsmapchars(sds, from, to),
                    [i \in DOMAIN text |-> IF text[i] = from THEN to ELSE text[i]])
    BY <1>17, Zenon DEF MapChars
  <2>2. IsSds(sdsmapchars(sds, from, to),
              [i \in DOMAIN text |-> IF text[i] = from THEN to ELSE text[i]])
    BY <1>1, MapCharsSds, Zenon
  <2> QED BY <2>1, <2>2, Became, Zenon
<1> QED BY <1>4, <1>5, <1>6, <1>7, <1>8, <1>9, <1>10, <1>11, <1>12, <1>13, <1>14, <1>15,
           <1>16, <1>17, Zenon DEF SdsNext

LEMMA IsStringFrom == ASSUME SdsInv PROVE SdsIsString
<1>1. /\ sds \in Header /\ sds.len = Len(text) /\ Room(sds, Len(text))
      /\ sds.buf = Append(text, NUL)
  BY DEF SdsInv, IsSds, Carries
<1>2. /\ sds.type \in {5, 8, 16} /\ sds.len \in Nat /\ sds.alloc \in Nat /\ sds.size \in Nat
  BY <1>1 DEF Header
<1>3. Limit(sds.type) \in Nat
  BY <1>2, Limits
<1>4. /\ sds.len < sds.size /\ sds.len < Limit(sds.type)
      /\ sds.type # 5 => sds.len <= sds.alloc /\ sds.alloc < sds.size
                         /\ sds.alloc < Limit(sds.type)
  BY <1>1 DEF Room
<1>5. sds.len <= sdsalloc(sds) /\ sdsalloc(sds) < sds.size /\ sdsalloc(sds) < Limit(sds.type)
  BY <1>2, <1>3, <1>4 DEF sdsalloc
<1> QED BY <1>1, <1>5 DEF SdsIsString

\* sds.c: every operation leaves the characters that its caller expects, counted,
\* terminated, and within the allocation and the header's type, whatever operations
\* came before and wherever the limits of the types and of the preallocation are.
THEOREM StringsRight == SdsSpec => []SdsIsString
<1>1. SdsInit => SdsInv
  BY InitSds
<1>2. SdsInv /\ [SdsNext]_sdsVars => SdsInv'
  <2>1. CASE SdsInv /\ SdsNext
    BY <2>1, NextSds
  <2>2. CASE SdsInv /\ UNCHANGED sdsVars
    BY <2>2 DEF sdsVars, SdsInv, IsSds, Carries
  <2> QED BY <2>1, <2>2
<1>3. SdsInv => SdsIsString
  BY IsStringFrom
<1> QED BY <1>1, <1>2, <1>3, PTL DEF SdsSpec

-----------------------------------------------------------------------------
(***************************************************************************)
(* Numbers: string2ll accepts what sdsll2str writes and nothing else, for  *)
(* any greatest long long and texts of any length and characters.  A text  *)
(* is followed digit by digit: what is held so far is the number that the  *)
(* characters up to plen spell.                                            *)
(***************************************************************************)

\* Division by ten.
LEMMA Tenth ==
  ASSUME NEW v \in Nat
  PROVE  /\ v \div 10 \in Nat /\ v % 10 \in 0..9 /\ v = 10 * (v \div 10) + (v % 10)
         /\ v >= 10 => v \div 10 < v /\ v \div 10 >= 1
<1>1. v \div 10 \in Nat
  OBVIOUS
<1>2. v % 10 \in 0..9
  OBVIOUS
<1>3. v = 10 * (v \div 10) + (v % 10)
  OBVIOUS
<1> QED BY <1>1, <1>2, <1>3

\* What Digits is of v, if f is it of smaller numbers.
Spelling(f, v) == IF v < 10 THEN <<ZERO + v>> ELSE <<ZERO + (v % 10)>> \o f[v \div 10]
\* f is Digits up to n.
Spells(f, n) == \A v \in 0..n : f[v] = Spelling(f, v)

\* Two of those agree, ...
LEMMA SpellsOnce ==
  ASSUME NEW f, NEW g, NEW n \in Nat, NEW m \in Nat, Spells(f, n), Spells(g, m),
         NEW v \in Nat, v <= n, v <= m
  PROVE  f[v] = g[v]
<1> DEFINE T == {u \in Nat : u <= n /\ u <= m /\ f[u] # g[u]}
<1> SUFFICES ASSUME T # {} PROVE FALSE
  OBVIOUS
<1>1. PICK u \in T : \A y \in T : u <= y
  BY MinIs
<1>2. f[u] = Spelling(f, u) /\ g[u] = Spelling(g, u)
  BY <1>1 DEF Spells
<1>3. u >= 10 /\ f[u \div 10] # g[u \div 10]
  BY <1>1, <1>2 DEF Spelling
<1>4. u \div 10 \in Nat /\ u \div 10 < u
  BY <1>1, <1>3, Tenth
<1>5. u \div 10 \in T
  BY <1>1, <1>3, <1>4
<1> QED BY <1>1, <1>4, <1>5

\* ... and there is one for every n.
LEMMA SpellsExist ==
  ASSUME NEW n \in Nat
  PROVE  \E f : Spells(f, n)
<1> DEFINE T == {m \in Nat : ~ \E f : Spells(f, m)}
<1> SUFFICES ASSUME T # {} PROVE FALSE
  OBVIOUS
<1>1. PICK m \in T : \A y \in T : m <= y
  BY MinIs
<1>2. m \in Nat /\ ~ \E f : Spells(f, m)
  BY <1>1
<1>3. \E f : \A v \in 0..(m - 1) : f[v] = Spelling(f, v)
  <2>1. CASE m = 0
    <3>1. 0..(m - 1) = {}
      BY <2>1
    <3> QED BY <3>1
  <2>2. CASE m # 0
    <3>1. m - 1 \in Nat /\ ~ (m <= m - 1)
      BY <1>2, <2>2
    <3>2. m - 1 \notin T
      BY <1>1, <3>1
    <3> QED BY <3>1, <3>2 DEF Spells
  <2> QED BY <2>1, <2>2
<1> HIDE DEF T
<1>4. PICK f : \A v \in 0..(m - 1) : f[v] = Spelling(f, v)
  BY <1>3
<1> DEFINE g == [v \in 0..m |-> IF v = m THEN Spelling(f, m) ELSE f[v]]
<1>5. ASSUME NEW v \in 0..m PROVE g[v] = Spelling(g, v)
  <2>1. v \in Nat /\ (v >= 10 => v \div 10 \in Nat /\ v \div 10 < v)
    BY <1>2, Tenth
  <2>2. v >= 10 => g[v \div 10] = f[v \div 10]
    <3> SUFFICES ASSUME v >= 10 PROVE g[v \div 10] = f[v \div 10]
      OBVIOUS
    <3> DEFINE u == v \div 10
    <3>1. u \in Nat /\ u < v
      BY <2>1
    <3> HIDE DEF u
    <3>2. u \in 0..m /\ u # m
      BY <1>2, <3>1
    <3>3. g[u] = f[u]
      BY <3>2
    <3> QED BY <3>3 DEF u
  <2>3. Spelling(g, v) = Spelling(f, v)
    BY <2>1, <2>2 DEF Spelling
  <2>4. g[v] = Spelling(f, v)
    <3>1. CASE v = m
      BY <3>1
    <3>2. CASE v # m
      <4>1. v \in 0..(m - 1)
        BY <1>2, <3>2
      <4> QED BY <1>4, <3>2, <4>1
    <3> QED BY <3>1, <3>2
  <2> QED BY <2>3, <2>4
<1> HIDE DEF g
<1>6. Spells(g, m)
  BY <1>5 DEF Spells
<1> QED BY <1>2, <1>6

\* The recursion of Digits ends: it is as it is written.
LEMMA DigitsIs == \A v \in Nat : Digits[v] = Spelling(Digits, v)
<1> DEFINE F(n) == CHOOSE f : Spells(f, n)
           g == [v \in Nat |-> F(v)[v]]
<1>1. \A n \in Nat : Spells(F(n), n)
  BY SpellsExist
<1> HIDE DEF F
<1>2. ASSUME NEW v \in Nat PROVE g[v] = Spelling(g, v)
  <2>1. Spells(F(v), v) /\ v \in 0..v /\ g[v] = F(v)[v]
    BY <1>1
  <2>2. F(v)[v] = Spelling(F(v), v)
    BY <2>1 DEF Spells
  <2>3. v >= 10 => g[v \div 10] = F(v)[v \div 10]
    <3> SUFFICES ASSUME v >= 10 PROVE g[v \div 10] = F(v)[v \div 10]
      OBVIOUS
    <3> DEFINE u == v \div 10
    <3>1. u \in Nat /\ u <= v /\ u <= u
      BY Tenth
    <3> HIDE DEF u
    <3>2. F(u)[u] = F(v)[u]
      BY <1>1, <3>1, SpellsOnce
    <3>3. g[u] = F(v)[u]
      BY <3>1, <3>2
    <3> QED BY <3>3 DEF u
  <2>4. Spelling(g, v) = Spelling(F(v), v)
    BY <2>3 DEF Spelling
  <2> QED BY <2>1, <2>2, <2>4
<1>3. g = [v \in Nat |-> g[v]]
  OBVIOUS
<1> HIDE DEF g
<1>4. [v \in Nat |-> g[v]] = [v \in Nat |-> Spelling(g, v)]
  BY <1>2
<1>5. g = [v \in Nat |-> IF v < 10 THEN <<ZERO + v>> ELSE <<ZERO + (v % 10)>> \o g[v \div 10]]
  BY <1>3, <1>4 DEF Spelling
<1>6. Digits = [v \in Nat |-> IF v < 10 THEN <<ZERO + v>>
                              ELSE <<ZERO + (v % 10)>> \o Digits[v \div 10]]
  BY <1>5 DEF Digits
<1>7. ASSUME NEW v \in Nat PROVE Digits[v] = Spelling(Digits, v)
  BY <1>6 DEF Spelling
<1> QED BY <1>7

\* The digits of a number: the last first, and the first is not 0 but for 0 itself.
Numeral(u, s) ==
    /\ s \in Seq(Nat) /\ Len(s) >= 1
    /\ \A i \in 1..Len(s) : IsDigit(s[i])
    /\ IF u < 10 THEN s = <<ZERO + u>>
       ELSE LET t == Digits[u \div 10]
            IN  /\ t \in Seq(Nat) /\ Len(t) >= 1 /\ Len(s) = Len(t) + 1
                /\ s[1] = ZERO + (u % 10) /\ \A i \in 1..Len(t) : s[i + 1] = t[i]
    /\ u >= 1 => s[Len(s)] # ZERO

\* What is put in front of a text comes first, and the text behind it.
LEMMA InFront ==
  ASSUME NEW S, NEW e \in S, NEW t \in Seq(S)
  PROVE  /\ <<e>> \o t \in Seq(S) /\ Len(<<e>> \o t) = Len(t) + 1
         /\ (<<e>> \o t)[1] = e
         /\ \A i \in 1..Len(t) : (<<e>> \o t)[i + 1] = t[i]
OBVIOUS

\* Digits makes numerals, for every number.
LEMMA Numerals == \A u \in Nat : Numeral(u, Digits[u])
<1> DEFINE T == {u \in Nat : ~ Numeral(u, Digits[u])}
<1> SUFFICES ASSUME T # {} PROVE FALSE
  OBVIOUS
<1>1. PICK u \in T : \A y \in T : u <= y
  BY MinIs
<1>2. u \in Nat /\ ~ Numeral(u, Digits[u]) /\ Digits[u] = Spelling(Digits, u)
  BY <1>1, DigitsIs
<1>3. CASE u < 10
  <2>1. Digits[u] = <<ZERO + u>> /\ ZERO + u \in Nat
    BY <1>2, <1>3 DEF Spelling, ZERO
  <2> DEFINE d == ZERO + u
  <2>2. IsDigit(d) /\ (u >= 1 => d # ZERO)
    BY <1>2, <1>3 DEF IsDigit, ZERO
  <2> HIDE DEF d
  <2>3. /\ <<d>> \in Seq(Nat) /\ Len(<<d>>) = 1 /\ <<d>>[1] = d
    BY <2>1 DEF d
  <2>4. \A i \in 1..Len(<<d>>) : IsDigit(<<d>>[i])
    BY <2>2, <2>3
  <2>5. Numeral(u, <<d>>)
    BY <1>3, <2>2, <2>3, <2>4 DEF Numeral, d
  <2> QED BY <1>2, <2>1, <2>5 DEF d
<1>4. CASE u >= 10
  <2> DEFINE q == u \div 10
             d == ZERO + (u % 10)
             t == Digits[q]
             s == <<d>> \o t
  <2>1. q \in Nat /\ q < u /\ q >= 1 /\ d \in Nat /\ IsDigit(d)
    BY <1>2, <1>4, Tenth DEF IsDigit, ZERO
  <2>2. Digits[u] = s
    BY <1>2, <1>4 DEF Spelling
  <2> HIDE DEF q, d
  <2>3. Numeral(q, t)
    BY <1>1, <1>2, <2>1
  <2>4. /\ t \in Seq(Nat) /\ Len(t) >= 1 /\ t[Len(t)] # ZERO
        /\ \A i \in 1..Len(t) : IsDigit(t[i])
    BY <2>1, <2>3 DEF Numeral
  <2> HIDE DEF t
  <2>5. /\ s \in Seq(Nat) /\ Len(s) = Len(t) + 1 /\ s[1] = d
        /\ \A i \in 1..Len(t) : s[i + 1] = t[i]
    BY <2>1, <2>4, InFront
  <2> HIDE DEF s
  <2>6. ASSUME NEW i \in 1..Len(s) PROVE IsDigit(s[i])
    <3>1. i = 1 \/ i - 1 \in 1..Len(t)
      BY <2>4, <2>5
    <3>2. CASE i = 1
      BY <2>1, <2>5, <3>2
    <3>3. CASE i - 1 \in 1..Len(t)
      <4>1. s[(i - 1) + 1] = t[i - 1]
        BY <2>5, <3>3
      <4>3. (i - 1) + 1 = i
        BY <2>5
      <4> QED BY <2>4, <3>3, <4>1, <4>3
    <3> QED BY <3>1, <3>2, <3>3
  <2>7. s[Len(s)] # ZERO
    BY <2>4, <2>5
  <2>8. ~ (u < 10)
    BY <1>2, <1>4
  <2>9. Numeral(u, s)
    BY <2>4, <2>5, <2>6, <2>7, <2>8 DEF Numeral, t, q, d
  <2> QED BY <1>2, <2>2, <2>9
<1> QED BY <1>2, <1>3, <1>4

\* The digits of v come before the last k of u.
Leads(v, u, k) ==
    /\ Len(Digits[u]) = Len(Digits[v]) + k
    /\ \A i \in 1..Len(Digits[v]) : Digits[u][i + k] = Digits[v][i]
\* Then v is u, or what it becomes with the next digit is not more than u.
Reaches(v, u, k) ==
    /\ k = 0 => v = u
    /\ k >= 1 => v * 10 + (Digits[u][k] - ZERO) <= u

\* A number whose first digits are v's is v, or no less than v with the next digit.
LEMMA Leading == \A u \in Nat, v \in Nat \ {0}, k \in Nat : Leads(v, u, k) => Reaches(v, u, k)
<1> DEFINE T == {u \in Nat : \E v \in Nat \ {0}, k \in Nat : Leads(v, u, k) /\ ~ Reaches(v, u, k)}
<1> SUFFICES ASSUME T # {} PROVE FALSE
  OBVIOUS
<1>1. PICK u \in T : \A y \in T : u <= y
  BY MinIs
<1>2. PICK v \in Nat \ {0}, k \in Nat : Leads(v, u, k) /\ ~ Reaches(v, u, k)
  BY <1>1
<1>3. u \in Nat /\ Numeral(u, Digits[u]) /\ Numeral(v, Digits[v])
  BY <1>1, <1>2, Numerals
<1>4. ASSUME NEW q \in Nat, q < u, NEW r \in Nat \ {0}, NEW l \in Nat, Leads(r, q, l)
      PROVE  Reaches(r, q, l)
  <2>1. q \notin T
    BY <1>1, <1>3, <1>4
  <2> QED BY <1>4, <2>1
<1> HIDE DEF T
<1> DEFINE s == Digits[u]
           w == Digits[v]
<1>5. /\ s \in Seq(Nat) /\ w \in Seq(Nat) /\ Len(s) >= 1 /\ Len(w) >= 1
      /\ Len(s) = Len(w) + k /\ \A i \in 1..Len(w) : s[i + k] = w[i]
      /\ \A i \in 1..Len(s) : IsDigit(s[i])
  BY <1>2, <1>3 DEF Numeral, Leads
<1>6. CASE u < 10
  <2>1. s = <<ZERO + u>>
    BY <1>3, <1>6 DEF Numeral
  <2>2. Len(s) = 1 /\ s[1] = ZERO + u
    BY <2>1
  <2> HIDE DEF s, w
  <2>3. k = 0 /\ Len(w) = 1 /\ s[1] = w[1]
    <3>1. k = 0 /\ Len(w) = 1
      BY <1>5, <2>2
    <3>2. s[1 + k] = w[1] /\ 1 + k = 1
      BY <1>5, <3>1
    <3> QED BY <3>1, <3>2
  <2>4. v < 10
    <3> SUFFICES ASSUME ~ (v < 10) PROVE FALSE
      OBVIOUS
    <3>1. Len(w) = Len(Digits[v \div 10]) + 1 /\ Digits[v \div 10] \in Seq(Nat)
          /\ Len(Digits[v \div 10]) >= 1
      BY <1>3 DEF Numeral, w
    <3>2. Len(Digits[v \div 10]) \in Nat
      BY <3>1
    <3> QED BY ONLY <2>3, <3>1, <3>2
  <2>5. w[1] = ZERO + v
    <3>1. w = <<ZERO + v>>
      BY <1>3, <2>4 DEF Numeral, w
    <3> QED BY <3>1
  <2>6. u = v
    BY <1>3, <2>2, <2>3, <2>5 DEF ZERO
  <2> QED BY <1>2, <2>3, <2>6 DEF Reaches
<1>7. CASE ~ (u < 10)
  <2> DEFINE q == u \div 10
             t == Digits[q]
  <2>1. /\ q \in Nat /\ q < u /\ u % 10 \in 0..9 /\ u = 10 * q + (u % 10)
    BY <1>3, <1>7, Tenth
  <2>2. /\ t \in Seq(Nat) /\ Len(t) >= 1 /\ Len(s) = Len(t) + 1
        /\ s[1] = ZERO + (u % 10) /\ \A i \in 1..Len(t) : s[i + 1] = t[i]
    BY <1>3, <1>7 DEF Numeral
  <2>3. CASE k = 0
    <3>1. ~ (v < 10)
      <4>1. ASSUME v < 10 PROVE Len(w) = 1
        <5>1. w = <<ZERO + v>>
          BY <1>3, <4>1 DEF Numeral
        <5> QED BY <5>1
      <4> HIDE DEF s, w, t
      <4>2. Len(t) \in Nat /\ Len(t) >= 1 /\ Len(s) = Len(t) + 1
        BY <2>2
      <4>3. Len(s) = Len(w)
        BY <1>5, <2>3
      <4>4. Len(w) # 1
        BY <4>2, <4>3
      <4> QED BY <4>1, <4>4
    <3> DEFINE r == v \div 10
               x == Digits[r]
    <3>2. r \in Nat \ {0} /\ v % 10 \in 0..9 /\ v = 10 * r + (v % 10)
      BY <1>2, <3>1, Tenth
    <3>3. /\ x \in Seq(Nat) /\ Len(x) >= 1 /\ Len(w) = Len(x) + 1
          /\ w[1] = ZERO + (v % 10) /\ \A i \in 1..Len(x) : w[i + 1] = x[i]
      BY <1>3, <3>1 DEF Numeral
    <3> HIDE DEF s, w, t, x
    <3>4. Len(t) = Len(x) + 0
      BY <1>5, <2>2, <2>3, <3>3
    <3>5. ASSUME NEW i \in 1..Len(x) PROVE t[i + 0] = x[i]
      <4>1. i \in Nat /\ i + 1 \in 1..Len(w) /\ i \in 1..Len(t) /\ i + 0 = i
        BY <2>2, <3>3, <3>4
      <4>2. s[(i + 1) + k] = w[i + 1] /\ (i + 1) + k = i + 1
        BY <1>5, <2>3, <4>1
      <4> QED BY <2>2, <3>3, <4>1, <4>2
    <3> HIDE DEF q, r
    <3>6. Leads(r, q, 0)
      BY <3>4, <3>5 DEF Leads, t, x
    <3>7. r = q
      BY <1>4, <2>1, <3>2, <3>6 DEF Reaches
    <3>8. s[1] = w[1]
      <4>1. s[1 + k] = w[1] /\ 1 + k = 1
        BY <1>5, <2>3
      <4> QED BY <4>1
    <3>9. u % 10 = v % 10
      <4> DEFINE a == u % 10
                 b == v % 10
      <4>1. a \in 0..9 /\ b \in 0..9 /\ ZERO + a = ZERO + b
        BY <2>1, <2>2, <3>2, <3>3, <3>8
      <4> HIDE DEF a, b
      <4>2. a = b
        BY ONLY <4>1 DEF ZERO
      <4> QED BY <4>2 DEF a, b
    <3>10. v = u
      BY <2>1, <3>2, <3>7, <3>9
    <3> QED BY <1>2, <2>3, <3>10 DEF Reaches
  <2>4. CASE k >= 1
    <3> HIDE DEF s, w, t
    <3>1. Len(t) = Len(w) + (k - 1) /\ k - 1 \in Nat
      <4>1. Len(t) \in Nat /\ Len(w) \in Nat /\ Len(t) + 1 = Len(w) + k /\ k \in Nat
        BY <1>2, <1>5, <2>2
      <4> QED BY ONLY <2>4, <4>1
    <3>2. ASSUME NEW i \in 1..Len(w) PROVE t[i + (k - 1)] = w[i]
      <4>1. i + (k - 1) \in 1..Len(t) /\ (i + (k - 1)) + 1 = i + k
        BY <1>5, <2>4, <3>1
      <4> QED BY <1>5, <2>2, <4>1
    <3> HIDE DEF q
    <3>3. Leads(v, q, k - 1)
      BY <3>1, <3>2 DEF Leads, t, w
    <3>4. Reaches(v, q, k - 1)
      BY <1>2, <1>4, <2>1, <3>1, <3>3
    <3>5. CASE k = 1
      <4>1. v = q
        BY <3>4, <3>5 DEF Reaches
      <4>2. v * 10 + (s[k] - ZERO) <= u
        <5> DEFINE b == u % 10
        <5>1. b \in 0..9 /\ u = 10 * q + b /\ s[k] = 48 + b
          BY <2>1, <2>2, <3>5 DEF ZERO
        <5>2. v \in Nat /\ q \in Nat /\ v = q
          BY <1>2, <2>1, <4>1
        <5> HIDE DEF b
        <5>3. s[k] - 48 = b
          BY ONLY <5>1
        <5> QED BY ONLY <5>1, <5>2, <5>3 DEF ZERO
      <4> QED BY <1>2, <2>4, <4>2 DEF Reaches, s
    <3>6. CASE k >= 2
      <4>1. v * 10 + (t[k - 1] - ZERO) <= q /\ k - 1 >= 1
        BY <1>2, <3>4, <3>6 DEF Reaches, t
      <4>2. s[k] = t[k - 1] /\ s[k] \in Nat
        <5>1. k - 1 \in 1..Len(t) /\ (k - 1) + 1 = k /\ k \in 1..Len(s)
          <6>1. Len(t) \in Nat /\ Len(w) \in Nat /\ k \in Nat /\ Len(w) >= 1
            BY <1>2, <1>5, <2>2
          <6> QED BY ONLY <2>2, <3>1, <3>6, <6>1
        <5>2. s[(k - 1) + 1] = t[k - 1]
          BY <2>2, <5>1
        <5> QED BY <1>5, <5>1, <5>2
      <4>3. v * 10 + (s[k] - ZERO) <= u
        BY <1>2, <1>3, <2>1, <4>1, <4>2 DEF ZERO
      <4> QED BY <1>2, <2>4, <4>3 DEF Reaches, s
    <3> QED BY <1>2, <2>4, <3>5, <3>6
  <2> QED BY <1>2, <2>3, <2>4
<1> QED BY <1>6, <1>7

-----------------------------------------------------------------------------
\* The text t is the digits s turned round, behind a sign if it has one.
Turned(t, s, minus) ==
    /\ Len(t) = Len(s) + (IF minus THEN 1 ELSE 0)
    /\ \A i \in 1..Len(s) : t[(Len(t) + 1) - i] = s[i]
    /\ minus => t[1] = MINUS

\* What \o makes, as facts about places.
LEMMA Joined ==
  ASSUME NEW S, NEW a \in Seq(S), NEW b \in Seq(S)
  PROVE  /\ a \o b \in Seq(S) /\ Len(a \o b) = Len(a) + Len(b)
         /\ \A i \in 1..Len(a) : (a \o b)[i] = a[i]
         /\ \A i \in 1..Len(b) : (a \o b)[Len(a) + i] = b[i]
OBVIOUS

\* Reverse turns digits and sign round, ...
LEMMA TurnedRound ==
  ASSUME NEW s \in Seq(Nat), NEW minus \in BOOLEAN, NEW t,
         t = Reverse(s \o IF minus THEN <<MINUS>> ELSE << >>)
  PROVE  t \in Seq(Nat) /\ Turned(t, s, minus)
<1> DEFINE e == IF minus THEN <<MINUS>> ELSE << >>
           u == s \o e
<1>1. MINUS \in Nat
  BY DEF MINUS
<1>2. e \in Seq(Nat) /\ Len(e) = (IF minus THEN 1 ELSE 0) /\ (minus => e[1] = MINUS)
  BY <1>1
<1> HIDE DEF e
<1>3. /\ u \in Seq(Nat) /\ Len(u) = Len(s) + Len(e)
      /\ \A i \in 1..Len(s) : u[i] = s[i]
      /\ \A i \in 1..Len(e) : u[Len(s) + i] = e[i]
  <2>1. e \in Seq(Nat)
    BY <1>2
  <2> QED BY <2>1, Joined
<1>4. t = [i \in 1..Len(u) |-> u[(Len(u) - i) + 1]]
  BY DEF Reverse, e
<1> HIDE DEF u
<1>5. \A i \in 1..Len(u) : (Len(u) - i) + 1 \in 1..Len(u)
  BY <1>3
<1>6. t \in Seq(Nat) /\ Len(t) = Len(u)
  <2>1. \A i \in 1..Len(u) : u[(Len(u) - i) + 1] \in Nat
    BY <1>3, <1>5
  <2>2. PICK l \in Nat : l = Len(u)
    BY <1>3
  <2>3. /\ t = [i \in 1..l |-> u[(l - i) + 1]]
        /\ \A i \in 1..l : u[(l - i) + 1] \in Nat
    BY <1>4, <2>1, <2>2
  <2> HIDE DEF u
  <2>4. t \in Seq(Nat) /\ Len(t) = l
    BY <2>3
  <2> QED BY <2>2, <2>4
<1>7. ASSUME NEW i \in 1..Len(s) PROVE t[(Len(t) + 1) - i] = s[i]
  <2>1. Len(s) \in Nat /\ Len(e) \in Nat
    BY <1>2
  <2>2. /\ (Len(t) + 1) - i \in 1..Len(u)
        /\ (Len(u) - ((Len(t) + 1) - i)) + 1 = i
    <3>1. Len(u) = Len(s) + Len(e) /\ Len(t) = Len(u)
      BY <1>3, <1>6
    <3> QED BY ONLY <2>1, <3>1, i \in 1..Len(s)
  <2> QED BY <1>3, <1>4, <2>2
<1>8. ASSUME minus PROVE t[1] = MINUS
  <2>1. Len(e) = 1 /\ Len(s) \in Nat
    BY <1>2, <1>8
  <2>2. 1 \in 1..Len(u) /\ (Len(u) - 1) + 1 = Len(s) + 1
    BY <1>3, <2>1
  <2>3. t[1] = u[(Len(u) - 1) + 1] /\ u[Len(s) + 1] = e[1]
    BY <1>3, <1>4, <2>1, <2>2
  <2> QED BY <1>2, <1>8, <2>2, <2>3
<1> QED BY <1>2, <1>3, <1>6, <1>7, <1>8 DEF Turned

\* ... and there is one text that is so.
LEMMA TurnedOnce ==
  ASSUME NEW S, NEW t \in Seq(Nat), NEW w \in Seq(S), NEW s \in Seq(Nat), NEW minus \in BOOLEAN,
         Turned(t, s, minus), Turned(w, s, minus)
  PROVE  t = w
<1>1. Len(t) = Len(w) /\ Len(t) = Len(s) + (IF minus THEN 1 ELSE 0) /\ Len(s) \in Nat
  BY DEF Turned
<1>2. ASSUME NEW j \in 1..Len(t) PROVE t[j] = w[j]
  <2>1. CASE minus /\ j = 1
    BY <2>1 DEF Turned
  <2>2. CASE ~ (minus /\ j = 1)
    <3>1. (Len(t) + 1) - j \in 1..Len(s) /\ (Len(t) + 1) - ((Len(t) + 1) - j) = j
      BY <1>1, <2>2
    <3> DEFINE i == (Len(t) + 1) - j
    <3>2. i \in 1..Len(s) /\ (Len(t) + 1) - i = j /\ (Len(w) + 1) - i = j
      BY <1>1, <3>1
    <3> HIDE DEF i
    <3> QED BY <3>2 DEF Turned
  <2> QED BY <2>1, <2>2
<1>3. t = [j \in 1..Len(t) |-> t[j]]
  OBVIOUS
<1>4. w = [j \in 1..Len(w) |-> w[j]]
  OBVIOUS
<1> QED BY <1>1, <1>2, <1>3, <1>4

\* A number without its sign.
Size(n) == IF n < 0 THEN -n ELSE n

\* What sdsll2str writes.
LEMMA WrittenIs ==
  ASSUME NEW n \in LLONG_MIN..LLONG_MAX
  PROVE  /\ Size(n) \in Nat /\ (n < 0 => Size(n) >= 1)
         /\ Size(n) <= LLONG_MAX + (IF n < 0 THEN 1 ELSE 0)
         /\ Digits[Size(n)] \in Seq(Nat)
         /\ sdsll2str(n) \in Seq(Nat) /\ Turned(sdsll2str(n), Digits[Size(n)], n < 0)
         /\ n >= 0 => sdsull2str(n) = sdsll2str(n)
<1>1. /\ n \in Int /\ LLONG_MAX \in Nat /\ n <= LLONG_MAX /\ -LLONG_MAX - 1 <= n
  BY NumberAssumption DEF LLONG_MIN
<1>2. /\ Size(n) \in Nat /\ (n < 0 => Size(n) >= 1)
      /\ Size(n) <= LLONG_MAX + (IF n < 0 THEN 1 ELSE 0)
  BY <1>1 DEF Size
<1> DEFINE s == Digits[Size(n)]
           minus == n < 0
           v == IF n < 0 THEN Unsigned(-n) ELSE n
<1>3. s \in Seq(Nat)
  BY <1>2, Numerals DEF Numeral
<1>4. v = Size(n)
  <2>1. CASE n < 0
    <3>1. -n \in Nat /\ -n < ULLONG_MAX + 1 /\ ULLONG_MAX + 1 \in Nat
      BY <1>1, <2>1 DEF ULLONG_MAX
    <3>2. \A a, b \in Nat : a < b => a % b = a
      OBVIOUS
    <3>3. Unsigned(-n) = -n
      BY <3>1, <3>2 DEF Unsigned
    <3> QED BY <2>1, <3>3 DEF Size
  <2>2. CASE ~ (n < 0)
    BY <2>2 DEF Size
  <2> QED BY <2>1, <2>2
<1>5. sdsll2str(n) = Reverse(s \o IF minus THEN <<MINUS>> ELSE << >>)
  <2>1. sdsll2str(n) = Reverse(Digits[v] \o IF n < 0 THEN <<MINUS>> ELSE << >>)
    BY DEF sdsll2str
  <2> HIDE DEF v
  <2> QED BY <1>4, <2>1
<1>6. minus \in BOOLEAN
  OBVIOUS
<1>7. n >= 0 => sdsull2str(n) = sdsll2str(n)
  <2> SUFFICES ASSUME n >= 0 PROVE sdsull2str(n) = sdsll2str(n)
    OBVIOUS
  <2>1. ~ minus /\ Size(n) = n
    BY <1>1 DEF Size
  <2>2. s \o << >> = s
    BY <1>3
  <2>3. sdsll2str(n) = Reverse(s)
    BY <1>5, <2>1, <2>2
  <2> QED BY <2>1, <2>3 DEF sdsull2str
<1> HIDE DEF s, minus
<1>8. sdsll2str(n) \in Seq(Nat) /\ Turned(sdsll2str(n), s, minus)
  BY <1>3, <1>5, <1>6, TurnedRound
<1> QED BY <1>2, <1>3, <1>7, <1>8 DEF s, minus

\* The text w is of the number n, ...
TextOf(w, n) ==
    LET s == Digits[Size(n)]
    IN  /\ Size(n) \in Nat /\ (n < 0 => Size(n) >= 1)
        /\ Size(n) <= LLONG_MAX + (IF n < 0 THEN 1 ELSE 0)
        /\ w \in Seq(Nat) /\ Turned(w, s, n < 0) /\ Numeral(Size(n), s)
        /\ w[1] = MINUS <=> n < 0
        /\ Size(n) >= 1 => w[(IF n < 0 THEN 1 ELSE 0) + 1] # ZERO
        /\ \A j \in ((IF n < 0 THEN 1 ELSE 0) + 1)..Len(w) : IsDigit(w[j])
\* ... or its first characters up to plen spell v.
Spelt(w, v, plen, negative) ==
    /\ v \in Nat \ {0} /\ plen \in Nat /\ plen <= Len(w) /\ negative \in BOOLEAN
    /\ negative <=> w[1] = MINUS
    /\ Len(Digits[v]) + (IF negative THEN 1 ELSE 0) = plen
    /\ \A i \in 1..Len(Digits[v]) : w[(plen + 1) - i] = Digits[v][i]

\* What sdsll2str writes is of its number.
LEMMA TextIs ==
  ASSUME NEW n \in LLONG_MIN..LLONG_MAX
  PROVE  TextOf(sdsll2str(n), n)
<1> DEFINE w == sdsll2str(n)
           s == Digits[Size(n)]
           p == IF n < 0 THEN 1 ELSE 0
<1>1. /\ Size(n) \in Nat /\ (n < 0 => Size(n) >= 1) /\ s \in Seq(Nat)
      /\ Size(n) <= LLONG_MAX + p /\ w \in Seq(Nat) /\ Turned(w, s, n < 0)
  BY WrittenIs
<1>2. Numeral(Size(n), s)
  BY <1>1, Numerals
<1>3. /\ Len(s) \in Nat /\ Len(s) >= 1 /\ p \in {0, 1} /\ Len(w) = Len(s) + p
      /\ \A i \in 1..Len(s) : IsDigit(s[i]) /\ w[(Len(w) + 1) - i] = s[i]
      /\ (Size(n) >= 1 => s[Len(s)] # ZERO) /\ (n < 0 => w[1] = MINUS)
      /\ (n < 0 <=> p = 1)
  <2>1. Len(s) \in Nat /\ p \in {0, 1} /\ (n < 0 <=> p = 1)
    BY <1>1
  <2>2. /\ Len(s) >= 1 /\ (Size(n) >= 1 => s[Len(s)] # ZERO)
        /\ \A i \in 1..Len(s) : IsDigit(s[i])
    BY <1>2 DEF Numeral
  <2>3. /\ Len(w) = Len(s) + p /\ (n < 0 => w[1] = MINUS)
        /\ \A i \in 1..Len(s) : w[(Len(w) + 1) - i] = s[i]
    BY <1>1 DEF Turned
  <2> HIDE DEF w, s, p
  <2> QED BY <2>1, <2>2, <2>3
<1> HIDE DEF w, s, p
<1>4. ASSUME NEW j \in (p + 1)..Len(w) PROVE IsDigit(w[j])
  <2> DEFINE i == (Len(w) + 1) - j
  <2>1. i \in 1..Len(s) /\ (Len(w) + 1) - i = j
    BY <1>3
  <2> HIDE DEF i
  <2> QED BY <1>3, <2>1
<1>5. w[p + 1] = s[Len(s)]
  <2>1. Len(s) \in 1..Len(s) /\ (Len(w) + 1) - Len(s) = p + 1
    BY <1>3
  <2> QED BY <1>3, <2>1
<1>6. ~ (n < 0) => w[1] # MINUS
  <2> SUFFICES ASSUME ~ (n < 0) PROVE w[1] # MINUS
    OBVIOUS
  <2>1. 1 \in (p + 1)..Len(w)
    BY <1>3
  <2> QED BY <1>4, <2>1 DEF IsDigit, ZERO, MINUS
<1> QED BY <1>1, <1>2, <1>3, <1>4, <1>5, <1>6 DEF TextOf, w, s, p

\* Who has read the first characters of a number's text knows what can still come.
LEMMA SpeltText ==
  ASSUME NEW w, NEW n, NEW v, NEW plen, NEW negative, TextOf(w, n), Spelt(w, v, plen, negative)
  PROVE  /\ negative <=> n < 0
         /\ plen = Len(w) => v = Size(n)
         /\ plen < Len(w) => /\ IsDigit(w[plen + 1])
                             /\ v * 10 + (w[plen + 1] - ZERO) <= Size(n)
<1> DEFINE a == Size(n)
           s == Digits[a]
           d == Digits[v]
           p == IF n < 0 THEN 1 ELSE 0
           k == Len(w) - plen
<1>1. /\ a \in Nat /\ Len(w) = Len(s) + p /\ Numeral(a, s) /\ w \in Seq(Nat)
      /\ \A i \in 1..Len(s) : w[(Len(w) + 1) - i] = s[i]
      /\ \A j \in (p + 1)..Len(w) : IsDigit(w[j])
  BY DEF TextOf, Turned
<1>2. negative <=> n < 0
  BY DEF TextOf, Spelt
<1>3. /\ v \in Nat \ {0} /\ plen \in Nat /\ plen <= Len(w)
      /\ Len(d) + p = plen /\ \A i \in 1..Len(d) : w[(plen + 1) - i] = d[i]
  BY <1>2 DEF Spelt
<1>4. /\ s \in Seq(Nat) /\ d \in Seq(Nat) /\ Len(d) >= 1 /\ p \in {0, 1}
  BY <1>1, <1>3, Numerals DEF Numeral
<1> HIDE DEF s, d, p, a
<1>5. Len(s) \in Nat /\ Len(d) \in Nat /\ Len(w) \in Nat
  BY <1>1, <1>4
<1>6. k \in Nat /\ Len(s) = Len(d) + k /\ plen = Len(w) - k
  <2>1. /\ Len(w) = Len(s) + p /\ plen <= Len(w) /\ plen \in Nat /\ Len(d) + p = plen
        /\ p \in {0, 1}
    BY <1>1, <1>3, <1>4
  <2>2. k = Len(w) - plen
    OBVIOUS
  <2> HIDE DEF k
  <2> QED BY ONLY <1>5, <2>1, <2>2
<1> HIDE DEF k
<1>7. ASSUME NEW i \in 1..Len(d) PROVE s[i + k] = d[i]
  <2>1. i + k \in 1..Len(s) /\ (Len(w) + 1) - (i + k) = (plen + 1) - i
    BY <1>5, <1>6
  <2> QED BY <1>1, <1>3, <2>1
<1>8. Leads(v, a, k)
  BY <1>6, <1>7 DEF Leads, s, d
<1>9. Reaches(v, a, k)
  BY <1>1, <1>3, <1>6, <1>8, Leading
<1>10. plen = Len(w) => v = a
  BY <1>5, <1>6, <1>9 DEF Reaches
<1>11. ASSUME plen < Len(w)
       PROVE  IsDigit(w[plen + 1]) /\ v * 10 + (w[plen + 1] - ZERO) <= a
  <2>1. k >= 1 /\ k \in 1..Len(s) /\ (Len(w) + 1) - k = plen + 1
    BY <1>3, <1>5, <1>6, <1>11
  <2>2. w[plen + 1] = s[k]
    BY <1>1, <2>1
  <2>3. plen + 1 \in (p + 1)..Len(w)
    BY <1>3, <1>4, <1>5, <1>11
  <2> QED BY <1>1, <1>9, <2>1, <2>2, <2>3 DEF Reaches, s
<1> QED BY <1>2, <1>10, <1>11 DEF a

-----------------------------------------------------------------------------
\* string2ll: what it holds is what the characters up to plen spell.
NumberInv ==
    /\ word \in Seq(Char)
    /\ parse \in [state : {"start", "digits", "accepted", "refused"}, v : Int, plen : Int,
                  negative : BOOLEAN]
    /\ parse.state = "digits" => Spelt(word, parse.v, parse.plen, parse.negative)
    /\ NumbersExact

\* Any text, before it is read.
LEMMA NumberStarts == NumberInit => NumberInv
<1> SUFFICES ASSUME NumberInit PROVE NumberInv
  OBVIOUS
<1>1. PICK n \in 0..MaxWord : word \in [1..n -> Char]
  BY DEF NumberInit
<1>2. word \in Seq(Char)
  BY <1>1, NumberAssumption
<1> QED BY <1>2 DEF NumberInit, NumberInv, Fresh, NumbersExact

\* A text that is the number's is the one that is written.
LEMMA WrittenOnce ==
  ASSUME word \in Seq(Char), NEW n \in LLONG_MIN..LLONG_MAX,
         Turned(word, Digits[Size(n)], n < 0)
  PROVE  sdsll2str(n) = word /\ (n >= 0 => sdsull2str(n) = word)
<1>1. (n < 0) \in BOOLEAN
  OBVIOUS
<1>2. sdsll2str(n) = word
  BY <1>1, WrittenIs, TurnedOnce
<1> QED BY <1>2, WrittenIs

\* A text is refused if it is no number's, ...
LEMMA Refuses ==
  ASSUME NumberInv, parse' = Refused, UNCHANGED word,
         \A n \in LLONG_MIN..LLONG_MAX : ~ TextOf(word, n)
  PROVE  NumberInv'
<1>1. /\ parse' \in [state : {"start", "digits", "accepted", "refused"}, v : Int, plen : Int,
                     negative : BOOLEAN]
      /\ parse'.state = "refused"
  BY DEF NumberInv, Refused
<1>2. \A n \in LLONG_MIN..LLONG_MAX : sdsll2str(n) # word
  BY TextIs
<1> QED BY <1>1, <1>2 DEF NumberInv, NumbersExact

\* ... and accepted if it is one's.
LEMMA Accepts ==
  ASSUME NumberInv, NEW n \in LLONG_MIN..LLONG_MAX, parse' = Accepted(n), UNCHANGED word,
         Turned(word, Digits[Size(n)], n < 0)
  PROVE  NumberInv'
<1>1. n \in Int
  BY NumberAssumption DEF LLONG_MIN
<1>2. /\ parse' \in [state : {"start", "digits", "accepted", "refused"}, v : Int, plen : Int,
                     negative : BOOLEAN]
      /\ parse'.state = "accepted" /\ parse'.v = n
  BY <1>1 DEF NumberInv, Accepted
<1>3. sdsll2str(n) = word /\ (n >= 0 => sdsull2str(n) = word)
  BY WrittenOnce DEF NumberInv
<1> QED BY <1>2, <1>3 DEF NumberInv, NumbersExact

\* A sign and the first digit: no number has more signs, nor a 0 in front.
LEMMA FirstDigitStep ==
  ASSUME NumberInv, FirstDigit
  PROVE  NumberInv'
<1> DEFINE negative == word # << >> /\ word[1] = MINUS
           p == IF negative THEN 1 ELSE 0
<1>1. word \in Seq(Char) /\ UNCHANGED word
  BY DEF NumberInv, FirstDigit
<1>2. ASSUME NEW n \in LLONG_MIN..LLONG_MAX, TextOf(word, n)
      PROVE  /\ p = (IF n < 0 THEN 1 ELSE 0) /\ p < Len(word) /\ IsDigit(word[p + 1])
             /\ word[p + 1] = ZERO => word = <<ZERO>>
  <2> DEFINE s == Digits[Size(n)]
             r == IF n < 0 THEN 1 ELSE 0
  <2>1. /\ Len(word) = Len(s) + r /\ Numeral(Size(n), s) /\ (n < 0 <=> word[1] = MINUS)
        /\ \A j \in (r + 1)..Len(word) : IsDigit(word[j])
        /\ Size(n) >= 1 => word[r + 1] # ZERO
        /\ Size(n) \in Nat /\ (n < 0 => Size(n) >= 1)
    BY <1>2 DEF TextOf, Turned
  <2>2. Len(s) >= 1 /\ s \in Seq(Nat) /\ r \in {0, 1}
    BY <2>1 DEF Numeral
  <2>3. Len(word) >= 1 /\ r < Len(word)
    <3> HIDE DEF s, r
    <3>1. Len(s) \in Nat
      BY <2>2
    <3> QED BY <2>1, <2>2, <3>1
  <2>4. p = r
    <3>1. Len(word) >= 1 => word # << >>
      OBVIOUS
    <3> QED BY <2>1, <2>3, <3>1
  <2>5. IsDigit(word[r + 1])
    <3> HIDE DEF s, r, p
    <3>1. Len(word) \in Nat
      BY <1>1
    <3>2. r + 1 \in (r + 1)..Len(word)
      BY ONLY <2>2, <2>3, <3>1
    <3> QED BY ONLY <2>1, <3>2
  <2>6. ASSUME word[r + 1] = ZERO PROVE word = <<ZERO>>
    <3>1. Size(n) = 0 /\ r = 0
      BY <2>1, <2>6
    <3>2. s = <<ZERO + 0>>
      BY <2>1, <3>1 DEF Numeral
    <3>3. Len(s) = 1
      BY <3>2
    <3> HIDE DEF s, r, p
    <3>4. Len(word) = 1 /\ word[1] = ZERO
      BY <2>1, <2>6, <3>1, <3>3
    <3> QED BY <1>1, <3>4
  <2> QED BY <2>3, <2>4, <2>5, <2>6
<1>3. CASE word = <<ZERO>>
  <2>1. parse' = Accepted(0) /\ 0 \in LLONG_MIN..LLONG_MAX
    BY <1>3, NumberAssumption DEF FirstDigit, LLONG_MIN
  <2>2. Size(0) = 0 /\ Digits[0] = <<ZERO + 0>>
    BY Numerals DEF Size, Numeral
  <2>3. Turned(word, Digits[0], 0 < 0)
    <3>1. Digits[0] = <<ZERO>>
      BY <2>2 DEF ZERO
    <3>2. Len(word) = 1 /\ word[1] = ZERO /\ Len(<<ZERO>>) = 1 /\ <<ZERO>>[1] = ZERO
      BY <1>3
    <3>3. ~ (0 < 0) /\ \A i \in 1..1 : i = 1 /\ (1 + 1) - i = 1
      OBVIOUS
    <3> QED BY <3>1, <3>2, <3>3 DEF Turned
  <2> QED BY <1>1, <2>1, <2>2, <2>3, Accepts
<1>4. CASE word # <<ZERO>> /\ p >= Len(word)
  <2>1. parse' = Refused
    BY <1>4 DEF FirstDigit
  <2>2. \A n \in LLONG_MIN..LLONG_MAX : ~ TextOf(word, n)
    <3> SUFFICES ASSUME NEW n \in LLONG_MIN..LLONG_MAX, TextOf(word, n) PROVE FALSE
      OBVIOUS
    <3>1. p < Len(word)
      BY <1>2
    <3> QED BY <1>1, <1>4, <3>1
  <2> QED BY <1>1, <2>1, <2>2, Refuses
<1>5. CASE /\ word # <<ZERO>> /\ ~ (p >= Len(word))
           /\ ~ IsDigit(word[p + 1]) \/ word[p + 1] = ZERO
  <2>1. parse' = Refused
    BY <1>5 DEF FirstDigit
  <2>2. \A n \in LLONG_MIN..LLONG_MAX : ~ TextOf(word, n)
    BY <1>2, <1>5
  <2> QED BY <1>1, <2>1, <2>2, Refuses
<1>6. CASE /\ word # <<ZERO>> /\ ~ (p >= Len(word))
           /\ IsDigit(word[p + 1]) /\ word[p + 1] # ZERO
  <2> DEFINE v == word[p + 1] - ZERO
  <2>1. parse' = [state |-> "digits", v |-> v, plen |-> p + 1, negative |-> negative]
    BY <1>6 DEF FirstDigit
  <2>2. /\ v \in 1..9 /\ p \in {0, 1} /\ p + 1 <= Len(word) /\ negative \in BOOLEAN
        /\ (negative <=> word[1] = MINUS) /\ word[p + 1] = ZERO + v
        /\ (negative <=> p = 1)
    BY <1>1, <1>6 DEF IsDigit, ZERO
  <2> HIDE DEF v, p, negative
  <2>3. Digits[v] = <<ZERO + v>>
    <3>1. v \in Nat /\ v < 10
      BY <2>2
    <3>2. Numeral(v, Digits[v])
      BY <3>1, Numerals
    <3> QED BY <3>1, <3>2 DEF Numeral
  <2>4. Len(Digits[v]) = 1 /\ Digits[v][1] = ZERO + v
    BY <2>3
  <2>5. ASSUME NEW i \in 1..Len(Digits[v]) PROVE word[((p + 1) + 1) - i] = Digits[v][i]
    <3>1. i = 1 /\ ((p + 1) + 1) - i = p + 1
      BY <2>2, <2>4
    <3> QED BY <2>2, <2>4, <3>1
  <2>6. Spelt(word, v, p + 1, negative)
    BY <1>1, <2>2, <2>4, <2>5 DEF Spelt
  <2>7. /\ parse' \in [state : {"start", "digits", "accepted", "refused"}, v : Int, plen : Int,
                       negative : BOOLEAN]
        /\ parse'.state = "digits" /\ parse'.v = v /\ parse'.plen = p + 1
        /\ parse'.negative = negative
    BY <2>1, <2>2
  <2> QED BY <1>1, <2>6, <2>7 DEF NumberInv, NumbersExact
<1> QED BY <1>3, <1>4, <1>5, <1>6

\* One more digit; what overflows is more than any number that can be meant.
LEMMA NextDigitStep ==
  ASSUME NumberInv, NextDigit
  PROVE  NumberInv'
<1> DEFINE v == parse.v
           plen == parse.plen
           negative == parse.negative
           d == word[plen + 1] - ZERO
<1>1. /\ word \in Seq(Char) /\ UNCHANGED word /\ parse.state = "digits"
      /\ Spelt(word, v, plen, negative)
      /\ plen < Len(word) /\ IsDigit(word[plen + 1])
  BY DEF NumberInv, NextDigit, More, C
<1>2. /\ v \in Nat \ {0} /\ plen \in Nat /\ negative \in BOOLEAN /\ d \in 0..9
      /\ word[plen + 1] = ZERO + d
  <2>1. v \in Nat \ {0} /\ plen \in Nat /\ negative \in BOOLEAN
    BY <1>1 DEF Spelt
  <2>2. word[plen + 1] \in 48..57
    BY <1>1 DEF IsDigit, ZERO
  <2>3. \A c \in 48..57 : c - 48 \in 0..9 /\ c = 48 + (c - 48)
    OBVIOUS
  <2> QED BY <2>1, <2>2, <2>3 DEF ZERO
<1>3. parse' = IF Overflows(v, d) THEN Refused
               ELSE [parse EXCEPT !.v = Unsigned(@ * 10 + d), !.plen = @ + 1]
  BY DEF NextDigit, C
<1>4. LLONG_MAX \in Nat /\ ULLONG_MAX = 2 * LLONG_MAX + 1 /\ ULLONG_MAX \in Nat
  BY NumberAssumption DEF ULLONG_MAX
<1> HIDE DEF d
<1>5. Overflows(v, d) <=> v * 10 + d > ULLONG_MAX
  <2>1. ULLONG_MAX \div 10 \in Nat
    BY <1>4
  <2>2. CASE v > ULLONG_MAX \div 10
    <3>1. v * 10 > ULLONG_MAX
      <4>1. ULLONG_MAX = 10 * (ULLONG_MAX \div 10) + (ULLONG_MAX % 10) /\ ULLONG_MAX % 10 \in 0..9
        BY <1>4, Tenth
      <4> QED BY <1>2, <1>4, <2>1, <2>2, <4>1
    <3> QED BY <1>2, <1>4, <2>2, <3>1 DEF Overflows
  <2>3. CASE ~ (v > ULLONG_MAX \div 10)
    <3>1. v * 10 <= ULLONG_MAX /\ v * 10 \in Nat
      <4>1. ULLONG_MAX = 10 * (ULLONG_MAX \div 10) + (ULLONG_MAX % 10) /\ ULLONG_MAX % 10 \in 0..9
        BY <1>4, Tenth
      <4> QED BY <1>2, <1>4, <2>1, <2>3, <4>1
    <3>2. \A a, b \in Nat : a < b => a % b = a
      OBVIOUS
    <3>3. Unsigned(v * 10) = v * 10
      BY <1>4, <3>1, <3>2 DEF Unsigned
    <3> QED BY <1>2, <1>4, <2>3, <3>1, <3>3 DEF Overflows
  <2> QED BY <2>2, <2>3
<1>6. CASE Overflows(v, d)
  <2>1. v * 10 + d > ULLONG_MAX
    BY <1>5, <1>6
  <2>2. ASSUME NEW n \in LLONG_MIN..LLONG_MAX, TextOf(word, n) PROVE FALSE
    <3>1. v * 10 + d <= Size(n)
      BY <1>1, <2>2, SpeltText DEF d
    <3>2. Size(n) \in Nat /\ Size(n) <= LLONG_MAX + 1
      BY <1>4, <2>2 DEF TextOf
    <3> QED BY <1>2, <1>4, <2>1, <3>1, <3>2
  <2> QED BY <1>1, <1>3, <1>6, <2>2, Refuses
<1>7. CASE ~ Overflows(v, d)
  <2> DEFINE u == v * 10 + d
  <2>1. u \in Nat \ {0} /\ u >= 10 /\ u <= ULLONG_MAX
    BY <1>2, <1>4, <1>5, <1>7
  <2>2. Unsigned(u) = u
    <3>1. \A a, b \in Nat : a < b => a % b = a
      OBVIOUS
    <3> QED BY <1>4, <2>1, <3>1 DEF Unsigned
  <2>3. u \div 10 = v /\ u % 10 = d
    BY <1>2
  <2>4. parse' = [parse EXCEPT !.v = u, !.plen = plen + 1]
    BY <1>3, <1>7, <2>2 DEF NumberInv
  <2> DEFINE t == Digits[v]
             s == Digits[u]
  <2>5. /\ s \in Seq(Nat) /\ t \in Seq(Nat) /\ Len(s) = Len(t) + 1 /\ s[1] = ZERO + d
        /\ \A i \in 1..Len(t) : s[i + 1] = t[i]
    <3>1. Numeral(u, s) /\ ~ (u < 10)
      BY <2>1, Numerals
    <3> HIDE DEF u, s
    <3> QED BY <2>3, <3>1 DEF Numeral
  <2>6. /\ plen <= Len(word) /\ (negative <=> word[1] = MINUS)
        /\ Len(t) + (IF negative THEN 1 ELSE 0) = plen
        /\ \A i \in 1..Len(t) : word[(plen + 1) - i] = t[i]
    BY <1>1 DEF Spelt
  <2> HIDE DEF t, s, u
  <2>7. Len(t) \in Nat /\ Len(word) \in Nat
    BY <1>1, <2>5
  <2>8. Len(s) + (IF negative THEN 1 ELSE 0) = plen + 1
    BY <1>2, <2>5, <2>6, <2>7
  <2>9. ASSUME NEW i \in 1..Len(s) PROVE word[((plen + 1) + 1) - i] = s[i]
    <3> HIDE DEF v, plen, negative
    <3>1. CASE i = 1
      <4>1. ((plen + 1) + 1) - i = plen + 1
        BY <1>2, <3>1
      <4> QED BY <1>2, <2>5, <3>1, <4>1
    <3>2. CASE i # 1
      <4>1. i - 1 \in 1..Len(t) /\ ((plen + 1) + 1) - i = (plen + 1) - (i - 1)
        <5>1. i \in Int /\ 1 <= i /\ i <= Len(t) + 1
          BY ONLY <2>5, <2>7, <2>9
        <5> QED BY ONLY <1>2, <2>7, <3>2, <5>1
      <4>2. (i - 1) + 1 = i
        BY ONLY <2>5, <2>7, <2>9
      <4>3. word[(plen + 1) - (i - 1)] = t[i - 1] /\ s[(i - 1) + 1] = t[i - 1]
        BY ONLY <2>5, <2>6, <4>1
      <4> QED BY ONLY <4>1, <4>2, <4>3
    <3> QED BY <3>1, <3>2
  <2>10. plen + 1 <= Len(word)
    BY <1>1, <1>2, <2>7
  <2>11. Spelt(word, u, plen + 1, negative)
    <3> HIDE DEF v, plen, negative
    <3>1. /\ u \in Nat \ {0} /\ plen + 1 \in Nat /\ negative \in BOOLEAN
          /\ plen + 1 <= Len(word) /\ (negative <=> word[1] = MINUS)
      BY <1>2, <2>1, <2>6, <2>10
    <3> QED BY <2>8, <2>9, <3>1 DEF Spelt, s
  <2>12. /\ parse' \in [state : {"start", "digits", "accepted", "refused"}, v : Int, plen : Int,
                        negative : BOOLEAN]
         /\ parse'.state = "digits" /\ parse'.v = u /\ parse'.plen = plen + 1
         /\ parse'.negative = negative
    <3>1. /\ parse \in [state : {"start", "digits", "accepted", "refused"}, v : Int, plen : Int,
                         negative : BOOLEAN]
          /\ u \in Int /\ plen + 1 \in Int
      BY <1>2, <2>1 DEF NumberInv
    <3> QED BY <1>1, <2>4, <3>1
  <2> HIDE DEF v, plen, negative
  <2> QED BY <1>1, <2>11, <2>12 DEF NumberInv, NumbersExact
<1> QED BY <1>6, <1>7

\* The end of the digits: a text that goes on is no number, and the sign sets the limit.
LEMMA LastDigitStep ==
  ASSUME NumberInv, LastDigit
  PROVE  NumberInv'
<1> DEFINE v == parse.v
           plen == parse.plen
           negative == parse.negative
<1>1. /\ word \in Seq(Char) /\ UNCHANGED word /\ Spelt(word, v, plen, negative)
      /\ ~ (plen < Len(word) /\ IsDigit(word[plen + 1]))
  BY DEF NumberInv, LastDigit, More, C
<1>2. /\ parse' = IF plen < Len(word) THEN Refused
                  ELSE IF negative
                       THEN IF v > Unsigned(-(LLONG_MIN + 1)) + 1 THEN Refused
                            ELSE Accepted(Signed(Unsigned(-v)))
                  ELSE IF v > LLONG_MAX THEN Refused ELSE Accepted(v)
  BY DEF LastDigit, More
<1>3. /\ v \in Nat \ {0} /\ plen \in Nat /\ plen <= Len(word) /\ negative \in BOOLEAN
  BY <1>1 DEF Spelt
<1>4. LLONG_MAX \in Nat /\ ULLONG_MAX = 2 * LLONG_MAX + 1 /\ LLONG_MIN = -LLONG_MAX - 1
  BY NumberAssumption DEF ULLONG_MAX, LLONG_MIN
<1> HIDE DEF v, plen, negative
<1>5. \A a, b \in Nat : a < b => a % b = a
  OBVIOUS
<1>6. Unsigned(-(LLONG_MIN + 1)) + 1 = LLONG_MAX + 1
  <2>1. -(LLONG_MIN + 1) = LLONG_MAX
    BY <1>4
  <2> QED BY <1>4, <1>5, <2>1 DEF Unsigned
<1>7. CASE plen < Len(word)
  <2>1. ASSUME NEW n \in LLONG_MIN..LLONG_MAX, TextOf(word, n) PROVE FALSE
    BY <1>1, <1>7, <2>1, SpeltText
  <2> QED BY <1>1, <1>2, <1>7, <2>1, Refuses
<1>8. CASE ~ (plen < Len(word))
  <2>1. plen = Len(word)
    BY <1>1, <1>3, <1>8
  <2>2. ASSUME NEW n \in LLONG_MIN..LLONG_MAX, TextOf(word, n)
        PROVE  /\ v = Size(n) /\ (negative <=> n < 0)
               /\ Size(n) <= LLONG_MAX + (IF n < 0 THEN 1 ELSE 0)
    <3>1. v = Size(n) /\ (negative <=> n < 0)
      BY <1>1, <2>1, <2>2, SpeltText
    <3> QED BY <2>2, <3>1 DEF TextOf
  <2>3. Turned(word, Digits[v], negative)
    BY <1>1, <2>1 DEF Spelt, Turned
  <2>4. CASE negative /\ v > LLONG_MAX + 1
    <3>1. parse' = Refused
      BY <1>2, <1>6, <1>8, <2>4
    <3>2. ASSUME NEW n \in LLONG_MIN..LLONG_MAX, TextOf(word, n) PROVE FALSE
      BY <1>3, <1>4, <2>2, <2>4, <3>2
    <3> QED BY <1>1, <3>1, <3>2, Refuses
  <2>5. CASE negative /\ ~ (v > LLONG_MAX + 1)
    <3>1. Unsigned(-v) = (ULLONG_MAX + 1) - v
      <4>1. ASSUME NEW m \in Nat \ {0}, NEW a \in 1..(m - 1) PROVE (-a) % m = m - a
        OBVIOUS
      <4>2. ULLONG_MAX + 1 \in Nat \ {0} /\ v \in 1..((ULLONG_MAX + 1) - 1)
        BY <1>3, <1>4, <2>5
      <4> HIDE DEF ULLONG_MAX
      <4>3. (-v) % (ULLONG_MAX + 1) = (ULLONG_MAX + 1) - v
        BY ONLY <4>1, <4>2
      <4> QED BY <4>3 DEF Unsigned
    <3>2. Signed(Unsigned(-v)) = -v
      BY <1>3, <1>4, <2>5, <3>1 DEF Signed
    <3>3. parse' = Accepted(-v)
      BY <1>2, <1>6, <1>8, <2>5, <3>2
    <3>4. -v \in LLONG_MIN..LLONG_MAX /\ Size(-v) = v /\ -v < 0
      BY <1>3, <1>4, <2>5 DEF Size
    <3>5. Turned(word, Digits[Size(-v)], -v < 0)
      BY <2>3, <2>5, <3>4 DEF Turned
    <3> QED BY <1>1, <3>3, <3>4, <3>5, Accepts
  <2>6. CASE ~ negative /\ v > LLONG_MAX
    <3>1. parse' = Refused
      BY <1>2, <1>8, <2>6
    <3>2. ASSUME NEW n \in LLONG_MIN..LLONG_MAX, TextOf(word, n) PROVE FALSE
      BY <1>3, <1>4, <2>2, <2>6, <3>2
    <3> QED BY <1>1, <3>1, <3>2, Refuses
  <2>7. CASE ~ negative /\ ~ (v > LLONG_MAX)
    <3>1. parse' = Accepted(v)
      BY <1>2, <1>8, <2>7
    <3>2. v \in LLONG_MIN..LLONG_MAX /\ Size(v) = v /\ ~ (v < 0)
      BY <1>3, <1>4, <2>7 DEF Size
    <3>3. Turned(word, Digits[Size(v)], v < 0)
      BY <2>3, <2>7, <3>2 DEF Turned
    <3> QED BY <1>1, <3>1, <3>2, <3>3, Accepts
  <2> QED BY <1>3, <2>4, <2>5, <2>6, <2>7
<1> QED BY <1>7, <1>8

\* Every step of string2ll keeps the invariant.
LEMMA NumberKeeps == NumberInv /\ [NumberNext]_numberVars => NumberInv'
<1> SUFFICES ASSUME NumberInv, [NumberNext]_numberVars PROVE NumberInv'
  OBVIOUS
<1>1. CASE FirstDigit
  BY <1>1, FirstDigitStep
<1>2. CASE NextDigit
  BY <1>2, NextDigitStep
<1>3. CASE LastDigit
  BY <1>3, LastDigitStep
<1>4. CASE UNCHANGED numberVars
  BY <1>4 DEF numberVars, NumberInv, NumbersExact
<1> QED BY <1>1, <1>2, <1>3, <1>4 DEF NumberNext

\* string2ll accepts exactly what sdsll2str writes, and returns the number it was written of.
THEOREM NumbersAlwaysExact == NumberSpec => []NumbersExact
<1>1. NumberInv => NumbersExact
  BY DEF NumberInv
<1> QED BY <1>1, NumberStarts, NumberKeeps, PTL DEF NumberSpec

-----------------------------------------------------------------------------
(***************************************************************************)
(* Startup: a path is walked character by character, so that what is held  *)
(* of it and what is still to be glued to it name the file together; and   *)
(* the configuration is at every line what the lines so far ask for.       *)
(***************************************************************************)
\* f follows a path up to its n-th character.
Follows(f, start, s, n) ==
    \A k \in 0..n : f[k] = IF k = 0 THEN start ELSE Reads(f[k - 1], s[k])

IsWalk(f, start, s, n) ==
    f = [k \in 0..n |-> IF k = 0 THEN start ELSE Reads(f[k - 1], s[k])]

LEMMA FollowsExist ==
  ASSUME NEW start, NEW s, NEW n \in Nat
  PROVE  \E f : IsWalk(f, start, s, n)
<1> DEFINE T == {m \in Nat : ~ \E f : Follows(f, start, s, m)}
<1>1. T = {}
  <2> SUFFICES ASSUME T # {} PROVE FALSE
    OBVIOUS
  <2>1. PICK m \in T : \A y \in T : m <= y
    <3>1. T \subseteq Nat
      OBVIOUS
    <3> HIDE DEF T
    <3> QED BY <3>1, MinIs
  <2>2. m \in Nat /\ ~ \E f : Follows(f, start, s, m)
    BY <2>1
  <2>3. \E f : \A k \in 0..(m - 1) : f[k] = IF k = 0 THEN start ELSE Reads(f[k - 1], s[k])
    <3>1. CASE m = 0
      <4>1. 0..(m - 1) = {}
        BY <3>1
      <4> QED BY <4>1
    <3>2. CASE m # 0
      <4>1. m - 1 \in Nat /\ ~ (m <= m - 1)
        BY <2>2, <3>2
      <4>2. m - 1 \notin T
        BY <2>1, <4>1
      <4> QED BY <4>1, <4>2 DEF Follows
    <3> QED BY <3>1, <3>2
  <2> HIDE DEF T
  <2>4. PICK f : \A k \in 0..(m - 1) : f[k] = IF k = 0 THEN start ELSE Reads(f[k - 1], s[k])
    BY <2>3
  <2> DEFINE e == IF m = 0 THEN start ELSE Reads(f[m - 1], s[m])
             g == [k \in 0..m |-> IF k = m THEN e ELSE f[k]]
  <2>5. ASSUME NEW k \in 0..m
        PROVE  g[k] = IF k = 0 THEN start ELSE Reads(g[k - 1], s[k])
    <3>1. k # 0 => k - 1 \in 0..m /\ k - 1 # m
      BY <2>2
    <3>2. k # 0 => g[k - 1] = f[k - 1]
      BY <3>1
    <3>3. CASE k = m
      <4>1. g[k] = e
        BY <3>3
      <4> HIDE DEF g
      <4> QED BY <3>2, <3>3, <4>1
    <3>4. CASE k # m
      <4>1. k \in 0..(m - 1)
        BY <2>2, <3>4
      <4>2. g[k] = f[k]
        BY <3>4
      <4> HIDE DEF g
      <4> QED BY <2>4, <3>2, <4>1, <4>2
    <3> QED BY <3>3, <3>4
  <2> HIDE DEF g
  <2> QED BY <2>2, <2>5 DEF Follows
<1>2. PICK f : Follows(f, start, s, n)
  BY <1>1
<1> HIDE DEF T
<1> DEFINE g == [k \in 0..n |-> f[k]]
<1>3. ASSUME NEW k \in 0..n
      PROVE  g[k] = IF k = 0 THEN start ELSE Reads(g[k - 1], s[k])
  <2>1. k # 0 => k - 1 \in 0..n
    OBVIOUS
  <2> QED BY <1>2, <2>1 DEF Follows
<1>4. g = [k \in 0..n |-> g[k]]
  OBVIOUS
<1> HIDE DEF g
<1>5. g = [k \in 0..n |-> IF k = 0 THEN start ELSE Reads(g[k - 1], s[k])]
  BY <1>3, <1>4
<1> QED BY <1>5 DEF IsWalk

\* Walked is a walk's end.
LEMMA WalkedIs ==
  ASSUME NEW start, NEW s, Len(s) \in Nat
  PROVE  \E f : Follows(f, start, s, Len(s)) /\ Walked(start, s) = f[Len(s)]
<1> DEFINE n == Len(s)
           W(f) == f = [k \in 0..n |-> IF k = 0 THEN start ELSE Reads(f[k - 1], s[k])]
           g == CHOOSE f : W(f)
<1>1. \E f : W(f)
  <2>1. n \in Nat
    OBVIOUS
  <2> HIDE DEF n
  <2>2. \E f : IsWalk(f, start, s, n)
    BY <2>1, FollowsExist
  <2> QED BY <2>2 DEF IsWalk
<1>2. W(g)
  BY <1>1
<1>3. Walked(start, s) = g[n]
  BY DEF Walked
<1> HIDE DEF g
<1>4. Follows(g, start, s, n)
  BY <1>2 DEF Follows
<1> QED BY <1>3, <1>4

\* Two walks that begin alike and go along the same characters are alike.
LEMMA FollowsOnce ==
  ASSUME NEW start, NEW s, NEW t, NEW n \in Nat, NEW f, NEW g,
         Follows(f, start, s, n), Follows(g, start, t, n), \A k \in 1..n : s[k] = t[k]
  PROVE  f[n] = g[n]
<1> DEFINE T == {m \in 0..n : f[m] # g[m]}
<1>1. T = {}
  <2> SUFFICES ASSUME T # {} PROVE FALSE
    OBVIOUS
  <2>1. PICK m \in T : \A y \in T : m <= y
    <3>1. T \subseteq Nat
      OBVIOUS
    <3> HIDE DEF T
    <3> QED BY <3>1, MinIs
  <2>2. m \in 0..n /\ f[m] # g[m]
    BY <2>1
  <2>3. m # 0
    BY <2>2 DEF Follows
  <2>4. m - 1 \in 0..n /\ m \in 1..n /\ ~ (m <= m - 1)
    BY <2>2, <2>3
  <2>5. f[m - 1] = g[m - 1]
    BY <2>1, <2>4
  <2> HIDE DEF T
  <2>6. f[m] = Reads(f[m - 1], s[m]) /\ g[m] = Reads(g[m - 1], t[m])
    BY <2>2, <2>3 DEF Follows
  <2> QED BY <2>2, <2>4, <2>5, <2>6
<1> QED BY <1>1

\* The empty path, and one more character.
LEMMA WalkedNone == \A start : Walked(start, << >>) = start
<1> SUFFICES ASSUME NEW start PROVE Walked(start, << >>) = start
  OBVIOUS
<1>1. Len(<< >>) = 0
  OBVIOUS
<1>2. PICK f : Follows(f, start, << >>, 0) /\ Walked(start, << >>) = f[0]
  BY <1>1, WalkedIs
<1> QED BY <1>2 DEF Follows

LEMMA OneMore ==
  ASSUME NEW S, NEW s \in Seq(S), NEW c \in S
  PROVE  /\ Len(s) \in Nat /\ Append(s, c) \in Seq(S) /\ Len(Append(s, c)) = Len(s) + 1
         /\ Append(s, c)[Len(s) + 1] = c
         /\ \A k \in 1..Len(s) : Append(s, c)[k] = s[k]
OBVIOUS

LEMMA WalkedMore ==
  ASSUME NEW start, NEW S, NEW s \in Seq(S), NEW c \in S
  PROVE  Walked(start, Append(s, c)) = Reads(Walked(start, s), c)
<1> DEFINE n == Len(s)
           t == Append(s, c)
<1>1. n \in Nat /\ Len(t) = n + 1 /\ t[n + 1] = c /\ \A k \in 1..n : t[k] = s[k]
  BY OneMore
<1> HIDE DEF t, n
<1>2. PICK f : Follows(f, start, s, n) /\ Walked(start, s) = f[n]
  BY <1>1, WalkedIs DEF n
<1>3. PICK g : Follows(g, start, t, n + 1) /\ Walked(start, t) = g[n + 1]
  BY <1>1, WalkedIs
<1>4. Follows(g, start, t, n)
  BY <1>1, <1>3 DEF Follows
<1>5. f[n] = g[n]
  BY <1>1, <1>2, <1>4, FollowsOnce
<1>6. g[n + 1] = Reads(g[n], t[n + 1])
  <2>1. n + 1 \in 0..(n + 1) /\ n + 1 # 0 /\ (n + 1) - 1 = n
    BY <1>1
  <2> QED BY <1>3, <2>1 DEF Follows
<1> QED BY <1>1, <1>2, <1>3, <1>5, <1>6 DEF t

\* One walk goes on where the other ends.
LEMMA WalkedOn ==
  ASSUME NEW start, NEW S, NEW s \in Seq(S), NEW t \in Seq(S)
  PROVE  Walked(start, s \o t) = Walked(Walked(start, s), t)
<1> DEFINE On(m) == \A u \in Seq(S) : Len(u) = m
                        => Walked(start, s \o u) = Walked(Walked(start, s), u)
           T == {m \in Nat : ~ On(m)}
<1>1. T = {}
  <2> SUFFICES ASSUME T # {} PROVE FALSE
    OBVIOUS
  <2>1. PICK m \in T : \A y \in T : m <= y
    <3>1. T \subseteq Nat
      OBVIOUS
    <3> HIDE DEF T
    <3> QED BY <3>1, MinIs
  <2>2. m \in Nat /\ ~ On(m)
    BY <2>1
  <2>3. PICK u \in Seq(S) : Len(u) = m /\ Walked(start, s \o u) # Walked(Walked(start, s), u)
    BY <2>2
  <2>4. CASE m = 0
    <3>1. u = << >> /\ s \o u = s
      BY <2>3, <2>4
    <3> QED BY <2>3, <3>1, WalkedNone
  <2>5. CASE m # 0
    <3> DEFINE v == SubSeq(u, 1, m - 1)
               c == u[m]
    <3>1. m - 1 \in Nat /\ ~ (m <= m - 1) /\ m \in 1..Len(u)
      BY <2>2, <2>3, <2>5
    <3>2. v \in Seq(S) /\ c \in S /\ Len(v) = m - 1 /\ u = Append(v, c)
      BY <2>3, <3>1
    <3>3. On(m - 1)
      BY <2>1, <3>1
    <3> HIDE DEF v, c, T
    <3>4. Walked(start, s \o v) = Walked(Walked(start, s), v)
      BY <3>2, <3>3
    <3>5. s \o u = Append(s \o v, c) /\ s \o v \in Seq(S)
      BY <3>2
    <3> HIDE DEF On
    <3>6. Walked(start, s \o u) = Reads(Walked(start, s \o v), c)
      <4>1. PICK w \in Seq(S) : w = s \o v
        BY <3>5
      <4>2. Walked(start, Append(w, c)) = Reads(Walked(start, w), c)
        BY <3>2, WalkedMore
      <4> QED BY ONLY <3>5, <4>1, <4>2
    <3>7. Walked(Walked(start, s), u) = Reads(Walked(Walked(start, s), v), c)
      BY <3>2, WalkedMore
    <3> QED BY <2>3, <3>4, <3>6, <3>7
  <2> QED BY <2>4, <2>5
<1> QED BY <1>1

\* Characters other than a slash belong to one element.
LEMMA WalkedElement ==
  ASSUME NEW at, NEW S, NEW e \in Seq(S), NEW x \in Seq(S), \A i \in 1..Len(x) : x[i] # SLASH
  PROVE  Walked([at |-> at, element |-> e], x) = [at |-> at, element |-> e \o x]
<1> DEFINE In(m) == \A u \in Seq(S) : Len(u) = m /\ (\A i \in 1..Len(u) : u[i] # SLASH)
                        => Walked([at |-> at, element |-> e], u) = [at |-> at, element |-> e \o u]
           T == {m \in Nat : ~ In(m)}
<1>1. T = {}
  <2> SUFFICES ASSUME T # {} PROVE FALSE
    OBVIOUS
  <2>1. PICK m \in T : \A y \in T : m <= y
    <3>1. T \subseteq Nat
      OBVIOUS
    <3> HIDE DEF T
    <3> QED BY <3>1, MinIs
  <2>2. m \in Nat /\ ~ In(m)
    BY <2>1
  <2>3. PICK u \in Seq(S) :
               /\ Len(u) = m /\ \A i \in 1..Len(u) : u[i] # SLASH
               /\ Walked([at |-> at, element |-> e], u) # [at |-> at, element |-> e \o u]
    BY <2>2
  <2>4. CASE m = 0
    <3>1. u = << >> /\ e \o u = e
      BY <2>3, <2>4
    <3> QED BY <2>3, <3>1, WalkedNone
  <2>5. CASE m # 0
    <3> DEFINE v == SubSeq(u, 1, m - 1)
               c == u[m]
    <3>1. m - 1 \in Nat /\ ~ (m <= m - 1) /\ m \in 1..Len(u)
      BY <2>2, <2>3, <2>5
    <3>2. v \in Seq(S) /\ c \in S /\ Len(v) = m - 1 /\ u = Append(v, c)
      BY <2>3, <3>1
    <3>3. In(m - 1)
      BY <2>1, <3>1
    <3>4. c # SLASH /\ \A i \in 1..Len(v) : v[i] # SLASH
      BY <2>3, <3>1, <3>2
    <3> HIDE DEF v, c, T
    <3>5. Walked([at |-> at, element |-> e], v) = [at |-> at, element |-> e \o v]
      BY <3>2, <3>3, <3>4
    <3>6. e \o u = Append(e \o v, c)
      BY <3>2
    <3> HIDE DEF In
    <3>7. Walked([at |-> at, element |-> e], u) = Reads([at |-> at, element |-> e \o v], c)
      BY <3>2, <3>5, WalkedMore
    <3>8. Reads([at |-> at, element |-> e \o v], c) = [at |-> at, element |-> Append(e \o v, c)]
      BY <3>4 DEF Reads
    <3> QED BY <2>3, <3>6, <3>7, <3>8
  <2> QED BY <2>4, <2>5
<1> HIDE DEF In
<1>2. \A m \in Nat : In(m)
  BY <1>1
<1> HIDE DEF T
<1>3. Len(x) \in Nat
  OBVIOUS
<1>4. In(Len(x))
  BY <1>2, <1>3
<1> QED BY <1>4 DEF In

Walking(S) == [at : Seq(Seq(S)), element : Seq(S)]
Root == [at |-> << >>, element |-> << >>]
End(w) == Enter(w.at, w.element)

LEMMA ReadsType ==
  ASSUME NEW S, NEW w \in Walking(S), NEW c \in S
  PROVE  Reads(w, c) \in Walking(S)
<1>1. w.at \in Seq(Seq(S)) /\ w.element \in Seq(S)
  BY DEF Walking
<1>2. Enter(w.at, w.element) \in Seq(Seq(S))
  BY <1>1 DEF Enter, Front
<1>3. Append(w.element, c) \in Seq(S) /\ << >> \in Seq(S)
  BY <1>1
<1> QED BY <1>1, <1>2, <1>3 DEF Reads, Walking

LEMMA WalkedType ==
  ASSUME NEW S, NEW start \in Walking(S), NEW s \in Seq(S)
  PROVE  Walked(start, s) \in Walking(S)
<1>1. PICK f : Follows(f, start, s, Len(s)) /\ Walked(start, s) = f[Len(s)]
  BY WalkedIs
<1> DEFINE T == {k \in 0..Len(s) : f[k] \notin Walking(S)}
<1>2. T = {}
  <2> SUFFICES ASSUME T # {} PROVE FALSE
    OBVIOUS
  <2>1. PICK m \in T : \A y \in T : m <= y
    <3>1. T \subseteq Nat
      OBVIOUS
    <3> HIDE DEF T
    <3> QED BY <3>1, MinIs
  <2>2. m \in 0..Len(s) /\ f[m] \notin Walking(S)
    BY <2>1
  <2>3. m # 0
    BY <1>1, <2>2 DEF Follows
  <2>4. m - 1 \in 0..Len(s) /\ m \in 1..Len(s) /\ ~ (m <= m - 1)
    BY <2>2, <2>3
  <2>5. f[m - 1] \in Walking(S)
    BY <2>1, <2>4
  <2> HIDE DEF T
  <2>6. f[m] = Reads(f[m - 1], s[m]) /\ s[m] \in S
    BY <1>1, <2>2, <2>3, <2>4 DEF Follows
  <2> QED BY <2>2, <2>5, <2>6, ReadsType
<1>3. Len(s) \in 0..Len(s)
  OBVIOUS
<1> QED BY <1>1, <1>2, <1>3

\* Behind a slash no element is begun.
LEMMA WalkedSlash ==
  ASSUME NEW start, NEW S, NEW s \in Seq(S), SLASH \in S
  PROVE  Walked(start, Append(s, SLASH)) = [at |-> End(Walked(start, s)), element |-> << >>]
BY WalkedMore DEF Reads, End

LEMMA ThreeParts ==
  ASSUME NEW S, NEW p \in Seq(S), NEW x \in Seq(S), NEW c \in S,
         NEW b, b = Append(p \o x, c)
  PROVE  /\ Len(p) \in Nat /\ Len(x) \in Nat /\ b \in Seq(S) /\ Len(b) = (Len(p) + Len(x)) + 1
         /\ \A i \in 1..Len(p) : b[i] = p[i]
         /\ \A i \in 1..Len(x) : b[Len(p) + i] = x[i]
         /\ b[(Len(p) + Len(x)) + 1] = c
OBVIOUS

\* A part of the beginning is a part of the whole.
LEMMA PartOfPart ==
  ASSUME NEW S, NEW s \in Seq(S), NEW k \in 1..Len(s), NEW i \in 1..k, NEW j \in 1..k
  PROVE  SubSeq(SubSeq(s, 1, k), i + 1, j - 1) = SubSeq(s, i + 1, j - 1)
<1> DEFINE p == SubSeq(s, 1, k)
<1>1. Len(p) = k /\ \A m \in 1..k : p[m] = s[m]
  OBVIOUS
<1>2. \A m \in 1..((j - 1) - (i + 1) + 1) : (i + 1) + m - 1 \in 1..k
  OBVIOUS
<1> HIDE DEF p
<1>3. SubSeq(p, i + 1, j - 1)
        = [m \in 1..((j - 1) - (i + 1) + 1) |-> p[(i + 1) + m - 1]]
  OBVIOUS
<1>4. SubSeq(s, i + 1, j - 1)
        = [m \in 1..((j - 1) - (i + 1) + 1) |-> s[(i + 1) + m - 1]]
  OBVIOUS
<1>5. SubSeq(p, i + 1, j - 1) = SubSeq(s, i + 1, j - 1)
  BY <1>1, <1>2, <1>3, <1>4
<1> QED BY <1>5 DEF p

LEMMA ParentIs ==
  ASSUME NEW S, NEW a \in Seq(S), IsDirectory(a), Len(a) > 1
  PROVE  /\ Parent(a) \in Seq(S) /\ IsDirectory(Parent(a))
         /\ \E x \in Seq(S) : /\ a = Append(Parent(a) \o x, SLASH)
                              /\ \A i \in 1..Len(x) : x[i] # SLASH
                              /\ x \notin {<< >>, <<DOT>>, <<DOT, DOT>>}
<1> DEFINE n == Len(a)
           K == {i \in 1..(n - 1) : a[i] = SLASH}
           k == Max(K)
           p == SubSeq(a, 1, k)
           x == SubSeq(a, k + 1, n - 1)
<1>1. /\ n \in Nat /\ n > 1 /\ a[1] = SLASH /\ a[n] = SLASH
      /\ \A i, j \in 1..n : i < j /\ a[i] = SLASH /\ a[j] = SLASH
            => SubSeq(a, i + 1, j - 1) \notin {<< >>, <<DOT>>, <<DOT, DOT>>}
  <2>1. DOMAIN a = 1..n /\ n \in Nat
    OBVIOUS
  <2> QED BY <2>1 DEF IsDirectory
<1>2. k \in K /\ \A y \in K : y <= k
  <2>1. 1 \in K /\ K \subseteq 0..n
    BY <1>1
  <2> HIDE DEF K, n
  <2>2. K # {}
    BY <2>1
  <2> QED BY <1>1, <2>1, <2>2, MaxIs
<1>3. k \in 1..(n - 1) /\ a[k] = SLASH /\ \A i \in 1..(n - 1) : a[i] = SLASH => i <= k
  BY <1>2
<1> HIDE DEF K, k
<1>4. /\ p \in Seq(S) /\ Len(p) = k /\ \A i \in 1..k : p[i] = a[i]
  BY <1>1, <1>3
<1>5. /\ x \in Seq(S) /\ Len(x) = (n - 1) - k /\ \A i \in 1..((n - 1) - k) : x[i] = a[k + i]
  BY <1>1, <1>3
<1>6. x \notin {<< >>, <<DOT>>, <<DOT, DOT>>}
  <2>1. k \in 1..n /\ n \in 1..n /\ k < n
    BY <1>1, <1>3
  <2> QED BY <1>1, <1>3, <2>1
<1>7. ASSUME NEW i \in 1..Len(x) PROVE x[i] # SLASH
  <2>1. i \in 1..((n - 1) - k) /\ k + i \in 1..(n - 1) /\ ~ (k + i <= k)
    BY <1>3, <1>5
  <2> QED BY <1>3, <1>5, <2>1
<1>8. a = Append(p \o x, SLASH)
  <2> HIDE DEF p, x, n
  <2> DEFINE b == Append(p \o x, SLASH)
  <2>0. b = Append(p \o x, SLASH)
    OBVIOUS
  <2> HIDE DEF b
  <2>1. Len(a) = n /\ SLASH \in S
    BY <1>1 DEF n
  <2>2. /\ b \in Seq(S) /\ Len(b) = (Len(p) + Len(x)) + 1
        /\ \A i \in 1..Len(p) : b[i] = p[i]
        /\ \A i \in 1..Len(x) : b[Len(p) + i] = x[i]
        /\ b[(Len(p) + Len(x)) + 1] = SLASH
    <3>1. p \in Seq(S) /\ x \in Seq(S) /\ SLASH \in S
      BY <1>4, <1>5, <2>1
    <3> QED BY ONLY <2>0, <3>1, ThreeParts
  <2>3. Len(p) = k /\ Len(x) = (n - 1) - k /\ k \in 1..(n - 1) /\ n \in Nat
    BY <1>1, <1>3, <1>4, <1>5
  <2>4. Len(b) = n
    BY ONLY <2>2, <2>3
  <2>5. ASSUME NEW i \in 1..n PROVE b[i] = a[i]
    <3>1. CASE i <= k
      <4>1. i \in 1..k
        BY <2>3, <3>1
      <4> QED BY <1>4, <2>2, <2>3, <4>1
    <3>2. CASE i > k /\ i < n
      <4>1. i - k \in 1..((n - 1) - k) /\ k + (i - k) = i
        BY <2>3, <3>2
      <4> QED BY <1>5, <2>2, <2>3, <4>1
    <3>3. CASE i = n
      <4>1. (k + ((n - 1) - k)) + 1 = n
        BY <2>3
      <4> QED BY <1>1, <2>2, <2>3, <3>3, <4>1
    <3> QED BY <2>3, <3>1, <3>2, <3>3
  <2>6. a = [i \in 1..n |-> a[i]] /\ b = [i \in 1..n |-> b[i]]
    BY <2>1, <2>2, <2>4
  <2>7. a = b
    BY ONLY <2>5, <2>6
  <2> QED BY <2>0, <2>7
<1>9. IsDirectory(p)
  <2> HIDE DEF p, x, n
  <2>1. p \in Seq(ToSet(p))
    BY <1>3, <1>4 DEF ToSet
  <2>2. p # << >> /\ p[1] = SLASH /\ p[Len(p)] = SLASH
    BY <1>1, <1>3, <1>4
  <2>3. ASSUME NEW i \in DOMAIN p, NEW j \in DOMAIN p, i < j, p[i] = SLASH, p[j] = SLASH
        PROVE  SubSeq(p, i + 1, j - 1) \notin {<< >>, <<DOT>>, <<DOT, DOT>>}
    <3>1. i \in 1..k /\ j \in 1..k /\ i \in 1..n /\ j \in 1..n /\ a[i] = SLASH /\ a[j] = SLASH
      <4>1. DOMAIN p = 1..k
        BY <1>4
      <4>2. i \in 1..k /\ j \in 1..k
        BY <2>3, <4>1
      <4> QED BY <1>1, <1>3, <1>4, <2>3, <4>2
    <3>2. SubSeq(p, i + 1, j - 1) = SubSeq(a, i + 1, j - 1)
      <4>1. k \in 1..Len(a)
        BY <1>1, <1>3 DEF n
      <4> QED BY <3>1, <4>1, PartOfPart DEF p
    <3> QED BY <1>1, <2>3, <3>1, <3>2
  <2> QED BY <2>1, <2>2, <2>3 DEF IsDirectory
<1>10. Parent(a) = p
  BY DEF Parent, p, k, K
<1> HIDE DEF p, x
<1> QED BY <1>4, <1>5, <1>6, <1>7, <1>8, <1>9, <1>10

\* "../" leads up by one element, ...
LEMMA WalkedUp ==
  ASSUME NEW A
  PROVE  Walked([at |-> A, element |-> << >>], <<DOT, DOT, SLASH>>)
            = [at |-> Enter(A, <<DOT, DOT>>), element |-> << >>]
<1> DEFINE S == {DOT, SLASH}
           start == [at |-> A, element |-> << >>]
<1>1. << >> \in Seq(S) /\ <<DOT>> \in Seq(S) /\ <<DOT, DOT>> \in Seq(S) /\ DOT \in S /\ SLASH \in S
  OBVIOUS
<1>2. /\ <<DOT>> = Append(<< >>, DOT) /\ <<DOT, DOT>> = Append(<<DOT>>, DOT)
      /\ <<DOT, DOT, SLASH>> = Append(<<DOT, DOT>>, SLASH)
  OBVIOUS
<1>3. DOT # SLASH
  BY DEF DOT, SLASH
<1> HIDE DEF S, start
<1>4. PICK none, one, two, up : /\ none = << >> /\ one = <<DOT>> /\ two = <<DOT, DOT>>
                                /\ up = <<DOT, DOT, SLASH>>
  OBVIOUS
<1>5. /\ none \in Seq(S) /\ one \in Seq(S) /\ two \in Seq(S)
      /\ one = Append(none, DOT) /\ two = Append(one, DOT) /\ up = Append(two, SLASH)
  BY ONLY <1>1, <1>2, <1>4
<1>6. Walked(start, none) = start
  BY <1>4, WalkedNone
<1>7. Walked(start, one) = [at |-> A, element |-> one]
  <2>1. Walked(start, one) = Reads(start, DOT)
    BY ONLY <1>1, <1>5, <1>6, WalkedMore
  <2>2. Reads(start, DOT) = [at |-> A, element |-> Append(<< >>, DOT)]
    BY <1>3 DEF Reads, start
  <2> QED BY ONLY <1>4, <1>5, <2>1, <2>2
<1>8. Walked(start, two) = [at |-> A, element |-> two]
  <2>1. Walked(start, two) = Reads([at |-> A, element |-> one], DOT)
    <3>1. Walked(start, two) = Reads(Walked(start, one), DOT)
      BY ONLY <1>1, <1>5, WalkedMore
    <3> QED BY <1>7, <3>1
  <2>2. Reads([at |-> A, element |-> one], DOT) = [at |-> A, element |-> Append(one, DOT)]
    BY <1>3 DEF Reads
  <2> QED BY ONLY <1>5, <2>1, <2>2
<1>9. Walked(start, up) = [at |-> End([at |-> A, element |-> two]), element |-> << >>]
  BY ONLY <1>1, <1>5, <1>8, WalkedSlash
<1> QED BY <1>4, <1>9 DEF End, start

\* ... from a directory to its parent, and from the root to the root.
LEMMA UpToParent ==
  ASSUME NEW S, NEW a \in Seq(S), IsDirectory(a), DOT \in S, NEW p,
         p = IF Len(a) > 1 THEN Parent(a) ELSE a
  PROVE  /\ p \in Seq(S) /\ IsDirectory(p)
         /\ Walked(Root, a \o <<DOT, DOT, SLASH>>) = Walked(Root, p)
<1>1. Len(a) \in Nat /\ Len(a) >= 1 /\ a[1] = SLASH /\ a[Len(a)] = SLASH /\ SLASH \in S
  BY DEF IsDirectory
<1>2. <<DOT, DOT, SLASH>> \in Seq(S) /\ Root \in Walking(S)
  BY <1>1 DEF Root, Walking
<1>3. ASSUME NEW q \in Seq(S), q # << >>, q[Len(q)] = SLASH
      PROVE  \E A \in Seq(Seq(S)) : Walked(Root, q) = [at |-> A, element |-> << >>]
  <2>1. PICK r \in Seq(S) : q = Append(r, SLASH)
    <3>1. q = Append(SubSeq(q, 1, Len(q) - 1), q[Len(q)]) /\ SubSeq(q, 1, Len(q) - 1) \in Seq(S)
      BY <1>3
    <3> QED BY <1>3, <3>1
  <2>2. Walked(Root, q) = [at |-> End(Walked(Root, r)), element |-> << >>]
    BY <1>1, <2>1, WalkedSlash
  <2>3. Walked(Root, q) \in Walking(S)
    BY <1>2, WalkedType
  <2> QED BY <2>2, <2>3 DEF Walking
<1>4. PICK A \in Seq(Seq(S)) : Walked(Root, a) = [at |-> A, element |-> << >>]
  BY <1>1, <1>3
<1>5. Walked(Root, a \o <<DOT, DOT, SLASH>>) = [at |-> Enter(A, <<DOT, DOT>>), element |-> << >>]
  <2>1. Walked(Root, a \o <<DOT, DOT, SLASH>>) = Walked(Walked(Root, a), <<DOT, DOT, SLASH>>)
    <3>1. PICK up \in Seq(S) : up = <<DOT, DOT, SLASH>>
      BY <1>2
    <3>2. Walked(Root, a \o up) = Walked(Walked(Root, a), up)
      BY WalkedOn
    <3> QED BY <3>1, <3>2
  <2> QED BY <1>4, <2>1, WalkedUp
<1>6. CASE Len(a) > 1
  <2>1. p = Parent(a) /\ p \in Seq(S) /\ IsDirectory(p)
    BY <1>6, ParentIs
  <2>2. PICK x \in Seq(S) : /\ a = Append(p \o x, SLASH) /\ \A i \in 1..Len(x) : x[i] # SLASH
                            /\ x \notin {<< >>, <<DOT>>, <<DOT, DOT>>}
    BY <1>6, <2>1, ParentIs
  <2>3. PICK B \in Seq(Seq(S)) : Walked(Root, p) = [at |-> B, element |-> << >>]
    <3>1. p # << >> /\ p[Len(p)] = SLASH
      BY <2>1 DEF IsDirectory
    <3> QED BY <1>3, <2>1, <3>1
  <2>4. Walked(Root, p \o x) = [at |-> B, element |-> x]
    <3>1. Walked(Root, p \o x) = Walked([at |-> B, element |-> << >>], x)
      BY <2>1, <2>3, WalkedOn
    <3>2. << >> \in Seq(S) /\ << >> \o x = x
      OBVIOUS
    <3>3. PICK e \in Seq(S) : e = << >>
      BY <3>2
    <3>4. Walked([at |-> B, element |-> e], x) = [at |-> B, element |-> e \o x]
      BY <2>2, WalkedElement
    <3> QED BY <3>1, <3>2, <3>3, <3>4
  <2>5. Walked(Root, a) = [at |-> Enter(B, x), element |-> << >>]
    <3>1. p \o x \in Seq(S)
      BY <2>1
    <3>2. Walked(Root, a) = [at |-> End([at |-> B, element |-> x]), element |-> << >>]
      BY <1>1, <2>2, <2>4, <3>1, WalkedSlash
    <3> QED BY <3>2 DEF End
  <2>6. A = Append(B, x)
    BY <1>4, <2>2, <2>5 DEF Enter
  <2>7. Enter(A, <<DOT, DOT>>) = B
    <3>1. A # << >> /\ Front(A) = B
      BY <2>6 DEF Front
    <3>2. <<DOT, DOT>> # << >> /\ <<DOT, DOT>> # <<DOT>>
      OBVIOUS
    <3> QED BY <3>1, <3>2 DEF Enter
  <2> QED BY <1>5, <2>1, <2>3, <2>7
<1>7. CASE ~ (Len(a) > 1)
  <2>1. PICK none \in Seq(S) : none = << >>
    <3>1. << >> \in Seq(S)
      OBVIOUS
    <3> QED BY <3>1
  <2>2. Walked(Root, a) = [at |-> End(Root), element |-> << >>]
    <3>1. Len(a) = 1
      <4>1. \A n \in Nat : n >= 1 /\ ~ (n > 1) => n = 1
        OBVIOUS
      <4>2. Len(a) \in Nat /\ Len(a) >= 1 /\ ~ (Len(a) > 1)
        BY ONLY <1>1, <1>7
      <4> QED BY ONLY <4>1, <4>2
    <3>2. a = <<SLASH>>
      BY <1>1, <3>1
    <3>3. a = Append(none, SLASH)
      BY <2>1, <3>2
    <3>4. Walked(Root, none) = Root
      BY <2>1, WalkedNone
    <3> QED BY ONLY <1>1, <3>3, <3>4, WalkedSlash
  <2>3. End(Root) = << >>
    BY DEF End, Root, Enter
  <2>4. Enter(<< >>, <<DOT, DOT>>) = << >>
    <3>1. <<DOT, DOT>> # << >> /\ <<DOT, DOT>> # <<DOT>>
      OBVIOUS
    <3> QED BY <3>1 DEF Enter
  <2>5. A = << >>
    BY <1>4, <2>2, <2>3
  <2> QED BY <1>4, <1>5, <1>7, <2>4, <2>5
<1> QED BY <1>6, <1>7

-----------------------------------------------------------------------------
Character == (PathChar \cup {SLASH, DOT}) \cup UNION {ToSet(c) : c \in Cwd}
Meant == Resolve(Resolve(<< >>, cwd), Trimmed(name))

\* What is held and what is still to be glued to it name the file together.
PathInv ==
    /\ path \in [state : {"start", "normalize", "done", "used"},
                 rel : Seq(Character), abs : Seq(Character)]
    /\ path.state # "used" => cwd \in Cwd /\ name \in Seq(PathChar)
    /\ path.state = "normalize" =>
          IsDirectory(path.abs) /\ End(Walked(Root, path.abs \o path.rel)) = Meant
    /\ SameFile

LEMMA TrimmedIs ==
  ASSUME NEW S, NEW s \in Seq(S)
  PROVE  Trimmed(s) \in Seq(S)
<1> DEFINE K == {i \in DOMAIN s : ~ IsBlank(s[i])}
<1>1. CASE K = {}
  <2>1. Trimmed(s) = << >>
    BY <1>1 DEF Trimmed
  <2> QED BY <2>1
<1>2. CASE K # {}
  <2>1. Trimmed(s) = SubSeq(s, Min(K), Max(K))
    BY <1>2 DEF Trimmed
  <2>2. K \subseteq 1..Len(s) /\ Len(s) \in Nat
    OBVIOUS
  <2> HIDE DEF K
  <2>3. Min(K) \in K
    <3>1. K \subseteq Nat
      BY <2>2
    <3> QED BY <1>2, <3>1, MinIs
  <2>4. Max(K) \in K
    <3>1. K \subseteq 0..Len(s)
      BY <2>2
    <3> QED BY <1>2, <2>2, <3>1, MaxIs
  <2>5. Min(K) \in 1..Len(s) /\ Max(K) \in 1..Len(s)
    BY <2>2, <2>3, <2>4
  <2> QED BY <2>1, <2>5
<1> QED BY <1>1, <1>2

LEMMA FromRoot == \A s : Resolve(<< >>, s) = End(Walked(Root, s))
BY DEF Resolve, End, Root

LEMMA StartsAt ==
  ASSUME NEW c \in Cwd, NEW a, a = (IF c # << >> /\ Last(c) # SLASH THEN Append(c, SLASH) ELSE c)
  PROVE  /\ a \in Seq(Character) /\ IsDirectory(a) /\ SLASH \in Character /\ DOT \in Character
         /\ Walked(Root, a) = [at |-> Resolve(<< >>, c), element |-> << >>]
<1>1. SLASH \in Character /\ DOT \in Character /\ ToSet(c) \subseteq Character
  BY DEF Character
<1>2. CASE c = <<SLASH>>
  <2>1. a = <<SLASH>>
    BY <1>2 DEF Last
  <2>2. PICK none \in Seq(Character) : none = << >>
    <3>1. << >> \in Seq(Character)
      OBVIOUS
    <3> QED BY <3>1
  <2>3. Walked(Root, a) = [at |-> End(Root), element |-> << >>]
    <3>1. a = Append(none, SLASH)
      BY <2>1, <2>2
    <3>2. Walked(Root, none) = Root
      BY <2>2, WalkedNone
    <3> QED BY ONLY <1>1, <3>1, <3>2, WalkedSlash
  <2>4. End(Root) = << >>
    BY DEF End, Root, Enter
  <2>5. Resolve(<< >>, c) = << >>
    <3>1. Resolve(<< >>, c) = End([at |-> << >>, element |-> << >>])
      BY <1>2, <2>1, <2>3, <2>4, FromRoot
    <3> QED BY <3>1 DEF End, Enter
  <2>6. IsDirectory(<<SLASH>>)
    <3>1. <<SLASH>> \in Seq(ToSet(<<SLASH>>))
      BY DEF ToSet
    <3> QED BY <3>1 DEF IsDirectory
  <2>7. <<SLASH>> \in Seq(Character)
    BY <1>1
  <2> QED BY ONLY <1>1, <2>1, <2>3, <2>4, <2>5, <2>6, <2>7
<1>3. CASE c # <<SLASH>>
  <2>1. c \in Seq(ToSet(c)) /\ c # << >> /\ IsDirectory(Append(c, SLASH))
    BY <1>3, PathAssumption
  <2>2. c \in Seq(Character)
    BY <1>1, <2>1
  <2>3. Last(c) # SLASH
    <3> SUFFICES ASSUME Last(c) = SLASH PROVE FALSE
      OBVIOUS
    <3> DEFINE b == Append(c, SLASH)
               n == Len(c)
    <3>1. n \in Nat /\ n >= 1 /\ c[n] = SLASH
      BY <2>1 DEF Last
    <3>2. Len(b) = n + 1 /\ b[n + 1] = SLASH /\ b[n] = SLASH /\ DOMAIN b = 1..(n + 1)
      BY <2>2, <3>1, <1>1
    <3>3. SubSeq(b, n + 1, (n + 1) - 1) = << >>
      BY <2>2, <3>1
    <3> HIDE DEF b, n
    <3>4. n \in DOMAIN b /\ n + 1 \in DOMAIN b /\ n < n + 1
      BY <3>1, <3>2
    <3>5. IsDirectory(b)
      BY <2>1 DEF b
    <3> QED BY <3>2, <3>3, <3>4, <3>5 DEF IsDirectory
  <2>4. a = Append(c, SLASH) /\ a \in Seq(Character)
    BY <1>1, <2>1, <2>2, <2>3
  <2>5. Walked(Root, a) = [at |-> End(Walked(Root, c)), element |-> << >>]
    BY <1>1, <2>2, <2>4, WalkedSlash
  <2> QED BY <1>1, <2>1, <2>4, <2>5, FromRoot
<1> QED BY <1>2, <1>3

LEMMA PathStarts == PathInit => PathInv
<1> SUFFICES ASSUME PathInit PROVE PathInv
  OBVIOUS
<1>1. PICK n \in 1..MaxName : name \in [1..n -> PathChar]
  BY DEF PathInit
<1>2. name \in Seq(PathChar) /\ cwd \in Cwd
  BY <1>1, PathAssumption DEF PathInit
<1>3. << >> \in Seq(Character)
  OBVIOUS
<1> QED BY <1>2, <1>3 DEF PathInit, PathInv, SameFile

LEMMA StartPathStep == ASSUME PathInv, StartPath PROVE PathInv'
<1> DEFINE rel == Trimmed(name)
           a == IF cwd # << >> /\ Last(cwd) # SLASH THEN Append(cwd, SLASH) ELSE cwd
<1>1. name \in Seq(PathChar) /\ cwd \in Cwd /\ UNCHANGED <<name, cwd>>
  BY DEF PathInv, StartPath
<1>2. rel \in Seq(Character)
  <2>1. rel \in Seq(PathChar)
    BY <1>1, TrimmedIs
  <2>2. PathChar \subseteq Character
    BY DEF Character
  <2> QED BY <2>1, <2>2
<1>3. /\ a \in Seq(Character) /\ IsDirectory(a)
      /\ Walked(Root, a) = [at |-> Resolve(<< >>, cwd), element |-> << >>]
  BY <1>1, StartsAt
<1>4. path' = IF rel # << >> /\ rel[1] = SLASH
              THEN [state |-> "done", rel |-> rel, abs |-> rel]
              ELSE [state |-> "normalize", rel |-> rel, abs |-> a]
  BY DEF StartPath
<1>5. Meant' = Meant /\ (cwd \in Cwd)' /\ (name \in Seq(PathChar))'
  BY <1>1 DEF Meant
<1> HIDE DEF a
<1>6. CASE rel # << >> /\ rel[1] = SLASH
  <2>1. path' = [state |-> "done", rel |-> rel, abs |-> rel]
    BY <1>4, <1>6
  <2>2. Resolve(<< >>, rel) = Meant
    BY <1>6 DEF Resolve, Meant
  <2>3. SameFile'
    BY <1>1, <1>6, <2>1, <2>2 DEF SameFile, Meant
  <2> QED BY <1>2, <1>5, <2>1, <2>3 DEF PathInv
<1>7. CASE ~ (rel # << >> /\ rel[1] = SLASH)
  <2>1. path' = [state |-> "normalize", rel |-> rel, abs |-> a]
    BY <1>4, <1>7
  <2>2. Meant = End(Walked([at |-> Resolve(<< >>, cwd), element |-> << >>], rel))
    BY <1>7 DEF Resolve, Meant, End
  <2>3. Walked(Root, a \o rel) = Walked(Walked(Root, a), rel)
    BY <1>2, <1>3, WalkedOn
  <2>4. End(Walked(Root, a \o rel)) = Meant
    BY <1>3, <2>2, <2>3
  <2>5. SameFile'
    BY <2>1 DEF SameFile
  <2> HIDE DEF rel
  <2> QED BY <1>2, <1>3, <1>5, <2>1, <2>4, <2>5 DEF PathInv
<1> QED BY <1>6, <1>7

LEMMA StripUpStep == ASSUME PathInv, StripUp PROVE PathInv'
<1> DEFINE a == path.abs
           rel == path.rel
           up == <<DOT, DOT, SLASH>>
           rest == SubSeq(rel, 4, Len(rel))
           p == IF Len(a) > 1 THEN Parent(a) ELSE a
<1>1. /\ cwd \in Cwd /\ name \in Seq(PathChar) /\ UNCHANGED <<name, cwd>>
      /\ a \in Seq(Character) /\ rel \in Seq(Character) /\ IsDirectory(a) /\ LeadsUp(rel)
      /\ End(Walked(Root, a \o rel)) = Meant
  BY DEF PathInv, StripUp
<1>2. path' = [path EXCEPT !.rel = rest, !.abs = p]
  BY DEF StripUp, PathInv
<1>3. DOT \in Character /\ SLASH \in Character /\ up \in Seq(Character)
  <2>1. DOT \in Character /\ SLASH \in Character
    BY DEF Character
  <2> QED BY <2>1
<1>4. rest \in Seq(Character) /\ rel = up \o rest
  <2>1. Len(rel) >= 3 /\ SubSeq(rel, 1, 3) = up
    BY <1>1 DEF LeadsUp
  <2>2. rel = SubSeq(rel, 1, 3) \o rest /\ rest \in Seq(Character)
    <3> HIDE DEF rel
    <3> QED BY <1>1, <2>1
  <2> QED BY <2>1, <2>2
<1> HIDE DEF a, rel, up, rest, p
<1>5. p \in Seq(Character) /\ IsDirectory(p) /\ Walked(Root, a \o up) = Walked(Root, p)
  <2>1. p = IF Len(a) > 1 THEN Parent(a) ELSE a
    BY DEF p
  <2>2. /\ p \in Seq(Character) /\ IsDirectory(p)
        /\ Walked(Root, a \o <<DOT, DOT, SLASH>>) = Walked(Root, p)
    BY ONLY <1>1, <1>3, <2>1, UpToParent
  <2> QED BY ONLY <2>2 DEF up
<1>6. Walked(Root, a \o rel) = Walked(Root, p \o rest)
  <2>1. a \o rel = (a \o up) \o rest /\ a \o up \in Seq(Character)
    BY <1>1, <1>3, <1>4
  <2>2. PICK b \in Seq(Character) : b = a \o up
    BY <2>1
  <2>3. Walked(Root, b \o rest) = Walked(Walked(Root, b), rest)
    BY <1>4, WalkedOn
  <2>4. Walked(Root, p \o rest) = Walked(Walked(Root, p), rest)
    BY <1>4, <1>5, WalkedOn
  <2> QED BY ONLY <1>5, <2>1, <2>2, <2>3, <2>4
<1>7. /\ path' \in [state : {"start", "normalize", "done", "used"},
                    rel : Seq(Character), abs : Seq(Character)]
      /\ path'.state = "normalize" /\ path'.rel = rest /\ path'.abs = p
  BY <1>2, <1>4, <1>5 DEF PathInv, StripUp
<1>8. Meant' = Meant /\ (cwd \in Cwd)' /\ (name \in Seq(PathChar))'
  BY <1>1 DEF Meant
<1> QED BY <1>1, <1>5, <1>6, <1>7, <1>8 DEF PathInv, SameFile

LEMMA GlueStep == ASSUME PathInv, Glue PROVE PathInv'
<1> DEFINE f == path.abs \o path.rel
<1>1. /\ cwd \in Cwd /\ name \in Seq(PathChar) /\ UNCHANGED <<name, cwd>>
      /\ path.abs \in Seq(Character) /\ path.rel \in Seq(Character) /\ IsDirectory(path.abs)
      /\ End(Walked(Root, f)) = Meant
  BY DEF PathInv, Glue
<1>2. f \in Seq(Character) /\ f[1] = SLASH
  <2>1. PICK s, t \in Seq(Character) : s = path.abs /\ t = path.rel
    BY <1>1
  <2>2. s # << >> /\ s[1] = SLASH
    BY <1>1, <2>1 DEF IsDirectory
  <2>3. s \o t \in Seq(Character) /\ (s \o t)[1] = SLASH
    BY <2>2
  <2> QED BY <2>1, <2>3
<1>3. path' = [path EXCEPT !.state = "done", !.abs = f]
  BY DEF Glue, PathInv
<1> HIDE DEF f
<1>4. /\ path' \in [state : {"start", "normalize", "done", "used"},
                    rel : Seq(Character), abs : Seq(Character)]
      /\ path'.state = "done" /\ path'.abs = f
  BY <1>2, <1>3 DEF PathInv
<1>5. Meant' = Meant /\ (cwd \in Cwd)' /\ (name \in Seq(PathChar))'
  BY <1>1 DEF Meant
<1>6. Resolve(<< >>, f) = Meant
  BY <1>1, FromRoot
<1>7. SameFile'
  BY <1>1, <1>2, <1>4, <1>6 DEF SameFile, Meant
<1> QED BY <1>4, <1>5, <1>7 DEF PathInv

-----------------------------------------------------------------------------
\* The lines of a directive in a file, and what the last of them asks for.
LinesIn(c, d) == {i \in DOMAIN c : c[i][1] = d}
AskedIn(c, d, default) == IF LinesIn(c, d) = {} THEN default ELSE c[Max(LinesIn(c, d))][2]
MovesIn(c) == \E i \in LinesIn(c, "logfile"), j \in LinesIn(c, "dir") :
                 i = Max(LinesIn(c, "logfile")) /\ j > i

LEMMA Asking ==
  /\ \A d, default : Asked(d, default) = AskedIn(conf, d, default)
  /\ \A d : LinesOf(d) = LinesIn(conf, d)
  /\ LogMoves = MovesIn(conf)
BY DEF Asked, AskedIn, LinesOf, LinesIn, LogMoves, MovesIn

LEMMA LastLine ==
  ASSUME NEW c \in Seq(Line), NEW d, LinesIn(c, d) # {}
  PROVE  /\ Max(LinesIn(c, d)) \in LinesIn(c, d) /\ Max(LinesIn(c, d)) \in 1..Len(c)
         /\ \A i \in LinesIn(c, d) : i <= Max(LinesIn(c, d))
<1>1. LinesIn(c, d) \subseteq 1..Len(c) /\ Len(c) \in Nat
  BY DEF LinesIn
<1>2. LinesIn(c, d) \subseteq 0..Len(c)
  BY <1>1
<1>3. Max(LinesIn(c, d)) \in LinesIn(c, d) /\ \A i \in LinesIn(c, d) : i <= Max(LinesIn(c, d))
  BY <1>1, <1>2, MaxIs
<1> QED BY <1>1, <1>3

\* The file e has one line more than c.
Longer(c, l, e) == c \in Seq(Line) /\ l \in Line /\ e = Append(c, l)

\* What one more line changes.
LEMMA LineMore ==
  ASSUME NEW c, NEW l, NEW e, Longer(c, l, e), NEW d
  PROVE  /\ e \in Seq(Line)
         /\ LinesIn(e, d) = IF l[1] = d THEN LinesIn(c, d) \cup {Len(c) + 1} ELSE LinesIn(c, d)
         /\ l[1] = d => Max(LinesIn(e, d)) = Len(c) + 1
         /\ \A default : AskedIn(e, d, default) = IF l[1] = d THEN l[2] ELSE AskedIn(c, d, default)
<1> DEFINE n == Len(c)
<1>1. /\ n \in Nat /\ e \in Seq(Line) /\ Len(e) = n + 1 /\ e[n + 1] = l
      /\ \A i \in 1..n : e[i] = c[i]
  BY OneMore DEF Longer
<1>2. DOMAIN e = 1..(n + 1) /\ DOMAIN c = 1..n
  BY <1>1
<1> HIDE DEF n
<1>3. LinesIn(e, d) = IF l[1] = d THEN LinesIn(c, d) \cup {n + 1} ELSE LinesIn(c, d)
  <2>1. \A i \in 1..(n + 1) : i \in 1..n \/ i = n + 1
    BY <1>1
  <2>2. \A i \in 1..n : i \in 1..(n + 1) /\ i # n + 1
    BY <1>1
  <2>3. n + 1 \in 1..(n + 1)
    BY <1>1
  <2> QED BY <1>1, <1>2, <2>1, <2>2, <2>3 DEF LinesIn
<1>4. ASSUME l[1] = d PROVE Max(LinesIn(e, d)) = n + 1
  <2>1. n + 1 \in LinesIn(e, d)
    BY <1>3, <1>4
  <2>2. /\ Max(LinesIn(e, d)) \in 1..(n + 1) /\ n + 1 <= Max(LinesIn(e, d))
    BY <1>1, <2>1, LastLine
  <2> QED BY <1>1, <2>2
<1>5. ASSUME NEW default
      PROVE  AskedIn(e, d, default) = IF l[1] = d THEN l[2] ELSE AskedIn(c, d, default)
  <2>1. CASE l[1] = d
    <3>1. LinesIn(e, d) # {}
      BY <1>3, <2>1
    <3> QED BY <1>1, <1>4, <2>1, <3>1 DEF AskedIn
  <2>2. CASE l[1] # d
    <3>1. LinesIn(e, d) = LinesIn(c, d)
      BY <1>3, <2>2
    <3>2. CASE LinesIn(c, d) = {}
      BY <2>2, <3>1, <3>2 DEF AskedIn
    <3>3. CASE LinesIn(c, d) # {}
      <4>1. Max(LinesIn(c, d)) \in 1..n
        BY <3>3, LastLine DEF n, Longer
      <4>2. e[Max(LinesIn(c, d))] = c[Max(LinesIn(c, d))]
        BY <1>1, <4>1
      <4> QED BY <2>2, <3>1, <3>3, <4>2 DEF AskedIn
    <3> QED BY <3>2, <3>3
  <2> QED BY <2>1, <2>2
<1> QED BY <1>1, <1>3, <1>4, <1>5 DEF n

\* The line l is the last that the file e has.
Adds(c, l, e) ==
    \A d, default : AskedIn(e, d, default) = IF l[1] = d THEN l[2] ELSE AskedIn(c, d, default)

LEMMA AskedMore == ASSUME NEW c, NEW l, NEW e, Longer(c, l, e) PROVE Adds(c, l, e)
BY LineMore DEF Adds

LEMMA MovesMore ==
  ASSUME NEW c, NEW l, NEW e, Longer(c, l, e), ~ MovesIn(e)
  PROVE  /\ l[1] = "dir" => LinesIn(c, "logfile") = {}
         /\ l[1] # "logfile" => ~ MovesIn(c)
<1>1. Len(c) \in Nat /\ c \in Seq(Line)
  BY DEF Longer
<1>2. /\ l[1] = "logfile" \/ LinesIn(e, "logfile") = LinesIn(c, "logfile")
      /\ l[1] = "dir" => Len(c) + 1 \in LinesIn(e, "dir")
      /\ LinesIn(c, "dir") \subseteq LinesIn(e, "dir")
  <2>1. ASSUME NEW d
        PROVE  LinesIn(e, d) = IF l[1] = d THEN LinesIn(c, d) \cup {Len(c) + 1} ELSE LinesIn(c, d)
    BY LineMore
  <2> QED BY ONLY <2>1
<1>3. ASSUME l[1] = "dir", LinesIn(c, "logfile") # {} PROVE FALSE
  <2>1. LinesIn(e, "logfile") = LinesIn(c, "logfile")
    BY <1>2, <1>3
  <2>2. /\ Max(LinesIn(c, "logfile")) \in LinesIn(c, "logfile")
        /\ Max(LinesIn(c, "logfile")) \in 1..Len(c)
    BY <1>1, <1>3, LastLine
  <2>3. Len(c) + 1 > Max(LinesIn(c, "logfile"))
    BY <1>1, <2>2
  <2> QED BY <1>2, <1>3, <2>1, <2>2, <2>3 DEF MovesIn
<1>4. ASSUME l[1] # "logfile", MovesIn(c) PROVE FALSE
  BY <1>2, <1>4 DEF MovesIn
<1> QED BY <1>3, <1>4

Running == {"config", "starting", "loading", "serving"}
Field == {"port", "verbosity", "log_file", "daemonize", "pidfile", "fl", "db_filename"}

\* The configuration s is what the lines of c ask for.
Configured(s, c) ==
    /\ DOMAIN s = Field
    /\ s.port = AskedIn(c, "port", CONFIG_DEFAULT_SERVER_PORT)
    /\ s.verbosity = Verbosity[AskedIn(c, "loglevel", "notice")]
    /\ s.log_file = AskedIn(c, "logfile", NONE)
    /\ s.daemonize <=> AskedIn(c, "daemonize", "no") = "yes"
    /\ s.fl = AskedIn(c, "fixed-length", NONE)
    /\ s.db_filename = AskedIn(c, "dbfilename", NONE)

\* A file that messages go to was opened in the directory the process is in.
Tested(s, c, dir, files) ==
    s.log_file \notin {NONE, << >>} /\ ~ MovesIn(c) =>
        LET place == Resolve(Resolve(<< >>, dir), s.log_file)
        IN  Creatable(place) /\ place \in files

StartInv ==
    /\ PathInv
    /\ phase \in Running \cup {"naming", "exited", "crashed"} /\ conf \in Seq(Line)
    /\ phase \in Running =>
          path.state = "used" /\ Configured(server, conf) /\ Tested(server, conf, cwd, tested)
    /\ phase \in Running \ {"serving"} => server.pidfile = AskedIn(conf, "pidfile", NONE)
    /\ phase = "serving" /\ server.pidfile # NONE =>
          server.pidfile = AskedIn(conf, "pidfile", CONFIG_DEFAULT_PID_FILE)
    /\ phase \in {"naming", "config", "starting"} => written = {}
    /\ phase = "naming" => conf = << >> /\ server = init_config
    /\ MovesIn(conf) \/ LogsWhereTested
    /\ phase = "crashed" => LinesIn(conf, "logfile") = {}

\* A line asks for something.
LEMMA AskedSomething ==
  ASSUME NEW c \in Seq(Line), NEW d, NEW default, NEW x
  PROVE  /\ AskedIn(c, d, NONE) = NONE <=> LinesIn(c, d) = {}
         /\ LinesIn(c, d) # {} => AskedIn(c, d, default) = AskedIn(c, d, x)
         /\ LinesIn(c, d) = {} => AskedIn(c, d, default) = default
<1>1. ASSUME LinesIn(c, d) # {} PROVE c[Max(LinesIn(c, d))] \in Line
  BY <1>1, LastLine
<1> QED BY <1>1, StartupAssumption DEF AskedIn

\* The invariant says what the property says.
LEMMA StartedIs == StartInv => StartedAsAsked
<1> SUFFICES ASSUME StartInv PROVE StartedAsAsked
  OBVIOUS
<1>1. ASSUME phase \in {"starting", "loading", "serving"} PROVE AsConfigured
  <2>1. Configured(server, conf) /\ phase \in Running
    BY <1>1 DEF StartInv, Running
  <2>2. ASSUME server.pidfile # NONE
        PROVE  server.pidfile = AskedIn(conf, "pidfile", CONFIG_DEFAULT_PID_FILE)
    <3>1. CASE phase = "serving"
      BY <2>2, <3>1 DEF StartInv
    <3>2. CASE phase # "serving"
      <4>1. server.pidfile = AskedIn(conf, "pidfile", NONE) /\ conf \in Seq(Line)
        BY <2>1, <3>2 DEF StartInv
      <4> QED BY <2>2, <4>1, AskedSomething
    <3> QED BY <3>1, <3>2
  <2> QED BY <2>1, <2>2, Asking DEF AsConfigured, Configured
<1> QED BY <1>1, Asking DEF StartInv, PathInv, StartedAsAsked

LEMMA StartupStarts == StartupInit => StartInv
<1> SUFFICES ASSUME StartupInit PROVE StartInv
  OBVIOUS
<1>1. PathInv
  BY PathStarts DEF StartupInit
<1>2. << >> \in Seq(Line) /\ LinesIn(<< >>, "logfile") = {}
  BY DEF LinesIn
<1> QED BY <1>1, <1>2 DEF StartupInit, StartInv, Running, LogsWhereTested

\* Naming the file.
LEMMA NamingStep == ASSUME StartInv, GetAbsolutePath PROVE StartInv'
<1>1. PathInv'
  BY StartPathStep, StripUpStep, GlueStep DEF StartInv, GetAbsolutePath, PathNext
<1>2. phase = "naming" /\ UNCHANGED <<phase, conf, server, tested, written>>
  BY DEF GetAbsolutePath
<1> QED BY <1>1, <1>2 DEF StartInv, Running, LogsWhereTested

LEMMA LoadConfigStep == ASSUME StartInv, load_config PROVE StartInv'
<1>1. phase = "naming" /\ path.state = "done" /\ UNCHANGED <<cwd, conf, server, tested, written>>
  BY DEF load_config
<1>2. conf = << >> /\ server = init_config /\ written = {} /\ conf \in Seq(Line)
  BY <1>1 DEF StartInv
<1>3. \A d : LinesIn(conf, d) = {}
  BY <1>2 DEF LinesIn
<1>4. \A d, default : AskedIn(conf, d, default) = default
  BY <1>3 DEF AskedIn
<1>5. Configured(server, conf) /\ server.pidfile = NONE /\ server.log_file = NONE
  <2>1. "notice" # "yes" /\ "no" # "yes" /\ Verbosity["notice"] = LL_NOTICE
    BY DEF Verbosity
  <2> QED BY <1>2, <1>4, <2>1 DEF Configured, init_config, Field
<1>6. CASE /\ phase' = "config" /\ name' = << >>
           /\ path' = [state |-> "used", rel |-> << >>, abs |-> << >>]
  <2>1. PathInv'
    <3>1. << >> \in Seq(Character)
      OBVIOUS
    <3> QED BY <1>6, <3>1 DEF PathInv, SameFile
  <2>2. Tested(server, conf, cwd, tested)
    BY <1>5 DEF Tested
  <2> QED BY <1>1, <1>2, <1>4, <1>5, <1>6, <2>1, <2>2 DEF StartInv, Running, LogsWhereTested
<1>7. CASE phase' = "exited" /\ UNCHANGED <<name, path>>
  <2>1. PathInv'
    BY <1>1, <1>7 DEF StartInv, PathInv, SameFile, Meant
  <2> QED BY <1>1, <1>2, <1>7, <2>1 DEF StartInv, Running, LogsWhereTested
<1> QED BY <1>6, <1>7 DEF load_config

\* The line l sets the field f to v, or no field.
Sets(l, f, v) ==
    \/ l[1] = "port" /\ f = "port" /\ v = l[2]
    \/ l[1] = "loglevel" /\ f = "verbosity" /\ v = Verbosity[l[2]]
    \/ l[1] = "logfile" /\ f = "log_file" /\ v = l[2]
    \/ l[1] = "daemonize" /\ f = "daemonize" /\ v = (l[2] = "yes")
    \/ l[1] = "pidfile" /\ f = "pidfile" /\ v = l[2]
    \/ l[1] = "fixed-length" /\ f = "fl" /\ v = l[2]
    \/ l[1] = "dbfilename" /\ f = "db_filename" /\ v = l[2]
SetsNone(l) == l[1] \notin {"port", "loglevel", "logfile", "daemonize", "pidfile", "fixed-length",
                            "dbfilename"}

Changed(t, s, f, v) == t = [s EXCEPT ![f] = v]

\* A configuration that follows the lines of c, and one more line.
Obeys(s, c) == Configured(s, c) /\ s.pidfile = AskedIn(c, "pidfile", NONE)

LEMMA FieldsSame ==
  ASSUME NEW c, NEW l, NEW e, Adds(c, l, e), NEW s, Obeys(s, c), SetsNone(l)
  PROVE  Obeys(s, e)
BY DEF Adds, Obeys, Configured, SetsNone

LEMMA FieldSet ==
  ASSUME NEW c, NEW l, NEW e, Adds(c, l, e), NEW s, NEW v, NEW f, NEW t,
         Changed(t, s, f, v), Obeys(s, c), Sets(l, f, v)
  PROVE  Obeys(t, e) /\ (l[1] # "logfile" => t.log_file = s.log_file)
<1>2. DOMAIN s = Field
  BY DEF Configured, Obeys
<1>4. CASE l[1] = "port" /\ f = "port" /\ v = l[2]
  BY <1>2, <1>4 DEF Changed, Adds, Obeys, Configured, Field
<1>5. CASE l[1] = "loglevel" /\ f = "verbosity" /\ v = Verbosity[l[2]]
  BY <1>2, <1>5 DEF Changed, Adds, Obeys, Configured, Field
<1>6. CASE l[1] = "logfile" /\ f = "log_file" /\ v = l[2]
  BY <1>2, <1>6 DEF Changed, Adds, Obeys, Configured, Field
<1>7. CASE l[1] = "daemonize" /\ f = "daemonize" /\ v = (l[2] = "yes")
  <2>1. t.daemonize = (l[2] = "yes") /\ DOMAIN t = Field /\ t.pidfile = s.pidfile
    BY <1>2, <1>7 DEF Changed, Field
  <2>2. AskedIn(e, "daemonize", "no") = l[2]
    BY <1>7 DEF Adds
  <2>3. t.daemonize <=> AskedIn(e, "daemonize", "no") = "yes"
    BY <2>1, <2>2, Zenon
  <2>4. /\ t.port = s.port /\ t.verbosity = s.verbosity /\ t.log_file = s.log_file
        /\ t.fl = s.fl /\ t.db_filename = s.db_filename
    BY <1>2, <1>7 DEF Changed, Field
  <2> QED BY <1>7, <2>1, <2>3, <2>4 DEF Adds, Obeys, Configured
<1>8. CASE l[1] = "pidfile" /\ f = "pidfile" /\ v = l[2]
  BY <1>2, <1>8 DEF Changed, Adds, Obeys, Configured, Field
<1>9. CASE l[1] = "fixed-length" /\ f = "fl" /\ v = l[2]
  BY <1>2, <1>9 DEF Changed, Adds, Obeys, Configured, Field
<1>10. CASE l[1] = "dbfilename" /\ f = "db_filename" /\ v = l[2]
  BY <1>2, <1>10 DEF Changed, Adds, Obeys, Configured, Field
<1> QED BY <1>4, <1>5, <1>6, <1>7, <1>8, <1>9, <1>10 DEF Sets

\* Where messages go is not touched by any line but `logfile` and `dir`.
LEMMA TestedStill ==
  ASSUME NEW c, NEW l, NEW e, Longer(c, l, e), NEW s, NEW t, NEW dir,
         NEW dir2, NEW files, Configured(s, c), Tested(s, c, dir, files),
         l[1] # "logfile", t.log_file = s.log_file, l[1] = "dir" \/ dir2 = dir
  PROVE  Tested(t, e, dir2, files)
<1> SUFFICES ASSUME t.log_file \notin {NONE, << >>}, ~ MovesIn(e)
             PROVE  Tested(t, e, dir2, files)
  BY DEF Tested
<1>1. ~ MovesIn(c) /\ (l[1] = "dir" => LinesIn(c, "logfile") = {})
  BY MovesMore
<1>2. s.log_file = AskedIn(c, "logfile", NONE)
  BY DEF Configured
<1>3. l[1] # "dir"
  BY <1>1, <1>2 DEF AskedIn
<1> QED BY <1>1, <1>3 DEF Tested

\* A line ends the server, or is obeyed.
LEMMA ObeyKeeps ==
  ASSUME NEW l, NEW e, Longer(conf, l, e), Obeys(server, conf),
         Tested(server, conf, cwd, tested), Obey(l[1], l[2])
  PROVE  \/ phase' = "exited"
         \/ phase' = phase /\ Obeys(server', e) /\ Tested(server', e, cwd', tested')
<1>a. Adds(conf, l, e) /\ Configured(server, conf)
  BY AskedMore DEF Obeys
<1>1. CASE l[1] = "#" /\ UNCHANGED <<cwd, server, tested, phase>>
  <2>1. SetsNone(l) /\ l[1] # "logfile"
    BY <1>1 DEF SetsNone
  <2>2. Obeys(server, e)
    BY <1>a, <2>1, FieldsSame
  <2>3. Tested(server, e, cwd, tested)
    BY <2>1, <1>a, TestedStill
  <2> QED BY <1>1, <2>2, <2>3
<1>2. ASSUME NEW f, NEW v, Set(f, v), l[1] \notin {"dir", "logfile"}, Sets(l, f, v)
      PROVE  phase' = phase /\ Obeys(server', e) /\ Tested(server', e, cwd', tested')
  <2>1. server' = [server EXCEPT ![f] = v] /\ UNCHANGED <<cwd, tested, phase>>
    BY <1>2 DEF Set
  <2>2. PICK t : t = [server EXCEPT ![f] = v]
    OBVIOUS
  <2>5. Changed(t, server, f, v)
    BY <2>2 DEF Changed
  <2>3. Obeys(t, e) /\ t.log_file = server.log_file
    BY <1>a, <1>2, <2>5, FieldSet
  <2>4. Tested(t, e, cwd, tested)
    BY <1>2, <2>3, <1>a, TestedStill
  <2> QED BY <2>1, <2>2, <2>3, <2>4
<1>3. CASE l[1] = "dir" /\ ChangeDir(l[2])
  <2>1. CASE Place(l[2]) \notin Directory
    BY <1>3, <2>1 DEF ChangeDir, loaderr
  <2>2. CASE Place(l[2]) \in Directory
    <3>4. UNCHANGED <<server, tested, phase>>
      BY <1>3, <2>2 DEF ChangeDir
    <3>1. SetsNone(l) /\ l[1] # "logfile"
      BY <1>3 DEF SetsNone
    <3>2. Obeys(server, e)
      BY <1>a, <3>1, FieldsSame
    <3>3. Tested(server, e, cwd', tested)
      BY <1>3, <3>1, <1>a, TestedStill
    <3> QED BY <3>2, <3>3, <3>4
  <2> QED BY <2>1, <2>2
<1>4. CASE l[1] = "logfile" /\ Logfile(l[2])
  <2>1. server' = [server EXCEPT !.log_file = l[2]] /\ UNCHANGED cwd
    BY <1>4 DEF Logfile
  <2>2. Obeys(server', e)
    <3>1. PICK t : t = [server EXCEPT !["log_file"] = l[2]]
      OBVIOUS
    <3>4. Changed(t, server, "log_file", l[2])
      BY <3>1 DEF Changed
    <3>2. Sets(l, "log_file", l[2])
      BY <1>4 DEF Sets
    <3>3. Obeys(t, e)
      BY <1>a, <3>2, <3>4, FieldSet
    <3> QED BY <2>1, <3>1, <3>3
  <2>3. server'.log_file = l[2]
    BY <1>a, <2>1 DEF Configured, Field
  <2>4. CASE l[2] = << >>
    <3>1. UNCHANGED <<tested, phase>>
      BY <1>4, <2>4 DEF Logfile
    <3> QED BY <2>1, <2>2, <2>3, <2>4, <3>1 DEF Tested
  <2>5. CASE l[2] # << >> /\ Creatable(Place(l[2]))
    <3>1. tested' = tested \cup {Place(l[2])} /\ UNCHANGED phase
      BY <1>4, <2>5 DEF Logfile
    <3>2. Tested(server', e, cwd', tested')
      BY <2>1, <2>3, <2>5, <3>1 DEF Tested, Place
    <3> QED BY <2>1, <2>2, <3>1, <3>2
  <2>6. CASE l[2] # << >> /\ ~ Creatable(Place(l[2]))
    BY <1>4, <2>6 DEF Logfile
  <2> QED BY <2>4, <2>5, <2>6
<1>5. CASE l[1] \in {"bad directive", "unbalanced quotes"} /\ loaderr
  BY <1>5 DEF loaderr
<1>7. CASE l[1] = "port" /\ SetIf(l[2] \in Port, "port", l[2])
  <2>1. Sets(l, "port", l[2])
    BY <1>7 DEF Sets
  <2>2. Set("port", l[2]) \/ phase' = "exited"
    BY <1>7 DEF SetIf, loaderr
  <2> QED BY <1>2, <1>7, <2>1, <2>2
<1>8. CASE l[1] = "loglevel" /\ IF l[2] \in DOMAIN Verbosity THEN Set("verbosity", Verbosity[l[2]])
                                ELSE loaderr
  <2>1. Sets(l, "verbosity", Verbosity[l[2]])
    BY <1>8 DEF Sets
  <2>2. Set("verbosity", Verbosity[l[2]]) \/ phase' = "exited"
    BY <1>8 DEF loaderr
  <2> QED BY <1>2, <1>8, <2>1, <2>2
<1>9. CASE l[1] = "daemonize" /\ SetIf(l[2] \in {"yes", "no"}, "daemonize", l[2] = "yes")
  <2>1. Sets(l, "daemonize", l[2] = "yes")
    BY <1>9 DEF Sets
  <2>2. Set("daemonize", l[2] = "yes") \/ phase' = "exited"
    BY <1>9 DEF SetIf, loaderr
  <2> QED BY <1>2, <1>9, <2>1, <2>2
<1>10. CASE l[1] = "pidfile" /\ Set("pidfile", l[2])
  <2>1. Sets(l, "pidfile", l[2])
    BY <1>10 DEF Sets
  <2> QED BY <1>2, <1>10, <2>1
<1>11. CASE l[1] = "fixed-length" /\ Set("fl", l[2])
  <2>1. Sets(l, "fl", l[2])
    BY <1>11 DEF Sets
  <2> QED BY <1>2, <1>11, <2>1
<1>12. CASE l[1] = "dbfilename" /\ SetIf(pathIsBaseName(l[2]), "db_filename", l[2])
  <2>1. Sets(l, "db_filename", l[2])
    BY <1>12 DEF Sets
  <2>2. Set("db_filename", l[2]) \/ phase' = "exited"
    BY <1>12 DEF SetIf, loaderr
  <2> QED BY <1>2, <1>12, <2>1, <2>2
<1> DEFINE Well == \/ phase' = "exited"
                   \/ phase' = phase /\ Obeys(server', e) /\ Tested(server', e, cwd', tested')
<1>13. /\ l[1] = "#" /\ UNCHANGED <<cwd, server, tested, phase>> => Well
       /\ l[1] = "port" /\ SetIf(l[2] \in Port, "port", l[2]) => Well
       /\ l[1] = "dir" /\ ChangeDir(l[2]) => Well
       /\ l[1] = "logfile" /\ Logfile(l[2]) => Well
  BY <1>1, <1>3, <1>4, <1>7, Zenon
<1>14. /\ l[1] = "loglevel" /\ (IF l[2] \in DOMAIN Verbosity THEN Set("verbosity", Verbosity[l[2]])
                                ELSE loaderr) => Well
       /\ l[1] = "daemonize" /\ SetIf(l[2] \in {"yes", "no"}, "daemonize", l[2] = "yes") => Well
       /\ l[1] = "pidfile" /\ Set("pidfile", l[2]) => Well
  BY <1>8, <1>9, <1>10, Zenon
<1>15. /\ l[1] = "fixed-length" /\ Set("fl", l[2]) => Well
       /\ l[1] = "dbfilename" /\ SetIf(pathIsBaseName(l[2]), "db_filename", l[2]) => Well
       /\ l[1] \in {"bad directive", "unbalanced quotes"} /\ loaderr => Well
  BY <1>5, <1>11, <1>12, Zenon
<1> HIDE DEF Well
<1>16. Well
  BY <1>13, <1>14, <1>15, Zenon DEF Obey
<1> QED BY <1>16 DEF Well

LEMMA LoadLineStep == ASSUME StartInv, loadServerConfigFromString PROVE StartInv'
<1>1. PICK l \in Line : conf' = Append(conf, l) /\ Obey(l[1], l[2])
  BY DEF loadServerConfigFromString
<1>2. phase = "config" /\ UNCHANGED <<name, path, written>>
  BY DEF loadServerConfigFromString
<1>3. Longer(conf, l, conf') /\ conf' \in Seq(Line)
  BY <1>1 DEF Longer, StartInv
<1>4. /\ path.state = "used" /\ Tested(server, conf, cwd, tested) /\ Obeys(server, conf)
      /\ written = {}
  BY <1>2 DEF StartInv, Running, Obeys
<1>5. \/ phase' = "exited"
      \/ phase' = phase /\ Obeys(server', conf') /\ Tested(server', conf', cwd', tested')
  BY <1>1, <1>3, <1>4, ObeyKeeps
<1>6. PathInv'
  BY <1>2, <1>4 DEF StartInv, PathInv, SameFile
<1>7. LogsWhereTested'
  BY <1>2, <1>4 DEF LogsWhereTested
<1> QED BY <1>2, <1>3, <1>4, <1>5, <1>6, <1>7 DEF StartInv, Running, Obeys

\* Nothing that names files changes.
LEMMA SamePlaces ==
  ASSUME StartInv, UNCHANGED <<pathVars, conf, tested>>
  PROVE  /\ PathInv' /\ (conf \in Seq(Line))'
         /\ \A s, c, files : Tested(s, c, cwd', files) = Tested(s, c, cwd, files)
<1>1. UNCHANGED <<name, cwd, path, conf, tested>>
  BY DEF pathVars
<1> QED BY <1>1 DEF StartInv, PathInv, SameFile, Meant

LEMMA ConfigReadStep == ASSUME StartInv, ConfigRead PROVE StartInv'
<1>1. /\ phase = "config" /\ phase' = "starting"
      /\ UNCHANGED <<pathVars, conf, server, tested, written>>
  BY DEF ConfigRead
<1>2. UNCHANGED <<name, cwd, path, conf, server, tested, written>>
  BY <1>1 DEF pathVars
<1>3. PathInv'
  BY <1>1, SamePlaces
<1> QED BY <1>1, <1>2, <1>3 DEF StartInv, Running, LogsWhereTested

\* A message goes to the file that was tested, or ends a server that no logfile line was read by.
LEMMA MessageStep ==
  ASSUME StartInv, phase \in Running, NEW level, NEW next, server_log(level, next),
         next \in {phase, "exited"}, phase # "config",
         phase = "starting" => next = "exited", UNCHANGED <<pathVars, conf, server, tested>>
  PROVE  StartInv'
<1>1. UNCHANGED <<name, cwd, path, conf, server, tested>>
  BY DEF pathVars
<1>2. PathInv' /\ conf \in Seq(Line)
  BY <1>1, SamePlaces DEF StartInv
<1>3. /\ Configured(server, conf) /\ Tested(server, conf, cwd, tested) /\ path.state = "used"
      /\ MovesIn(conf) \/ LogsWhereTested
  BY DEF StartInv
<1>4. \/ phase' = next /\ written' = written
      \/ phase' = "crashed" /\ written' = written /\ server.log_file = NONE
      \/ phase' = next /\ written' = written \cup {LogPlace} /\ server.log_file # NONE
  BY DEF server_log
<1>5. server.log_file = NONE => LinesIn(conf, "logfile") = {}
  BY <1>2, <1>3, AskedSomething DEF Configured
<1>6. (MovesIn(conf) \/ LogsWhereTested)'
  <2> SUFFICES ASSUME ~ MovesIn(conf), NEW w \in written'
               PROVE  (w[1] = "file" => w[2] \in tested) /\ w[1] # "lost"
    BY <1>1 DEF LogsWhereTested
  <2>1. CASE w \in written
    BY <1>3, <2>1 DEF LogsWhereTested
  <2>2. CASE w = LogPlace /\ server.log_file # NONE
    <3>1. CASE server.log_file = << >>
      <4>1. w = Stdout
        BY <2>2, <3>1 DEF LogPlace
      <4> QED BY <4>1 DEF Stdout
    <3>2. CASE server.log_file # << >>
      <4>1. Creatable(Place(server.log_file)) /\ Place(server.log_file) \in tested
        BY <1>3, <2>2, <3>2 DEF Tested, Place
      <4>2. w = <<"file", Place(server.log_file)>>
        BY <2>2, <3>2, <4>1 DEF LogPlace
      <4> QED BY <4>1, <4>2
    <3> QED BY <3>1, <3>2
  <2> QED BY <1>4, <2>1, <2>2
<1> QED BY <1>1, <1>2, <1>3, <1>4, <1>5, <1>6 DEF StartInv, Running

LEMMA ServeStep == ASSUME StartInv, Serve PROVE StartInv'
<1>1. /\ phase = "loading" /\ phase' = "serving" /\ UNCHANGED <<pathVars, conf, tested>>
      /\ UNCHANGED <<name, cwd, path, conf, tested>>
  BY DEF Serve, pathVars
<1>2. PathInv' /\ conf \in Seq(Line)
  BY <1>1, SamePlaces DEF StartInv
<1>3. /\ Configured(server, conf) /\ Tested(server, conf, cwd, tested) /\ path.state = "used"
      /\ server.pidfile = AskedIn(conf, "pidfile", NONE)
      /\ MovesIn(conf) \/ LogsWhereTested
  BY <1>1 DEF StartInv, Running
<1>4. CASE UNCHANGED <<server, written>>
  <2>1. server.pidfile # NONE => server.pidfile = AskedIn(conf, "pidfile", CONFIG_DEFAULT_PID_FILE)
    BY <1>2, <1>3, AskedSomething
  <2> QED BY <1>1, <1>2, <1>3, <1>4, <2>1 DEF StartInv, Running, LogsWhereTested
<1>5. CASE createPidFile
  <2>1. PICK f : f = IF server.pidfile = NONE THEN CONFIG_DEFAULT_PID_FILE ELSE server.pidfile
    OBVIOUS
  <2>2. /\ server' = [server EXCEPT !.pidfile = f]
        /\ written' = written \/ written' = written \cup {<<"pid", Place(f)>>}
    BY <1>5, <2>1 DEF createPidFile
  <2>3. f = AskedIn(conf, "pidfile", CONFIG_DEFAULT_PID_FILE)
    BY <1>2, <1>3, <2>1, AskedSomething
  <2>4. /\ server'.pidfile = f /\ server'.log_file = server.log_file /\ Configured(server', conf)
    BY <1>3, <2>2 DEF Configured, Field
  <2>5. Tested(server', conf, cwd, tested)
    BY <1>3, <2>4 DEF Tested
  <2>6. (MovesIn(conf) \/ LogsWhereTested)'
    BY <1>1, <1>3, <2>2 DEF LogsWhereTested
  <2> QED BY <1>1, <1>2, <1>3, <2>3, <2>4, <2>5, <2>6 DEF StartInv, Running
<1> QED BY <1>4, <1>5 DEF Serve

LEMMA StartKeeps == StartInv /\ [StartupNext]_startupVars => StartInv'
<1> SUFFICES ASSUME StartInv, [StartupNext]_startupVars PROVE StartInv'
  OBVIOUS
<1>1. CASE GetAbsolutePath
  BY <1>1, NamingStep
<1>2. CASE load_config
  BY <1>2, LoadConfigStep
<1>3. CASE loadServerConfigFromString
  BY <1>3, LoadLineStep
<1>4. CASE ConfigRead
  BY <1>4, ConfigReadStep
<1>5. CASE listenToPort
  <2>1. phase = "starting" /\ UNCHANGED <<pathVars, conf, server, tested>>
    BY <1>5 DEF listenToPort
  <2>2. CASE phase' = "loading" /\ UNCHANGED written
    <3>1. UNCHANGED <<name, cwd, path, conf, server, tested, written>>
      BY <2>1, <2>2 DEF pathVars
    <3>2. PathInv'
      BY <2>1, SamePlaces
    <3> QED BY <2>1, <2>2, <3>1, <3>2 DEF StartInv, Running, LogsWhereTested
  <2>3. CASE server_log(LL_WARNING, "exited")
    BY <2>1, <2>3, MessageStep DEF Running
  <2> QED BY <1>5, <2>2, <2>3 DEF listenToPort
<1>6. CASE BadDataFile
  <2>1. /\ phase = "loading" /\ UNCHANGED <<pathVars, conf, server, tested>>
        /\ server_log(LL_WARNING, "exited")
    BY <1>6 DEF BadDataFile
  <2> QED BY <2>1, MessageStep DEF Running
<1>7. CASE Serve
  BY <1>7, ServeStep
<1>8. CASE Message
  <2>1. phase = "serving" /\ UNCHANGED <<pathVars, conf, server, tested>>
    BY <1>8 DEF Message
  <2>2. PICK level : server_log(level, "serving")
    BY <1>8 DEF Message
  <2> QED BY <2>1, <2>2, MessageStep DEF Running
<1>9. CASE UNCHANGED startupVars
  <2>1. UNCHANGED <<name, cwd, path, phase, conf, server, tested, written>>
    BY <1>9 DEF startupVars, pathVars
  <2>2. PathInv'
    BY <2>1 DEF StartInv, PathInv, SameFile, Meant
  <2> QED BY <2>1, <2>2 DEF StartInv, Running, LogsWhereTested
<1> QED BY <1>1, <1>2, <1>3, <1>4, <1>5, <1>6, <1>7, <1>8, <1>9 DEF StartupNext

\* A server that starts has opened the file its argument named, goes by the last line of each
\* directive and logs to the file it has tested (getAbsolutePath, loadServerConfigFromString and
\* server_log), whatever the file's lines, the names and the directories are.
THEOREM StartedAlways == StartupSpec => []StartedAsAsked
<1>1. StartupInit => StartInv
  BY StartupStarts
<1>2. StartInv /\ [StartupNext]_startupVars => StartInv'
  BY StartKeeps
<1>3. StartInv => StartedAsAsked
  BY StartedIs
<1> QED BY <1>1, <1>2, <1>3, PTL DEF StartupSpec

-----------------------------------------------------------------------------
(***************************************************************************)
(* Strings taken apart and put together again.                             *)
(***************************************************************************)

\* g holds the first strings of ss, joined, up to the n-th.
Joins(g, ss, n) == g[0] = << >> /\ \A k \in 1..n : g[k] = g[k - 1] \o ss[k]

IsFlat(f, ss, n) == f = [i \in 1..n |-> IF i = 1 THEN ss[i] ELSE f[i - 1] \o ss[i]]

LEMMA JoinsExist ==
  ASSUME NEW ss, NEW n \in Nat
  PROVE  \E g : Joins(g, ss, n)
<1> DEFINE T == {m \in Nat : ~ \E g : Joins(g, ss, m)}
<1>1. T = {}
  <2> SUFFICES ASSUME T # {} PROVE FALSE
    OBVIOUS
  <2>1. PICK m \in T : \A y \in T : m <= y
    <3>1. T \subseteq Nat
      OBVIOUS
    <3> HIDE DEF T
    <3> QED BY <3>1, MinIs
  <2>2. m \in Nat /\ ~ \E g : Joins(g, ss, m)
    BY <2>1
  <2>3. m # 0
    <3>1. ASSUME m = 0 PROVE FALSE
      <4> DEFINE g == [k \in {0} |-> << >>]
      <4>1. Joins(g, ss, 0)
        BY DEF Joins
      <4> QED BY <2>2, <3>1, <4>1
    <3> QED BY <3>1
  <2>4. m - 1 \in Nat /\ ~ (m <= m - 1)
    BY <2>2, <2>3
  <2>5. m - 1 \notin T
    BY <2>1, <2>4
  <2> HIDE DEF T
  <2>6. PICK f : Joins(f, ss, m - 1)
    BY <2>4, <2>5 DEF T
  <2> DEFINE e == f[m - 1] \o ss[m]
             g == [k \in 0..m |-> IF k = m THEN e ELSE f[k]]
  <2>7. \A k \in 0..m : g[k] = IF k = m THEN e ELSE f[k]
    OBVIOUS
  <2> HIDE DEF g
  <2>8. g[0] = << >>
    BY <2>2, <2>3, <2>6, <2>7 DEF Joins
  <2>9. ASSUME NEW k \in 1..m PROVE g[k] = g[k - 1] \o ss[k]
    <3>1. k - 1 \in 0..m /\ k - 1 # m /\ k \in 0..m
      BY <2>2
    <3>2. g[k - 1] = f[k - 1]
      BY <2>7, <3>1
    <3>3. CASE k = m
      <4>1. g[k] = e
        BY <2>7, <3>1, <3>3
      <4> QED BY <3>2, <3>3, <4>1
    <3>4. CASE k # m
      <4>1. k \in 1..(m - 1)
        BY <2>2, <3>4
      <4>2. g[k] = f[k]
        BY <2>7, <3>1, <3>4
      <4> QED BY <2>6, <3>2, <4>1, <4>2 DEF Joins
    <3> QED BY <3>3, <3>4
  <2> QED BY <2>2, <2>8, <2>9 DEF Joins
<1> QED BY <1>1

\* FlattenSeq is the last of them.
LEMMA FlattenIs ==
  ASSUME NEW S, NEW ss \in Seq(Seq(S))
  PROVE  \E g : Joins(g, ss, Len(ss)) /\ FlattenSeq(ss) = g[Len(ss)]
<1> DEFINE n == Len(ss)
<1>0. n \in Nat /\ \A i \in 1..n : ss[i] \in Seq(S)
  OBVIOUS
<1>1. CASE n = 0
  <2>1. FlattenSeq(ss) = << >>
    BY <1>1 DEF FlattenSeq
  <2>2. PICK g : Joins(g, ss, 0)
    BY JoinsExist
  <2> QED BY <1>1, <2>1, <2>2 DEF Joins
<1>2. CASE n # 0
  <2> DEFINE W(f) == f = [i \in 1..n |-> IF i = 1 THEN ss[i] ELSE f[i - 1] \o ss[i]]
             h == CHOOSE f : W(f)
  <2>1. \E f : W(f)
    <3>1. PICK g : Joins(g, ss, n)
      BY <1>0, JoinsExist
    <3> HIDE DEF n
    <3> DEFINE f == [i \in 1..n |-> g[i]]
    <3>2. ASSUME NEW i \in 1..n PROVE f[i] = IF i = 1 THEN ss[i] ELSE f[i - 1] \o ss[i]
      <4>1. f[i] = g[i - 1] \o ss[i]
        BY <3>1 DEF Joins
      <4>2. CASE i = 1
        <5>1. g[i - 1] = << >>
          BY <3>1, <4>2 DEF Joins
        <5>2. << >> \o ss[i] = ss[i]
          BY <1>0
        <5> QED BY <4>1, <4>2, <5>1, <5>2
      <4>3. CASE i # 1
        <5>1. i - 1 \in 1..n
          BY <4>3, <1>0
        <5>2. f[i - 1] = g[i - 1]
          BY <5>1
        <5> QED BY <4>1, <4>3, <5>2
      <4> QED BY <4>2, <4>3
    <3>3. f = [i \in 1..n |-> f[i]]
      OBVIOUS
    <3> HIDE DEF f
    <3>4. f = [i \in 1..n |-> IF i = 1 THEN ss[i] ELSE f[i - 1] \o ss[i]]
      BY <3>2, <3>3
    <3> QED BY <3>4
  <2>2. W(h)
    BY <2>1
  <2>3. FlattenSeq(ss) = h[n]
    BY <1>2 DEF FlattenSeq
  <2> HIDE DEF h
  <2>4. \A i \in 1..n : h[i] = IF i = 1 THEN ss[i] ELSE h[i - 1] \o ss[i]
    BY <2>2
  <2> HIDE DEF n, W
  <2> DEFINE g == [k \in 0..n |-> IF k = 0 THEN << >> ELSE h[k]]
  <2>5. \A k \in 0..n : g[k] = IF k = 0 THEN << >> ELSE h[k]
    OBVIOUS
  <2>6. g[0] = << >> /\ g[n] = h[n]
    BY <1>0, <1>2
  <2> HIDE DEF g
  <2>7. ASSUME NEW k \in 1..n PROVE g[k] = g[k - 1] \o ss[k]
    <3>1. k \in 0..n /\ k # 0 /\ k - 1 \in 0..n
      BY <1>0
    <3>2. g[k] = h[k]
      BY <2>5, <3>1
    <3>3. CASE k = 1
      <4>1. g[k - 1] = << >> /\ h[k] = ss[k]
        BY <2>4, <2>6, <3>3
      <4>2. << >> \o ss[k] = ss[k]
        BY <1>0
      <4> QED BY <3>2, <4>1, <4>2
    <3>4. CASE k # 1
      <4>1. g[k - 1] = h[k - 1]
        BY <2>5, <3>1, <3>4
      <4> QED BY <2>4, <3>2, <3>4, <4>1
    <3> QED BY <3>3, <3>4
  <2> QED BY <2>3, <2>6, <2>7 DEF Joins, n
<1> QED BY <1>1, <1>2

\* Each is a string, and the beginning of those behind it.
LEMMA JoinsType ==
  ASSUME NEW S, NEW ss \in Seq(Seq(S)), NEW g, Joins(g, ss, Len(ss)), NEW m \in 0..Len(ss)
  PROVE  g[m] \in Seq(S)
<1> DEFINE n == Len(ss)
           T == {j \in 0..n : g[j] \notin Seq(S)}
<1>0. n \in Nat /\ \A i \in 1..n : ss[i] \in Seq(S)
  OBVIOUS
<1>1. T = {}
  <2> SUFFICES ASSUME T # {} PROVE FALSE
    OBVIOUS
  <2>1. PICK j \in T : \A y \in T : j <= y
    <3>1. T \subseteq Nat
      BY <1>0
    <3> HIDE DEF T
    <3> QED BY <3>1, MinIs
  <2>2. j \in 0..n /\ g[j] \notin Seq(S)
    BY <2>1
  <2>3. j # 0
    <3>1. << >> \in Seq(S) /\ g[0] = << >>
      BY DEF Joins
    <3> QED BY <2>2, <3>1
  <2>4. j - 1 \in 0..n /\ ~ (j <= j - 1) /\ j \in 1..n
    BY <1>0, <2>2, <2>3
  <2>5. g[j - 1] \in Seq(S)
    BY <2>1, <2>4
  <2>6. g[j] = g[j - 1] \o ss[j] /\ ss[j] \in Seq(S)
    BY <1>0, <2>4 DEF Joins
  <2> QED BY <2>2, <2>5, <2>6
<1> QED BY <1>1

LEMMA JoinsBegin ==
  ASSUME NEW S, NEW ss \in Seq(Seq(S)), NEW g, Joins(g, ss, Len(ss)),
         NEW m \in 0..Len(ss), NEW k \in 0..m
  PROVE  Len(g[k]) <= Len(g[m]) /\ \A i \in 1..Len(g[k]) : g[m][i] = g[k][i]
<1> DEFINE n == Len(ss)
           A(j) == Len(g[k]) <= Len(g[j]) /\ \A i \in 1..Len(g[k]) : g[j][i] = g[k][i]
           T == {j \in k..n : ~ A(j)}
<1>0. /\ n \in Nat /\ k \in Nat /\ k <= n /\ m \in k..n /\ \A j \in 0..n : g[j] \in Seq(S)
      /\ \A j \in 1..n : ss[j] \in Seq(S)
  BY JoinsType
<1>1. T = {}
  <2> SUFFICES ASSUME T # {} PROVE FALSE
    OBVIOUS
  <2>1. PICK j \in T : \A y \in T : j <= y
    <3>1. T \subseteq Nat
      BY <1>0
    <3> HIDE DEF T
    <3> QED BY <3>1, MinIs
  <2>2. j \in k..n /\ ~ A(j)
    BY <2>1
  <2>3. j # k
    <3>1. k \in 0..n
      BY <1>0
    <3>2. Len(g[k]) \in Nat
      BY <1>0, <3>1
    <3> QED BY <2>2, <3>2
  <2>4. j - 1 \in k..n /\ ~ (j <= j - 1) /\ j \in 1..n /\ j - 1 \in 0..n /\ k \in 0..n
    BY <1>0, <2>2, <2>3
  <2>5. A(j - 1)
    BY <2>1, <2>4
  <2>6. /\ g[j] = g[j - 1] \o ss[j] /\ ss[j] \in Seq(S)
        /\ g[j - 1] \in Seq(S) /\ g[k] \in Seq(S)
    BY <1>0, <2>4 DEF Joins
  <2> HIDE DEF T, n
  <2>7. PICK a, b \in Seq(S) : a = g[j - 1] /\ b = ss[j]
    BY <2>6
  <2>8. Len(a \o b) = Len(a) + Len(b) /\ \A i \in 1..Len(a) : (a \o b)[i] = a[i]
    OBVIOUS
  <2>10. /\ Len(g[k]) \in Nat /\ Len(a) \in Nat /\ Len(b) \in Nat
         /\ Len(g[k]) <= Len(a) /\ \A i \in 1..Len(g[k]) : a[i] = g[k][i]
    BY <2>5, <2>6, <2>7
  <2>11. Len(g[k]) <= Len(a \o b)
    BY <2>8, <2>10
  <2>12. ASSUME NEW i \in 1..Len(g[k]) PROVE (a \o b)[i] = g[k][i]
    <3>1. i \in 1..Len(a)
      BY <2>10
    <3> QED BY <2>8, <2>10, <3>1
  <2>9. A(j)
    BY <2>6, <2>7, <2>11, <2>12
  <2> QED BY <2>2, <2>9
<1> HIDE DEF T, n
<1>2. A(m)
  BY <1>0, <1>1 DEF T
<1> QED BY <1>2

\* There is one way to join them.
LEMMA JoinsOnce ==
  ASSUME NEW ss, NEW tt, NEW n \in Nat, NEW g, NEW h, Joins(g, ss, n), Joins(h, tt, n),
         \A i \in 1..n : ss[i] = tt[i]
  PROVE  g[n] = h[n]
<1> DEFINE T == {j \in 0..n : g[j] # h[j]}
<1>1. T = {}
  <2> SUFFICES ASSUME T # {} PROVE FALSE
    OBVIOUS
  <2>1. PICK j \in T : \A y \in T : j <= y
    <3>1. T \subseteq Nat
      OBVIOUS
    <3> HIDE DEF T
    <3> QED BY <3>1, MinIs
  <2>2. j \in 0..n /\ g[j] # h[j]
    BY <2>1
  <2>3. j # 0
    BY <2>2 DEF Joins
  <2>4. j - 1 \in 0..n /\ ~ (j <= j - 1) /\ j \in 1..n
    BY <2>2, <2>3
  <2>5. g[j - 1] = h[j - 1]
    BY <2>1, <2>4
  <2> QED BY <2>2, <2>4, <2>5 DEF Joins
<1> QED BY <1>1

\* One string more.
LEMMA FlattenMore ==
  ASSUME NEW S, NEW ss \in Seq(Seq(S)), NEW x \in Seq(S)
  PROVE  /\ FlattenSeq(ss) \in Seq(S) /\ FlattenSeq(Append(ss, x)) = FlattenSeq(ss) \o x
<1>1. PICK tt : tt = Append(ss, x)
  OBVIOUS
<1>2. /\ tt \in Seq(Seq(S)) /\ Len(tt) = Len(ss) + 1 /\ Len(ss) \in Nat /\ tt[Len(ss) + 1] = x
      /\ \A i \in 1..Len(ss) : ss[i] = tt[i]
  BY <1>1
<1>3. PICK g : Joins(g, ss, Len(ss)) /\ FlattenSeq(ss) = g[Len(ss)]
  BY FlattenIs
<1>4. PICK h : Joins(h, tt, Len(tt)) /\ FlattenSeq(tt) = h[Len(tt)]
  BY <1>2, FlattenIs
<1>5. h[Len(tt)] = h[Len(ss)] \o x
  <2>1. Len(tt) \in 1..Len(tt) /\ Len(tt) - 1 = Len(ss)
    BY <1>2
  <2> QED BY <1>2, <1>4, <2>1 DEF Joins
<1>6. Joins(h, tt, Len(ss))
  <2>1. \A i \in 1..Len(ss) : i \in 1..Len(tt)
    BY <1>2
  <2> QED BY <1>4, <2>1 DEF Joins
<1>7. h[Len(ss)] = g[Len(ss)]
  <2>1. PICK n \in Nat : n = Len(ss)
    BY <1>2
  <2>2. /\ Joins(g, ss, n) /\ Joins(h, tt, n) /\ \A i \in 1..n : ss[i] = tt[i]
    BY <1>2, <1>3, <1>6, <2>1
  <2>3. g[n] = h[n]
    BY <2>2, JoinsOnce
  <2> QED BY <2>1, <2>3
<1>8. g[Len(ss)] \in Seq(S)
  BY <1>2, <1>3, JoinsType
<1> QED BY <1>1, <1>3, <1>4, <1>5, <1>7, <1>8

-----------------------------------------------------------------------------
\* The tokens, each with a separator behind it.
Ended(tokens, sep) == [i \in DOMAIN tokens |-> tokens[i] \o sep]
Separated(tokens, sep) ==
    [i \in DOMAIN tokens |-> IF i < Len(tokens) THEN tokens[i] \o sep ELSE tokens[i]]
WithEnd(token, sep) == token \o sep
Glued(tokens, sep) == FlattenSeq(Ended(tokens, sep))

NoneIn(token, sep) == \A j \in 0..(Len(token) - Len(sep)) : Bytes(token, j, j + Len(sep)) # sep

LEMMA EndedMore ==
  ASSUME NEW S, NEW tokens \in Seq(Seq(S)), NEW sep \in Seq(S), NEW t \in Seq(S)
  PROVE  /\ Ended(tokens, sep) \in Seq(Seq(S))
         /\ Ended(Append(tokens, t), sep) = Append(Ended(tokens, sep), t \o sep)
         /\ Separated(Append(tokens, t), sep) = Append(Ended(tokens, sep), t)
<1>1. PICK n \in Nat : n = Len(tokens)
  OBVIOUS
<1>2. PICK u : u = Append(tokens, t)
  OBVIOUS
<1>3. /\ DOMAIN u = 1..(n + 1) /\ Len(u) = n + 1 /\ u[n + 1] = t /\ DOMAIN tokens = 1..n
      /\ \A i \in 1..n : u[i] = tokens[i] /\ tokens[i] \in Seq(S)
  BY <1>1, <1>2
<1>4. PICK e : e = Ended(tokens, sep)
  OBVIOUS
<1>5. /\ e = [i \in 1..n |-> tokens[i] \o sep]
      /\ \A i \in 1..n : tokens[i] \o sep \in Seq(S)
  BY <1>3, <1>4 DEF Ended
<1>6. e \in Seq(Seq(S)) /\ Len(e) = n /\ \A i \in 1..n : e[i] = tokens[i] \o sep
  BY <1>5
<1>7. ASSUME NEW x \in Seq(S)
      PROVE  Append(e, x) = [i \in 1..(n + 1) |-> IF i = n + 1 THEN x ELSE tokens[i] \o sep]
  <2>1. PICK f : f = Append(e, x)
    OBVIOUS
  <2>2. f \in Seq(Seq(S)) /\ DOMAIN f = 1..(n + 1) /\ f[n + 1] = x /\ \A i \in 1..n : f[i] = e[i]
    BY <1>6, <2>1
  <2>3. f = [i \in 1..(n + 1) |-> f[i]]
    BY <2>2
  <2>4. \A i \in 1..(n + 1) : i = n + 1 \/ (i \in 1..n /\ i # n + 1)
    OBVIOUS
  <2> QED BY <1>6, <2>1, <2>2, <2>3, <2>4
<1>8. \A i \in 1..(n + 1) : i = n + 1 \/ (i \in 1..n /\ i < n + 1 /\ i # n + 1)
  OBVIOUS
<1>9. [i \in 1..(n + 1) |-> u[i] \o sep] = Append(e, t \o sep)
  <2>1. t \o sep \in Seq(S)
    OBVIOUS
  <2>2. PICK x \in Seq(S) : x = t \o sep
    BY <2>1
  <2>3. Append(e, x) = [i \in 1..(n + 1) |-> IF i = n + 1 THEN x ELSE tokens[i] \o sep]
    BY <1>7
  <2>4. \A i \in 1..(n + 1) : u[i] \o sep = IF i = n + 1 THEN x ELSE tokens[i] \o sep
    BY <1>3, <1>8, <2>2
  <2> QED BY ONLY <2>2, <2>3, <2>4
<1>10. [i \in 1..(n + 1) |-> IF i < n + 1 THEN u[i] \o sep ELSE u[i]] = Append(e, t)
  <2>1. Append(e, t) = [i \in 1..(n + 1) |-> IF i = n + 1 THEN t ELSE tokens[i] \o sep]
    BY <1>7
  <2>2. \A i \in 1..(n + 1) : (IF i < n + 1 THEN u[i] \o sep ELSE u[i])
                               = IF i = n + 1 THEN t ELSE tokens[i] \o sep
    BY <1>3, <1>8
  <2> QED BY ONLY <2>1, <2>2
<1> QED BY <1>2, <1>3, <1>4, <1>6, <1>9, <1>10 DEF Ended, Separated

LEMMA GluedMore ==
  ASSUME NEW S, NEW tokens \in Seq(Seq(S)), NEW sep \in Seq(S), NEW t \in Seq(S)
  PROVE  /\ Glued(tokens, sep) \in Seq(S)
         /\ Glued(Append(tokens, t), sep) = Glued(tokens, sep) \o WithEnd(t, sep)
         /\ sdsjoin(Append(tokens, t), sep) = Glued(tokens, sep) \o t
<1>1. PICK x \in Seq(S) : x = t \o sep
  <2>1. t \o sep \in Seq(S)
    OBVIOUS
  <2> QED BY <2>1
<1>2. PICK e \in Seq(Seq(S)) : e = Ended(tokens, sep)
  BY EndedMore
<1>3. /\ Ended(Append(tokens, t), sep) = Append(e, x)
      /\ sdsjoin(Append(tokens, t), sep) = FlattenSeq(Append(e, t))
  <2>1. Ended(Append(tokens, t), sep) = Append(Ended(tokens, sep), t \o sep)
    BY EndedMore
  <2>2. Separated(Append(tokens, t), sep) = Append(Ended(tokens, sep), t)
    BY EndedMore
  <2>3. \A u : sdsjoin(u, sep) = FlattenSeq(Separated(u, sep))
    BY DEF sdsjoin, Separated
  <2> QED BY ONLY <1>1, <1>2, <2>1, <2>2, <2>3
<1>4. FlattenSeq(e) \in Seq(S) /\ FlattenSeq(Append(e, x)) = FlattenSeq(e) \o x
      /\ FlattenSeq(Append(e, t)) = FlattenSeq(e) \o t
  BY FlattenMore
<1> QED BY <1>1, <1>2, <1>3, <1>4 DEF Glued, WithEnd

LEMMA NoTokens == \A sep : Glued(<< >>, sep) = << >> /\ sdsjoin(<< >>, sep) = << >>
<1> SUFFICES ASSUME NEW sep PROVE Glued(<< >>, sep) = << >> /\ sdsjoin(<< >>, sep) = << >>
  OBVIOUS
<1>1. FlattenSeq(<< >>) = << >>
  BY DEF FlattenSeq
<1>2. Ended(<< >>, sep) = << >>
  BY DEF Ended
<1>3. [i \in DOMAIN << >> |-> IF i < Len(<< >>) THEN << >>[i] \o sep ELSE << >>[i]] = << >>
  OBVIOUS
<1> QED BY <1>1, <1>2, <1>3 DEF Glued, sdsjoin

\* Parts of strings.
LEMMA BytesAre ==
  ASSUME NEW S, NEW s \in Seq(S), NEW a \in 0..Len(s), NEW b \in a..Len(s)
  PROVE  /\ Bytes(s, a, b) \in Seq(S) /\ Len(Bytes(s, a, b)) = b - a
         /\ \A i \in 1..(b - a) : Bytes(s, a, b)[i] = s[a + i]
BY DEF Bytes

LEMMA SameBytes ==
  ASSUME NEW S, NEW s \in Seq(S), NEW t \in Seq(S), Len(s) = Len(t),
         \A i \in 1..Len(s) : s[i] = t[i]
  PROVE  s = t
OBVIOUS

LEMMA BytesOfBytes ==
  ASSUME NEW S, NEW s \in Seq(S), NEW a \in 0..Len(s), NEW b \in a..Len(s),
         NEW i \in 0..(b - a), NEW j \in i..(b - a)
  PROVE  Bytes(Bytes(s, a, b), i, j) = Bytes(s, a + i, a + j)
<1>1. PICK t \in Seq(S) : t = Bytes(s, a, b)
  BY BytesAre
<1>2. Len(t) = b - a /\ \A k \in 1..(b - a) : t[k] = s[a + k]
  BY <1>1, BytesAre
<1>3. /\ Bytes(t, i, j) \in Seq(S) /\ Len(Bytes(t, i, j)) = j - i
      /\ \A k \in 1..(j - i) : Bytes(t, i, j)[k] = t[i + k]
  <2>1. i \in 0..Len(t) /\ j \in i..Len(t)
    BY <1>2
  <2> QED BY ONLY t \in Seq(S), <2>1, BytesAre
<1>4. a + i \in 0..Len(s) /\ a + j \in (a + i)..Len(s) /\ (a + j) - (a + i) = j - i
  OBVIOUS
<1>5. /\ Bytes(s, a + i, a + j) \in Seq(S) /\ Len(Bytes(s, a + i, a + j)) = j - i
      /\ \A k \in 1..(j - i) : Bytes(s, a + i, a + j)[k] = s[(a + i) + k]
  <2>1. PICK u \in 0..Len(s) : u = a + i
    BY <1>4
  <2>3. PICK v \in u..Len(s) : v = a + j
    BY <1>4, <2>1
  <2>2. /\ Bytes(s, u, v) \in Seq(S) /\ Len(Bytes(s, u, v)) = v - u
        /\ \A k \in 1..(v - u) : Bytes(s, u, v)[k] = s[u + k]
    BY BytesAre
  <2> QED BY <1>4, <2>1, <2>2, <2>3
<1>6. \A k \in 1..(j - i) : i + k \in 1..(b - a) /\ a + (i + k) = (a + i) + k
  OBVIOUS
<1>7. \A k \in 1..(j - i) : Bytes(t, i, j)[k] = Bytes(s, a + i, a + j)[k]
  BY <1>2, <1>3, <1>5, <1>6
<1> QED BY <1>1, <1>3, <1>5, <1>7, SameBytes

LEMMA BytesGlue ==
  ASSUME NEW S, NEW s \in Seq(S), NEW a \in 0..Len(s), NEW b \in a..Len(s)
  PROVE  Bytes(s, 0, a) \o Bytes(s, a, b) = Bytes(s, 0, b)
<1>1. /\ Bytes(s, 0, a) \in Seq(S) /\ Len(Bytes(s, 0, a)) = a
      /\ \A i \in 1..a : Bytes(s, 0, a)[i] = s[i]
  <2>1. 0 \in 0..Len(s) /\ a \in 0..Len(s) /\ a - 0 = a /\ \A i \in 1..a : 0 + i = i
    OBVIOUS
  <2> QED BY <2>1, BytesAre
<1>2. /\ Bytes(s, 0, b) \in Seq(S) /\ Len(Bytes(s, 0, b)) = b
      /\ \A i \in 1..b : Bytes(s, 0, b)[i] = s[i]
  <2>1. 0 \in 0..Len(s) /\ b \in 0..Len(s) /\ b - 0 = b /\ \A i \in 1..b : 0 + i = i
    OBVIOUS
  <2> QED BY <2>1, BytesAre
<1>3. /\ Bytes(s, a, b) \in Seq(S) /\ Len(Bytes(s, a, b)) = b - a
      /\ \A i \in 1..(b - a) : Bytes(s, a, b)[i] = s[a + i]
  BY BytesAre
<1>4. PICK p, q \in Seq(S) : p = Bytes(s, 0, a) /\ q = Bytes(s, a, b)
  BY <1>1, <1>3
<1>5. /\ p \o q \in Seq(S) /\ Len(p \o q) = b
      /\ \A i \in 1..b : (p \o q)[i] = IF i <= a THEN p[i] ELSE q[i - a]
  <2>1. p \in Seq(S) /\ q \in Seq(S) /\ Len(p) = a /\ Len(q) = b - a
    BY ONLY <1>1, <1>3, <1>4
  <2>2. /\ p \o q \in Seq(S) /\ Len(p \o q) = Len(p) + Len(q)
        /\ \A i \in 1..(Len(p) + Len(q)) :
             (p \o q)[i] = IF i <= Len(p) THEN p[i] ELSE q[i - Len(p)]
    BY ONLY <2>1
  <2>3. a + (b - a) = b
    OBVIOUS
  <2> QED BY ONLY <2>1, <2>2, <2>3
<1>6. \A i \in 1..b : (i <= a => i \in 1..a) /\ (i > a => i - a \in 1..(b - a) /\ a + (i - a) = i)
  OBVIOUS
<1>7. \A i \in 1..b : (p \o q)[i] = s[i]
  <2> SUFFICES ASSUME NEW i \in 1..b PROVE (p \o q)[i] = s[i]
    OBVIOUS
  <2>1. (p \o q)[i] = IF i <= a THEN p[i] ELSE q[i - a]
    BY <1>5
  <2>2. CASE i <= a
    <3>1. i \in 1..a
      BY <2>2
    <3> QED BY <1>1, <1>4, <2>1, <2>2, <3>1
  <2>3. CASE ~ (i <= a)
    <3>1. i - a \in 1..(b - a) /\ a + (i - a) = i
      BY <2>3
    <3> QED BY <1>3, <1>4, <2>1, <2>3, <3>1
  <2> QED BY <2>2, <2>3
<1> QED BY <1>2, <1>4, <1>5, <1>7, SameBytes

LEMMA TokenFree ==
  ASSUME NEW S, NEW s \in Seq(S), NEW sep \in Seq(S), NEW a \in 0..Len(s), NEW b \in a..Len(s),
         \A i \in a..(b - Len(sep)) : Bytes(s, i, i + Len(sep)) # sep
  PROVE  NoneIn(Bytes(s, a, b), sep)
<1>1. Len(Bytes(s, a, b)) = b - a
  BY BytesAre
<1>2. ASSUME NEW j \in 0..((b - a) - Len(sep)) PROVE Bytes(Bytes(s, a, b), j, j + Len(sep)) # sep
  <2>1. PICK l \in Nat : l = Len(sep)
    OBVIOUS
  <2>2. /\ j \in 0..(b - a) /\ j + l \in j..(b - a)
        /\ a + j \in a..(b - l) /\ a + (j + l) = (a + j) + l
    BY <2>1
  <2>3. Bytes(Bytes(s, a, b), j, j + l) = Bytes(s, a + j, (a + j) + l)
    BY <2>2, BytesOfBytes
  <2> QED BY <2>1, <2>2, <2>3
<1> QED BY <1>1, <1>2 DEF NoneIn

-----------------------------------------------------------------------------
\* Up to `start` all of x is in tokens; from there to `j` no separator begins.
CuttingIn(x, c) ==
    /\ c.start \in 0..c.j /\ c.start <= Len(x) /\ Len(c.tokens) < c.slots
    /\ Glued(c.tokens, c.sep) = Bytes(x, 0, c.start)
    /\ \A i \in c.start..(c.j - 1) : Bytes(x, i, i + Len(c.sep)) # c.sep

LEMMA SeparatorIs == \A s \in Sep : s \in Seq(SplitByte) /\ Len(s) \in Nat /\ Len(s) >= 1
<1> SUFFICES ASSUME NEW s \in Sep PROVE s \in Seq(SplitByte) /\ Len(s) \in Nat /\ Len(s) >= 1
  OBVIOUS
<1>1. s \in Seq(SplitByte) /\ s # << >>
  BY SplitAssumption
<1> QED BY <1>1

\* The string x is cut up to a, and no separator s begins before j.
CutUpTo(S, x, s, k, a, j, l) ==
    /\ x \in Seq(S) /\ s \in Seq(S) /\ k \in Seq(Seq(S)) /\ a \in Nat /\ j \in Nat /\ l \in Nat
    /\ l = Len(s) /\ l >= 1 /\ a <= j /\ Glued(k, s) = Bytes(x, 0, a)
    /\ \A i \in a..(j - 1) : Bytes(x, i, i + l) # s

\* What is between two separators is a token.
LEMMA TokenIs ==
  ASSUME NEW S, NEW x, NEW s, NEW k, NEW a, NEW j, NEW l, CutUpTo(S, x, s, k, a, j, l),
         j + l <= Len(x), Bytes(x, j, j + l) = s
  PROVE  /\ Bytes(x, a, j) \in Seq(S) /\ NoneIn(Bytes(x, a, j), s)
         /\ Glued(Append(k, Bytes(x, a, j)), s) = Bytes(x, 0, j + l)
<1>0. /\ x \in Seq(S) /\ s \in Seq(S) /\ k \in Seq(Seq(S)) /\ a \in Nat /\ j \in Nat /\ l \in Nat
      /\ l = Len(s) /\ l >= 1 /\ a <= j /\ Glued(k, s) = Bytes(x, 0, a) /\ Len(x) \in Nat
      /\ \A i \in a..(j - 1) : Bytes(x, i, i + l) # s
  BY DEF CutUpTo
<1>1. /\ 0 \in 0..Len(x) /\ a \in 0..Len(x) /\ j \in a..Len(x) /\ a \in 0..Len(x)
      /\ j \in 0..Len(x) /\ j + l \in j..Len(x)
  BY <1>0
<1>2. PICK t : t = Bytes(x, a, j)
  OBVIOUS
<1>3. t \in Seq(S)
  BY <1>0, <1>1, <1>2, BytesAre
<1>4. NoneIn(t, s)
  <2>1. \A i \in a..(j - l) : i \in a..(j - 1)
    BY <1>0
  <2> QED BY <1>0, <1>1, <1>2, <2>1, TokenFree
<1>5. Glued(Append(k, t), s) = Glued(k, s) \o (t \o s)
  <2>1. k \in Seq(Seq(S))
    BY <1>0
  <2>2. s \in Seq(S)
    BY <1>0
  <2>3. Glued(Append(k, t), s) = Glued(k, s) \o WithEnd(t, s)
    BY ONLY <1>3, <2>1, <2>2, GluedMore
  <2> QED BY ONLY <2>3 DEF WithEnd
<1>6. PICK p \in Seq(S) : p = Bytes(x, 0, a)
  BY <1>0, <1>1, BytesAre
<1>7. p \o t = Bytes(x, 0, j)
  BY <1>0, <1>1, <1>2, <1>6, BytesGlue
<1>8. (p \o t) \o s = p \o (t \o s)
  BY ONLY p \in Seq(S), <1>3, <1>0
<1>9. Bytes(x, 0, j) \o Bytes(x, j, j + l) = Bytes(x, 0, j + l)
  BY <1>0, <1>1, BytesGlue
<1> QED BY <1>0, <1>2, <1>3, <1>4, <1>5, <1>6, <1>7, <1>8, <1>9

\* Behind the last separator as well.
LEMMA LastTokenIs ==
  ASSUME NEW S, NEW x, NEW s, NEW k, NEW a, NEW j, NEW l, CutUpTo(S, x, s, k, a, j, l),
         a <= Len(x), ~ (j < Len(x) - (l - 1))
  PROVE  /\ Bytes(x, a, Len(x)) \in Seq(S) /\ NoneIn(Bytes(x, a, Len(x)), s)
         /\ sdsjoin(Append(k, Bytes(x, a, Len(x))), s) = x
<1>a. /\ x \in Seq(S) /\ s \in Seq(S) /\ k \in Seq(Seq(S)) /\ a \in Nat /\ j \in Nat /\ l \in Nat
      /\ l = Len(s) /\ l >= 1 /\ a <= j /\ Glued(k, s) = Bytes(x, 0, a) /\ Len(x) \in Nat
      /\ \A i \in a..(j - 1) : Bytes(x, i, i + l) # s
  BY DEF CutUpTo
<1>0. PICK n \in Nat : n = Len(x)
  BY <1>a
<1>1. /\ 0 \in 0..n /\ a \in 0..n /\ n \in a..n /\ a \in 0..n /\ n \in 0..n
  BY <1>a, <1>0
<1>2. PICK t : t = Bytes(x, a, n)
  OBVIOUS
<1>3. t \in Seq(S)
  BY <1>a, <1>0, <1>1, <1>2, BytesAre
<1>4. NoneIn(t, s)
  <2>1. \A i \in a..(n - l) : i \in a..(j - 1)
    BY <1>a, <1>0
  <2> QED BY <1>a, <1>0, <1>1, <1>2, <2>1, TokenFree
<1>5. sdsjoin(Append(k, t), s) = Glued(k, s) \o t
  BY ONLY <1>a, <1>3, GluedMore
<1>6. Bytes(x, 0, a) \o t = Bytes(x, 0, n)
  BY <1>a, <1>0, <1>1, <1>2, BytesGlue
<1>7. Bytes(x, 0, n) = x
  BY <1>a, <1>0 DEF Bytes
<1> QED BY <1>a, <1>0, <1>2, <1>3, <1>4, <1>5, <1>6, <1>7

LEMMA TokenMore ==
  ASSUME NEW S, NEW k \in Seq(S), NEW t \in S, NEW s, NoneIn(t, s),
         \A i \in DOMAIN k : NoneIn(k[i], s)
  PROVE  /\ Append(k, t) \in Seq(S) /\ Len(Append(k, t)) = Len(k) + 1 /\ Len(k) \in Nat
         /\ \A i \in DOMAIN Append(k, t) : NoneIn(Append(k, t)[i], s)
OBVIOUS

CutType == [on : {TRUE}, sep : Sep, j : Nat, start : Nat, slots : Nat,
            tokens : Seq(Seq(SplitByte)), done : BOOLEAN]

\* One turn of the loop, from c to d.
LEMMA FoundTurn ==
  ASSUME NEW c \in CutType, NEW d, NEW x \in Seq(SplitByte), NEW slots \in Nat, ~ c.done,
         CuttingIn(x, c), Len(c.tokens) + 1 < slots,
         \A i \in DOMAIN c.tokens : NoneIn(c.tokens[i], c.sep),
         c.j < Len(x) - (Len(c.sep) - 1), Bytes(x, c.j, c.j + Len(c.sep)) = c.sep,
         d = [c EXCEPT !.slots = slots, !.tokens = Append(c.tokens, Bytes(x, c.start, c.j)),
                       !.start = c.j + Len(c.sep), !.j = c.j + Len(c.sep)]
  PROVE  /\ d \in CutType /\ ~ d.done /\ CuttingIn(x, d)
         /\ \A i \in DOMAIN d.tokens : NoneIn(d.tokens[i], d.sep)
<1>a. c.j < Len(x) - (Len(c.sep) - 1) /\ Bytes(x, c.j, c.j + Len(c.sep)) = c.sep
  OBVIOUS
<1>b. Len(x) \in Nat
  OBVIOUS
<1>1. PICK s, k, a, j, l : s = c.sep /\ k = c.tokens /\ a = c.start /\ j = c.j /\ l = Len(s)
  OBVIOUS
<1>2. PICK t, m : t = Bytes(x, a, j) /\ m = j + l
  OBVIOUS
<1>3. s \in Sep /\ s \in Seq(SplitByte) /\ l \in Nat /\ l >= 1
  BY <1>1, SeparatorIs DEF CutType
<1>4. /\ k \in Seq(Seq(SplitByte)) /\ a \in Nat /\ j \in Nat /\ a <= j /\ m \in Nat
      /\ Glued(k, s) = Bytes(x, 0, a) /\ \A i \in a..(j - 1) : Bytes(x, i, i + l) # s
  BY <1>1, <1>2, <1>3 DEF CutType, CuttingIn
<1>5. m <= Len(x) /\ Bytes(x, j, m) = s
  <2>1. j < Len(x) - (l - 1) /\ Len(x) \in Nat /\ Bytes(x, j, j + l) = s
    BY ONLY <1>a, <1>b, <1>1
  <2> QED BY ONLY <1>2, <1>3, <1>4, <2>1
<1>6. /\ t \in Seq(SplitByte) /\ NoneIn(t, s) /\ Glued(Append(k, t), s) = Bytes(x, 0, m)
  <2>1. CutUpTo(SplitByte, x, s, k, a, j, l)
    BY <1>1, <1>3, <1>4 DEF CutUpTo
  <2> QED BY <1>2, <1>5, <2>1, TokenIs
<1>7. \A i \in DOMAIN k : NoneIn(k[i], s)
  BY <1>1
<1>8. PICK e : e = Append(k, t)
  OBVIOUS
<1>9. /\ e \in Seq(Seq(SplitByte)) /\ Len(e) = Len(k) + 1 /\ Len(k) \in Nat
      /\ \A i \in DOMAIN e : NoneIn(e[i], s)
  BY <1>4, <1>6, <1>7, <1>8, TokenMore
<1>10. d = [c EXCEPT !.slots = slots, !.tokens = e, !.start = m, !.j = m]
  BY <1>1, <1>2, <1>8
<1>11. /\ d.on = TRUE /\ d.sep = s /\ d.j = m /\ d.start = m /\ d.slots = slots /\ d.tokens = e
       /\ d.done = c.done /\ d \in CutType
  BY <1>1, <1>3, <1>4, <1>9, <1>10 DEF CutType
<1>12. m \in 0..m /\ Len(e) < slots /\ \A i : i \notin m..(m - 1)
  BY <1>1, <1>4, <1>9
<1> QED BY <1>4, <1>5, <1>6, <1>8, <1>9, <1>11, <1>12 DEF CuttingIn

LEMMA NotFoundTurn ==
  ASSUME NEW c \in CutType, NEW d, NEW x \in Seq(SplitByte), NEW slots \in Nat, ~ c.done,
         CuttingIn(x, c), Len(c.tokens) < slots,
         \A i \in DOMAIN c.tokens : NoneIn(c.tokens[i], c.sep),
         Bytes(x, c.j, c.j + Len(c.sep)) # c.sep, d = [c EXCEPT !.slots = slots, !.j = c.j + 1]
  PROVE  /\ d \in CutType /\ ~ d.done /\ CuttingIn(x, d)
         /\ \A i \in DOMAIN d.tokens : NoneIn(d.tokens[i], d.sep)
<1>1. PICK j \in Nat : j = c.j
  BY DEF CutType
<1>2. PICK m \in Nat : m = j + 1
  OBVIOUS
<1>3. d = [c EXCEPT !.slots = slots, !.j = m]
  BY <1>1, <1>2
<1>4. /\ d.on = TRUE /\ d.sep = c.sep /\ d.j = m /\ d.start = c.start /\ d.slots = slots
      /\ d.tokens = c.tokens /\ d.done = c.done /\ d \in CutType
  BY <1>3 DEF CutType
<1>5. /\ c.start \in 0..j /\ c.start \in 0..m
      /\ \A i \in c.start..(m - 1) : i = j \/ i \in c.start..(j - 1)
  BY <1>1, <1>2 DEF CuttingIn
<1> QED BY <1>1, <1>4, <1>5 DEF CuttingIn

LEMMA LastTurn ==
  ASSUME NEW c \in CutType, NEW d, NEW x \in Seq(SplitByte), ~ c.done, x # << >>,
         CuttingIn(x, c), \A i \in DOMAIN c.tokens : NoneIn(c.tokens[i], c.sep),
         ~ (c.j < Len(x) - (Len(c.sep) - 1)),
         d = [c EXCEPT !.done = TRUE, !.tokens = Append(c.tokens, Bytes(x, c.start, Len(x)))]
  PROVE  /\ d \in CutType /\ d.done /\ Len(d.tokens) <= d.slots /\ sdsjoin(d.tokens, d.sep) = x
         /\ \A i \in DOMAIN d.tokens : NoneIn(d.tokens[i], d.sep)
<1>a. ~ (c.j < Len(x) - (Len(c.sep) - 1))
  OBVIOUS
<1>1. PICK s, k, a, j, l : s = c.sep /\ k = c.tokens /\ a = c.start /\ j = c.j /\ l = Len(s)
  OBVIOUS
<1>2. PICK t : t = Bytes(x, a, Len(x))
  OBVIOUS
<1>3. s \in Sep /\ s \in Seq(SplitByte) /\ l \in Nat /\ l >= 1
  BY <1>1, SeparatorIs DEF CutType
<1>4. /\ k \in Seq(Seq(SplitByte)) /\ a \in Nat /\ j \in Nat /\ a <= j /\ a <= Len(x)
      /\ Glued(k, s) = Bytes(x, 0, a) /\ \A i \in a..(j - 1) : Bytes(x, i, i + l) # s
      /\ Len(k) < c.slots /\ c.slots \in Nat
  BY <1>1, <1>2, <1>3 DEF CutType, CuttingIn
<1>6. /\ t \in Seq(SplitByte) /\ NoneIn(t, s) /\ sdsjoin(Append(k, t), s) = x
  <2>1. CutUpTo(SplitByte, x, s, k, a, j, l)
    BY <1>1, <1>3, <1>4 DEF CutUpTo
  <2>2. ~ (j < Len(x) - (l - 1))
    BY ONLY <1>a, <1>1
  <2> QED BY ONLY <1>2, <1>4, <2>1, <2>2, LastTokenIs
<1>7. \A i \in DOMAIN k : NoneIn(k[i], s)
  BY <1>1
<1>8. PICK e : e = Append(k, t)
  OBVIOUS
<1>9. /\ e \in Seq(Seq(SplitByte)) /\ Len(e) = Len(k) + 1 /\ Len(k) \in Nat
      /\ \A i \in DOMAIN e : NoneIn(e[i], s)
  BY <1>4, <1>6, <1>7, <1>8, TokenMore
<1>10. d = [c EXCEPT !.done = TRUE, !.tokens = e]
  BY <1>1, <1>2, <1>8
<1>11. /\ d.sep = s /\ d.slots = c.slots /\ d.tokens = e /\ d.done = TRUE /\ d \in CutType
  BY <1>1, <1>9, <1>10 DEF CutType
<1>12. Len(e) <= c.slots
  BY ONLY <1>4, <1>9
<1>13. sdsjoin(e, s) = x
  BY <1>6, <1>8
<1> QED BY ONLY <1>9, <1>11, <1>12, <1>13

-----------------------------------------------------------------------------
Octet == 0..255

\* What stands for a byte in a word of each form.
Piece(mode, c) ==
    CASE mode = "quotes" -> ReprOf(c)
      [] mode = "single" -> IF c = APOSTROPHE THEN <<BACKSLASH, APOSTROPHE>> ELSE <<c>>
      [] mode = "plain" -> <<c>>

\* A byte that can be written so.
Fits(mode, c) ==
    /\ c \in Octet
    /\ mode = "single" => c \notin {0, BACKSLASH}
    /\ mode = "plain" => c # 0 /\ ~ isspace(c) /\ c \notin {QUOTE, APOSTROPHE}

Quoted == {"quotes", "single"}
QuoteOf(mode) == IF mode = "quotes" THEN QUOTE ELSE APOSTROPHE

\* The string t is in the line behind the first p bytes.
Holds(line, p, t) == p + Len(t) <= Len(line) /\ \A i \in 1..Len(t) : line[p + i] = t[i]

LEMMA EscapeIs ==
  ASSUME NEW e \in DOMAIN Escape
  PROVE  e \in Nat /\ e \notin {0, 120, BACKSLASH} /\ Escape[e] \in 7..13
<1>1. DOMAIN Escape = {110, 114, 116, 97, 98}
  BY DEF Escape
<1>2. Escape[110] = 10 /\ Escape[114] = 13 /\ Escape[116] = 9 /\ Escape[97] = 7 /\ Escape[98] = 8
  BY DEF Escape
<1> QED BY <1>1, <1>2 DEF BACKSLASH

LEMMA ReprIs ==
  ASSUME NEW c \in Octet
  PROVE  \/ c \in {BACKSLASH, QUOTE} /\ ReprOf(c) = <<BACKSLASH, c>>
         \/ \E e \in DOMAIN Escape : Escape[e] = c /\ ReprOf(c) = <<BACKSLASH, e>>
         \/ c \in 32..126 /\ c \notin {BACKSLASH, QUOTE} /\ ReprOf(c) = <<c>>
         \/ ReprOf(c) = <<BACKSLASH, 120, HexDigit(c \div 16), HexDigit(c % 16)>>
<1> DEFINE escaped == \E e \in DOMAIN Escape : Escape[e] = c
           e == CHOOSE e \in DOMAIN Escape : Escape[e] = c
           h == <<BACKSLASH, 120, HexDigit(c \div 16), HexDigit(c % 16)>>
           q == c \in {BACKSLASH, QUOTE}
           r == isprint(c) /\ c \notin {BACKSLASH, QUOTE}
<1>1. ReprOf(c) = CASE q -> <<BACKSLASH, c>> [] escaped -> <<BACKSLASH, e>> [] r -> <<c>>
                    [] OTHER -> h
  BY DEF ReprOf
<1>2. escaped => e \in DOMAIN Escape /\ Escape[e] = c
  OBVIOUS
<1>3. (q => ~ escaped) /\ (q => ~ r) /\ (escaped => ~ r)
  <2>1. escaped => c \in 7..13
    BY EscapeIs
  <2>2. q => c \notin 7..13
    BY DEF BACKSLASH, QUOTE
  <2>3. r => c \notin 7..13 /\ ~ q
    BY DEF isprint
  <2> HIDE DEF escaped, q, r
  <2> QED BY <2>1, <2>2, <2>3
<1>4. r => c \in 32..126 /\ c \notin {BACKSLASH, QUOTE}
  BY DEF isprint
<1> HIDE DEF escaped, e, h, q, r
<1>5. \/ q /\ ReprOf(c) = <<BACKSLASH, c>>
      \/ escaped /\ ReprOf(c) = <<BACKSLASH, e>>
      \/ r /\ ReprOf(c) = <<c>>
      \/ ReprOf(c) = h
  BY <1>1, <1>3
<1>6. CASE q /\ ReprOf(c) = <<BACKSLASH, c>>
  BY <1>6 DEF q
<1>7. CASE escaped /\ ReprOf(c) = <<BACKSLASH, e>>
  BY <1>2, <1>7
<1>8. CASE r /\ ReprOf(c) = <<c>>
  BY <1>4, <1>8
<1>9. CASE ReprOf(c) = h
  BY <1>9 DEF h
<1> QED BY <1>5, <1>6, <1>7, <1>8, <1>9

LEMMA HexIs ==
  ASSUME NEW d \in 0..15
  PROVE  HexDigit(d) \in Nat /\ HexDigit(d) # 0 /\ is_hex_digit(HexDigit(d))
         /\ hex_digit_to_int(HexDigit(d)) = d
<1>1. CASE d < 10
  <2>1. HexDigit(d) = 48 + d
    BY <1>1 DEF HexDigit
  <2>2. 48 + d \in 48..57 /\ (48 + d) - 48 = d
    BY <1>1
  <2> QED BY <2>1, <2>2 DEF is_hex_digit, hex_digit_to_int
<1>2. CASE ~ (d < 10)
  <2>1. HexDigit(d) = 87 + d
    BY <1>2 DEF HexDigit
  <2>2. 87 + d \in 97..102 /\ (87 + d) - 87 = d /\ 87 + d \notin 48..57
    BY <1>2
  <2> QED BY <2>1, <2>2 DEF is_hex_digit, hex_digit_to_int
<1> QED BY <1>1, <1>2

LEMMA HexDigitsIs ==
  ASSUME NEW c \in Octet
  PROVE  c \div 16 \in 0..15 /\ c % 16 \in 0..15 /\ (c \div 16) * 16 + (c % 16) = c
BY DEF Octet

\* The string t is what sdssplitargs sees from p on.
Sees(a, t) == \A i \in 1..Len(t) : At(a.line, a.p + i - 1) = t[i]

LineType == Seq(Nat)
Modes == {"blank", "plain", "quotes", "single", "end", "error"}
ArgType == [on : BOOLEAN, line : LineType, p : Nat, mode : Modes, current : Seq(Octet),
            vector : Seq(Seq(Octet)), balanced : BOOLEAN]

LEMMA HoldsIs ==
  ASSUME NEW a \in ArgType, NEW t, Len(t) \in Nat, Holds(a.line, a.p, t)
  PROVE  Sees(a, t)
<1> DEFINE line == a.line
           p == a.p
<1>1. line \in Seq(Nat) /\ p \in Nat
  BY DEF ArgType, LineType
<1>2. Holds(line, p, t)
  OBVIOUS
<1> HIDE DEF line, p
<1>3. \A i \in 1..Len(t) : At(line, p + i - 1) = t[i]
  BY <1>1, <1>2 DEF Holds, At
<1> QED BY <1>3 DEF Sees, line, p

LEMMA SeesIs ==
  ASSUME NEW a \in ArgType, NEW t, Sees(a, t), Len(t) \in Nat
  PROVE  /\ Len(t) >= 1 => At(a.line, a.p) = t[1]
         /\ Len(t) >= 2 => At(a.line, a.p + 1) = t[2]
         /\ Len(t) >= 3 => At(a.line, a.p + 2) = t[3]
         /\ Len(t) >= 4 => At(a.line, a.p + 3) = t[4]
<1>1. a.p \in Nat
  BY DEF ArgType
<1>2. a.p + 1 - 1 = a.p /\ a.p + 2 - 1 = a.p + 1 /\ a.p + 3 - 1 = a.p + 2 /\ a.p + 4 - 1 = a.p + 3
  BY <1>1
<1>3. \A i \in 1..Len(t) : At(a.line, a.p + i - 1) = t[i]
  BY DEF Sees
<1>4. Len(t) >= 1 => At(a.line, a.p + 1 - 1) = t[1]
  BY <1>3
<1>5. Len(t) >= 2 => At(a.line, a.p + 2 - 1) = t[2]
  BY <1>3
<1>6. Len(t) >= 3 => At(a.line, a.p + 3 - 1) = t[3]
  BY <1>3
<1>7. Len(t) >= 4 => At(a.line, a.p + 4 - 1) = t[4]
  BY <1>3
<1> QED BY <1>2, <1>4, <1>5, <1>6, <1>7

\* The byte c is read from the next n bytes.
Got(a, b, c, n) == b = [a EXCEPT !.current = Append(a.current, c), !.p = a.p + n]

LEMMA TakesIs ==
  ASSUME arg \in ArgType, NEW c, NEW n \in Nat, Takes(c, n), At(arg.line, arg.p + n) # 0,
         NEW m \in Nat, m = n + 1
  PROVE  Got(arg, arg', c, m)
<1> DEFINE a == [arg EXCEPT !.current = Append(@, c)]
<1>1. a.line = arg.line /\ a.p = arg.p /\ arg.p \in Nat
  BY DEF ArgType
<1>2. arg' = [a EXCEPT !.p = IF At(a.line, a.p + n) = 0 THEN a.p + n ELSE a.p + n + 1]
  BY DEF Takes, Goes
<1>3. arg' = [a EXCEPT !.p = arg.p + n + 1]
  BY <1>1, <1>2
<1>4. arg.p + n + 1 = arg.p + m
  BY <1>1
<1> QED BY <1>3, <1>4 DEF Got, ArgType

ArgTurn == SkipBlanks \/ Plain \/ InQuotes \/ InSingleQuotes

LEMMA TurnIs ==
  ASSUME arg \in ArgType, ArgTurn
  PROVE  /\ arg.mode = "plain" => Plain
         /\ arg.mode = "quotes" => InQuotes
         /\ arg.mode = "single" => InSingleQuotes
         /\ arg.mode = "blank" => SkipBlanks
         /\ arg.mode \notin {"end", "error"}
<1>1. /\ SkipBlanks => arg.mode = "blank"
      /\ Plain => arg.mode = "plain"
      /\ InQuotes => arg.mode = "quotes"
      /\ InSingleQuotes => arg.mode = "single"
  BY DEF SkipBlanks, Plain, InQuotes, InSingleQuotes, Reading
<1> QED BY <1>1 DEF ArgTurn

\* Parts of one, two and four bytes.
LEMMA SeesOne ==
  ASSUME NEW a \in ArgType, NEW x, NEW t, t = <<x>>, Sees(a, t)
  PROVE  Len(t) = 1 /\ At(a.line, a.p) = x /\ At(a.line, a.p + 0) = x
<1>1. Len(t) = 1 /\ t[1] = x
  OBVIOUS
<1>2. a.p \in Nat
  BY DEF ArgType
<1>3. At(a.line, a.p) = x
  BY <1>1, SeesIs
<1>4. a.p + 0 = a.p
  BY <1>2
<1> QED BY <1>1, <1>3, <1>4

LEMMA SeesTwo ==
  ASSUME NEW a \in ArgType, NEW x, NEW y, NEW t, t = <<x, y>>, Sees(a, t)
  PROVE  Len(t) = 2 /\ At(a.line, a.p) = x /\ At(a.line, a.p + 1) = y
<1>1. Len(t) = 2 /\ t[1] = x /\ t[2] = y
  OBVIOUS
<1>2. a \in ArgType /\ Sees(a, t)
  OBVIOUS
<1>3. Len(t) \in Nat /\ Len(t) >= 1 /\ Len(t) >= 2
  BY ONLY <1>1
<1> QED BY ONLY <1>1, <1>2, <1>3, SeesIs

LEMMA SeesFour ==
  ASSUME NEW a \in ArgType, NEW x, NEW y, NEW z, NEW w, NEW t, t = <<x, y, z, w>>, Sees(a, t)
  PROVE  /\ Len(t) = 4 /\ At(a.line, a.p) = x /\ At(a.line, a.p + 1) = y
         /\ At(a.line, a.p + 2) = z /\ At(a.line, a.p + 3) = w
<1>1. Len(t) = 4 /\ t[1] = x /\ t[2] = y /\ t[3] = z /\ t[4] = w
  OBVIOUS
<1>2. a \in ArgType /\ Sees(a, t)
  OBVIOUS
<1>3. Len(t) \in Nat /\ Len(t) >= 1 /\ Len(t) >= 2 /\ Len(t) >= 3 /\ Len(t) >= 4
  BY ONLY <1>1
<1> QED BY ONLY <1>1, <1>2, <1>3, SeesIs

LEMMA PlainPart ==
  ASSUME arg \in ArgType, Plain, NEW c, Fits("plain", c), NEW t, t = Piece("plain", c), Sees(arg, t)
  PROVE  Got(arg, arg', c, Len(t))
<1>1. t = <<c>>
  BY DEF Piece
<1>2. Len(t) = 1 /\ At(arg.line, arg.p) = c /\ At(arg.line, arg.p + 0) = c
  BY <1>1, SeesOne
<1>3. c \in Nat /\ c # 0 /\ c \notin {32, 10, 13, 9, 0, QUOTE, APOSTROPHE}
  BY DEF Fits, Octet, isspace
<1>4. Takes(c, 0)
  BY <1>2, <1>3 DEF Plain, Here
<1>5. Got(arg, arg', c, 1)
  BY <1>2, <1>3, <1>4, TakesIs
<1> QED BY <1>2, <1>5

LEMMA SinglePart ==
  ASSUME arg \in ArgType, InSingleQuotes, NEW c, Fits("single", c),
         NEW t, t = Piece("single", c), Sees(arg, t)
  PROVE  Got(arg, arg', c, Len(t))
<1>1. c \in Nat /\ c # 0 /\ c # BACKSLASH
  BY DEF Fits, Octet, isspace, BACKSLASH
<1>2. CASE c = APOSTROPHE
  <2>1. t = <<BACKSLASH, APOSTROPHE>>
    BY <1>2 DEF Piece
  <2>2. Len(t) = 2 /\ At(arg.line, arg.p) = BACKSLASH /\ At(arg.line, arg.p + 1) = APOSTROPHE
    BY <2>1, SeesTwo
  <2>3. Takes(APOSTROPHE, 1)
    BY <2>2 DEF InSingleQuotes, Here, There, BACKSLASH, APOSTROPHE
  <2>4. At(arg.line, arg.p + 1) # 0
    BY <2>2 DEF APOSTROPHE
  <2>5. Got(arg, arg', APOSTROPHE, 2)
    BY <2>3, <2>4, TakesIs
  <2> QED BY <1>2, <2>2, <2>5
<1>3. CASE c # APOSTROPHE
  <2>1. t = <<c>>
    BY <1>3 DEF Piece
  <2>2. Len(t) = 1 /\ At(arg.line, arg.p) = c /\ At(arg.line, arg.p + 0) = c
    BY <2>1, SeesOne
  <2>3. Takes(c, 0)
    BY <1>1, <1>3, <2>2 DEF InSingleQuotes, Here
  <2>4. Got(arg, arg', c, 1)
    BY <1>1, <2>2, <2>3, TakesIs
  <2> QED BY <2>2, <2>4
<1> QED BY <1>2, <1>3

\* A byte with its escape.
LEMMA EscapedPart ==
  ASSUME arg \in ArgType, InQuotes, NEW c, NEW e \in Nat, e # 0, e # 120,
         At(arg.line, arg.p) = BACKSLASH, At(arg.line, arg.p + 1) = e,
         c = IF e \in DOMAIN Escape THEN Escape[e] ELSE e
  PROVE  Got(arg, arg', c, 2)
<1>1. Here = BACKSLASH /\ There(1) = e /\ ~ IsHex
  BY DEF Here, There, IsHex
<1>2. Takes(c, 1)
  BY <1>1 DEF InQuotes, BACKSLASH, QUOTE
<1> QED BY <1>2, TakesIs

LEMMA HexPart ==
  ASSUME arg \in ArgType, InQuotes, NEW c \in Octet, At(arg.line, arg.p) = BACKSLASH,
         At(arg.line, arg.p + 1) = 120, At(arg.line, arg.p + 2) = HexDigit(c \div 16),
         At(arg.line, arg.p + 3) = HexDigit(c % 16)
  PROVE  Got(arg, arg', c, 4)
<1> DEFINE h == HexDigit(c \div 16)
           l == HexDigit(c % 16)
<1>1. /\ h # 0 /\ is_hex_digit(h) /\ hex_digit_to_int(h) = c \div 16
      /\ l # 0 /\ is_hex_digit(l) /\ hex_digit_to_int(l) = c % 16
  BY HexDigitsIs, HexIs
<1>2. Here = BACKSLASH /\ There(1) = 120 /\ There(2) = h /\ There(3) = l
  BY DEF Here, There
<1>3. c = hex_digit_to_int(h) * 16 + hex_digit_to_int(l)
  BY <1>1, HexDigitsIs
<1>4. At(arg.line, arg.p + 3) = l
  OBVIOUS
<1> HIDE DEF h, l
<1>5. IsHex
  BY <1>1, <1>2 DEF IsHex
<1>6. HexByte
  BY <1>2, <1>5 DEF InQuotes, BACKSLASH, QUOTE
<1>7. Takes(c, 3)
  BY <1>2, <1>3, <1>6 DEF HexByte
<1> QED BY <1>1, <1>4, <1>7, TakesIs

LEMMA QuotedPart ==
  ASSUME arg \in ArgType, InQuotes, NEW c, Fits("quotes", c), NEW t, t = Piece("quotes", c),
         Sees(arg, t)
  PROVE  Got(arg, arg', c, Len(t))
<1>1. c \in Octet /\ c \in Nat
  BY DEF Fits, Octet, isspace
<1>2. t = ReprOf(c)
  BY DEF Piece
<1>3. CASE c \in {BACKSLASH, QUOTE} /\ ReprOf(c) = <<BACKSLASH, c>>
  <2>1. Len(t) = 2 /\ At(arg.line, arg.p) = BACKSLASH /\ At(arg.line, arg.p + 1) = c
    BY <1>2, <1>3, SeesTwo
  <2>2. c # 0 /\ c # 120 /\ c \notin DOMAIN Escape
    BY <1>3 DEF BACKSLASH, QUOTE, Escape
  <2>3. Got(arg, arg', c, 2)
    BY <1>1, <2>1, <2>2, EscapedPart
  <2> QED BY <2>1, <2>3
<1>4. ASSUME NEW e \in DOMAIN Escape, Escape[e] = c, ReprOf(c) = <<BACKSLASH, e>>
      PROVE  Got(arg, arg', c, Len(t))
  <2>1. Len(t) = 2 /\ At(arg.line, arg.p) = BACKSLASH /\ At(arg.line, arg.p + 1) = e
    BY <1>2, <1>4, SeesTwo
  <2>2. e \in Nat /\ e # 0 /\ e # 120
    BY <1>4, EscapeIs
  <2>3. Got(arg, arg', c, 2)
    BY <1>4, <2>1, <2>2, EscapedPart
  <2> QED BY <2>1, <2>3
<1>5. CASE c \in 32..126 /\ c \notin {BACKSLASH, QUOTE} /\ ReprOf(c) = <<c>>
  <2>1. Len(t) = 1 /\ At(arg.line, arg.p) = c /\ At(arg.line, arg.p + 0) = c
    BY <1>2, <1>5, SeesOne
  <2>2. Here = c /\ c # 0 /\ ~ IsHex
    BY <1>5, <2>1 DEF Here, IsHex
  <2>3. Takes(c, 0)
    BY <1>5, <2>2 DEF InQuotes
  <2>4. Got(arg, arg', c, 1)
    BY <2>1, <2>2, <2>3, TakesIs
  <2> QED BY <2>1, <2>4
<1>6. CASE ReprOf(c) = <<BACKSLASH, 120, HexDigit(c \div 16), HexDigit(c % 16)>>
  <2>1. /\ Len(t) = 4 /\ At(arg.line, arg.p) = BACKSLASH /\ At(arg.line, arg.p + 1) = 120
        /\ At(arg.line, arg.p + 2) = HexDigit(c \div 16)
        /\ At(arg.line, arg.p + 3) = HexDigit(c % 16)
    BY <1>2, <1>6, SeesFour
  <2>2. Got(arg, arg', c, 4)
    BY <1>1, <2>1, HexPart
  <2> QED BY <2>1, <2>2
<1> QED BY <1>1, <1>3, <1>4, <1>5, <1>6, ReprIs

\* A byte of a word is read from its part.
LEMMA ReadPart ==
  ASSUME arg \in ArgType, ArgTurn, arg.mode \in {"plain"} \cup Quoted, NEW c, Fits(arg.mode, c),
         NEW t, t = Piece(arg.mode, c), Sees(arg, t)
  PROVE  Got(arg, arg', c, Len(t))
<1>1. CASE arg.mode = "plain"
  <2>1. Plain /\ Fits("plain", c) /\ t = Piece("plain", c)
    BY <1>1, TurnIs
  <2> QED BY <2>1, PlainPart
<1>2. CASE arg.mode = "quotes"
  <2>1. InQuotes /\ Fits("quotes", c) /\ t = Piece("quotes", c)
    BY <1>2, TurnIs
  <2> QED BY <2>1, QuotedPart
<1>3. CASE arg.mode = "single"
  <2>1. InSingleQuotes /\ Fits("single", c) /\ t = Piece("single", c)
    BY <1>3, TurnIs
  <2> QED BY <2>1, SinglePart
<1> QED BY <1>1, <1>2, <1>3 DEF Quoted

\* The parts of w lie one behind the other from b on, the k-th up to o[k].
Laid(line, w, m, b, o) ==
    /\ o[0] = b /\ \A k \in 0..Len(w) : o[k] \in Nat
    /\ \A k \in 1..Len(w) : /\ o[k] = o[k - 1] + Len(Piece(m, w[k]))
                            /\ Holds(line, o[k - 1], Piece(m, w[k]))

\* Blanks from f on, and the word w from b on, as far as it is open.
Opened(line, w, m, f, b, o) ==
    /\ line \in LineType /\ line # << >> /\ w \in Seq(Octet) /\ m \in {"plain"} \cup Quoted
    /\ f \in Nat /\ b \in Nat /\ f <= b
    /\ \A k \in 1..Len(w) : Fits(m, w[k])
    /\ \A i \in f..(b - 1) : At(line, i) \in {32, 9}
    /\ m \in Quoted => At(line, b) = QuoteOf(m) /\ Laid(line, w, m, b + 1, o)
    /\ m = "plain" => w # << >> /\ Laid(line, w, m, b, o)

Toward(a, w, m, f, b, o) ==
    \/ a.mode = "blank" /\ a.p \in f..b /\ a.current = << >>
    \/ a.mode = "plain" /\ a.p = b /\ a.current = << >>
    \/ a.mode = m /\ \E k \in 0..Len(w) : a.p = o[k] /\ a.current = SubSeq(w, 1, k)
AtEnd(a, w, m, o) == a.mode = m /\ a.p = o[Len(w)] /\ a.current = w
Same(a, d) ==
    /\ d \in ArgType /\ d.on = a.on /\ d.line = a.line
    /\ d.vector = a.vector /\ d.balanced = a.balanced

LEMMA OneByteMore ==
  ASSUME NEW S, NEW w \in Seq(S), NEW k \in 0..(Len(w) - 1)
  PROVE  Append(SubSeq(w, 1, k), w[k + 1]) = SubSeq(w, 1, k + 1)
OBVIOUS

LEMMA NoneRead == \A w : SubSeq(w, 1, 0) = << >>
OBVIOUS

LEMMA AllRead == \A S : \A w \in Seq(S) : SubSeq(w, 1, Len(w)) = w
OBVIOUS

LEMMA GotSame ==
  ASSUME NEW a \in ArgType, NEW d, NEW c \in Octet, NEW n \in Nat, Got(a, d, c, n)
  PROVE  Same(a, d) /\ d.mode = a.mode /\ d.p = a.p + n /\ d.current = Append(a.current, c)
<1>1. a.p + n \in Nat /\ Append(a.current, c) \in Seq(Octet)
  BY DEF ArgType
<1> QED BY <1>1 DEF Got, Same, ArgType

\* The k-th byte is read.
LEMMA InsideTurn ==
  ASSUME arg \in ArgType, ArgTurn, NEW w, NEW m, NEW f, NEW b, NEW o,
         Opened(arg.line, w, m, f, b, o), arg.mode = m,
         NEW k \in 0..(Len(w) - 1), arg.p = o[k], arg.current = SubSeq(w, 1, k)
  PROVE  Same(arg, arg') /\ Toward(arg', w, m, f, b, o)
<1> DEFINE c == w[k + 1]
           t == Piece(m, w[k + 1])
<1>1. /\ w \in Seq(Octet) /\ Len(w) \in Nat /\ m \in {"plain"} \cup Quoted /\ k + 1 \in 1..Len(w)
      /\ \A i \in 1..Len(w) : Fits(m, w[i])
      /\ \E p : Laid(arg.line, w, m, p, o)
  BY DEF Opened
<1>2. (k + 1) - 1 = k /\ k \in 0..Len(w) /\ k + 1 \in 0..Len(w)
  BY <1>1
<1>3. PICK p : Laid(arg.line, w, m, p, o)
  BY <1>1
<1>4. o[k + 1] = o[k] + Len(t) /\ Holds(arg.line, o[k], t) /\ o[k] \in Nat /\ o[k + 1] \in Nat
  BY <1>1, <1>2, <1>3 DEF Laid
<1>5. Fits(m, c) /\ c \in Octet
  BY <1>1 DEF Fits
<1>6. Len(t) \in Nat
  <2>1. m = "plain" => t = <<c>>
    BY DEF Piece
  <2>2. m = "single" => t = <<c>> \/ t = <<BACKSLASH, APOSTROPHE>>
    BY DEF Piece
  <2>3. m = "quotes" => t = ReprOf(c)
    BY DEF Piece
  <2>4. Len(ReprOf(c)) \in Nat
    <3>1. \A x, y, z, u : Len(<<x>>) \in Nat /\ Len(<<x, y>>) \in Nat /\ Len(<<x, y, z, u>>) \in Nat
      OBVIOUS
    <3> QED BY <1>5, <3>1, ReprIs
  <2>5. \A x, y : Len(<<x>>) \in Nat /\ Len(<<x, y>>) \in Nat
    OBVIOUS
  <2> HIDE DEF t, c
  <2>6. CASE m = "plain"
    BY ONLY <2>1, <2>5, <2>6
  <2>7. CASE m = "single"
    BY ONLY <2>2, <2>5, <2>7
  <2>8. CASE m = "quotes"
    BY ONLY <2>3, <2>4, <2>8
  <2> QED BY <1>1, <2>6, <2>7, <2>8 DEF Quoted
<1> HIDE DEF c, t
<1>7. Sees(arg, t)
  BY <1>4, <1>6, HoldsIs
<1>8. Got(arg, arg', c, Len(t))
  <2>1. arg.mode \in {"plain"} \cup Quoted /\ Fits(arg.mode, c) /\ t = Piece(arg.mode, c)
    BY <1>1, <1>5 DEF t, c
  <2> QED BY <1>7, <2>1, ReadPart
<1>9. /\ Same(arg, arg') /\ (arg').mode = m /\ (arg').p = o[k] + Len(t)
      /\ (arg').current = Append(SubSeq(w, 1, k), c)
  BY <1>5, <1>6, <1>8, GotSame
<1>10. (arg').current = SubSeq(w, 1, k + 1)
  BY <1>1, <1>9, OneByteMore DEF c
<1> QED BY <1>2, <1>4, <1>9, <1>10 DEF Toward

LEMMA MovedSame ==
  ASSUME NEW a \in ArgType, NEW d, NEW p \in Nat, d = [a EXCEPT !.p = p]
  PROVE  Same(a, d) /\ d.mode = a.mode /\ d.p = p /\ d.current = a.current
BY DEF Same, ArgType

\* The first byte of a word is no blank.
LEMMA BeginsWord ==
  ASSUME NEW line, NEW w, NEW m, NEW f, NEW b, NEW o, Opened(line, w, m, f, b, o)
  PROVE  At(line, b) \in Nat /\ At(line, b) # 0 /\ ~ isspace(At(line, b))
<1>1. CASE m \in Quoted
  <2>1. At(line, b) = QuoteOf(m)
    BY <1>1 DEF Opened
  <2>2. QuoteOf(m) \in {34, 39}
    BY DEF QuoteOf, QUOTE, APOSTROPHE
  <2> QED BY <2>1, <2>2 DEF isspace
<1>2. CASE m = "plain"
  <2>1. /\ line \in Seq(Nat) /\ w \in Seq(Octet) /\ w # << >> /\ b \in Nat
        /\ \A i \in 1..Len(w) : Fits("plain", w[i])
        /\ Laid(line, w, "plain", b, o)
    BY <1>2 DEF Opened, LineType
  <2>2. 1 \in 1..Len(w) /\ 1 - 1 = 0
    BY <2>1
  <2> DEFINE t == <<w[1]>>
  <2>3. o[0] = b /\ Holds(line, o[1 - 1], Piece("plain", w[1]))
    BY <2>1, <2>2 DEF Laid
  <2>4. Holds(line, b, t)
    BY <2>2, <2>3 DEF Piece
  <2>5. Len(t) = 1 /\ t[1] = w[1]
    OBVIOUS
  <2> HIDE DEF t
  <2>6. b + 1 <= Len(line) /\ line[b + 1] = w[1]
    BY <2>4, <2>5 DEF Holds
  <2>7. At(line, b) = w[1]
    BY <2>1, <2>6 DEF At
  <2>8. Fits("plain", w[1])
    BY <2>1, <2>2
  <2>9. w[1] \in Nat /\ w[1] # 0 /\ ~ isspace(w[1])
    BY <2>8 DEF Fits, Octet, isspace
  <2> QED BY <2>7, <2>9
<1> QED BY <1>1, <1>2 DEF Opened

LEMMA BlankTurn ==
  ASSUME arg \in ArgType, ArgTurn, NEW w, NEW m, NEW f, NEW b, NEW o,
         Opened(arg.line, w, m, f, b, o), arg.mode = "blank", arg.p \in f..b, arg.current = << >>
  PROVE  Same(arg, arg') /\ Toward(arg', w, m, f, b, o)
<1>1. SkipBlanks
  BY TurnIs
<1>2. f \in Nat /\ b \in Nat /\ f <= b /\ \A i \in f..(b - 1) : At(arg.line, i) \in {32, 9}
  BY DEF Opened
<1>3. CASE arg.p < b
  <2>1. isspace(Here)
    BY <1>2, <1>3 DEF Here, isspace
  <2>2. arg' = [arg EXCEPT !.p = arg.p + 1]
    BY <1>1, <2>1 DEF SkipBlanks
  <2>3. arg.p + 1 \in f..b /\ arg.p + 1 \in Nat
    BY <1>2, <1>3
  <2>4. Same(arg, arg') /\ (arg').mode = "blank" /\ (arg').p = arg.p + 1 /\ (arg').current = << >>
    BY <2>2, <2>3, MovedSame
  <2> QED BY <2>3, <2>4 DEF Toward
<1>4. CASE arg.p = b
  <2>1. ~ isspace(Here) /\ Here # 0
    BY <1>4, BeginsWord DEF Here
  <2>2. arg' = [arg EXCEPT !.mode = "plain"]
    BY <1>1, <2>1 DEF SkipBlanks
  <2>3. Same(arg, arg') /\ (arg').mode = "plain" /\ (arg').p = b /\ (arg').current = << >>
    BY <1>4, <2>2 DEF Same, ArgType, Modes
  <2> QED BY <2>3 DEF Toward
<1> QED BY <1>2, <1>3, <1>4

LEMMA QuoteTurn ==
  ASSUME arg \in ArgType, ArgTurn, NEW w, NEW m, NEW f, NEW b, NEW o,
         Opened(arg.line, w, m, f, b, o), arg.mode = "plain", arg.p = b, arg.current = << >>,
         m \in Quoted
  PROVE  Same(arg, arg') /\ Toward(arg', w, m, f, b, o)
<1>1. Plain
  BY TurnIs
<1>2. At(arg.line, b) = QuoteOf(m) /\ o[0] = b + 1 /\ b \in Nat /\ w \in Seq(Octet)
  BY DEF Opened, Laid
<1>3. arg' = Goes([arg EXCEPT !.mode = m], 0)
  <2>1. CASE m = "quotes"
    <3>1. Here = QUOTE
      BY <1>2, <2>1 DEF Here, QuoteOf
    <3> QED BY <1>1, <2>1, <3>1 DEF Plain, QUOTE, APOSTROPHE
  <2>2. CASE m = "single"
    <3>1. Here = APOSTROPHE
      BY <1>2, <2>2 DEF Here, QuoteOf
    <3> QED BY <1>1, <2>2, <3>1 DEF Plain, QUOTE, APOSTROPHE
  <2> QED BY <2>1, <2>2 DEF Quoted
<1>4. At(arg.line, b + 0) # 0
  BY <1>2 DEF QuoteOf, QUOTE, APOSTROPHE
<1> DEFINE a == [arg EXCEPT !.mode = m]
<1>5. /\ a.line = arg.line /\ a.p = b /\ a \in ArgType /\ a.mode = m /\ a.current = << >>
      /\ Same(arg, a)
  BY DEF ArgType, Modes, Quoted, Same
<1>6. arg' = Goes(a, 0) /\ b + 0 + 1 = b + 1 /\ b + 1 \in Nat
  BY <1>2, <1>3
<1> HIDE DEF a
<1>7. arg' = [a EXCEPT !.p = b + 1]
  <2>1. Goes(a, 0) = [a EXCEPT !.p = b + 0 + 1]
    BY <1>4, <1>5 DEF Goes
  <2> QED BY <1>6, <2>1
<1>9. Same(a, arg') /\ (arg').mode = m /\ (arg').p = b + 1 /\ (arg').current = << >>
  BY <1>5, <1>6, <1>7, MovedSame
<1>10. Same(arg, arg')
  BY <1>5, <1>9 DEF Same
<1>8. SubSeq(w, 1, 0) = << >> /\ 0 \in 0..Len(w)
  BY <1>2, NoneRead
<1> QED BY <1>2, <1>8, <1>9, <1>10 DEF Toward

\* A turn comes nearer to the end of the word, if it is not there.
LEMMA TowardTurn ==
  ASSUME arg \in ArgType, ArgTurn, NEW w, NEW m, NEW f, NEW b, NEW o,
         Opened(arg.line, w, m, f, b, o), Toward(arg, w, m, f, b, o), ~ AtEnd(arg, w, m, o)
  PROVE  Same(arg, arg') /\ Toward(arg', w, m, f, b, o)
<1>1. /\ w \in Seq(Octet) /\ Len(w) \in Nat /\ m \in {"plain"} \cup Quoted
      /\ m = "plain" => w # << >> /\ o[0] = b
  BY DEF Opened, Laid
<1>2. CASE arg.mode = "blank" /\ arg.p \in f..b /\ arg.current = << >>
  BY <1>2, BlankTurn
<1>3. ASSUME arg.mode = m, NEW k \in 0..Len(w), arg.p = o[k], arg.current = SubSeq(w, 1, k)
      PROVE  Same(arg, arg') /\ Toward(arg', w, m, f, b, o)
  <2>1. k # Len(w)
    BY <1>1, <1>3, AllRead DEF AtEnd
  <2>2. k \in 0..(Len(w) - 1)
    BY <1>1, <2>1
  <2> QED BY <1>3, <2>2, InsideTurn
<1>4. CASE arg.mode = "plain" /\ arg.p = b /\ arg.current = << >>
  <2>1. CASE m \in Quoted
    BY <1>4, <2>1, QuoteTurn
  <2>2. CASE m = "plain"
    <3>1. arg.p = o[0] /\ arg.current = SubSeq(w, 1, 0) /\ 0 \in 0..Len(w) /\ arg.mode = m
      BY <1>1, <1>4, <2>2, NoneRead
    <3> QED BY <1>3, <3>1
  <2> QED BY <1>1, <2>1, <2>2
<1> QED BY <1>2, <1>3, <1>4 DEF Toward

\* The word w ends at e, and a blank or nothing follows; or it never ends.
Closed(line, w, m, o, e) ==
    /\ m \in Quoted => At(line, o[Len(w)]) = QuoteOf(m) /\ e = o[Len(w)] + 1
    /\ m = "plain" => e = o[Len(w)]
    /\ At(line, e) \in {0, 32, 9}
Unclosed(line, w, m, o) ==
    /\ m \in Quoted
    /\ \/ At(line, o[Len(w)]) = 0
       \/ At(line, o[Len(w)]) = QuoteOf(m) /\ At(line, o[Len(w)] + 1) = 97

\* The word w is complete.
Taken(a, d, w, p) ==
    /\ d \in ArgType /\ d.on = a.on /\ d.line = a.line /\ d.balanced = a.balanced
    /\ d.mode = "blank" /\ d.current = << >> /\ d.p = p /\ d.vector = Append(a.vector, w)
Failing(a, d) == d \in ArgType /\ d.on = a.on /\ d.balanced = a.balanced /\ d.mode = "error"
                 /\ d.line = a.line

LEMMA TokenDoneIs ==
  ASSUME arg \in ArgType, NEW d, d = TokenDone, NEW q,
         q = IF At(arg.line, arg.p) = 0 THEN arg.p ELSE arg.p + 1
  PROVE  Taken(arg, d, arg.current, q)
<1> DEFINE v == Append(arg.vector, arg.current)
           a == [arg EXCEPT !.mode = "blank", !.vector = v, !.current = << >>]
<1>1. arg.p \in Nat /\ arg.p + 0 = arg.p /\ q \in Nat
  BY DEF ArgType
<1>2. v \in Seq(Seq(Octet)) /\ << >> \in Seq(Octet)
  BY DEF ArgType
<1> HIDE DEF v
<1>3. /\ a \in ArgType /\ a.on = arg.on /\ a.line = arg.line /\ a.balanced = arg.balanced
      /\ a.mode = "blank" /\ a.current = << >> /\ a.p = arg.p /\ a.vector = v
  BY <1>2 DEF ArgType, Modes
<1>4. d = Goes(a, 0)
  BY DEF TokenDone, v
<1> HIDE DEF a
<1>5. d = [a EXCEPT !.p = q]
  <2>1. Goes(a, 0) = [a EXCEPT !.p = IF At(a.line, a.p + 0) = 0 THEN a.p + 0 ELSE a.p + 0 + 1]
    BY DEF Goes
  <2>2. q = IF At(a.line, a.p + 0) = 0 THEN a.p + 0 ELSE a.p + 0 + 1
    BY <1>1, <1>3
  <2> QED BY <1>4, <2>1, <2>2
<1>6. Same(a, d) /\ d.mode = a.mode /\ d.p = q /\ d.current = a.current
  BY <1>1, <1>3, <1>5, MovedSame
<1> QED BY <1>3, <1>6 DEF Same, Taken, v

LEMMA FailedIs ==
  ASSUME arg \in ArgType, NEW d, d = Failed
  PROVE  Failing(arg, d)
<1>1. << >> \in Seq(Seq(Octet))
  OBVIOUS
<1> QED BY <1>1 DEF Failed, Failing, ArgType, Modes

\* What closing quotes do.
LEMMA ClosingIs ==
  ASSUME arg \in ArgType, ArgTurn, arg.mode \in Quoted
  PROVE  /\ At(arg.line, arg.p) = QuoteOf(arg.mode) => arg' = Closes
         /\ At(arg.line, arg.p) = 0 => arg' = Failed
<1>1. CASE arg.mode = "quotes"
  <2>1. InQuotes
    BY <1>1, TurnIs
  <2>2. QuoteOf(arg.mode) = QUOTE
    BY <1>1 DEF QuoteOf
  <2>3. Here = At(arg.line, arg.p)
    BY DEF Here
  <2> QED BY <2>1, <2>2, <2>3 DEF InQuotes, IsHex, QUOTE, BACKSLASH
<1>2. CASE arg.mode = "single"
  <2>1. InSingleQuotes
    BY <1>2, TurnIs
  <2>2. QuoteOf(arg.mode) = APOSTROPHE
    BY <1>2 DEF QuoteOf
  <2>3. Here = At(arg.line, arg.p)
    BY DEF Here
  <2> QED BY <2>1, <2>2, <2>3 DEF InSingleQuotes, APOSTROPHE, BACKSLASH
<1> QED BY <1>1, <1>2 DEF Quoted

LEMMA CloseTurn ==
  ASSUME arg \in ArgType, ArgTurn, NEW w, NEW m, NEW f, NEW b, NEW o, NEW e,
         Opened(arg.line, w, m, f, b, o), Closed(arg.line, w, m, o, e), AtEnd(arg, w, m, o)
  PROVE  \E q : Taken(arg, arg', w, q) /\ (q = e \/ (q = e + 1 /\ At(arg.line, e) # 0))
<1>1. arg.mode = m /\ arg.p = o[Len(w)] /\ arg.current = w /\ arg.p \in Nat
  BY DEF AtEnd, ArgType
<1>2. CASE m \in Quoted
  <2>1. At(arg.line, arg.p) = QuoteOf(m) /\ e = arg.p + 1 /\ At(arg.line, e) \in {0, 32, 9}
    BY <1>1, <1>2 DEF Closed
  <2>2. arg' = Closes
    BY <1>1, <1>2, <2>1, ClosingIs
  <2>3. There(1) \in {0, 32, 9}
    BY <2>1 DEF There
  <2>4. arg' = TokenDone
    BY <2>2, <2>3 DEF Closes, isspace
  <2>5. At(arg.line, arg.p) # 0
    BY <2>1 DEF QuoteOf, QUOTE, APOSTROPHE
  <2>6. Taken(arg, arg', w, e)
    BY <1>1, <2>1, <2>4, <2>5, TokenDoneIs
  <2> QED BY <2>6
<1>3. CASE m = "plain"
  <2>1. e = arg.p /\ At(arg.line, e) \in {0, 32, 9}
    BY <1>1, <1>3 DEF Closed
  <2>2. Plain
    BY <1>1, <1>3, TurnIs
  <2>3. arg' = TokenDone
    BY <2>1, <2>2 DEF Plain, Here, QUOTE, APOSTROPHE
  <2> DEFINE q == IF At(arg.line, arg.p) = 0 THEN arg.p ELSE arg.p + 1
  <2>4. Taken(arg, arg', w, q)
    BY <1>1, <2>3, TokenDoneIs
  <2> QED BY <2>1, <2>4
<1> QED BY <1>2, <1>3 DEF Opened

LEMMA OpenTurn ==
  ASSUME arg \in ArgType, ArgTurn, NEW w, NEW m, NEW o, Unclosed(arg.line, w, m, o),
         AtEnd(arg, w, m, o)
  PROVE  Failing(arg, arg')
<1>1. arg.mode = m /\ arg.p = o[Len(w)] /\ m \in Quoted
  BY DEF AtEnd, Unclosed
<1>2. CASE At(arg.line, arg.p) = 0
  BY <1>1, <1>2, ClosingIs, FailedIs
<1>3. CASE At(arg.line, arg.p) = QuoteOf(m) /\ At(arg.line, arg.p + 1) = 97
  <2>1. arg' = Closes
    BY <1>1, <1>3, ClosingIs
  <2>2. arg' = Failed
    BY <1>3, <2>1 DEF Closes, There, isspace
  <2> QED BY <2>2, FailedIs
<1> QED BY <1>1, <1>2, <1>3 DEF Unclosed

-----------------------------------------------------------------------------
\* What is written lies in the line.
LEMMA HoldsCat ==
  ASSUME NEW line \in Seq(Nat), NEW p \in Nat, NEW s \in Seq(Nat), NEW t \in Seq(Nat),
         Holds(line, p, s \o t)
  PROVE  Holds(line, p, s) /\ Holds(line, p + Len(s), t)
<1> DEFINE u == s \o t
<1>1. /\ Len(u) = Len(s) + Len(t) /\ Len(s) \in Nat /\ Len(t) \in Nat /\ Len(line) \in Nat
      /\ \A i \in 1..Len(s) : u[i] = s[i]
      /\ \A i \in 1..Len(t) : u[Len(s) + i] = t[i]
  OBVIOUS
<1> HIDE DEF u
<1>2. p + Len(u) <= Len(line) /\ \A i \in 1..Len(u) : line[p + i] = u[i]
  BY DEF Holds, u
<1>3. ASSUME NEW i \in 1..Len(s) PROVE line[p + i] = s[i]
  <2>1. i \in 1..Len(u)
    BY ONLY <1>1, i \in 1..Len(s)
  <2> QED BY ONLY <1>1, <1>2, <2>1, i \in 1..Len(s)
<1>4. ASSUME NEW i \in 1..Len(t) PROVE line[p + Len(s) + i] = t[i]
  <2>1. Len(s) + i \in 1..Len(u) /\ p + (Len(s) + i) = p + Len(s) + i
    BY ONLY <1>1, i \in 1..Len(t), p \in Nat
  <2>2. line[p + (Len(s) + i)] = u[Len(s) + i]
    BY ONLY <1>2, <2>1
  <2> QED BY ONLY <1>1, <2>1, <2>2, i \in 1..Len(t)
<1>5. p + Len(s) <= Len(line) /\ p + Len(s) + Len(t) <= Len(line)
  BY ONLY <1>1, <1>2, p \in Nat
<1> QED BY <1>3, <1>4, <1>5 DEF Holds

LEMMA HoldsAll == ASSUME NEW line \in Seq(Nat) PROVE Holds(line, 0, line)
BY DEF Holds

LEMMA HoldsByte ==
  ASSUME NEW line \in Seq(Nat), NEW p \in Nat, NEW x, Holds(line, p, <<x>>)
  PROVE  At(line, p) = x /\ p + 1 <= Len(line)
<1> DEFINE t == <<x>>
<1>1. Len(t) = 1 /\ t[1] = x
  OBVIOUS
<1> HIDE DEF t
<1>2. p + 1 <= Len(line) /\ line[p + 1] = x
  BY <1>1 DEF Holds, t
<1> QED BY <1>2 DEF At

PiecesOf(w, m) == [i \in DOMAIN w |-> Piece(m, w[i])]

LEMMA PartType ==
  ASSUME NEW m \in {"plain"} \cup Quoted, NEW c, Fits(m, c)
  PROVE  Piece(m, c) \in Seq(Nat)
<1>1. c \in Octet /\ c \in Nat
  BY DEF Fits, Octet, isspace
<1>2. \A x, y, z, u \in Nat :
        <<x>> \in Seq(Nat) /\ <<x, y>> \in Seq(Nat) /\ <<x, y, z, u>> \in Seq(Nat)
  OBVIOUS
<1>3. BACKSLASH \in Nat /\ APOSTROPHE \in Nat /\ 120 \in Nat
  BY DEF BACKSLASH, APOSTROPHE
<1>4. CASE m = "plain"
  BY <1>1, <1>2, <1>4 DEF Piece
<1>5. CASE m = "single"
  BY <1>1, <1>2, <1>3, <1>5 DEF Piece
<1>6. CASE m = "quotes"
  <2>1. Piece(m, c) = ReprOf(c)
    BY <1>6 DEF Piece
  <2>2. HexDigit(c \div 16) \in Nat /\ HexDigit(c % 16) \in Nat
    BY <1>1, HexDigitsIs, HexIs
  <2>3. \A e \in DOMAIN Escape : e \in Nat
    BY EscapeIs
  <2>4. ReprOf(c) = <<BACKSLASH, c>> => ReprOf(c) \in Seq(Nat)
    BY <1>1, <1>2, <1>3
  <2>5. ReprOf(c) = <<c>> => ReprOf(c) \in Seq(Nat)
    BY <1>1, <1>2
  <2>6. \A e \in DOMAIN Escape : ReprOf(c) = <<BACKSLASH, e>> => ReprOf(c) \in Seq(Nat)
    BY <1>2, <1>3, <2>3
  <2>7. ReprOf(c) = <<BACKSLASH, 120, HexDigit(c \div 16), HexDigit(c % 16)>>
          => ReprOf(c) \in Seq(Nat)
    BY <1>2, <1>3, <2>2
  <2> QED BY <1>1, <2>1, <2>4, <2>5, <2>6, <2>7, ReprIs
<1> QED BY <1>4, <1>5, <1>6 DEF Quoted

LEMMA PartsType ==
  ASSUME NEW m \in {"plain"} \cup Quoted, NEW w \in Seq(Octet), \A k \in 1..Len(w) : Fits(m, w[k])
  PROVE  /\ PiecesOf(w, m) \in Seq(Seq(Nat)) /\ Len(PiecesOf(w, m)) = Len(w)
         /\ \A k \in 1..Len(w) : PiecesOf(w, m)[k] = Piece(m, w[k])
         /\ FlattenSeq(PiecesOf(w, m)) \in Seq(Nat)
<1>1. \A k \in 1..Len(w) : Piece(m, w[k]) \in Seq(Nat)
  BY PartType
<1>2. DOMAIN w = 1..Len(w) /\ Len(w) \in Nat
  OBVIOUS
<1>3. PiecesOf(w, m) = [i \in 1..Len(w) |-> Piece(m, w[i])]
  BY <1>2 DEF PiecesOf
<1>4. PiecesOf(w, m) \in Seq(Seq(Nat)) /\ Len(PiecesOf(w, m)) = Len(w)
  BY <1>1, <1>2, <1>3
<1>5. FlattenSeq(PiecesOf(w, m)) \in Seq(Nat)
  <2>1. << >> \in Seq(Nat)
    OBVIOUS
  <2> QED BY <1>4, <2>1, FlattenMore
<1>6. \A k \in 1..Len(w) : PiecesOf(w, m)[k] = Piece(m, w[k])
  BY <1>3
<1> QED BY <1>4, <1>5, <1>6

\* The text s begins the text t.
Opens(s, t) == Len(s) <= Len(t) /\ \A i \in 1..Len(s) : t[i] = s[i]

LEMMA JoinsBegun ==
  ASSUME NEW ss \in Seq(Seq(Nat)), NEW g, NEW n, n = Len(ss), Joins(g, ss, n), NEW k \in 0..n
  PROVE  Opens(g[k], g[n])
<1>1. n \in 0..Len(ss) /\ Joins(g, ss, Len(ss))
  OBVIOUS
<1>2. Len(g[k]) <= Len(g[n])
  BY <1>1, JoinsBegin
<1>3. ASSUME NEW i \in 1..Len(g[k]) PROVE g[n][i] = g[k][i]
  BY <1>1, JoinsBegin
<1> QED BY <1>2, <1>3 DEF Opens

LEMMA LaidIs ==
  ASSUME NEW m \in {"plain"} \cup Quoted, NEW w \in Seq(Octet), \A k \in 1..Len(w) : Fits(m, w[k]),
         NEW line \in Seq(Nat), NEW b \in Nat, Holds(line, b, FlattenSeq(PiecesOf(w, m)))
  PROVE  \E o : Laid(line, w, m, b, o) /\ o[Len(w)] = b + Len(FlattenSeq(PiecesOf(w, m)))
<1> DEFINE ss == PiecesOf(w, m)
           n == Len(w)
<1>1. ss \in Seq(Seq(Nat)) /\ Len(ss) = n /\ n \in Nat /\ \A k \in 1..n : ss[k] = Piece(m, w[k])
  BY PartsType
<1>2. Holds(line, b, FlattenSeq(ss))
  OBVIOUS
<1> HIDE DEF ss, n
<1>3. PICK g : Joins(g, ss, n) /\ FlattenSeq(ss) = g[n]
  BY <1>1, FlattenIs
<1>4. \A k \in 0..n : g[k] \in Seq(Nat)
  BY <1>1, <1>3, JoinsType
<1>5. g[0] = << >> /\ \A k \in 1..n : g[k] = g[k - 1] \o ss[k]
  BY <1>3 DEF Joins
<1> DEFINE l == [k \in 0..n |-> Len(g[k])]
           o == [k \in 0..n |-> b + l[k]]
<1>6. l[0] = 0 /\ \A k \in 0..n : l[k] \in Nat /\ l[k] = Len(g[k])
  <2>1. \A k \in 0..n : Len(g[k]) \in Nat
    BY <1>4
  <2>2. 0 \in 0..n /\ Len(g[0]) = 0
    BY <1>1, <1>5
  <2> QED BY <2>1, <2>2
<1> HIDE DEF l
<1>7. o[0] = b /\ \A k \in 0..n : o[k] \in Nat /\ o[k] = b + l[k]
  BY <1>1, <1>6
<1> HIDE DEF o
<1>8. ASSUME NEW k \in 1..n
      PROVE  o[k] = o[k - 1] + Len(ss[k]) /\ Holds(line, o[k - 1], ss[k])
  <2>1. k - 1 \in 0..n /\ k \in 0..n /\ n \in 0..n
    BY <1>1
  <2>2. g[k - 1] \in Seq(Nat) /\ g[k] \in Seq(Nat)
    BY <1>4, <2>1
  <2>3. ss[k] \in Seq(Nat)
    BY <1>1
  <2>4. g[k] = g[k - 1] \o ss[k]
    BY <1>5
  <2>5. Len(g[k]) = Len(g[k - 1]) + Len(ss[k]) /\ Len(ss[k]) \in Nat
    BY ONLY <2>2, <2>3, <2>4
  <2>6. PICK j \in Nat : j = Len(ss[k])
    BY <2>5
  <2>7. l[k] = l[k - 1] + j /\ l[k] \in Nat /\ l[k - 1] \in Nat /\ l[n] \in Nat
    BY ONLY <1>6, <2>1, <2>5, <2>6
  <2>8. o[k] = b + l[k] /\ o[k - 1] = b + l[k - 1]
    BY ONLY <1>7, <2>1
  <2>9. o[k] = o[k - 1] + j
    BY ONLY <2>7, <2>8, b \in Nat
  <2>10. l[k] <= l[n] /\ \A i \in 1..l[k] : g[n][i] = g[k][i]
    <3>1. n = Len(ss) /\ k \in 0..n /\ Joins(g, ss, n) /\ ss \in Seq(Seq(Nat))
      BY <1>1, <1>3, <2>1
    <3>2. Opens(g[k], g[n])
      BY ONLY <3>1, JoinsBegun
    <3>3. l[k] = Len(g[k]) /\ l[n] = Len(g[n])
      BY ONLY <1>6, <2>1
    <3> QED BY ONLY <3>2, <3>3 DEF Opens
  <2>11. b + l[n] <= Len(line) /\ Len(line) \in Nat /\ \A i \in 1..l[n] : line[b + i] = g[n][i]
    <3>1. l[n] = Len(g[n])
      BY ONLY <1>6, <2>1
    <3> QED BY <1>2, <1>3, <3>1 DEF Holds
  <2>12. Holds(line, b, g[k])
    <3>1. b + l[k] <= Len(line)
      BY ONLY <2>7, <2>10, <2>11, b \in Nat
    <3>2. ASSUME NEW i \in 1..l[k] PROVE line[b + i] = g[k][i]
      <4>1. i \in 1..l[n]
        BY ONLY <2>7, <2>10, i \in 1..l[k]
      <4> QED BY ONLY <2>10, <2>11, <3>2, <4>1
    <3>3. l[k] = Len(g[k])
      BY ONLY <1>6, <2>1
    <3> QED BY ONLY <3>1, <3>2, <3>3 DEF Holds
  <2>13. Holds(line, b + Len(g[k - 1]), ss[k])
    BY <2>2, <2>3, <2>4, <2>12, HoldsCat
  <2>14. b + Len(g[k - 1]) = o[k - 1]
    BY ONLY <1>6, <2>1, <2>8
  <2> QED BY <2>6, <2>9, <2>13, <2>14
<1>9. Laid(line, w, m, b, o)
  BY <1>1, <1>7, <1>8 DEF Laid, n
<1>10. o[n] = b + Len(FlattenSeq(ss))
  <2>1. n \in 0..n
    BY <1>1
  <2> QED BY <1>3, <1>6, <1>7, <2>1
<1> QED BY <1>9, <1>10 DEF n, ss

Blanks(line, f, b) ==
    f \in Nat /\ b \in Nat /\ f <= b /\ \A i \in f..(b - 1) : At(line, i) \in {32, 9}

\* A word in quotes, without the closing ones.
LEMMA QuotedLies ==
  ASSUME NEW m \in Quoted, NEW w \in Seq(Octet), \A k \in 1..Len(w) : Fits(m, w[k]),
         NEW line \in Seq(Nat), line # << >>, NEW f, NEW b, Blanks(line, f, b),
         Holds(line, b, <<QuoteOf(m)>>), Holds(line, b + 1, FlattenSeq(PiecesOf(w, m)))
  PROVE  \E o : /\ Opened(line, w, m, f, b, o)
                /\ o[Len(w)] = b + 1 + Len(FlattenSeq(PiecesOf(w, m)))
<1>1. m \in {"plain"} \cup Quoted /\ m # "plain" /\ b + 1 \in Nat
  BY DEF Blanks, Quoted
<1>2. At(line, b) = QuoteOf(m)
  BY HoldsByte DEF Blanks
<1>3. PICK o : Laid(line, w, m, b + 1, o) /\ o[Len(w)] = b + 1 + Len(FlattenSeq(PiecesOf(w, m)))
  BY <1>1, LaidIs
<1>4. Opened(line, w, m, f, b, o)
  BY <1>1, <1>2, <1>3 DEF Opened, Blanks, LineType
<1> QED BY <1>3, <1>4

LEMMA FlatPlain ==
  ASSUME NEW w \in Seq(Octet), \A k \in 1..Len(w) : Fits("plain", w[k])
  PROVE  FlattenSeq(PiecesOf(w, "plain")) = w
<1> DEFINE ss == PiecesOf(w, "plain")
           n == Len(w)
<1>1. /\ ss \in Seq(Seq(Nat)) /\ Len(ss) = n /\ n \in Nat
      /\ \A k \in 1..n : ss[k] = Piece("plain", w[k])
  BY PartsType
<1>2. \A k \in 1..n : ss[k] = <<w[k]>>
  BY <1>1 DEF Piece
<1> DEFINE h == [k \in 0..n |-> SubSeq(w, 1, k)]
<1>3. Joins(h, ss, n)
  <2>1. h[0] = << >>
    BY <1>1, NoneRead
  <2>2. ASSUME NEW k \in 1..n PROVE h[k] = h[k - 1] \o ss[k]
    <3>1. k - 1 \in 0..(n - 1) /\ k - 1 + 1 = k /\ k - 1 \in 0..n /\ k \in 0..n
      BY <1>1
    <3>2. h[k] = SubSeq(w, 1, k) /\ h[k - 1] = SubSeq(w, 1, k - 1)
      BY <3>1
    <3>3. Append(SubSeq(w, 1, k - 1), w[k]) = SubSeq(w, 1, k)
      BY <3>1, OneByteMore
    <3>4. SubSeq(w, 1, k - 1) \in Seq(Octet) /\ w[k] \in Octet
      BY <3>1
    <3>5. SubSeq(w, 1, k - 1) \o <<w[k]>> = Append(SubSeq(w, 1, k - 1), w[k])
      BY <3>4
    <3> QED BY <1>2, <3>2, <3>3, <3>5
  <2> QED BY <2>1, <2>2 DEF Joins
<1>4. h[n] = w
  BY <1>1, AllRead
<1> HIDE DEF ss, h, n
<1>5. PICK g : Joins(g, ss, n) /\ FlattenSeq(ss) = g[n]
  BY <1>1, FlattenIs
<1>6. g[n] = h[n]
  BY <1>1, <1>3, <1>5, JoinsOnce
<1> QED BY <1>4, <1>5, <1>6 DEF ss

LEMMA PlainLies ==
  ASSUME NEW w \in Seq(Octet), w # << >>, \A k \in 1..Len(w) : Fits("plain", w[k]),
         NEW line \in Seq(Nat), line # << >>, NEW f, NEW b, Blanks(line, f, b), Holds(line, b, w)
  PROVE  \E o : Opened(line, w, "plain", f, b, o) /\ o[Len(w)] = b + Len(w)
<1>1. b \in Nat /\ "plain" \in {"plain"} \cup Quoted /\ "plain" \notin Quoted
  BY DEF Blanks, Quoted
<1>2. PICK o : Laid(line, w, "plain", b, o) /\ o[Len(w)] = b + Len(w)
  <2> DEFINE r == FlattenSeq(PiecesOf(w, "plain"))
  <2>1. r = w
    BY FlatPlain
  <2>2. Holds(line, b, r)
    BY <2>1
  <2>3. PICK o : Laid(line, w, "plain", b, o) /\ o[Len(w)] = b + Len(r)
    BY <1>1, <2>2, LaidIs
  <2> QED BY <2>1, <2>3
<1>3. Opened(line, w, "plain", f, b, o)
  BY <1>1, <1>2 DEF Opened, Blanks, LineType
<1> QED BY <1>2, <1>3

\* The string s is the word w in the form m.
Forms(s, w, m) ==
    /\ s \in Seq(Nat) /\ w \in Seq(Octet) /\ m \in {"plain"} \cup Quoted
    /\ \A k \in 1..Len(w) : Fits(m, w[k])
    /\ m \in Quoted => s = (<<QuoteOf(m)>> \o FlattenSeq(PiecesOf(w, m))) \o <<QuoteOf(m)>>
    /\ m = "plain" => s = w /\ w # << >>

LEMMA WordLies ==
  ASSUME NEW s, NEW w, NEW m, Forms(s, w, m), NEW line \in Seq(Nat), line # << >>,
         NEW f, NEW b, Blanks(line, f, b), Holds(line, b, s), At(line, b + Len(s)) \in {0, 32, 9}
  PROVE  \E o : Opened(line, w, m, f, b, o) /\ Closed(line, w, m, o, b + Len(s))
<1>1. w \in Seq(Octet) /\ m \in {"plain"} \cup Quoted /\ \A k \in 1..Len(w) : Fits(m, w[k])
  BY DEF Forms
<1>2. CASE m = "plain"
  <2>1. s = w /\ w # << >> /\ "plain" \notin Quoted
    BY <1>2 DEF Forms, Quoted
  <2>2. PICK o : Opened(line, w, "plain", f, b, o) /\ o[Len(w)] = b + Len(w)
    BY <1>1, <1>2, <2>1, PlainLies
  <2>3. Closed(line, w, m, o, b + Len(s))
    BY <1>2, <2>1, <2>2 DEF Closed
  <2> QED BY <1>2, <2>2, <2>3
<1>3. CASE m \in Quoted
  <2> DEFINE q == QuoteOf(m)
             r == FlattenSeq(PiecesOf(w, m))
  <2>1. q \in Nat /\ r \in Seq(Nat) /\ s = (<<q>> \o r) \o <<q>> /\ b \in Nat
    BY <1>1, <1>3, PartsType DEF QuoteOf, QUOTE, APOSTROPHE, Forms, Blanks
  <2> HIDE DEF q, r
  <2>2. <<q>> \in Seq(Nat) /\ Len(<<q>>) = 1 /\ <<q>> \o r \in Seq(Nat)
    BY <2>1
  <2>3. Len(<<q>> \o r) = 1 + Len(r) /\ Len(s) = Len(r) + 2 /\ Len(r) \in Nat
    BY <2>1
  <2>4. Holds(line, b, (<<q>> \o r) \o <<q>>)
    BY <2>1
  <2>5. Holds(line, b, <<q>> \o r) /\ Holds(line, b + Len(<<q>> \o r), <<q>>)
    BY ONLY <2>1, <2>2, <2>4, HoldsCat, line \in Seq(Nat)
  <2>6. Holds(line, b, <<q>>) /\ Holds(line, b + Len(<<q>>), r)
    BY ONLY <2>1, <2>2, <2>5, HoldsCat, line \in Seq(Nat)
  <2>7. Holds(line, b + 1, r)
    BY ONLY <2>2, <2>6
  <2>8. PICK o : Opened(line, w, m, f, b, o) /\ o[Len(w)] = b + 1 + Len(r)
    BY <1>1, <1>3, <2>6, <2>7, QuotedLies DEF q, r
  <2>9. /\ b + Len(<<q>> \o r) = b + 1 + Len(r) /\ b + Len(s) = b + 1 + Len(r) + 1
        /\ b + 1 + Len(r) \in Nat
    BY ONLY <2>1, <2>3
  <2>10. At(line, b + 1 + Len(r)) = q
    BY <2>5, <2>9, HoldsByte
  <2>11. m # "plain"
    BY <1>3 DEF Quoted
  <2>12. Closed(line, w, m, o, b + Len(s))
    BY <1>3, <2>8, <2>9, <2>10, <2>11 DEF Closed, q
  <2> QED BY <2>8, <2>12
<1> QED BY <1>1, <1>2, <1>3

\* The forms that people write are these.
LEMMA ReprForms ==
  ASSUME NEW w \in Seq(Octet)
  PROVE  Forms(sdscatrepr(<< >>, w), w, "quotes")
<1> DEFINE r == FlattenSeq(PiecesOf(w, "quotes"))
<1>1. /\ QuoteOf("quotes") = QUOTE /\ "quotes" # "plain" /\ "quotes" \in {"plain"} \cup Quoted
      /\ QUOTE \in Nat
  BY DEF QuoteOf, Quoted, QUOTE
<1>2. \A k \in 1..Len(w) : Fits("quotes", w[k])
  BY DEF Fits
<1>3. PiecesOf(w, "quotes") = [i \in DOMAIN w |-> ReprOf(w[i])]
  BY DEF PiecesOf, Piece
<1>4. sdscatrepr(<< >>, w) = ((<< >> \o <<QUOTE>>) \o r) \o <<QUOTE>>
  BY <1>3 DEF sdscatrepr
<1>5. << >> \o <<QUOTE>> = <<QUOTE>>
  OBVIOUS
<1>6. r \in Seq(Nat)
  BY <1>1, <1>2, PartsType
<1> HIDE DEF r
<1>7. sdscatrepr(<< >>, w) = (<<QUOTE>> \o r) \o <<QUOTE>>
  BY <1>4, <1>5
<1>8. (<<QUOTE>> \o r) \o <<QUOTE>> \in Seq(Nat)
  BY <1>1, <1>6
<1> QED BY <1>1, <1>2, <1>7, <1>8 DEF Forms, r

LEMMA SingleForms ==
  ASSUME NEW w \in Seq(Octet), ToSet(w) \cap {0, BACKSLASH} = {}
  PROVE  Forms(SingleQuoted(w), w, "single")
<1> DEFINE r == FlattenSeq(PiecesOf(w, "single"))
<1>1. /\ QuoteOf("single") = APOSTROPHE /\ "single" # "plain" /\ "single" \in {"plain"} \cup Quoted
      /\ APOSTROPHE \in Nat
  BY DEF QuoteOf, Quoted, APOSTROPHE
<1>2. \A k \in 1..Len(w) : Fits("single", w[k])
  BY DEF Fits, ToSet
<1>3. PiecesOf(w, "single") =
        [i \in DOMAIN w |-> IF w[i] = APOSTROPHE THEN <<BACKSLASH, APOSTROPHE>> ELSE <<w[i]>>]
  BY DEF PiecesOf, Piece
<1>4. SingleQuoted(w) = (<<APOSTROPHE>> \o r) \o <<APOSTROPHE>>
  BY <1>3 DEF SingleQuoted
<1>5. r \in Seq(Nat)
  BY <1>1, <1>2, PartsType
<1> HIDE DEF r
<1>6. (<<APOSTROPHE>> \o r) \o <<APOSTROPHE>> \in Seq(Nat)
  BY <1>1, <1>5
<1> QED BY <1>1, <1>2, <1>4, <1>6 DEF Forms, r

LEMMA PlainForms ==
  ASSUME NEW w \in Seq(Octet), w # << >>,
         \A c \in ToSet(w) : c # 0 /\ ~ isspace(c) /\ c \notin {QUOTE, APOSTROPHE}
  PROVE  Forms(w, w, "plain")
<1>1. w \in Seq(Nat)
  <2>1. Octet \subseteq Nat
    BY DEF Octet
  <2> QED BY <2>1, SeqMonotonic
<1>2. \A k \in 1..Len(w) : w[k] \in ToSet(w) /\ w[k] \in Octet
  BY DEF ToSet
<1>3. \A k \in 1..Len(w) : Fits("plain", w[k])
  BY <1>2 DEF Fits
<1>4. "plain" \notin Quoted /\ "plain" \in {"plain"} \cup Quoted
  BY DEF Quoted
<1> QED BY <1>1, <1>3, <1>4 DEF Forms

LEMMA WrittenForms ==
  ASSUME NEW w \in Seq(Octet), NEW s \in Written(w)
  PROVE  \E m : Forms(s, w, m)
<1>1. \/ s = sdscatrepr(<< >>, w)
      \/ s = SingleQuoted(w) /\ ToSet(w) \cap {0, BACKSLASH} = {}
      \/ /\ s = w /\ w # << >>
         /\ \A c \in ToSet(w) : c # 0 /\ ~ isspace(c) /\ c \notin {QUOTE, APOSTROPHE}
  BY Zenon DEF Written
<1> QED BY <1>1, ReprForms, SingleForms, PlainForms

\* The word w twice in a line.
Two(line, w, m1, o1, e, m2, b, o2) ==
    /\ Opened(line, w, m1, 0, 0, o1) /\ Closed(line, w, m1, o1, e)
    /\ Opened(line, w, m2, e, b, o2) /\ Closed(line, w, m2, o2, Len(line))
    /\ e \in Nat /\ b \in Nat /\ e < b

LEMMA FormsLong ==
  ASSUME NEW s, NEW w, NEW m, Forms(s, w, m)
  PROVE  s \in Seq(Nat) /\ Len(s) \in Nat /\ Len(s) >= 1
<1>1. CASE m = "plain"
  BY <1>1 DEF Forms
<1>2. CASE m \in Quoted
  <2>1. /\ s = (<<QuoteOf(m)>> \o FlattenSeq(PiecesOf(w, m))) \o <<QuoteOf(m)>> /\ s \in Seq(Nat)
        /\ FlattenSeq(PiecesOf(w, m)) \in Seq(Nat)
    BY <1>2, PartsType DEF Forms
  <2>2. QuoteOf(m) \in Nat
    BY DEF QuoteOf, QUOTE, APOSTROPHE
  <2> QED BY <2>1, <2>2
<1> QED BY <1>1, <1>2 DEF Forms

LEMMA TwoLie ==
  ASSUME NEW w, NEW one, NEW two, NEW m1, NEW m2, Forms(one, w, m1), Forms(two, w, m2),
         NEW between \in {<< 32 >>, << 9, 32 >>}, NEW line, line = (one \o between) \o two
  PROVE  /\ line \in Seq(Nat) /\ line # << >>
         /\ \E o1, e, b, o2 : Two(line, w, m1, o1, e, m2, b, o2)
<1>1. /\ between \in Seq(Nat) /\ Len(between) \in 1..2
      /\ \A i \in 1..Len(between) : between[i] \in {32, 9}
  <2>1. CASE between = <<32>>
    BY <2>1
  <2>2. CASE between = <<9, 32>>
    BY <2>2
  <2> QED BY <2>1, <2>2
<1>2. one \in Seq(Nat) /\ Len(one) \in Nat /\ two \in Seq(Nat) /\ Len(two) \in Nat /\ Len(two) >= 1
  BY FormsLong
<1>3. /\ one \o between \in Seq(Nat) /\ Len(one \o between) = Len(one) + Len(between)
      /\ line \in Seq(Nat) /\ Len(line) = Len(one) + Len(between) + Len(two)
  BY <1>1, <1>2
<1>4. Holds(line, 0, (one \o between) \o two)
  BY <1>3, HoldsAll
<1>5. 0 \in Nat /\ 0 + Len(one \o between) = Len(one) + Len(between)
  BY <1>1, <1>2, <1>3
<1>6. Holds(line, 0, one \o between) /\ Holds(line, Len(one) + Len(between), two)
  BY ONLY <1>2, <1>3, <1>4, <1>5, HoldsCat
<1>7. 0 + Len(one) = Len(one)
  BY <1>2
<1>8. Holds(line, 0, one) /\ Holds(line, Len(one), between)
  BY ONLY <1>1, <1>2, <1>3, <1>5, <1>6, <1>7, HoldsCat
<1> DEFINE e == Len(one)
           n == Len(between)
           b == Len(one) + Len(between)
<1>9. /\ e \in Nat /\ n \in Nat /\ n >= 1 /\ b = e + n /\ b \in Nat /\ e < b
      /\ Len(line) = b + Len(two) /\ Len(line) \in Nat /\ Len(line) >= 1
  <2>1. PICK k \in Nat : k = Len(between) /\ k >= 1
    BY ONLY <1>1
  <2>2. PICK i \in Nat : i = Len(one)
    BY <1>2
  <2>3. PICK j \in Nat : j = Len(two) /\ j >= 1
    BY <1>2
  <2>4. Len(line) = i + k + j
    BY <1>3, <2>1, <2>2, <2>3
  <2> QED BY ONLY <2>1, <2>2, <2>3, <2>4
<1> HIDE DEF e, n, b
<1>10. e + n <= Len(line) /\ \A i \in 1..n : line[e + i] \in {32, 9}
  BY <1>1, <1>8 DEF Holds, e, n
<1>11. ASSUME NEW i \in e..(b - 1) PROVE At(line, i) \in {32, 9}
  <2>1. (i + 1) - e \in 1..n /\ e + ((i + 1) - e) = i + 1 /\ i < Len(line)
    BY ONLY <1>9, <1>10, i \in e..(b - 1)
  <2>2. line[e + ((i + 1) - e)] \in {32, 9}
    BY <1>10, <2>1
  <2>3. At(line, i) = line[i + 1]
    BY <2>1 DEF At
  <2> QED BY <2>1, <2>2, <2>3
<1>12. Blanks(line, 0, 0) /\ Blanks(line, e, b) /\ At(line, e) \in {32, 9}
  <2>1. e \in e..(b - 1) /\ e <= b /\ \A i \in 0..(0 - 1) : FALSE
    BY ONLY <1>9
  <2> QED BY <1>9, <1>11, <2>1 DEF Blanks
<1>13. line # << >>
  BY ONLY <1>9
<1>14. At(line, Len(line)) = 0
  BY <1>9 DEF At
<1>15. PICK o1 : Opened(line, w, m1, 0, 0, o1) /\ Closed(line, w, m1, o1, e)
  <2>1. 0 + Len(one) = e /\ At(line, 0 + Len(one)) \in {0, 32, 9}
    BY <1>7, <1>12 DEF e
  <2> QED BY <1>3, <1>8, <1>12, <1>13, <2>1, WordLies
<1>16. PICK o2 : Opened(line, w, m2, e, b, o2) /\ Closed(line, w, m2, o2, Len(line))
  <2>1. b + Len(two) = Len(line) /\ At(line, b + Len(two)) \in {0, 32, 9} /\ Holds(line, b, two)
    BY <1>6, <1>9, <1>14 DEF b
  <2>2. PICK o : Opened(line, w, m2, e, b, o) /\ Closed(line, w, m2, o, b + Len(two))
    BY <1>3, <1>12, <1>13, <2>1, WordLies
  <2> QED BY <2>1, <2>2
<1>17. Two(line, w, m1, o1, e, m2, b, o2)
  BY <1>9, <1>15, <1>16 DEF Two
<1> QED BY <1>3, <1>13, <1>17

\* A line with the word w in it that is not closed, and perhaps another in front.
One(line, w, m, f, b, o, o1) ==
    /\ Opened(line, w, m, f, b, o) /\ Unclosed(line, w, m, o)
    /\ \/ f = 0
       \/ /\ f = 1 /\ b = 2
          /\ Opened(line, <<97>>, "plain", 0, 0, o1) /\ Closed(line, <<97>>, "plain", o1, 1)

\* The closing quote is missing, or a letter follows it.
Broken(line, quoted) == line \in {SubSeq(quoted, 1, Len(quoted) - 1), Append(quoted, 97)}
OddEnd(line, n, q) == At(line, n) = 0 \/ (At(line, n) = q /\ At(line, n + 1) = 97)

LEMMA CatIs ==
  ASSUME NEW s \in Seq(Nat), NEW t \in Seq(Nat), NEW u, u = s \o t
  PROVE  u \in Seq(Nat) /\ Len(u) = Len(s) + Len(t) /\ Len(s) \in Nat /\ Len(t) \in Nat
OBVIOUS

LEMMA HoldsBoth ==
  ASSUME NEW line \in Seq(Nat), NEW p \in Nat, NEW s \in Seq(Nat), NEW t \in Seq(Nat),
         NEW u, u = s \o t, Holds(line, p, u), NEW k, k = p + Len(s)
  PROVE  Holds(line, p, s) /\ Holds(line, k, t)
BY HoldsCat

LEMMA CutOff ==
  ASSUME NEW u \in Seq(Nat), NEW q \in Nat, NEW quoted, quoted = u \o <<q>>,
         NEW line, Broken(line, quoted)
  PROVE  line \in Seq(Nat) /\ Holds(line, 0, u) /\ OddEnd(line, Len(u), q)
<1>1. quoted \in Seq(Nat) /\ Len(quoted) = Len(u) + 1 /\ Len(u) \in Nat /\ quoted[Len(u) + 1] = q
      /\ \A i \in 1..Len(u) : quoted[i] = u[i]
  OBVIOUS
<1>2. CASE line = SubSeq(quoted, 1, Len(quoted) - 1)
  <2>1. line \in Seq(Nat) /\ Len(line) = Len(u) /\ \A i \in 1..Len(u) : line[i] = quoted[i]
    BY ONLY <1>1, <1>2
  <2>2. At(line, Len(u)) = 0
    BY ONLY <1>1, <2>1 DEF At
  <2>3. Holds(line, 0, u)
    BY ONLY <1>1, <2>1 DEF Holds
  <2> QED BY <2>1, <2>2, <2>3 DEF OddEnd
<1>3. CASE line = Append(quoted, 97)
  <2>1. /\ line \in Seq(Nat) /\ Len(line) = Len(u) + 2
        /\ line[Len(u) + 1] = q /\ line[Len(u) + 2] = 97
        /\ \A i \in 1..Len(u) : line[i] = quoted[i]
    BY ONLY <1>1, <1>3
  <2>2. At(line, Len(u)) = q /\ At(line, Len(u) + 1) = 97
    BY ONLY <1>1, <2>1 DEF At
  <2>3. Holds(line, 0, u)
    BY ONLY <1>1, <2>1 DEF Holds
  <2> QED BY <2>1, <2>2, <2>3 DEF OddEnd
<1> QED BY <1>2, <1>3 DEF Broken

LEMMA SingleOpen ==
  ASSUME NEW w \in Seq(Octet), Forms(SingleQuoted(w), w, "single"),
         NEW quoted, quoted = SingleQuoted(w), NEW line, Broken(line, quoted)
  PROVE  \E o : One(line, w, "single", 0, 0, o, o)
<1> DEFINE q == APOSTROPHE
           r == FlattenSeq(PiecesOf(w, "single"))
           h == <<q>>
           u == h \o r
<1>1. /\ QuoteOf("single") = q /\ q \in Nat
      /\ "single" \in Quoted /\ "single" \in {"plain"} \cup Quoted
      /\ \A k \in 1..Len(w) : Fits("single", w[k])
  BY DEF QuoteOf, Quoted, Forms, APOSTROPHE
<1>2. quoted = u \o <<q>>
  BY <1>1 DEF Forms
<1>3. r \in Seq(Nat)
  BY <1>1, PartsType
<1> HIDE DEF r, q
<1>4. h \in Seq(Nat) /\ Len(h) = 1
  BY <1>1
<1> HIDE DEF h
<1>5. u \in Seq(Nat) /\ Len(u) = 1 + Len(r) /\ Len(r) \in Nat /\ u = h \o r
  <2>1. u = h \o r
    OBVIOUS
  <2> HIDE DEF u
  <2> QED BY <1>3, <1>4, <2>1, CatIs
<1> HIDE DEF u
<1>6. line \in Seq(Nat) /\ Holds(line, 0, u) /\ OddEnd(line, Len(u), q)
  BY <1>1, <1>2, <1>5, CutOff
<1>7. 1 = 0 + Len(h)
  BY <1>4
<1>8. Holds(line, 0, h) /\ Holds(line, 1, r)
  BY ONLY <1>3, <1>4, <1>5, <1>6, <1>7, HoldsBoth, 0 \in Nat
<1>9. line # << >> /\ Blanks(line, 0, 0)
  <2>1. 0 + 1 <= Len(line)
    BY <1>6, <1>8, HoldsByte DEF h
  <2>2. \A i \in 0..(0 - 1) : FALSE
    OBVIOUS
  <2> QED BY <2>1, <2>2 DEF Blanks
<1>10. PICK o : Opened(line, w, "single", 0, 0, o) /\ o[Len(w)] = 0 + 1 + Len(r)
  <2>1. 0 + 1 = 1 /\ Holds(line, 0, <<QuoteOf("single")>>)
    BY <1>1, <1>8 DEF h
  <2>2. Holds(line, 0 + 1, FlattenSeq(PiecesOf(w, "single")))
    BY <1>8 DEF r
  <2> QED BY <1>1, <1>6, <1>9, <2>1, <2>2, QuotedLies DEF r
<1>11. 0 + 1 + Len(r) = Len(u)
  BY <1>5
<1>12. Unclosed(line, w, "single", o)
  BY <1>1, <1>6, <1>10, <1>11 DEF Unclosed, OddEnd
<1> QED BY <1>10, <1>12 DEF One

LEMMA QuotesOpen ==
  ASSUME NEW w \in Seq(Octet), NEW quoted, quoted = sdscatrepr(<<97, 32>>, w),
         NEW line, Broken(line, quoted)
  PROVE  \E o, o1 : One(line, w, "quotes", 1, 2, o, o1)
<1> DEFINE q == QUOTE
           r == FlattenSeq(PiecesOf(w, "quotes"))
           x == <<97>>
           y == <<32>>
           a == <<97, 32>>
           h == <<q>>
           v == a \o h
           u == v \o r
<1>1. /\ QuoteOf("quotes") = q /\ q \in Nat
      /\ "quotes" \in Quoted /\ "quotes" \in {"plain"} \cup Quoted
      /\ \A k \in 1..Len(w) : Fits("quotes", w[k])
  BY DEF QuoteOf, Quoted, Fits, QUOTE
<1>2. quoted = u \o <<q>>
  <2>1. PiecesOf(w, "quotes") = [i \in DOMAIN w |-> ReprOf(w[i])]
    BY DEF PiecesOf, Piece
  <2> QED BY <2>1 DEF sdscatrepr
<1>3. r \in Seq(Nat)
  BY <1>1, PartsType
<1>4. /\ x \in Seq(Nat) /\ Len(x) = 1 /\ x[1] = 97 /\ y \in Seq(Nat)
      /\ a \in Seq(Nat) /\ Len(a) = 2 /\ a = x \o y
  OBVIOUS
<1> HIDE DEF r, q, a, x, y
<1>5. h \in Seq(Nat) /\ Len(h) = 1
  BY <1>1
<1> HIDE DEF h
<1>6. v \in Seq(Nat) /\ Len(v) = 3 /\ v = a \o h
  <2>1. v = a \o h
    OBVIOUS
  <2> HIDE DEF v
  <2>2. a \in Seq(Nat) /\ Len(a) = 2
    BY <1>4
  <2>3. Len(v) = Len(a) + Len(h) /\ v \in Seq(Nat)
    BY ONLY <1>5, <2>1, <2>2, CatIs
  <2> QED BY ONLY <1>5, <2>1, <2>2, <2>3
<1> HIDE DEF v
<1>7. u \in Seq(Nat) /\ Len(u) = 3 + Len(r) /\ Len(r) \in Nat /\ u = v \o r
  <2>1. u = v \o r
    OBVIOUS
  <2> HIDE DEF u
  <2> QED BY <1>3, <1>6, <2>1, CatIs
<1> HIDE DEF u
<1>8. line \in Seq(Nat) /\ Holds(line, 0, u) /\ OddEnd(line, Len(u), q)
  BY <1>1, <1>2, <1>7, CutOff
<1>9. 0 \in Nat /\ 3 = 0 + Len(v) /\ 2 = 0 + Len(a) /\ 1 = 0 + Len(x)
  BY <1>4, <1>6
<1>10. Holds(line, 0, v) /\ Holds(line, 3, r)
  BY ONLY <1>3, <1>6, <1>7, <1>8, <1>9, HoldsBoth
<1>11. Holds(line, 0, a) /\ Holds(line, 2, h)
  <2>1. a \in Seq(Nat) /\ h \in Seq(Nat) /\ v = a \o h /\ Holds(line, 0, v)
    BY <1>4, <1>5, <1>6, <1>10
  <2> QED BY ONLY <1>8, <1>9, <2>1, HoldsBoth
<1>12. Holds(line, 0, x) /\ Holds(line, 1, y)
  <2>1. x \in Seq(Nat) /\ y \in Seq(Nat) /\ a = x \o y /\ Holds(line, 0, a)
    BY <1>4, <1>11
  <2> QED BY ONLY <1>8, <1>9, <2>1, HoldsBoth
<1>13. At(line, 1) = 32 /\ line # << >>
  <2>1. 0 + 1 <= Len(line)
    BY <1>8, <1>12, HoldsByte DEF x
  <2>2. At(line, 1) = 32
    BY <1>8, <1>12, HoldsByte DEF y
  <2> QED BY <2>1, <2>2
<1>14. Blanks(line, 0, 0) /\ Blanks(line, 1, 2)
  <2>1. \A i \in 0..(0 - 1) : FALSE
    OBVIOUS
  <2>2. \A i \in 1..(2 - 1) : i = 1
    OBVIOUS
  <2> QED BY <1>13, <2>1, <2>2 DEF Blanks
<1>15. PICK o : Opened(line, w, "quotes", 1, 2, o) /\ o[Len(w)] = 2 + 1 + Len(r)
  <2>1. 2 + 1 = 3 /\ Holds(line, 2, <<QuoteOf("quotes")>>)
    BY <1>1, <1>11 DEF h
  <2>2. Holds(line, 2 + 1, FlattenSeq(PiecesOf(w, "quotes")))
    BY <1>10 DEF r
  <2> QED BY <1>1, <1>8, <1>13, <1>14, <2>1, <2>2, QuotedLies DEF r
<1>16. Unclosed(line, w, "quotes", o)
  <2>1. 2 + 1 + Len(r) = Len(u)
    BY <1>7
  <2> QED BY <1>1, <1>8, <1>15, <2>1 DEF Unclosed, OddEnd
<1>17. PICK o1 : Opened(line, x, "plain", 0, 0, o1) /\ Closed(line, x, "plain", o1, 1)
  <2>1. x \in Seq(Octet) /\ x # << >>
    BY DEF Octet, x
  <2>2. Fits("plain", 97)
    BY DEF Fits, Octet, isspace, QUOTE, APOSTROPHE
  <2>3. \A k \in 1..Len(x) : Fits("plain", x[k])
    BY <1>4, <2>2
  <2>4. "plain" \in {"plain"} \cup Quoted /\ "plain" \notin Quoted
    BY DEF Quoted
  <2>5. Forms(x, x, "plain")
    BY <1>4, <2>1, <2>3, <2>4 DEF Forms
  <2>6. 0 + Len(x) = 1 /\ At(line, 0 + Len(x)) \in {0, 32, 9}
    BY <1>9, <1>13
  <2>7. \E o1 : Opened(line, x, "plain", 0, 0, o1) /\ Closed(line, x, "plain", o1, 0 + Len(x))
    BY <1>8, <1>12, <1>13, <1>14, <2>5, <2>6, WordLies
  <2> QED BY <2>6, <2>7
<1> QED BY <1>15, <1>16, <1>17 DEF One, x

-----------------------------------------------------------------------------
\* How far the word was read twice, or refused.
ReadsTwo(a, w) == \E m1, o1, e, m2, b, o2 :
    /\ Two(a.line, w, m1, o1, e, m2, b, o2)
    /\ \/ Toward(a, w, m1, 0, 0, o1) /\ a.vector = << >>
       \/ Toward(a, w, m2, e, b, o2) /\ a.vector = <<w>>
       \/ a.mode = "blank" /\ a.p = Len(a.line) /\ a.vector = <<w, w>>
       \/ a.mode = "end" /\ a.vector = <<w, w>>
ReadsOne(a, w) == \E m, f, b, o, o1 :
    /\ One(a.line, w, m, f, b, o, o1)
    /\ \/ Toward(a, w, m, f, b, o)
       \/ f = 1 /\ Toward(a, <<97>>, "plain", 0, 0, o1)
       \/ a.mode = "error"
Unwritten(a) ==
    a.line = << >> /\ a.p = 0 /\ a.mode = "blank" /\ a.current = << >> /\ a.vector = << >>

ArgState(a, w) ==
    /\ a \in ArgType
    /\ a.on => w \in Seq(Octet)
    /\ \/ Unwritten(a)
       \/ a.on /\ a.balanced /\ ReadsTwo(a, w)
       \/ a.on /\ ~ a.balanced /\ ReadsOne(a, w)

LEMMA TowardStarts ==
  ASSUME NEW a \in ArgType, NEW w, NEW m, NEW f, NEW b, NEW o,
         Opened(a.line, w, m, f, b, o), a.mode = "blank", a.current = << >>, a.p \in f..b
  PROVE  Toward(a, w, m, f, b, o)
BY DEF Toward

LEMMA TowardModes ==
  ASSUME NEW a, NEW w, NEW m, NEW f, NEW b, NEW o, Opened(a.line, w, m, f, b, o),
         Toward(a, w, m, f, b, o)
  PROVE  a.mode \notin {"error", "end"} /\ a.line # << >>
BY DEF Toward, Opened, Quoted

LEMMA Doubled ==
  ASSUME NEW S, NEW w \in S, NEW s \in Seq(S), Len(s) = 1, s[1] = w, NEW t, t = Append(s, w)
  PROVE  t = <<w, w>>
<1>1. t \in Seq(S) /\ Len(t) = 2 /\ t[1] = w /\ t[2] = w
  OBVIOUS
<1> QED BY ONLY <1>1

LEMMA Twice ==
  ASSUME NEW S, NEW w \in S, NEW s, s = <<w>>
  PROVE  Append(s, w) = <<w, w>>
<1>1. s \in Seq(S) /\ Len(s) = 1 /\ s[1] = w
  OBVIOUS
<1> QED BY <1>1, Doubled, Zenon

\* One turn with two words.
LEMMA TwoTurn ==
  ASSUME arg \in ArgType, ArgTurn, NEW w, ReadsTwo(arg, w)
  PROVE  /\ arg' \in ArgType /\ ReadsTwo(arg', w)
         /\ (arg').on = arg.on /\ (arg').balanced = arg.balanced
<1>1. PICK m1, o1, e, m2, b, o2 :
        /\ Two(arg.line, w, m1, o1, e, m2, b, o2)
        /\ \/ Toward(arg, w, m1, 0, 0, o1) /\ arg.vector = << >>
           \/ Toward(arg, w, m2, e, b, o2) /\ arg.vector = <<w>>
           \/ arg.mode = "blank" /\ arg.p = Len(arg.line) /\ arg.vector = <<w, w>>
           \/ arg.mode = "end" /\ arg.vector = <<w, w>>
  BY DEF ReadsTwo
<1>2. /\ Opened(arg.line, w, m1, 0, 0, o1) /\ Closed(arg.line, w, m1, o1, e)
      /\ Opened(arg.line, w, m2, e, b, o2) /\ Closed(arg.line, w, m2, o2, Len(arg.line))
      /\ e \in Nat /\ b \in Nat /\ e < b
  BY <1>1 DEF Two
<1>3. arg.mode # "end"
  BY TurnIs
<1> DEFINE First(a) == Toward(a, w, m1, 0, 0, o1) /\ a.vector = << >>
           Second(a) == Toward(a, w, m2, e, b, o2) /\ a.vector = <<w>>
           Third(a) == a.mode = "blank" /\ a.p = Len(a.line) /\ a.vector = <<w, w>>
           Fourth(a) == a.mode = "end" /\ a.vector = <<w, w>>
<1>4. ASSUME NEW d, d \in ArgType, d.line = arg.line, First(d) \/ Second(d) \/ Third(d) \/ Fourth(d)
      PROVE  ReadsTwo(d, w)
  BY <1>1, <1>4 DEF ReadsTwo
<1>5. CASE First(arg)
  <2>1. CASE ~ AtEnd(arg, w, m1, o1)
    <3>1. Same(arg, arg') /\ Toward(arg', w, m1, 0, 0, o1)
      BY <1>2, <1>5, <2>1, TowardTurn
    <3>2. arg' \in ArgType /\ (arg').line = arg.line /\ First(arg')
      BY <1>5, <3>1 DEF Same
    <3> QED BY <1>4, <3>1, <3>2 DEF Same
  <2>2. CASE AtEnd(arg, w, m1, o1)
    <3>1. PICK q : Taken(arg, arg', w, q) /\ (q = e \/ (q = e + 1 /\ At(arg.line, e) # 0))
      BY <1>2, <2>2, CloseTurn
    <3>2. q \in e..b
      BY <1>2, <3>1
    <3>3. Append(<< >>, w) = <<w>>
      OBVIOUS
    <3>4. /\ arg' \in ArgType /\ (arg').line = arg.line /\ (arg').mode = "blank"
          /\ (arg').current = << >> /\ (arg').p = q /\ (arg').vector = <<w>>
      BY <1>5, <3>1, <3>3 DEF Taken
    <3>5. Second(arg')
      BY <1>2, <3>2, <3>4 DEF Toward
    <3> QED BY <1>4, <3>1, <3>4, <3>5 DEF Taken
  <2> QED BY <2>1, <2>2
<1>6. CASE Second(arg)
  <2>1. CASE ~ AtEnd(arg, w, m2, o2)
    <3>1. Same(arg, arg') /\ Toward(arg', w, m2, e, b, o2)
      BY <1>2, <1>6, <2>1, TowardTurn
    <3>2. arg' \in ArgType /\ (arg').line = arg.line /\ Second(arg')
      BY <1>6, <3>1 DEF Same
    <3> QED BY <1>4, <3>1, <3>2 DEF Same
  <2>2. CASE AtEnd(arg, w, m2, o2)
    <3> DEFINE n == Len(arg.line)
    <3>1. PICK q : Taken(arg, arg', w, q) /\ (q = n \/ (q = n + 1 /\ At(arg.line, n) # 0))
      BY <1>2, <2>2, CloseTurn
    <3>2. At(arg.line, n) = 0
      BY DEF At, ArgType, LineType
    <3>3. q = n
      BY <3>1, <3>2
    <3>4. Append(<<w>>, w) = <<w, w>>
      BY w \in {w}, Twice, Zenon
    <3>5. /\ arg' \in ArgType /\ (arg').line = arg.line /\ (arg').mode = "blank"
          /\ (arg').p = n /\ (arg').vector = <<w, w>>
      BY <1>6, <3>1, <3>3, <3>4 DEF Taken
    <3>6. Third(arg')
      BY <3>5
    <3> QED BY <1>4, <3>1, <3>5, <3>6 DEF Taken
  <2> QED BY <2>1, <2>2
<1>7. CASE Third(arg)
  <2>1. SkipBlanks
    BY <1>7, TurnIs
  <2>2. Here = 0
    BY <1>7 DEF Here, At, ArgType, LineType
  <2>3. arg' = [arg EXCEPT !.mode = "end"]
    BY <2>1, <2>2 DEF SkipBlanks, isspace
  <2>4. /\ arg' \in ArgType /\ (arg').line = arg.line /\ Fourth(arg')
        /\ (arg').on = arg.on /\ (arg').balanced = arg.balanced
    BY <1>7, <2>3 DEF ArgType, Modes
  <2> QED BY <1>4, <2>4
<1> QED BY <1>1, <1>3, <1>5, <1>6, <1>7

\* One turn with a word that is not closed.
LEMMA OneTurn ==
  ASSUME arg \in ArgType, ArgTurn, NEW w, ReadsOne(arg, w)
  PROVE  /\ arg' \in ArgType /\ ReadsOne(arg', w)
         /\ (arg').on = arg.on /\ (arg').balanced = arg.balanced
<1>1. PICK m, f, b, o, o1 :
        /\ One(arg.line, w, m, f, b, o, o1)
        /\ \/ Toward(arg, w, m, f, b, o)
           \/ f = 1 /\ Toward(arg, <<97>>, "plain", 0, 0, o1)
           \/ arg.mode = "error"
  BY DEF ReadsOne
<1> DEFINE x == <<97>>
           First(a) == Toward(a, w, m, f, b, o)
           Second(a) == f = 1 /\ Toward(a, x, "plain", 0, 0, o1)
           Third(a) == a.mode = "error"
<1>2. /\ Opened(arg.line, w, m, f, b, o) /\ Unclosed(arg.line, w, m, o)
      /\ f = 1 => /\ b = 2 /\ Opened(arg.line, x, "plain", 0, 0, o1)
                  /\ Closed(arg.line, x, "plain", o1, 1)
  BY <1>1 DEF One
<1>3. First(arg) \/ Second(arg)
  BY <1>1, TurnIs
<1>4. ASSUME NEW d, d \in ArgType, d.line = arg.line, First(d) \/ Second(d) \/ Third(d)
      PROVE  ReadsOne(d, w)
  BY <1>1, <1>4 DEF ReadsOne
<1> HIDE DEF x
<1>5. CASE First(arg)
  <2>1. CASE ~ AtEnd(arg, w, m, o)
    <3>1. Same(arg, arg') /\ Toward(arg', w, m, f, b, o)
      BY <1>2, <1>5, <2>1, TowardTurn
    <3> QED BY <1>4, <3>1 DEF Same
  <2>2. CASE AtEnd(arg, w, m, o)
    <3>1. Failing(arg, arg')
      BY <1>2, <2>2, OpenTurn
    <3> QED BY <1>4, <3>1 DEF Failing
  <2> QED BY <2>1, <2>2
<1>6. CASE Second(arg)
  <2>1. CASE ~ AtEnd(arg, x, "plain", o1)
    <3>1. Same(arg, arg') /\ Toward(arg', x, "plain", 0, 0, o1)
      BY <1>2, <1>6, <2>1, TowardTurn
    <3> QED BY <1>4, <1>6, <3>1 DEF Same
  <2>2. CASE AtEnd(arg, x, "plain", o1)
    <3>1. PICK q : Taken(arg, arg', x, q) /\ (q = 1 \/ (q = 1 + 1 /\ At(arg.line, 1) # 0))
      BY <1>2, <1>6, <2>2, CloseTurn
    <3>2. q \in f..b
      BY <1>2, <1>6, <3>1
    <3>3. First(arg')
      BY <3>1, <3>2 DEF Taken, Toward
    <3> QED BY <1>4, <3>1, <3>3 DEF Taken
  <2> QED BY <2>1, <2>2
<1> QED BY <1>3, <1>5, <1>6

CutState(c, x) ==
    \/ c = IdleCut
    \/ /\ c \in CutType /\ x \in Seq(SplitByte)
       /\ \A i \in DOMAIN c.tokens : NoneIn(c.tokens[i], c.sep)
       /\ ~ c.done => CuttingIn(x, c)
       /\ c.done => Len(c.tokens) <= c.slots /\ sdsjoin(c.tokens, c.sep) = x

\* The string is cut up to start and no separator begins before j; the line is one of
\* those that people write, and the word was read as far as p.
SplitInv == CutState(cut, src) /\ ArgState(arg, src)

LEMMA StringsAre ==
  ASSUME NEW B, NEW n \in Nat, NEW s \in Strings(B, n)
  PROVE  s \in Seq(B)
<1>1. PICK k \in 0..n : s \in [1..k -> B]
  BY DEF Strings
<1> QED BY <1>1

LEMMA CutStarts ==
  ASSUME NEW x \in Seq(SplitByte), NEW s \in Sep, NEW c,
         c = [IdleCut EXCEPT !.on = TRUE, !.sep = s]
  PROVE  CutState(c, x)
<1>1. << >> \in Seq(Seq(SplitByte)) /\ Len(<< >>) = 0 /\ DOMAIN << >> = {}
  OBVIOUS
<1>2. /\ c.on = TRUE /\ c.sep = s /\ c.j = 0 /\ c.start = 0 /\ c.slots = SLOTS
      /\ c.tokens = << >> /\ c.done = FALSE /\ c \in CutType
  BY <1>1, SplitAssumption DEF IdleCut, CutType
<1>3. Glued(c.tokens, c.sep) = Bytes(x, 0, c.start)
  <2>1. Bytes(x, 0, 0) = << >>
    BY NoneRead DEF Bytes
  <2> QED BY <1>2, <2>1, NoTokens
<1>4. CuttingIn(x, c)
  <2>1. Len(x) \in Nat
    OBVIOUS
  <2>2. c.start \in 0..c.j /\ c.start <= Len(x)
    BY <1>2, <2>1
  <2>3. Len(c.tokens) < c.slots
    BY <1>1, <1>2, SplitAssumption
  <2>4. \A i \in c.start..(c.j - 1) : FALSE
    BY <1>2
  <2> QED BY <1>3, <2>2, <2>3, <2>4 DEF CuttingIn
<1> QED BY <1>1, <1>2, <1>4 DEF CutState

LEMMA IdleStates ==
  /\ IdleCut.on = FALSE /\ \A x : CutState(IdleCut, x)
  /\ IdleArg \in ArgType /\ Unwritten(IdleArg) /\ IdleArg.on = FALSE
  /\ LET a == [IdleArg EXCEPT !.on = TRUE] IN a \in ArgType /\ Unwritten(a)
<1>1. << >> \in Seq(Nat) /\ << >> \in Seq(Octet) /\ << >> \in Seq(Seq(Octet))
  OBVIOUS
<1> QED BY <1>1 DEF IdleCut, CutState, IdleArg, ArgType, LineType, Modes, Unwritten

LEMMA SplitStarts == SplitInit => SplitInv
<1> SUFFICES ASSUME SplitInit PROVE SplitInv
  OBVIOUS
<1>1. CASE /\ src \in Strings(SplitByte, MaxSplit)
           /\ cut \in {[IdleCut EXCEPT !.on = TRUE, !.sep = s] : s \in Sep}
           /\ arg = IdleArg
  <2>1. src \in Seq(SplitByte)
    BY <1>1, StringsAre, SplitAssumption
  <2>2. PICK s \in Sep : cut = [IdleCut EXCEPT !.on = TRUE, !.sep = s]
    BY <1>1
  <2>3. CutState(cut, src)
    BY <2>1, <2>2, CutStarts
  <2>4. ArgState(arg, src)
    BY <1>1, IdleStates DEF ArgState
  <2> QED BY <2>3, <2>4 DEF SplitInv
<1>2. CASE /\ src \in Strings(ArgByte, MaxArg)
           /\ cut = IdleCut
           /\ arg = [IdleArg EXCEPT !.on = TRUE]
  <2>1. src \in Seq(ArgByte) /\ ArgByte \subseteq Octet
    BY <1>2, StringsAre, SplitAssumption DEF Octet
  <2>2. src \in Seq(Octet)
    BY <2>1, SeqMonotonic
  <2>3. arg \in ArgType /\ Unwritten(arg)
    BY <1>2, IdleStates
  <2> QED BY <1>2, <2>2, <2>3, IdleStates DEF SplitInv, ArgState
<1> QED BY <1>1, <1>2 DEF SplitInit

\* What one turn of sdssplitlen leaves.
LEMMA CutKeeps ==
  ASSUME CutState(cut, src), FoundSeparator \/ NoSeparator \/ FinalToken
  PROVE  CutState(cut', src')
<1>1. cut.on /\ ~ cut.done /\ src' = src
  BY DEF FoundSeparator, NoSeparator, FinalToken, Searching
<1>2. /\ cut \in CutType /\ src \in Seq(SplitByte) /\ CuttingIn(src, cut)
      /\ \A i \in DOMAIN cut.tokens : NoneIn(cut.tokens[i], cut.sep)
  BY <1>1, IdleStates DEF CutState
<1>3. cut.slots \in Nat /\ Len(cut.tokens) \in Nat /\ Len(cut.tokens) < cut.slots
  BY <1>2 DEF CutType, CuttingIn
<1>4. Slots \in Nat /\ Len(cut.tokens) + 1 < Slots /\ Len(cut.tokens) < Slots
  BY <1>3 DEF Slots
<1>5. CASE FoundSeparator
  <2>1. cut.j < Len(src) - (Len(cut.sep) - 1) /\ Bytes(src, cut.j, cut.j + Len(cut.sep)) = cut.sep
    BY <1>5 DEF FoundSeparator, Searching, IsSeparator
  <2>2. cut' = [cut EXCEPT !.slots = Slots,
                           !.tokens = Append(cut.tokens, Bytes(src, cut.start, cut.j)),
                           !.start = cut.j + Len(cut.sep), !.j = cut.j + Len(cut.sep)]
    BY <1>5 DEF FoundSeparator
  <2>3. /\ cut' \in CutType /\ ~ (cut').done /\ CuttingIn(src, cut')
        /\ \A i \in DOMAIN (cut').tokens : NoneIn((cut').tokens[i], (cut').sep)
    BY <1>1, <1>2, <1>4, <2>1, <2>2, FoundTurn
  <2> QED BY <1>1, <1>2, <2>3 DEF CutState
<1>6. CASE NoSeparator
  <2>1. Bytes(src, cut.j, cut.j + Len(cut.sep)) # cut.sep
    BY <1>6 DEF NoSeparator, IsSeparator
  <2>2. cut' = [cut EXCEPT !.slots = Slots, !.j = cut.j + 1]
    BY <1>6 DEF NoSeparator
  <2>3. /\ cut' \in CutType /\ ~ (cut').done /\ CuttingIn(src, cut')
        /\ \A i \in DOMAIN (cut').tokens : NoneIn((cut').tokens[i], (cut').sep)
    BY <1>1, <1>2, <1>4, <2>1, <2>2, NotFoundTurn
  <2> QED BY <1>1, <1>2, <2>3 DEF CutState
<1>7. CASE FinalToken /\ src # << >>
  <2>1. ~ (cut.j < Len(src) - (Len(cut.sep) - 1))
    BY <1>1, <1>7 DEF FinalToken, Searching
  <2>2. cut' = [cut EXCEPT !.done = TRUE,
                           !.tokens = Append(cut.tokens, Bytes(src, cut.start, Len(src)))]
    BY <1>7 DEF FinalToken
  <2>3. /\ cut' \in CutType /\ (cut').done /\ Len((cut').tokens) <= (cut').slots
        /\ sdsjoin((cut').tokens, (cut').sep) = src
        /\ \A i \in DOMAIN (cut').tokens : NoneIn((cut').tokens[i], (cut').sep)
    BY <1>1, <1>2, <1>7, <2>1, <2>2, LastTurn
  <2> QED BY <1>1, <1>2, <2>3 DEF CutState
<1>8. CASE FinalToken /\ src = << >>
  <2>1. cut' = [cut EXCEPT !.done = TRUE, !.tokens = << >>]
    BY <1>8 DEF FinalToken
  <2>2. << >> \in Seq(Seq(SplitByte)) /\ Len(<< >>) = 0 /\ DOMAIN << >> = {}
    OBVIOUS
  <2>3. /\ cut' \in CutType /\ (cut').done /\ (cut').tokens = << >> /\ (cut').sep = cut.sep
        /\ (cut').slots = cut.slots
    BY <1>2, <2>1, <2>2 DEF CutType
  <2>4. sdsjoin((cut').tokens, (cut').sep) = src
    BY <1>8, <2>3, NoTokens
  <2>5. Len((cut').tokens) <= (cut').slots
    BY <1>3, <2>2, <2>3
  <2> QED BY <1>1, <1>2, <2>2, <2>3, <2>4, <2>5 DEF CutState
<1> QED BY <1>5, <1>6, <1>7, <1>8

LEMMA FirstOf ==
  ASSUME NEW h \in Seq(Nat), NEW r \in Seq(Nat), Len(h) >= 1
  PROVE  h \o r \in Seq(Nat) /\ Len(h \o r) >= 1 /\ (h \o r)[1] = h[1]
OBVIOUS

LEMMA FirstIs ==
  ASSUME NEW h \in Seq(Nat), NEW r \in Seq(Nat), NEW t \in Seq(Nat), Len(h) = 1
  PROVE  ((h \o r) \o t)[1] = h[1]
<1>1. Len(h) >= 1
  OBVIOUS
<1>2. h \o r \in Seq(Nat) /\ Len(h \o r) >= 1 /\ (h \o r)[1] = h[1]
  BY <1>1, FirstOf, Zenon
<1>3. ((h \o r) \o t)[1] = (h \o r)[1]
  BY <1>2, FirstOf, Zenon
<1> QED BY <1>2, <1>3, Zenon

\* Only words in single quotes begin with one.
LEMMA FormsBegins ==
  ASSUME NEW s, NEW w, NEW m, Forms(s, w, m), s[1] = APOSTROPHE
  PROVE  m = "single"
<1>1. /\ s \in Seq(Nat) /\ w \in Seq(Octet) /\ m \in {"plain"} \cup Quoted
      /\ \A k \in 1..Len(w) : Fits(m, w[k])
  BY DEF Forms
<1>2. m # "plain"
  <2>1. SUFFICES ASSUME m = "plain" PROVE FALSE
    OBVIOUS
  <2>2. s = w /\ w # << >>
    BY <2>1 DEF Forms
  <2>3. 1 \in 1..Len(w)
    BY <1>1, <2>2
  <2>4. Fits("plain", w[1])
    BY <1>1, <2>1, <2>3
  <2> QED BY <2>2, <2>4 DEF Fits
<1>3. m # "quotes"
  <2>1. SUFFICES ASSUME m = "quotes" PROVE FALSE
    OBVIOUS
  <2> DEFINE r == FlattenSeq(PiecesOf(w, m))
             h == <<QUOTE>>
  <2>2. m \in Quoted /\ QuoteOf(m) = QUOTE /\ QUOTE \in Nat /\ QUOTE # APOSTROPHE
    BY <2>1 DEF Quoted, QuoteOf, QUOTE, APOSTROPHE
  <2>3. s = (h \o r) \o h /\ r \in Seq(Nat)
    BY <1>1, <2>2, PartsType DEF Forms
  <2>4. h \in Seq(Nat) /\ Len(h) = 1 /\ h[1] = QUOTE
    BY <2>2
  <2> HIDE DEF r, h
  <2>5. s[1] = h[1]
    BY <2>3, <2>4, FirstIs, Zenon
  <2> QED BY <2>2, <2>4, <2>5
<1> QED BY <1>1, <1>2, <1>3 DEF Quoted

LEMMA SingleIs ==
  ASSUME NEW w \in Seq(Octet), SingleQuoted(w) \in Written(w)
  PROVE  Forms(SingleQuoted(w), w, "single")
<1> DEFINE ss == [i \in DOMAIN w |->
                    IF w[i] = APOSTROPHE THEN <<BACKSLASH, APOSTROPHE>> ELSE <<w[i]>>]
           r == FlattenSeq(ss)
           h == <<APOSTROPHE>>
<1>1. PICK m : Forms(SingleQuoted(w), w, m)
  BY WrittenForms
<1>2. SingleQuoted(w) = (h \o r) \o h
  BY DEF SingleQuoted
<1>3. h \in Seq(Nat) /\ Len(h) = 1 /\ h[1] = APOSTROPHE
  BY DEF APOSTROPHE
<1>4. r \in Seq(Nat)
  <2>1. \A x, y \in Nat : <<x>> \in Seq(Nat) /\ <<x, y>> \in Seq(Nat)
    OBVIOUS
  <2>2. BACKSLASH \in Nat /\ APOSTROPHE \in Nat
    BY DEF BACKSLASH, APOSTROPHE
  <2>3. \A i \in DOMAIN w : w[i] \in Nat
    <3>1. Octet \subseteq Nat
      BY DEF Octet
    <3>2. \A i \in DOMAIN w : w[i] \in Octet
      OBVIOUS
    <3> QED BY <3>1, <3>2
  <2>4. \A i \in DOMAIN w : ss[i] \in Seq(Nat)
    BY <2>1, <2>2, <2>3
  <2>5. DOMAIN w = 1..Len(w) /\ Len(w) \in Nat
    OBVIOUS
  <2>6. ss \in [1..Len(w) -> Seq(Nat)]
    BY <2>4, <2>5
  <2>7. ss \in Seq(Seq(Nat)) /\ << >> \in Seq(Nat)
    BY <2>5, <2>6
  <2> HIDE DEF ss
  <2> QED BY <2>7, FlattenMore
<1> HIDE DEF r, h
<1>5. SingleQuoted(w)[1] = APOSTROPHE
  <2>1. ((h \o r) \o h)[1] = h[1]
    BY <1>3, <1>4, FirstIs, Zenon
  <2> QED BY <1>2, <1>3, <2>1, Zenon
<1>6. m = "single"
  BY <1>1, <1>5, FormsBegins
<1> QED BY <1>1, <1>6

LEMMA LineWritten ==
  ASSUME arg \in ArgType, Unwritten(arg), NEW line \in Seq(Nat), line # << >>, NEW bal \in BOOLEAN,
         arg' = [arg EXCEPT !.line = line, !.balanced = bal]
  PROVE  /\ arg' \in ArgType /\ (arg').line = line /\ (arg').balanced = bal /\ (arg').on = arg.on
         /\ (arg').mode = "blank" /\ (arg').p = 0 /\ (arg').current = << >> /\ (arg').vector = << >>
BY DEF ArgType, Unwritten, LineType

LEMMA WriteKeeps ==
  ASSUME ArgState(arg, src), WriteLine
  PROVE  ArgState(arg', src')
<1>1. arg.on /\ arg.line = << >> /\ src' = src /\ src \in Seq(Octet) /\ arg \in ArgType
  BY DEF WriteLine, ArgState
<1>2. Unwritten(arg)
  BY <1>1 DEF ArgState, ReadsTwo, Two, ReadsOne, One, Opened
<1>3. PICK one \in Written(src), two \in Written(src), between \in {<<32>>, <<9, 32>>} :
        arg' = [arg EXCEPT !.line = (one \o between) \o two, !.balanced = TRUE]
  BY DEF WriteLine
<1>4. PICK line : line = (one \o between) \o two
  OBVIOUS
<1>5. PICK m1 : Forms(one, src, m1)
  BY <1>1, WrittenForms
<1>6. PICK m2 : Forms(two, src, m2)
  BY <1>1, WrittenForms
<1>7. /\ line \in Seq(Nat) /\ line # << >>
      /\ \E o1, e, b, o2 : Two(line, src, m1, o1, e, m2, b, o2)
  BY <1>4, <1>5, <1>6, TwoLie
<1>8. PICK o1, e, b, o2 : Two(line, src, m1, o1, e, m2, b, o2)
  BY <1>7
<1>9. /\ arg' \in ArgType /\ (arg').line = line /\ (arg').balanced = TRUE /\ (arg').on = arg.on
      /\ (arg').mode = "blank" /\ (arg').p = 0 /\ (arg').current = << >> /\ (arg').vector = << >>
  BY <1>1, <1>2, <1>3, <1>4, <1>7, LineWritten
<1>10. Toward(arg', src, m1, 0, 0, o1)
  BY <1>9 DEF Toward
<1>11. ReadsTwo(arg', src)
  BY <1>8, <1>9, <1>10 DEF ReadsTwo
<1> QED BY <1>1, <1>9, <1>11 DEF ArgState

LEMMA WriteUnbalancedKeeps ==
  ASSUME ArgState(arg, src), WriteUnbalanced
  PROVE  ArgState(arg', src')
<1>1. arg.on /\ arg.line = << >> /\ src' = src /\ src \in Seq(Octet) /\ arg \in ArgType
  BY DEF WriteUnbalanced, ArgState
<1>2. Unwritten(arg)
  BY <1>1 DEF ArgState, ReadsTwo, Two, ReadsOne, One, Opened
<1>3. PICK quoted \in {sdscatrepr(<<97, 32>>, src)} \cup (Written(src) \cap {SingleQuoted(src)}) :
        \E line \in {SubSeq(quoted, 1, Len(quoted) - 1), Append(quoted, 97)} :
            arg' = [arg EXCEPT !.line = line, !.balanced = FALSE]
  BY DEF WriteUnbalanced
<1>4. PICK line : Broken(line, quoted) /\ arg' = [arg EXCEPT !.line = line, !.balanced = FALSE]
  BY <1>3 DEF Broken
<1>5. \E m, f, b, o, o1 : One(line, src, m, f, b, o, o1) /\ f \in {0, 1} /\ (f = 0 => b = 0)
  <2>1. CASE quoted = sdscatrepr(<<97, 32>>, src)
    <3>1. PICK o, o1 : One(line, src, "quotes", 1, 2, o, o1)
      BY <1>1, <1>4, <2>1, QuotesOpen
    <3> QED BY <3>1
  <2>2. CASE quoted = SingleQuoted(src) /\ SingleQuoted(src) \in Written(src)
    <3>1. PICK o : One(line, src, "single", 0, 0, o, o)
      BY <1>1, <1>4, <2>2, SingleIs, SingleOpen
    <3> QED BY <3>1
  <2> QED BY <1>3, <2>1, <2>2
<1>6. PICK m, f, b, o, o1 : One(line, src, m, f, b, o, o1) /\ f \in {0, 1} /\ (f = 0 => b = 0)
  BY <1>5
<1>7. line \in Seq(Nat) /\ line # << >>
  BY <1>6 DEF One, Opened, LineType
<1>8. /\ arg' \in ArgType /\ (arg').line = line /\ (arg').balanced = FALSE /\ (arg').on = arg.on
      /\ (arg').mode = "blank" /\ (arg').p = 0 /\ (arg').current = << >>
  BY <1>1, <1>2, <1>4, <1>7, LineWritten
<1>9. CASE f = 0
  <2>1. Toward(arg', src, m, f, b, o)
    BY <1>6, <1>8, <1>9 DEF Toward
  <2>2. ReadsOne(arg', src)
    BY <1>6, <1>8, <2>1 DEF ReadsOne
  <2> QED BY <1>1, <1>8, <2>2 DEF ArgState
<1>10. CASE f = 1
  <2>1. Toward(arg', <<97>>, "plain", 0, 0, o1)
    BY <1>8 DEF Toward
  <2>2. ReadsOne(arg', src)
    BY <1>6, <1>8, <1>10, <2>1 DEF ReadsOne
  <2> QED BY <1>1, <1>8, <2>2 DEF ArgState
<1> QED BY <1>6, <1>9, <1>10

LEMMA TurnKeeps ==
  ASSUME ArgState(arg, src), ArgTurn
  PROVE  ArgState(arg', src')
<1>1. arg.on /\ arg.line # << >> /\ src' = src /\ arg \in ArgType
  BY DEF ArgTurn, SkipBlanks, Plain, InQuotes, InSingleQuotes, Reading, ArgState
<1>2. src \in Seq(Octet)
  BY <1>1 DEF ArgState
<1>3. CASE arg.balanced /\ ReadsTwo(arg, src)
  BY <1>1, <1>2, <1>3, TwoTurn DEF ArgState
<1>4. CASE ~ arg.balanced /\ ReadsOne(arg, src)
  BY <1>1, <1>2, <1>4, OneTurn DEF ArgState
<1> QED BY <1>1, <1>3, <1>4 DEF ArgState, Unwritten

LEMMA SplitKeeps == SplitInv /\ [SplitNext]_splitVars => SplitInv'
<1> SUFFICES ASSUME SplitInv, [SplitNext]_splitVars PROVE SplitInv'
  OBVIOUS
<1>1. CutState(cut, src) /\ ArgState(arg, src)
  BY DEF SplitInv
<1>2. CASE FoundSeparator \/ NoSeparator \/ FinalToken
  <2>1. CutState(cut', src')
    BY <1>1, <1>2, CutKeeps
  <2>2. arg' = arg /\ src' = src
    BY <1>2 DEF FoundSeparator, NoSeparator, FinalToken
  <2> QED BY <1>1, <2>1, <2>2 DEF SplitInv
<1>3. CASE WriteLine
  <2>1. ArgState(arg', src')
    BY <1>1, <1>3, WriteKeeps
  <2>2. cut' = cut /\ src' = src
    BY <1>3 DEF WriteLine
  <2> QED BY <1>1, <2>1, <2>2 DEF SplitInv
<1>4. CASE WriteUnbalanced
  <2>1. ArgState(arg', src')
    BY <1>1, <1>4, WriteUnbalancedKeeps
  <2>2. cut' = cut /\ src' = src
    BY <1>4 DEF WriteUnbalanced
  <2> QED BY <1>1, <2>1, <2>2 DEF SplitInv
<1>5. CASE ArgTurn
  <2>1. ArgState(arg', src')
    BY <1>1, <1>5, TurnKeeps
  <2>2. cut' = cut /\ src' = src
    BY <1>5 DEF ArgTurn, SkipBlanks, Plain, InQuotes, InSingleQuotes
  <2> QED BY <1>1, <2>1, <2>2 DEF SplitInv
<1>6. CASE UNCHANGED splitVars
  BY <1>1, <1>6 DEF SplitInv, splitVars
<1> QED BY <1>2, <1>3, <1>4, <1>5, <1>6 DEF SplitNext, ArgTurn

LEMMA SplitMeans == SplitInv => SplitsUndo
<1> SUFFICES ASSUME SplitInv PROVE SplitsUndo
  OBVIOUS
<1>1. CutState(cut, src) /\ ArgState(arg, src)
  BY DEF SplitInv
<1>2. /\ Len(cut.tokens) <= cut.slots
      /\ cut.done =>
          /\ sdsjoin(cut.tokens, cut.sep) = src
          /\ \A i \in DOMAIN cut.tokens : NoneIn(cut.tokens[i], cut.sep)
  <2>1. CASE cut = IdleCut
    <3>1. Len(<< >>) = 0
      OBVIOUS
    <3>2. cut.tokens = << >> /\ cut.slots = SLOTS /\ cut.done = FALSE
      BY <2>1 DEF IdleCut
    <3> QED BY <3>1, <3>2, SplitAssumption
  <2>2. CASE cut \in CutType
    <3>1. cut.slots \in Nat /\ Len(cut.tokens) \in Nat /\ cut # IdleCut
      <4>1. cut.slots \in Nat /\ cut.tokens \in Seq(Seq(SplitByte)) /\ cut.on = TRUE
        BY <2>2 DEF CutType
      <4>2. Len(cut.tokens) \in Nat
        BY <4>1
      <4>3. cut # IdleCut
        BY <4>1, IdleStates
      <4> QED BY <4>1, <4>2, <4>3
    <3>2. ~ cut.done => Len(cut.tokens) < cut.slots
      BY <1>1, <3>1 DEF CutState, CuttingIn
    <3> QED BY <1>1, <3>1, <3>2 DEF CutState
  <2> QED BY <1>1, <2>1, <2>2 DEF CutState
<1>3. arg.mode = "error" => ~ arg.balanced
  BY <1>1, TowardModes DEF ArgState, Unwritten, ReadsTwo, Two
<1>4. arg.mode = "end" => arg.balanced /\ arg.vector = <<src, src>>
  <2>1. Unwritten(arg) => arg.mode # "end"
    BY DEF Unwritten
  <2>2. ReadsTwo(arg, src) /\ arg.mode = "end" => arg.vector = <<src, src>>
    BY TowardModes DEF ReadsTwo, Two
  <2>3. ReadsOne(arg, src) => arg.mode # "end"
    BY TowardModes DEF ReadsOne, One
  <2> QED BY <1>1, <2>1, <2>2, <2>3 DEF ArgState
<1> QED BY <1>2, <1>3, <1>4 DEF SplitsUndo, NoneIn

\* Joining what sdssplitlen split gives the string again, no token holds the separator and none
\* is stored where there is no room; sdssplitargs reads back what sdscatrepr and people write, and
\* refuses exactly the unbalanced lines; for any bytes, separators and lengths.
THEOREM SplitsAlwaysUndo == SplitSpec => []SplitsUndo
<1>1. SplitInv /\ [SplitNext]_splitVars => SplitInv'
  BY SplitKeeps
<1> QED BY <1>1, SplitStarts, SplitMeans, PTL DEF SplitSpec
=============================================================================
