-------------------------- MODULE PersistenceProof --------------------------
(***************************************************************************)
(* The data file survives every interruption, for any keys, values and     *)
(* memory contents, as long as the lines fill the buffer of getline() and  *)
(* no string has a line end or a NUL in it (FullLines).                    *)
(***************************************************************************)
EXTENDS Persistence, SequenceTheorems, WellFoundedInduction, TLAPS

Byte == DOMAIN ByteRank

-----------------------------------------------------------------------------
(***************************************************************************)
(* Texts: files that consist of lines of n bytes from a set X              *)
(***************************************************************************)
LineStart(f, p) == p = 1 \/ f[p - 1] = NL

\* x occurs in f at p.
At(f, p, x) ==
    p + Len(x) - 1 <= Len(f) /\ \A i \in 1..Len(x) : f[p + i - 1] = x[i]

\* Some line of f begins with y.
Has(f, y) == \E p \in 1..Len(f) : LineStart(f, p) /\ At(f, p, y)

\* No two lines do.
Once(f, y) ==
    \A p, q \in 1..Len(f) :
        LineStart(f, p) /\ LineStart(f, q) /\ At(f, p, y) /\ At(f, q, y) => p = q

AreLines(X, n) ==
    \A x \in X : /\ x \in Seq(Byte) /\ Len(x) = n /\ x[n] = NL
                 /\ \A i \in 1..(n - 1) : x[i] # NL

Text(f, X) ==
    /\ f \in Seq(Byte)
    /\ f # << >> => f[Len(f)] = NL
    /\ \A p \in 1..Len(f) : LineStart(f, p) => \E x \in X : At(f, p, x)

LEMMA FirstIsLeast ==
  ASSUME NEW S, S \subseteq Nat, S # {}
  PROVE  First(S) \in S /\ \A j \in S : First(S) <= j
<1>1. PICK m \in S : \A y \in S : ~ (<<y, m>> \in OpToRel(<, Nat))
  BY NatLessThanWellFounded, WFMin, Zenon
<1>2. ASSUME NEW j \in S PROVE m <= j
  <2>1. ~ (j < m)
    BY <1>1 DEF OpToRel
  <2> QED BY <2>1
<1> QED BY <1>2 DEF First

LEMMA EmptyText == \A X : Text(<< >>, X) /\ \A y : ~ Has(<< >>, y) /\ Once(<< >>, y)
<1>1. << >> \in Seq(Byte) /\ Len(<< >>) = 0
  BY EmptySeq
<1> QED BY <1>1 DEF Text, Has, Once

\* A line is added behind the others.
LEMMA LineAdded ==
  ASSUME NEW n \in Nat \ {0}, NEW X, AreLines(X, n), NEW f, Text(f, X), NEW x \in X,
         NEW g, g = f \o x
  PROVE  /\ Text(g, X)
         /\ LineStart(g, Len(f) + 1) /\ At(g, Len(f) + 1, x) /\ Len(g) = Len(f) + n
         /\ \A y : Has(f, y) /\ Len(y) \in Nat => Has(g, y)
         /\ \A y : Has(g, y) /\ Len(y) \in 0..n => Has(f, y) \/ At(x, 1, y)
         /\ \A y : /\ Once(f, y) /\ Len(y) \in 0..n /\ ~ (Has(f, y) /\ At(x, 1, y))
                 => Once(g, y)
<1>1. /\ f \in Seq(Byte) /\ Len(f) \in Nat /\ x \in Seq(Byte) /\ Len(x) = n
      /\ x[n] = NL /\ \A i \in 1..(n - 1) : x[i] # NL
  BY LenProperties DEF Text, AreLines
<1>2. /\ g \in Seq(Byte) /\ Len(g) = Len(f) + n
      /\ \A i \in 1..(Len(f) + n) : g[i] = IF i <= Len(f) THEN f[i] ELSE x[i - Len(f)]
  BY <1>1, ConcatProperties
<1>3. \A i \in 1..Len(f) : g[i] = f[i]
  BY <1>1, <1>2
<1>4. \A i \in 1..n : g[Len(f) + i] = x[i]
  BY <1>1, <1>2
<1>5. At(g, Len(f) + 1, x)
  BY <1>1, <1>2, <1>4 DEF At
<1>6. f # << >> => Len(f) # 0 /\ f[Len(f)] = NL
  BY <1>1, EmptySeq DEF Text
<1>7. f = << >> => Len(f) = 0
  BY EmptySeq
<1>8. LineStart(g, Len(f) + 1)
  <2>1. CASE f = << >>
    BY <1>7, <2>1 DEF LineStart
  <2>2. CASE f # << >>
    BY <1>1, <1>3, <1>6, <2>2 DEF LineStart
  <2> QED BY <2>1, <2>2
<1>9. ASSUME NEW p \in 1..Len(f), NEW y, At(f, p, y), Len(y) \in Nat
      PROVE  At(g, p, y)
  <2>1. \A i \in 1..Len(y) : p + i - 1 \in 1..Len(f)
    BY <1>1, <1>9 DEF At
  <2> QED BY <1>1, <1>2, <1>3, <1>9, <2>1 DEF At
<1>10. \A p \in 1..Len(f) : LineStart(g, p) <=> LineStart(f, p)
  BY <1>1, <1>3 DEF LineStart
<1>11. ASSUME NEW p \in 1..Len(g), LineStart(g, p)
       PROVE  \E z \in X : At(g, p, z)
  <2>1. CASE p <= Len(f)
    <3>1. p \in 1..Len(f) /\ LineStart(f, p)
      BY <1>1, <1>2, <1>10, <1>11, <2>1
    <3>2. PICK z \in X : At(f, p, z)
      BY <3>1 DEF Text
    <3>3. Len(z) \in Nat
      BY DEF AreLines
    <3> QED BY <1>9, <3>1, <3>2, <3>3
  <2>2. CASE p = Len(f) + 1
    BY <1>5, <2>2
  <2>3. CASE p > Len(f) + 1
    <3>1. p - 1 - Len(f) \in 1..(n - 1) /\ p - 1 = Len(f) + (p - 1 - Len(f))
      BY <1>1, <1>2, <2>3
    <3>2. g[p - 1] = x[p - 1 - Len(f)]
      BY <1>1, <1>4, <3>1
    <3> QED BY <1>1, <1>11, <2>3, <3>1, <3>2 DEF LineStart
  <2> QED BY <1>1, <1>2, <2>1, <2>2, <2>3
<1>12. g[Len(g)] = NL
  BY <1>1, <1>2, <1>4
<1>13. Text(g, X)
  BY <1>2, <1>11, <1>12 DEF Text
<1>14. ASSUME NEW y, Has(f, y), Len(y) \in Nat PROVE Has(g, y)
  <2>1. PICK p \in 1..Len(f) : LineStart(f, p) /\ At(f, p, y)
    BY <1>14 DEF Has
  <2>2. p \in 1..Len(g)
    BY <1>1, <1>2
  <2> QED BY <1>9, <1>10, <1>14, <2>1, <2>2 DEF Has
<1>15. ASSUME NEW y, Len(y) \in 0..n, NEW p \in 1..Len(g), LineStart(g, p), At(g, p, y)
       PROVE  \/ p \in 1..Len(f) /\ LineStart(f, p) /\ At(f, p, y)
              \/ p = Len(f) + 1 /\ At(x, 1, y)
  <2>1. CASE p <= Len(f)
    <3>1. p \in 1..Len(f) /\ LineStart(f, p)
      BY <1>1, <1>2, <1>10, <1>15, <2>1
    <3>2. PICK z \in X : At(f, p, z)
      BY <3>1 DEF Text
    <3>3. p + n - 1 <= Len(f)
      BY <3>2 DEF At, AreLines
    <3>4. \A i \in 1..Len(y) : p + i - 1 \in 1..Len(f)
      BY <1>1, <1>15, <3>1, <3>3
    <3>5. \A i \in 1..Len(y) : f[p + i - 1] = y[i]
      BY <1>3, <1>15, <3>4 DEF At
    <3>6. p + Len(y) - 1 <= Len(f)
      BY <1>1, <1>15, <3>1, <3>3
    <3> QED BY <3>1, <3>5, <3>6 DEF At
  <2>2. CASE p = Len(f) + 1
    <3>1. \A i \in 1..Len(y) : g[Len(f) + i] = y[i] /\ i \in 1..n
      <4>1. \A i \in 1..Len(y) : p + i - 1 = Len(f) + i /\ i \in 1..n
        BY <1>1, <1>15, <2>2
      <4> QED BY <1>15, <4>1 DEF At
    <3>2. \A i \in 1..Len(y) : x[1 + i - 1] = y[i]
      <4> TAKE i \in 1..Len(y)
      <4>1. i \in 1..n /\ 1 + i - 1 = i
        BY <3>1
      <4>2. g[Len(f) + i] = y[i] /\ g[Len(f) + i] = x[i]
        BY <1>4, <3>1, <4>1
      <4> QED BY <4>1, <4>2
    <3>3. 1 + Len(y) - 1 <= Len(x)
      BY <1>1, <1>15
    <3> QED BY <2>2, <3>2, <3>3 DEF At
  <2>3. CASE p > Len(f) + 1
    <3>1. p - 1 - Len(f) \in 1..(n - 1) /\ p - 1 = Len(f) + (p - 1 - Len(f))
      BY <1>1, <1>2, <2>3
    <3>2. g[p - 1] = x[p - 1 - Len(f)]
      BY <1>1, <1>4, <3>1
    <3> QED BY <1>1, <1>15, <2>3, <3>1, <3>2 DEF LineStart
  <2> QED BY <1>1, <1>2, <2>1, <2>2, <2>3
<1>16. ASSUME NEW y, Has(g, y), Len(y) \in 0..n PROVE Has(f, y) \/ At(x, 1, y)
  BY <1>15, <1>16 DEF Has
<1>17. ASSUME NEW y, Once(f, y), Len(y) \in 0..n, ~ (Has(f, y) /\ At(x, 1, y))
       PROVE  Once(g, y)
  <2>1. SUFFICES ASSUME NEW p \in 1..Len(g), NEW q \in 1..Len(g), LineStart(g, p),
                        LineStart(g, q), At(g, p, y), At(g, q, y)
                 PROVE  p = q
    BY DEF Once
  <2>2. \/ p \in 1..Len(f) /\ LineStart(f, p) /\ At(f, p, y)
        \/ p = Len(f) + 1 /\ At(x, 1, y)
    BY <1>15, <1>17, <2>1
  <2>3. \/ q \in 1..Len(f) /\ LineStart(f, q) /\ At(f, q, y)
        \/ q = Len(f) + 1 /\ At(x, 1, y)
    BY <1>15, <1>17, <2>1
  <2> QED BY <1>17, <2>2, <2>3 DEF Once, Has
<1> QED BY <1>2, <1>5, <1>8, <1>13, <1>14, <1>16, <1>17

\* The first line is taken away.
LEMMA LineTaken ==
  ASSUME NEW n \in Nat \ {0}, NEW X, AreLines(X, n), NEW f, Text(f, X), f # << >>,
         NEW g, g = SubSeq(f, n + 1, Len(f))
  PROVE  /\ \E x \in X : At(f, 1, x) /\ SubSeq(f, 1, n) = x
         /\ Positions(f, NL) # {} /\ First(Positions(f, NL)) = n
         /\ Text(g, X)
         /\ \A y : Has(f, y) /\ Len(y) \in Nat => At(f, 1, y) \/ Has(g, y)
         /\ \A y : Has(g, y) /\ Len(y) \in Nat => Has(f, y)
         /\ \A y : Once(f, y) /\ Len(y) \in Nat =>
                Once(g, y) /\ ~ (At(f, 1, y) /\ Has(g, y))
<1>1. f \in Seq(Byte) /\ Len(f) \in Nat \ {0}
  BY EmptySeq DEF Text
<1>2. PICK x \in X : At(f, 1, x)
  BY <1>1 DEF Text, LineStart
<1>3. /\ x \in Seq(Byte) /\ Len(x) = n /\ n <= Len(f) /\ \A i \in 1..n : f[i] = x[i]
      /\ x[n] = NL /\ \A i \in 1..(n - 1) : x[i] # NL
  BY <1>2 DEF At, AreLines
<1>4. SubSeq(f, 1, n) = x
  <2>1. \A i \in 1..n : f[i] \in Byte
    BY <1>1, <1>3, ElementOfSeq
  <2>2. /\ SubSeq(f, 1, n) \in Seq(Byte) /\ Len(SubSeq(f, 1, n)) = n
        /\ \A i \in 1..n : SubSeq(f, 1, n)[i] = f[i]
    BY <2>1, SubSeqProperties
  <2> QED BY <1>3, <2>2, SeqEqual
<1>5. Positions(f, NL) # {} /\ First(Positions(f, NL)) = n
  <2>1. n \in Positions(f, NL) /\ Positions(f, NL) \subseteq Nat
    BY <1>1, <1>3 DEF Positions
  <2>2. \A i \in Positions(f, NL) : ~ (i \in 1..(n - 1))
    BY <1>1, <1>3 DEF Positions
  <2>3. First(Positions(f, NL)) \in Positions(f, NL) /\ First(Positions(f, NL)) <= n
    BY <2>1, FirstIsLeast
  <2>4. First(Positions(f, NL)) \in 1..Len(f)
    BY <2>3 DEF Positions
  <2> QED BY <1>1, <2>1, <2>2, <2>3, <2>4
<1>6. /\ g \in Seq(Byte) /\ Len(g) = Len(f) - n
      /\ \A i \in 1..(Len(f) - n) : g[i] = f[n + i]
  <2>1. \A i \in (n + 1)..Len(f) : f[i] \in Byte
    BY <1>1, ElementOfSeq
  <2>2. /\ g \in Seq(Byte) /\ Len(g) = IF n + 1 <= Len(f) THEN Len(f) - (n + 1) + 1 ELSE 0
        /\ \A i \in 1..(Len(f) - (n + 1) + 1) : g[i] = f[(n + 1) + i - 1]
    BY <1>1, <2>1, SubSeqProperties
  <2> QED BY <1>1, <1>3, <2>2
<1>7. \A p \in 1..Len(g) : n + p \in 1..Len(f) /\ (LineStart(g, p) <=> LineStart(f, n + p))
  <2> TAKE p \in 1..Len(g)
  <2>1. n + p \in 1..Len(f)
    BY <1>1, <1>3, <1>6
  <2>2. CASE p = 1
    BY <1>3, <2>2 DEF LineStart
  <2>3. CASE p # 1
    <3>1. g[p - 1] = f[n + p - 1] /\ n + p # 1
      BY <1>1, <1>6, <2>3
    <3> QED BY <2>3, <3>1 DEF LineStart
  <2> QED BY <2>1, <2>2, <2>3
<1>8. ASSUME NEW p \in 1..Len(g), NEW y, Len(y) \in Nat
      PROVE  At(g, p, y) <=> At(f, n + p, y)
  <2>1. p + Len(y) - 1 <= Len(g) <=> n + p + Len(y) - 1 <= Len(f)
    BY <1>1, <1>6, <1>8
  <2>2. ASSUME p + Len(y) - 1 <= Len(g), NEW i \in 1..Len(y)
        PROVE  g[p + i - 1] = f[n + p + i - 1]
    <3>1. p + i - 1 \in 1..(Len(f) - n) /\ n + (p + i - 1) = n + p + i - 1
      BY <1>1, <1>6, <1>8, <2>2
    <3> QED BY <1>6, <3>1
  <2> QED BY <2>1, <2>2 DEF At
<1>9. Text(g, X)
  <2>1. ASSUME NEW p \in 1..Len(g), LineStart(g, p)
        PROVE  \E z \in X : At(g, p, z)
    <3>1. PICK z \in X : At(f, n + p, z)
      BY <1>7, <2>1 DEF Text
    <3>2. Len(z) \in Nat
      BY DEF AreLines
    <3> QED BY <1>8, <3>1, <3>2
  <2>2. ASSUME g # << >> PROVE g[Len(g)] = NL
    <3>1. Len(g) \in Nat \ {0}
      BY <1>6, <2>2, EmptySeq
    <3>2. Len(g) \in 1..(Len(f) - n) /\ n + Len(g) = Len(f)
      BY <1>1, <1>6, <3>1
    <3>3. g[Len(g)] = f[n + Len(g)]
      BY <1>6, <3>2
    <3>4. f[Len(f)] = NL
      BY <1>1 DEF Text
    <3> QED BY <3>2, <3>3, <3>4
  <2> QED BY <1>6, <2>1, <2>2 DEF Text
<1>10. ASSUME NEW y, Has(f, y), Len(y) \in Nat, ~ At(f, 1, y) PROVE Has(g, y)
  <2>1. PICK p \in 1..Len(f) : LineStart(f, p) /\ At(f, p, y)
    BY <1>10 DEF Has
  <2>2. p # 1 /\ f[p - 1] = NL
    BY <1>10, <2>1 DEF LineStart
  <2>3. ~ (p - 1 \in 1..(n - 1))
    BY <1>1, <1>3, <2>2
  <2>4. p - n \in 1..Len(g) /\ n + (p - n) = p
    BY <1>1, <1>6, <2>2, <2>3
  <2> QED BY <1>7, <1>8, <1>10, <2>1, <2>4 DEF Has
<1>11. ASSUME NEW y, Once(f, y), Len(y) \in Nat
       PROVE  Once(g, y) /\ ~ (At(f, 1, y) /\ Has(g, y))
  <2>1. ASSUME NEW p \in 1..Len(g), LineStart(g, p), At(g, p, y)
        PROVE  n + p \in 1..Len(f) /\ LineStart(f, n + p) /\ At(f, n + p, y)
    BY <1>7, <1>8, <1>11, <2>1
  <2>2. ASSUME NEW p \in 1..Len(g), LineStart(g, p), At(g, p, y),
               NEW q \in 1..Len(g), LineStart(g, q), At(g, q, y)
        PROVE  p = q
    <3>1. n + p = n + q
      BY <1>11, <2>1, <2>2 DEF Once
    <3> QED BY <1>1, <1>6, <3>1
  <2>3. ASSUME At(f, 1, y), NEW p \in 1..Len(g), LineStart(g, p), At(g, p, y)
        PROVE  FALSE
    <3>1. 1 \in 1..Len(f) /\ LineStart(f, 1)
      BY <1>1 DEF LineStart
    <3>2. n + p = 1
      BY <1>11, <2>1, <2>3, <3>1 DEF Once
    <3> QED BY <1>6, <3>2
  <2> QED BY <2>2, <2>3 DEF Once, Has
<1>12. ASSUME NEW y, Has(g, y), Len(y) \in Nat PROVE Has(f, y)
  <2>1. PICK p \in 1..Len(g) : LineStart(g, p) /\ At(g, p, y)
    BY <1>12 DEF Has
  <2>2. n + p \in 1..Len(f) /\ LineStart(f, n + p) /\ At(f, n + p, y)
    BY <1>7, <1>8, <1>12, <2>1
  <2> QED BY <2>2 DEF Has
<1> QED BY <1>2, <1>4, <1>5, <1>9, <1>10, <1>11, <1>12

-----------------------------------------------------------------------------
(***************************************************************************)
(* The lines of a data file                                                *)
(***************************************************************************)

\* What a C string of n bytes can hold if it is to stay on its line.
Plain(n) == [1..n -> Byte \ {NL, NUL}]

\* Keys have kl bytes and values vl, no byte of theirs ends a line, a string or
\* a key, and a line does not fit into the buffer that getline() begins with,
\* nor into one of twice its size: the buffer becomes what the line needs.
FullLines(kl, vl) ==
    /\ {SP, NL, NUL} \subseteq Byte /\ SP # NL /\ SP # NUL /\ NL # NUL
    /\ \A k \in Key : k \in Plain(kl) /\ \A i \in 1..kl : k[i] # SP
    /\ Val \subseteq Plain(vl)
    /\ FREED \notin Plain(vl)
    /\ 2 * MIN_CAP <= kl + vl + 3

Word(k) == k \o <<SP>>
DataLine(k, s) == k \o <<SP>> \o s \o <<NL>>
DataLines(vl) == {DataLine(k, s) : k \in Key, s \in Plain(vl)}

\* Freed memory is not saved as a string that cannot be read back: it reads as
\* one of the length of a value, or no exit falls between the two steps of
\* replace_skiplist().
SavesStrings(vl) ==
    [][Garbage \subseteq Plain(vl) \/ phase # "replacing" \/ phase' # "saving"]_vars

-----------------------------------------------------------------------------
(***************************************************************************)
(* The inductive invariant                                                 *)
(***************************************************************************)
Nodes(vl) == [key : Key, val : Plain(vl) \cup {FREED}]

Distinct(q) == \A i, j \in 1..Len(q) : q[i].key = q[j].key => i = j

ListInv(vl) ==
    /\ list \in Seq(Nodes(vl)) /\ Distinct(list)
    /\ phase \in {"loading", "serving"} =>
           \A i \in 1..Len(list) : list[i].val # FREED
    /\ phase = "replacing" =>
           /\ pending \in (1..Len(list)) \X Plain(vl)
           /\ \A i \in 1..Len(list) : i # pending[1] => list[i].val # FREED
    /\ phase = "saving" =>
           \A i \in 1..Len(list) : Readable(list[i]) \subseteq Plain(vl)

FileInv(vl) ==
    /\ Text(file, DataLines(vl))
    /\ \A k \in Key : Once(file, Word(k))

LoadInv(kl, vl) ==
    phase = "loading" =>
        /\ Text(rest, DataLines(vl))
        /\ line \in Seq(Byte \cup Stale) /\ (line = << >> \/ Len(line) = kl + vl + 3)
        /\ \A k \in Key : /\ Once(rest, Word(k))
                          /\ Has(rest, Word(k)) => ~ Holds(k)

KeptInv ==
    phase \in Running =>
        \A k \in Key : Has(file, Word(k)) =>
            \/ Holds(k) \/ k \in deleted
            \/ phase = "loading" /\ Has(rest, Word(k))

\* As long as no write has failed, the temporary file has the lines of the nodes
\* up to the next one.
SaveInv(vl) ==
    phase = "saving" /\ ~ cut =>
        /\ Text(temp, DataLines(vl))
        /\ node \in Nat \ {0}
        /\ \A i \in 1..Len(list) : i < node => Has(temp, Word(list[i].key))
        /\ \A k \in Key : /\ Once(temp, Word(k))
                          /\ Has(temp, Word(k)) =>
                                 \E i \in 1..Len(list) : i < node /\ list[i].key = k

\* What holds until a torn file has taken the place of the data file.
Inv(kl, vl) ==
    /\ phase \in Ended \cup Running
    /\ ListInv(vl) /\ FileInv(vl) /\ LoadInv(kl, vl) /\ KeptInv /\ SaveInv(vl)

-----------------------------------------------------------------------------
LEMMA KeyShape ==
  ASSUME NEW kl \in Nat, NEW vl \in Nat, FullLines(kl, vl), NEW k \in Key
  PROVE  /\ k \in Seq(Byte) /\ Len(k) = kl /\ kl \in Nat \ {0} /\ k \in Plain(kl)
         /\ \A i \in 1..kl : k[i] # SP /\ k[i] # NL /\ k[i] # NUL /\ k[i] \in Byte
<1>1. k \in Plain(kl) /\ \A i \in 1..kl : k[i] # SP
  BY DEF FullLines
<1>2. k \in [1..kl -> Byte \ {NL, NUL}]
  BY <1>1 DEF Plain
<1>3. \A i \in 1..kl : k[i] # SP /\ k[i] # NL /\ k[i] # NUL /\ k[i] \in Byte
  BY <1>1, <1>2
<1>4. k \in [1..kl -> Byte]
  BY <1>2
<1>5. k \in Seq(Byte) /\ Len(k) = kl
  BY <1>4, SeqDef, LenProperties, IsASeq
<1>6. Len(k) > 0
  BY PersistenceAssumption
<1> QED BY <1>1, <1>3, <1>5, <1>6

LEMMA PlainShape ==
  ASSUME NEW n \in Nat, NEW s \in Plain(n)
  PROVE  /\ s \in Seq(Byte) /\ Len(s) = n
         /\ \A i \in 1..n : s[i] # NL /\ s[i] # NUL /\ s[i] \in Byte
<1>1. s \in [1..n -> Byte \ {NL, NUL}]
  BY DEF Plain
<1>2. s \in [1..n -> Byte]
  BY <1>1
<1>3. s \in Seq(Byte) /\ Len(s) = n
  BY <1>2, IsASeq, LenProperties
<1> QED BY <1>1, <1>3

LEMMA WordShape ==
  ASSUME NEW kl \in Nat, NEW vl \in Nat, FullLines(kl, vl), NEW k \in Key
  PROVE  /\ Word(k) \in Seq(Byte) /\ Len(Word(k)) = kl + 1
         /\ \A i \in 1..kl : Word(k)[i] = k[i]
         /\ Word(k)[kl + 1] = SP
<1>1. k \in Seq(Byte) /\ Len(k) = kl
  BY KeyShape
<1>2. SP \in Byte
  BY DEF FullLines
<1>3. <<SP>> \in Seq(Byte) /\ Len(<<SP>>) = 1 /\ <<SP>>[1] = SP
  BY <1>2
<1>4. /\ Word(k) \in Seq(Byte) /\ Len(Word(k)) = kl + 1
      /\ \A i \in 1..(kl + 1) : Word(k)[i] = IF i <= kl THEN k[i] ELSE <<SP>>[i - kl]
  BY <1>1, <1>3, ConcatProperties DEF Word
<1> QED BY <1>3, <1>4

\* x is the key k, one blank, the value s and the end of the line.
IsDataLine(x, k, s, kl, vl) ==
    /\ x \in Seq(Byte) /\ Len(x) = kl + vl + 2
    /\ \A i \in 1..kl : x[i] = k[i]
    /\ x[kl + 1] = SP
    /\ \A i \in 1..vl : x[kl + 1 + i] = s[i]
    /\ x[kl + vl + 2] = NL

LEMMA DataLineShape ==
  ASSUME NEW kl \in Nat, NEW vl \in Nat, FullLines(kl, vl),
         NEW k \in Key, NEW s \in Plain(vl), NEW x, x = DataLine(k, s)
  PROVE  IsDataLine(x, k, s, kl, vl)
<1>1. /\ Word(k) \in Seq(Byte) /\ Len(Word(k)) = kl + 1
      /\ \A i \in 1..kl : Word(k)[i] = k[i]
      /\ Word(k)[kl + 1] = SP
  BY WordShape
<1>2. s \in Seq(Byte) /\ Len(s) = vl
  BY PlainShape
<1>3. NL \in Byte
  BY DEF FullLines
<1>4. <<NL>> \in Seq(Byte) /\ Len(<<NL>>) = 1 /\ <<NL>>[1] = NL
  BY <1>3
<1>5. PICK w : w = Word(k) \o s
  OBVIOUS
<1> DEFINE y == Word(k)
<1> HIDE DEF y
<1>12. y \in Seq(Byte) /\ Len(y) = kl + 1 /\ w = y \o s
  BY <1>1, <1>5 DEF y
<1>13. \A i \in 1..(kl + 1 + vl) : w[i] = IF i <= kl + 1 THEN y[i] ELSE s[i - (kl + 1)]
  BY <1>2, <1>12, ConcatProperties
<1>14. w \in Seq(Byte) /\ Len(w) = kl + 1 + vl
  BY <1>2, <1>12, ConcatProperties
<1>6. /\ w \in Seq(Byte) /\ Len(w) = kl + 1 + vl
      /\ \A i \in 1..(kl + 1 + vl) : w[i] = IF i <= kl + 1 THEN Word(k)[i] ELSE s[i - (kl + 1)]
  BY <1>13, <1>14 DEF y
<1>7. x = w \o <<NL>>
  BY <1>5 DEF DataLine, Word
<1>8. /\ x \in Seq(Byte) /\ Len(x) = kl + 1 + vl + 1
      /\ \A i \in 1..(kl + 1 + vl + 1) :
             x[i] = IF i <= kl + 1 + vl THEN w[i] ELSE <<NL>>[i - (kl + 1 + vl)]
  BY <1>4, <1>6, <1>7, ConcatProperties
<1>9. x[kl + vl + 2] = NL
  BY <1>4, <1>8
<1>10. \A i \in 1..(kl + 1) : x[i] = Word(k)[i]
  BY <1>6, <1>8
<1>11. ASSUME NEW i \in 1..vl PROVE x[kl + 1 + i] = s[i]
  <2>1. x[kl + 1 + i] = w[kl + 1 + i]
    BY <1>8
  <2>2. w[kl + 1 + i] = s[(kl + 1 + i) - (kl + 1)]
    BY <1>6
  <2> QED BY <2>1, <2>2
<1> QED BY <1>1, <1>8, <1>9, <1>10, <1>11 DEF IsDataLine

LEMMA DataLinesAreLines ==
  ASSUME NEW kl \in Nat, NEW vl \in Nat, FullLines(kl, vl)
  PROVE  AreLines(DataLines(vl), kl + vl + 2)
<1>1. SUFFICES ASSUME NEW k \in Key, NEW s \in Plain(vl), NEW x, x = DataLine(k, s)
               PROVE  /\ x \in Seq(Byte) /\ Len(x) = kl + vl + 2 /\ x[kl + vl + 2] = NL
                      /\ \A i \in 1..(kl + vl + 2 - 1) : x[i] # NL
  BY DEF AreLines, DataLines
<1>2. /\ x \in Seq(Byte) /\ Len(x) = kl + vl + 2
      /\ \A i \in 1..kl : x[i] = k[i]
      /\ x[kl + 1] = SP
      /\ \A i \in 1..vl : x[kl + 1 + i] = s[i]
      /\ x[kl + vl + 2] = NL
  <2>1. IsDataLine(x, k, s, kl, vl)
    BY <1>1, DataLineShape
  <2> QED BY <2>1 DEF IsDataLine
<1>3. SP # NL /\ (\A i \in 1..kl : k[i] # NL) /\ \A i \in 1..vl : s[i] # NL
  BY KeyShape, PlainShape DEF FullLines
<1>4. ASSUME NEW i \in 1..(kl + vl + 2 - 1) PROVE x[i] # NL
  <2>1. CASE i <= kl
    <3>1. i \in 1..kl
      BY <2>1
    <3> QED BY <1>2, <1>3, <3>1
  <2>2. CASE i = kl + 1
    BY <1>2, <1>3, <2>2
  <2>3. CASE i > kl + 1
    <3>1. PICK h \in 1..vl : kl + 1 + h = i
      <4>1. i - kl - 1 \in 1..vl /\ kl + 1 + (i - kl - 1) = i
        BY <2>3
      <4> QED BY <4>1
    <3>2. x[kl + 1 + h] = s[h] /\ s[h] # NL
      BY <1>2, <1>3
    <3> QED BY <3>1, <3>2
  <2> QED BY <2>1, <2>2, <2>3
<1> QED BY <1>2, <1>4

\* Where the line of k is, the word of no other key is.
LEMMA WordAt ==
  ASSUME NEW kl \in Nat, NEW vl \in Nat, FullLines(kl, vl), NEW f, NEW p \in Nat,
         NEW k \in Key, NEW s \in Plain(vl), At(f, p, DataLine(k, s)), Len(f) \in Nat,
         NEW j \in Key
  PROVE  At(f, p, Word(j)) <=> j = k
<1>1. PICK x : x = DataLine(k, s)
  OBVIOUS
<1>2. /\ Len(x) = kl + vl + 2
      /\ \A i \in 1..kl : x[i] = k[i]
      /\ x[kl + 1] = SP
  <2>1. IsDataLine(x, k, s, kl, vl)
    BY <1>1, DataLineShape
  <2> QED BY <2>1 DEF IsDataLine
<1>3. p + (kl + vl + 2) - 1 <= Len(f) /\ \A i \in 1..(kl + vl + 2) : f[p + i - 1] = x[i]
  BY <1>1, <1>2 DEF At
<1>4. /\ Len(Word(j)) = kl + 1 /\ Word(j)[kl + 1] = SP
      /\ \A i \in 1..kl : Word(j)[i] = j[i]
  BY WordShape
<1>5. \A i \in 1..kl : f[p + i - 1] = k[i]
  BY <1>2, <1>3
<1>6. f[p + (kl + 1) - 1] = SP
  <2>1. kl + 1 \in 1..(kl + vl + 2)
    OBVIOUS
  <2>2. f[p + (kl + 1) - 1] = x[kl + 1]
    BY <1>3, <2>1
  <2> QED BY <1>2, <2>2
<1>7. ASSUME At(f, p, Word(j)) PROVE j = k
  <2>1. \A i \in 1..(kl + 1) : f[p + i - 1] = Word(j)[i]
    BY <1>4, <1>7 DEF At
  <2>2. \A i \in 1..kl : f[p + i - 1] = j[i]
    BY <1>4, <2>1
  <2>3. \A i \in 1..kl : j[i] = k[i]
    BY <1>5, <2>2
  <2>4. j \in Seq(Byte) /\ k \in Seq(Byte) /\ Len(j) = kl /\ Len(k) = kl
    BY KeyShape
  <2> QED BY <2>3, <2>4, SeqEqual
<1>8. ASSUME j = k PROVE At(f, p, Word(j))
  <2>1. ASSUME NEW i \in 1..(kl + 1) PROVE f[p + i - 1] = Word(j)[i]
    <3>1. CASE i = kl + 1
      BY <1>4, <1>6, <3>1
    <3>2. CASE i # kl + 1
      <4>1. i \in 1..kl
        BY <3>2
      <4> QED BY <1>4, <1>5, <1>8, <4>1
    <3> QED BY <3>1, <3>2
  <2>2. p + (kl + 1) - 1 <= Len(f)
    BY <1>3
  <2> QED BY <1>4, <2>1, <2>2 DEF At
<1> QED BY <1>7, <1>8

\* InFile() finds the word of a key.
LEMMA InFileIsHas ==
  ASSUME NEW kl \in Nat, NEW vl \in Nat, FullLines(kl, vl), NEW f \in Seq(Byte), NEW k \in Key
  PROVE  (\E i \in 1..(Len(f) - Len(k)) :
              /\ i = 1 \/ f[i - 1] = NL
              /\ SubSeq(f, i, i + Len(k)) = k \o <<SP>>)  <=>  Has(f, Word(k))
<1>1. Len(f) \in Nat /\ Len(k) = kl
  BY KeyShape, LenProperties
<1>2. Word(k) \in Seq(Byte) /\ Len(Word(k)) = kl + 1
  BY WordShape
<1>3. \A p \in 1..Len(f) : p + (kl + 1) - 1 <= Len(f) <=> p \in 1..(Len(f) - kl)
  BY <1>1
<1>4. ASSUME NEW p \in 1..(Len(f) - kl)
      PROVE  SubSeq(f, p, p + kl) = Word(k) <=> \A i \in 1..(kl + 1) : f[p + i - 1] = Word(k)[i]
  <2>1. \A i \in p..(p + kl) : f[i] \in Byte
    BY <1>1, ElementOfSeq
  <2>2. PICK g : g = SubSeq(f, p, p + kl)
    OBVIOUS
  <2>3. /\ g \in Seq(Byte) /\ Len(g) = IF p <= p + kl THEN (p + kl) - p + 1 ELSE 0
        /\ \A i \in 1..((p + kl) - p + 1) : g[i] = f[p + i - 1]
    BY <1>1, <2>1, <2>2, SubSeqProperties
  <2>4. Len(g) = kl + 1 /\ \A i \in 1..(kl + 1) : g[i] = f[p + i - 1]
    BY <2>3
  <2>5. g = Word(k) <=> \A i \in 1..(kl + 1) : g[i] = Word(k)[i]
    BY <1>2, <2>3, <2>4, SeqEqual
  <2> QED BY <2>2, <2>4, <2>5
<1>5. ASSUME NEW p \in 1..(Len(f) - kl)
      PROVE  p \in 1..Len(f) /\ (SubSeq(f, p, p + kl) = Word(k) <=> At(f, p, Word(k)))
  <2>1. p \in 1..Len(f) /\ p + (kl + 1) - 1 <= Len(f)
    BY <1>1
  <2> QED BY <1>2, <1>4, <2>1 DEF At
<1>6. \A p \in 1..Len(f) : At(f, p, Word(k)) => p \in 1..(Len(f) - kl)
  BY <1>2, <1>3 DEF At
<1>7. (\E i \in 1..(Len(f) - kl) : LineStart(f, i) /\ SubSeq(f, i, i + kl) = Word(k))
          <=> Has(f, Word(k))
  BY <1>5, <1>6 DEF Has
<1> QED BY <1>1, <1>7 DEF LineStart, Word

-----------------------------------------------------------------------------
(***************************************************************************)
(* Lists of nodes                                                          *)
(***************************************************************************)
\* What Inserted() and Without() make of a list q.
IsInserted(g, q, i, x) == g = SubSeq(q, 1, i - 1) \o <<x>> \o SubSeq(q, i, Len(q))
IsRemoved(g, q, i) == g = SubSeq(q, 1, i - 1) \o SubSeq(q, i + 1, Len(q))

LEMMA Joined ==
  ASSUME NEW S, NEW a \in Seq(S), NEW c \in Seq(S), NEW g, g = a \o c
  PROVE  /\ g \in Seq(S) /\ Len(g) = Len(a) + Len(c)
         /\ \A j \in 1..Len(a) : g[j] = a[j]
         /\ \A j \in 1..Len(c) : g[Len(a) + j] = c[j]
<1>1. Len(a) \in Nat /\ Len(c) \in Nat
  BY LenProperties
<1>2. g \in Seq(S) /\ Len(g) = Len(a) + Len(c)
  BY ConcatProperties
<1>3. \A j \in 1..(Len(a) + Len(c)) : g[j] = IF j <= Len(a) THEN a[j] ELSE c[j - Len(a)]
  BY ConcatProperties
<1>4. \A j \in 1..Len(a) : g[j] = a[j]
  BY <1>1, <1>3
<1>5. ASSUME NEW j \in 1..Len(c) PROVE g[Len(a) + j] = c[j]
  <2>1. Len(a) + j \in 1..(Len(a) + Len(c)) /\ ~ (Len(a) + j <= Len(a))
    BY <1>1
  <2>2. g[Len(a) + j] = c[Len(a) + j - Len(a)]
    BY <1>3, <2>1
  <2>3. Len(a) + j - Len(a) = j
    BY <1>1
  <2> QED BY <2>2, <2>3
<1> QED BY <1>2, <1>4, <1>5

LEMMA FirstPart ==
  ASSUME NEW S, NEW q \in Seq(S), NEW i \in 1..(Len(q) + 1), NEW a, a = SubSeq(q, 1, i - 1)
  PROVE  a \in Seq(S) /\ Len(a) = i - 1 /\ \A j \in 1..(i - 1) : a[j] = q[j]
<1>1. Len(q) \in Nat
  BY LenProperties
<1>2. \A j \in 1..(i - 1) : q[j] \in S
  BY <1>1, ElementOfSeq
<1>3. /\ a \in Seq(S) /\ Len(a) = IF 1 <= i - 1 THEN (i - 1) - 1 + 1 ELSE 0
      /\ \A j \in 1..((i - 1) - 1 + 1) : a[j] = q[1 + j - 1]
  BY <1>1, <1>2, SubSeqProperties
<1> QED BY <1>3

\* c is q from its place i on.
IsLastPart(c, q, i, S) ==
    /\ c \in Seq(S) /\ Len(c) = Len(q) - i + 1
    /\ \A j \in i..Len(q) : j - i + 1 \in 1..Len(c) /\ c[j - i + 1] = q[j]

LEMMA LastPart ==
  ASSUME NEW S, NEW q \in Seq(S), NEW i \in 1..(Len(q) + 1),
         NEW c, c = SubSeq(q, i, Len(q))
  PROVE  IsLastPart(c, q, i, S)
<1>1. Len(q) \in Nat
  BY LenProperties
<1>2. \A j \in i..Len(q) : q[j] \in S
  BY <1>1, ElementOfSeq
<1>3. c \in Seq(S) /\ Len(c) = IF i <= Len(q) THEN Len(q) - i + 1 ELSE 0
  BY <1>1, <1>2, SubSeqProperties
<1>4. \A j \in 1..(Len(q) - i + 1) : c[j] = q[i + j - 1]
  BY <1>1, <1>2, SubSeqProperties
<1>5. Len(c) = Len(q) - i + 1
  BY <1>1, <1>3
<1>6. ASSUME NEW j \in i..Len(q) PROVE j - i + 1 \in 1..Len(c) /\ c[j - i + 1] = q[j]
  <2>1. j - i + 1 \in 1..(Len(q) - i + 1) /\ i + (j - i + 1) - 1 = j
    BY <1>1
  <2>2. c[j - i + 1] = q[i + (j - i + 1) - 1]
    BY <1>4, <2>1
  <2> QED BY <1>5, <2>1, <2>2
<1> QED BY <1>3, <1>5, <1>6 DEF IsLastPart

LEMMA ListInserted ==
  ASSUME NEW S, NEW q \in Seq(S), Distinct(q), NEW i \in 1..(Len(q) + 1), NEW x \in S,
         \A j \in 1..Len(q) : q[j].key # x.key,
         NEW g, IsInserted(g, q, i, x)
  PROVE  /\ g \in Seq(S) /\ Distinct(g)
         /\ \A h \in 1..Len(g) : g[h] = x \/ \E j \in 1..Len(q) : g[h] = q[j]
         /\ \E h \in 1..Len(g) : g[h] = x
         /\ \A j \in 1..Len(q) : \E h \in 1..Len(g) : g[h] = q[j]
         /\ Len(g) = Len(q) + 1 /\ g[i] = x
         /\ \A j \in 1..(i - 1) : g[j] = q[j]
         /\ \A j \in i..Len(q) : g[j + 1] = q[j]
<1>1. Len(q) \in Nat
  BY LenProperties
<1>20. PICK a : a = SubSeq(q, 1, i - 1)
  OBVIOUS
<1>21. PICK c : c = SubSeq(q, i, Len(q))
  OBVIOUS
<1>2. a \in Seq(S) /\ Len(a) = i - 1
  BY <1>20, FirstPart
<1>3. \A j \in 1..(i - 1) : a[j] = q[j]
  BY <1>20, FirstPart
<1>22. IsLastPart(c, q, i, S)
  BY <1>21, LastPart
<1>4. c \in Seq(S) /\ Len(c) = Len(q) - i + 1
  BY <1>22 DEF IsLastPart
<1>5. \A j \in i..Len(q) : j - i + 1 \in 1..Len(c) /\ c[j - i + 1] = q[j]
  BY <1>22 DEF IsLastPart
<1>6. PICK b : b = a \o <<x>>
  OBVIOUS
<1>7. <<x>> \in Seq(S) /\ Len(<<x>>) = 1 /\ <<x>>[1] = x
  OBVIOUS
<1>8. b \in Seq(S) /\ Len(b) = i
  <2>1. b \in Seq(S) /\ Len(b) = Len(a) + Len(<<x>>)
    BY <1>2, <1>6, <1>7, ConcatProperties
  <2> QED BY <1>2, <1>7, <2>1
<1>9. (\A j \in 1..(i - 1) : b[j] = q[j]) /\ b[i] = x
  <2>1. \A j \in 1..Len(a) : b[j] = a[j]
    BY <1>2, <1>6, <1>7, Joined
  <2>2. PICK e : e = <<x>>
    OBVIOUS
  <2>5. e \in Seq(S) /\ Len(e) = 1 /\ e[1] = x
    BY <1>7, <2>2
  <2>6. b = a \o e
    BY <1>6, <2>2
  <2>9. a \in Seq(S) /\ e \in Seq(S)
    BY <1>2, <2>5
  <2>7. \A j \in 1..Len(e) : b[Len(a) + j] = e[j]
    BY <2>6, <2>9, Joined
  <2>8. 1 \in 1..Len(e)
    BY <2>5
  <2>3. b[Len(a) + 1] = x
    BY <2>5, <2>7, <2>8
  <2>4. Len(a) + 1 = i
    BY <1>2
  <2> QED BY <1>2, <1>3, <2>1, <2>3, <2>4
<1>10. g = b \o c
  BY <1>6, <1>20, <1>21 DEF IsInserted
<1>11. g \in Seq(S) /\ Len(g) = Len(q) + 1
  <2>1. g \in Seq(S) /\ Len(g) = Len(b) + Len(c)
    BY <1>4, <1>8, <1>10, ConcatProperties
  <2> QED BY <1>1, <1>4, <1>8, <2>1
<1>12. g[i] = x /\ \A j \in 1..(i - 1) : g[j] = q[j]
  <2>1. \A j \in 1..Len(b) : g[j] = b[j]
    BY <1>4, <1>8, <1>10, Joined
  <2>2. \A j \in 1..i : g[j] = b[j]
    BY <1>8, <2>1
  <2> QED BY <1>9, <2>2
<1>13. ASSUME NEW j \in i..Len(q) PROVE g[j + 1] = q[j]
  <2>1. \A m \in 1..Len(c) : g[Len(b) + m] = c[m]
    BY <1>4, <1>8, <1>10, Joined
  <2>2. PICK m \in 1..Len(c) : m = j - i + 1 /\ c[m] = q[j]
    BY <1>5
  <2>3. g[Len(b) + m] = q[j]
    BY <2>1, <2>2
  <2>4. Len(b) + m = j + 1
    BY <1>1, <1>8, <2>2
  <2> QED BY <2>3, <2>4
<1>14. ASSUME NEW h \in 1..Len(g)
       PROVE  \/ h = i
              \/ \E j \in 1..Len(q) : g[h] = q[j] /\ h = IF j < i THEN j ELSE j + 1
  <2>1. CASE h < i
    <3>1. h \in 1..(i - 1) /\ h \in 1..Len(q)
      BY <1>1, <1>11, <2>1
    <3> QED BY <1>12, <2>1, <3>1
  <2>2. CASE h > i
    <3>1. PICK j \in i..Len(q) : h = j + 1
      <4>1. h - 1 \in i..Len(q) /\ h = (h - 1) + 1
        BY <1>1, <1>11, <2>2
      <4> QED BY <4>1
    <3>2. g[h] = q[j] /\ j \in 1..Len(q) /\ ~ (j < i)
      BY <1>1, <1>13, <3>1
    <3> QED BY <3>1, <3>2
  <2> QED BY <1>1, <1>11, <2>1, <2>2
<1>15. ASSUME NEW h \in 1..Len(g), NEW m \in 1..Len(g), g[h].key = g[m].key PROVE h = m
  <2>1. CASE h = i /\ m = i
    BY <2>1
  <2>2. CASE h = i /\ m # i
    BY <1>12, <1>14, <1>15, <2>2
  <2>3. CASE h # i /\ m = i
    BY <1>12, <1>14, <1>15, <2>3
  <2>4. CASE h # i /\ m # i
    <3>1. PICK j \in 1..Len(q) : g[h] = q[j] /\ h = IF j < i THEN j ELSE j + 1
      BY <1>14, <2>4
    <3>2. PICK l \in 1..Len(q) : g[m] = q[l] /\ m = IF l < i THEN l ELSE l + 1
      BY <1>14, <2>4
    <3>3. j = l
      BY <1>15, <3>1, <3>2 DEF Distinct
    <3> QED BY <3>1, <3>2, <3>3
  <2> QED BY <2>1, <2>2, <2>3, <2>4
<1>16. ASSUME NEW j \in 1..Len(q) PROVE \E h \in 1..Len(g) : g[h] = q[j]
  <2>1. CASE j < i
    <3>1. j \in 1..(i - 1) /\ j \in 1..Len(g)
      BY <1>1, <1>11, <2>1
    <3> QED BY <1>12, <3>1
  <2>2. CASE j >= i
    <3>1. j \in i..Len(q) /\ j + 1 \in 1..Len(g)
      BY <1>1, <1>11, <2>2
    <3> QED BY <1>13, <3>1
  <2> QED BY <1>1, <2>1, <2>2
<1>17. i \in 1..Len(g)
  BY <1>1, <1>11
<1>18. \A h \in 1..Len(g) : g[h] = x \/ \E j \in 1..Len(q) : g[h] = q[j]
  BY <1>12, <1>14
<1>19. Distinct(g)
  BY <1>15 DEF Distinct
<1> QED BY <1>11, <1>12, <1>13, <1>16, <1>17, <1>18, <1>19

LEMMA ListRemoved ==
  ASSUME NEW S, NEW q \in Seq(S), Distinct(q), NEW i \in 1..Len(q),
         NEW g, IsRemoved(g, q, i)
  PROVE  /\ g \in Seq(S) /\ Distinct(g)
         /\ \A h \in 1..Len(g) : \E j \in 1..Len(q) : g[h] = q[j]
         /\ \A j \in 1..Len(q) : j # i => \E h \in 1..Len(g) : g[h] = q[j]
         /\ \A h, m \in 1..Len(g) : h < m =>
                \E j, l \in 1..Len(q) : j < l /\ g[h] = q[j] /\ g[m] = q[l]
<1>1. Len(q) \in Nat /\ i \in 1..(Len(q) + 1)
  BY LenProperties
<1>15. PICK a : a = SubSeq(q, 1, i - 1)
  OBVIOUS
<1>2. a \in Seq(S) /\ Len(a) = i - 1
  BY <1>1, <1>15, FirstPart
<1>3. \A j \in 1..(i - 1) : a[j] = q[j]
  BY <1>1, <1>15, FirstPart
<1>4. PICK k \in 1..(Len(q) + 1) : k = i + 1
  BY <1>1
<1>16. PICK c : c = SubSeq(q, k, Len(q))
  OBVIOUS
<1>17. g = a \o c
  BY <1>4, <1>15, <1>16 DEF IsRemoved
<1>19. IsLastPart(c, q, k, S)
  BY <1>16, LastPart
<1>5. c \in Seq(S) /\ Len(c) = Len(q) - k + 1
  BY <1>19 DEF IsLastPart
<1>6. \A j \in k..Len(q) : j - k + 1 \in 1..Len(c) /\ c[j - k + 1] = q[j]
  BY <1>19 DEF IsLastPart
<1>7. g \in Seq(S) /\ Len(g) = Len(q) - 1
  <2>1. g \in Seq(S) /\ Len(g) = Len(a) + Len(c)
    BY <1>2, <1>5, <1>17, ConcatProperties
  <2> QED BY <1>1, <1>2, <1>4, <1>5, <2>1
<1>8. \A j \in 1..(i - 1) : g[j] = q[j]
  <2>1. \A j \in 1..Len(a) : g[j] = a[j]
    BY <1>2, <1>5, <1>17, Joined
  <2> QED BY <1>2, <1>3, <2>1
<1>9. ASSUME NEW j \in k..Len(q) PROVE g[j - 1] = q[j]
  <2>1. \A m \in 1..Len(c) : g[Len(a) + m] = c[m]
    BY <1>2, <1>5, <1>17, Joined
  <2>2. PICK m \in 1..Len(c) : m = j - k + 1 /\ c[m] = q[j]
    BY <1>6
  <2>3. g[Len(a) + m] = q[j]
    BY <2>1, <2>2
  <2>4. Len(a) + m = j - 1
    BY <1>1, <1>2, <1>4, <2>2
  <2> QED BY <2>3, <2>4
<1>10. ASSUME NEW h \in 1..Len(g)
       PROVE  \E j \in 1..Len(q) : g[h] = q[j] /\ j = IF h < i THEN h ELSE h + 1
  <2>1. CASE h < i
    <3>1. h \in 1..(i - 1) /\ h \in 1..Len(q)
      BY <1>1, <1>7, <2>1
    <3> QED BY <1>8, <2>1, <3>1
  <2>2. CASE h >= i
    <3>1. h + 1 \in k..Len(q) /\ (h + 1) - 1 = h
      BY <1>1, <1>4, <1>7, <2>2
    <3>2. PICK j \in k..Len(q) : j = h + 1 /\ j - 1 = h
      BY <3>1
    <3>3. g[h] = q[j] /\ j \in 1..Len(q)
      BY <1>1, <1>4, <1>9, <3>2
    <3> QED BY <2>2, <3>2, <3>3
  <2> QED BY <1>1, <1>7, <2>1, <2>2
<1>11. ASSUME NEW h \in 1..Len(g), NEW m \in 1..Len(g), g[h].key = g[m].key PROVE h = m
  <2>1. PICK j \in 1..Len(q) : g[h] = q[j] /\ j = IF h < i THEN h ELSE h + 1
    BY <1>10
  <2>2. PICK l \in 1..Len(q) : g[m] = q[l] /\ l = IF m < i THEN m ELSE m + 1
    BY <1>10
  <2>3. j = l
    BY <1>11, <2>1, <2>2 DEF Distinct
  <2> QED BY <1>1, <1>7, <2>1, <2>2, <2>3
<1>12. ASSUME NEW j \in 1..Len(q), j # i PROVE \E h \in 1..Len(g) : g[h] = q[j]
  <2>1. CASE j < i
    <3>1. j \in 1..(i - 1) /\ j \in 1..Len(g)
      BY <1>1, <1>7, <2>1
    <3> QED BY <1>8, <3>1
  <2>2. CASE j > i
    <3>1. j \in k..Len(q) /\ j - 1 \in 1..Len(g)
      BY <1>1, <1>4, <1>7, <2>2
    <3> QED BY <1>9, <3>1
  <2> QED BY <1>1, <1>12, <2>1, <2>2
<1>13. \A h \in 1..Len(g) : \E j \in 1..Len(q) : g[h] = q[j]
  BY <1>10
<1>14. Distinct(g)
  BY <1>11 DEF Distinct
<1>18. ASSUME NEW h \in 1..Len(g), NEW m \in 1..Len(g), h < m
       PROVE  \E j, l \in 1..Len(q) : j < l /\ g[h] = q[j] /\ g[m] = q[l]
  <2>1. PICK j \in 1..Len(q) : g[h] = q[j] /\ j = IF h < i THEN h ELSE h + 1
    BY <1>10
  <2>2. PICK l \in 1..Len(q) : g[m] = q[l] /\ l = IF m < i THEN m ELSE m + 1
    BY <1>10
  <2>3. j < l
    BY <1>1, <1>7, <1>18, <2>1, <2>2
  <2> QED BY <2>1, <2>2, <2>3
<1> QED BY <1>7, <1>12, <1>13, <1>14, <1>18

LEMMA NodeShape ==
  ASSUME NEW vl \in Nat, NEW q \in Seq(Nodes(vl)), NEW i \in 1..Len(q)
  PROVE  q[i] \in Nodes(vl) /\ q[i].key \in Key /\ q[i].val \in Plain(vl) \cup {FREED}
<1>1. q[i] \in Nodes(vl)
  BY ElementOfSeq
<1> QED BY <1>1 DEF Nodes

LEMMA ListChanged ==
  ASSUME NEW vl \in Nat, NEW q \in Seq(Nodes(vl)), Distinct(q), NEW i \in 1..Len(q),
         NEW w \in Plain(vl) \cup {FREED}, NEW g, g = [q EXCEPT ![i].val = w]
  PROVE  /\ g \in Seq(Nodes(vl)) /\ Distinct(g) /\ Len(g) = Len(q)
         /\ \A h \in 1..Len(q) : g[h].key = q[h].key
         /\ g[i].val = w /\ \A h \in 1..Len(q) : h # i => g[h] = q[h]
<1>1. q[i] \in Nodes(vl) /\ Len(q) \in Nat
  BY ElementOfSeq, LenProperties
<1>2. PICK e : e = [q[i] EXCEPT !.val = w]
  OBVIOUS
<1>3. e \in Nodes(vl) /\ e.key = q[i].key /\ e.val = w
  BY <1>1, <1>2 DEF Nodes
<1>4. g = [q EXCEPT ![i] = e]
  BY <1>2
<1>5. /\ g \in Seq(Nodes(vl)) /\ Len(g) = Len(q)
      /\ \A h \in 1..Len(q) : g[h] = IF h = i THEN e ELSE q[h]
  BY <1>3, <1>4, ExceptSeq
<1>6. \A h \in 1..Len(q) : g[h].key = q[h].key
  BY <1>3, <1>5
<1> QED BY <1>3, <1>5, <1>6 DEF Distinct

-----------------------------------------------------------------------------
(***************************************************************************)
(* Loading one line                                                        *)
(***************************************************************************)

\* The bytes of a line without its end are the key, one blank, and the value.
IsSplit(r, k, s, kl, vl) ==
    /\ kl + 1 \in Positions(r, SP)
    /\ SubSeq(r, 1, kl) = k
    /\ SubSeq(r, kl + 2, kl + vl + 1) = s

LEMMA LineSplit ==
  ASSUME NEW kl \in Nat, NEW vl \in Nat, FullLines(kl, vl),
         NEW k \in Key, NEW s \in Plain(vl), NEW x, x = DataLine(k, s),
         NEW T, NEW r \in Seq(T), Len(r) = kl + vl + 1,
         \A j \in 1..(kl + vl + 1) : r[j] = x[j]
  PROVE  IsSplit(r, k, s, kl, vl)
<1>1. /\ \A i \in 1..kl : x[i] = k[i]
      /\ x[kl + 1] = SP
      /\ \A i \in 1..vl : x[kl + 1 + i] = s[i]
  <2>1. IsDataLine(x, k, s, kl, vl)
    BY DataLineShape
  <2> QED BY <2>1 DEF IsDataLine
<1>2. k \in Seq(Byte) /\ Len(k) = kl /\ kl \in Nat \ {0}
  BY KeyShape
<1>3. s \in Seq(Byte) /\ Len(s) = vl
  BY PlainShape
<1>4. kl + 1 \in Positions(r, SP)
  <2>1. kl + 1 \in 1..(kl + vl + 1)
    OBVIOUS
  <2>2. r[kl + 1] = SP
    BY <1>1, <2>1
  <2> QED BY <2>1, <2>2 DEF Positions
<1>5. SubSeq(r, 1, kl) = k
  <2>1. \A i \in 1..kl : r[i] = k[i]
    BY <1>1
  <2>2. \A i \in 1..kl : r[i] \in Byte
    BY <1>2, <2>1, ElementOfSeq
  <2>3. PICK a : a = SubSeq(r, 1, kl)
    OBVIOUS
  <2>4. a \in Seq(Byte) /\ Len(a) = kl
    BY <1>2, <2>2, <2>3, SubSeqProperties
  <2>5. \A i \in 1..kl : a[i] = r[i]
    BY <1>2, <2>2, <2>3, SubSeqProperties
  <2> QED BY <1>2, <2>1, <2>3, <2>4, <2>5, SeqEqual
<1>6. SubSeq(r, kl + 2, kl + vl + 1) = s
  <2>1. ASSUME NEW i \in (kl + 2)..(kl + vl + 1)
        PROVE  i - (kl + 1) \in 1..vl /\ r[i] = s[i - (kl + 1)]
    <3>1. PICK h \in 1..vl : h = i - (kl + 1) /\ kl + 1 + h = i /\ i \in 1..(kl + vl + 1)
      <4>1. i - (kl + 1) \in 1..vl /\ kl + 1 + (i - (kl + 1)) = i /\ i \in 1..(kl + vl + 1)
        OBVIOUS
      <4> QED BY <4>1
    <3>2. x[kl + 1 + h] = s[h] /\ r[i] = x[i]
      BY <1>1, <3>1
    <3> QED BY <3>1, <3>2
  <2>2. ASSUME NEW i \in (kl + 2)..(kl + vl + 1) PROVE r[i] \in Byte
    <3>1. i - (kl + 1) \in 1..Len(s)
      BY <1>3, <2>1
    <3>2. s[i - (kl + 1)] \in Byte
      BY <1>3, <3>1, ElementOfSeq
    <3> QED BY <2>1, <3>2
  <2>3. PICK a : a = SubSeq(r, kl + 2, kl + vl + 1)
    OBVIOUS
  <2>4. /\ a \in Seq(Byte)
        /\ Len(a) = IF kl + 2 <= kl + vl + 1 THEN (kl + vl + 1) - (kl + 2) + 1 ELSE 0
    BY <2>2, <2>3, SubSeqProperties
  <2>5. \A i \in 1..((kl + vl + 1) - (kl + 2) + 1) : a[i] = r[kl + 2 + i - 1]
    BY <2>2, <2>3, SubSeqProperties
  <2>6. Len(a) = vl
    BY <2>4
  <2>7. ASSUME NEW i \in 1..vl PROVE a[i] = s[i]
    <3>1. PICK h \in (kl + 2)..(kl + vl + 1) : h = kl + 2 + i - 1 /\ h - (kl + 1) = i
      OBVIOUS
    <3>2. i \in 1..((kl + vl + 1) - (kl + 2) + 1)
      OBVIOUS
    <3>3. a[i] = r[h]
      BY <2>5, <3>1, <3>2
    <3> QED BY <2>1, <3>1, <3>3
  <2> QED BY <1>3, <2>3, <2>4, <2>6, <2>7, SeqEqual
<1> QED BY <1>4, <1>5, <1>6 DEF IsSplit

\* When every line has n bytes, the buffer of getline() ends behind its NUL.
LEMMA BufferFits ==
  ASSUME NEW n \in Nat, LineLength = n, 2 * MIN_CAP <= n + 1,
         line = << >> \/ Len(line) = n + 1
  PROVE  Capacity(LineLength + 1) = n + 1 /\ Older = << >> /\ Unwritten = 0
<1>1. MIN_CAP \in Nat \ {0, 1}
  BY PersistenceAssumption
<1>2. Len(<< >>) = 0
  BY EmptySeq
<1>3. Capacity(LineLength + 1) = n + 1
  <2>1. CASE line = << >>
    BY <1>1, <2>1 DEF Capacity
  <2>2. CASE line # << >>
    BY <1>1, <2>2 DEF Capacity
  <2> QED BY <2>1, <2>2
<1>4. Older = << >>
  <2>1. Len(line) \in Int /\ Len(line) < n + 2
    BY <1>2
  <2> QED BY <2>1, SubSeqEmpty DEF Older
<1>5. Unwritten = 0
  BY <1>2, <1>3, <1>4 DEF Unwritten
<1> QED BY <1>3, <1>4, <1>5

LEMMA LoadedLine ==
  ASSUME NEW kl \in Nat, NEW vl \in Nat, FullLines(kl, vl), LoadInv(kl, vl), LoadLine
  PROVE  \E k \in Key, s \in Plain(vl) :
             /\ At(rest, 1, DataLine(k, s))
             /\ rest' = SubSeq(rest, kl + vl + 2 + 1, Len(rest))
             /\ line' \in Seq(Byte \cup Stale) /\ Len(line') = kl + vl + 3
             /\ \/ phase' = "quit" /\ list' = list
                \/ phase' = "loading" /\ \E i \in Places(k) : list' = Inserted(k, s, i)
<1>1. /\ Text(rest, DataLines(vl)) /\ rest # << >> /\ phase = "loading"
      /\ line \in Seq(Byte \cup Stale) /\ (line = << >> \/ Len(line) = kl + vl + 3)
  BY DEF LoadInv, LoadLine
<1>2. PICK n \in Nat \ {0} : n = kl + vl + 2
  OBVIOUS
<1>3. AreLines(DataLines(vl), n)
  BY <1>2, DataLinesAreLines
<1>4. PICK x \in DataLines(vl) : At(rest, 1, x) /\ SubSeq(rest, 1, n) = x
  <2>1. PICK g : g = SubSeq(rest, n + 1, Len(rest))
    OBVIOUS
  <2> QED BY <1>1, <1>3, <2>1, LineTaken
<1>5. First(Positions(rest, NL)) = n /\ Positions(rest, NL) # {}
  BY <1>1, <1>3, LineTaken
<1>6. LineLength = n
  BY <1>5 DEF LineLength
<1>7. PICK k \in Key, s \in Plain(vl) : x = DataLine(k, s)
  BY <1>4 DEF DataLines
<1>8. Older = << >> /\ Unwritten = 0
  <2>1. 2 * MIN_CAP <= n + 1
    BY <1>2 DEF FullLines
  <2>2. line = << >> \/ Len(line) = n + 1
    BY <1>1, <1>2
  <2> QED BY <1>6, <2>1, <2>2, BufferFits
<1>9. PICK stale \in [1..0 -> Stale] : line' = x \o <<NUL>> \o << >> \o stale
  BY <1>4, <1>6, <1>8 DEF LoadLine, Fetched
<1> DEFINE T == Byte \cup Stale
<1>10. stale \in Seq(T) /\ Len(stale) = 0
  BY <1>9
<1>11. x \in Seq(T) /\ Len(x) = n
  <2>1. x \in Seq(Byte) /\ Len(x) = n
    BY <1>3, <1>4 DEF AreLines
  <2> QED BY <1>2, <2>1, SeqMonotonic
<1>12. <<NUL>> \in Seq(T) /\ Len(<<NUL>>) = 1 /\ << >> \in Seq(T) /\ Len(<< >>) = 0
  BY EmptySeq DEF FullLines
<1> HIDE DEF T
<1>13. PICK a : a = x \o <<NUL>>
  OBVIOUS
<1>14. a \in Seq(T) /\ Len(a) = n + 1
  <2>1. a \in Seq(T) /\ Len(a) = Len(x) + Len(<<NUL>>)
    BY <1>11, <1>12, <1>13, ConcatProperties
  <2> QED BY <1>11, <1>12, <2>1
<1>15. \A j \in 1..n : a[j] = x[j]
  <2>1. PICK e : e = <<NUL>>
    OBVIOUS
  <2>2. e \in Seq(T) /\ x \in Seq(T)
    BY <1>11, <1>12, <2>1
  <2>3. a = x \o e
    BY <1>13, <2>1
  <2>4. \A j \in 1..Len(x) : a[j] = x[j]
    BY <2>2, <2>3, Joined
  <2> QED BY <1>11, <2>4
<1>16. stale = << >>
  BY <1>10, EmptySeq
<1>17. line' = a
  <2>1. line' = a \o << >> \o << >>
    BY <1>9, <1>13, <1>16
  <2>2. a \o << >> = a
    BY <1>14, ConcatEmptySeq
  <2> QED BY <2>1, <2>2
<1>18. line' \in Seq(T) /\ Len(line') = n + 1
  BY <1>14, <1>17
<1>19. PICK r : r = LineRead
  OBVIOUS
<1>20. r \in Seq(T) /\ Len(r) = n - 1 /\ \A j \in 1..(n - 1) : r[j] = x[j]
  <2>1. \A j \in 1..(n - 1) : a[j] \in T
    BY <1>2, <1>14, ElementOfSeq
  <2>2. r = SubSeq(a, 1, n - 1)
    <3>1. r = SubSeq(a, 1, Len(a) - 2)
      BY <1>17, <1>19 DEF LineRead
    <3> QED BY <1>2, <1>14, <3>1
  <2>3. n - 1 \in Nat \ {0}
    BY <1>2
  <2>4. r \in Seq(T) /\ Len(r) = n - 1
    BY <2>1, <2>2, <2>3, SubSeqProperties
  <2>5. \A j \in 1..(n - 1) : r[j] = a[j]
    BY <2>1, <2>2, <2>3, SubSeqProperties
  <2> QED BY <1>2, <1>15, <2>4, <2>5
<1>21. /\ kl + 1 \in Positions(r, SP)
       /\ SubSeq(r, 1, kl) = k
       /\ SubSeq(r, kl + 2, Len(r)) = s
  <2>1. n - 1 = kl + vl + 1
    BY <1>2
  <2>2. Len(r) = kl + vl + 1 /\ \A j \in 1..(kl + vl + 1) : r[j] = x[j]
    BY <1>20, <2>1
  <2>3. r \in Seq(T) /\ x = DataLine(k, s)
    BY <1>7, <1>20
  <2>4. IsSplit(r, k, s, kl, vl)
    BY <2>2, <2>3, LineSplit
  <2> QED BY <2>2, <2>4 DEF IsSplit
<1>22. \/ phase' = "quit" /\ list' = list
       \/ phase' = "loading" /\ \E i \in Places(k) : list' = Inserted(k, s, i)
  <2>1. CASE \E i \in Positions(r, SP) : Positions(r, SP) = {i}
    <3>1. Positions(r, SP) = {kl + 1}
      BY <1>21, <2>1
    <3>2. First(Positions(r, SP)) = kl + 1
      BY <3>1 DEF First
    <3>3. PICK b : b = First(Positions(r, SP))
      OBVIOUS
    <3>4. b - 1 = kl /\ b + 1 = kl + 2
      BY <3>2, <3>3
    <3>5. SubSeq(r, 1, b - 1) = k /\ SubSeq(r, b + 1, Len(r)) = s
      BY <1>21, <3>4
    <3>6. /\ phase' = phase
          /\ \E i \in Places(SubSeq(r, 1, b - 1)) :
                 list' = Inserted(SubSeq(r, 1, b - 1), SubSeq(r, b + 1, Len(r)), i)
      BY <1>19, <2>1, <3>3 DEF LoadLine
    <3> QED BY <1>1, <3>5, <3>6
  <2>2. CASE ~ \E i \in Positions(r, SP) : Positions(r, SP) = {i}
    BY <1>19, <2>2 DEF LoadLine
  <2> QED BY <2>1, <2>2
<1>23. rest' = SubSeq(rest, kl + vl + 2 + 1, Len(rest))
  BY <1>2, <1>6 DEF LoadLine
<1>24. Len(line') = kl + vl + 3
  BY <1>2, <1>18
<1> QED BY <1>4, <1>7, <1>18, <1>22, <1>23, <1>24 DEF T

-----------------------------------------------------------------------------
(***************************************************************************)
(* The order of keys: memcmp() on strings of one length                    *)
(***************************************************************************)
RankedBytes ==
    \A b, c \in Byte : ByteRank[b] \in Nat /\ (ByteRank[b] = ByteRank[c] => b = c)

Sorted(q) == \A i, j \in 1..Len(q) : i < j => Less(q[i].key, q[j].key)

LEMMA LessTotal ==
  ASSUME NEW kl \in Nat, NEW vl \in Nat, FullLines(kl, vl), RankedBytes,
         NEW j \in Key, NEW k \in Key, j # k, ~ Less(j, k)
  PROVE  Less(k, j)
<1>1. /\ j \in Seq(Byte) /\ Len(j) = kl /\ k \in Seq(Byte) /\ Len(k) = kl
      /\ \A i \in 1..kl : j[i] \in Byte /\ k[i] \in Byte
  BY KeyShape
<1>2. PICK S : S = {i \in 1..kl : j[i] # k[i]}
  OBVIOUS
<1>3. S # {} /\ S \subseteq Nat
  <2>1. ASSUME S = {} PROVE FALSE
    <3>1. \A i \in 1..kl : j[i] = k[i]
      BY <1>2, <2>1
    <3> QED BY <1>1, <3>1, SeqEqual
  <2> QED BY <1>2, <2>1
<1>4. PICK m \in S : \A i \in S : m <= i
  BY <1>3, FirstIsLeast
<1>5. m \in 1..kl /\ j[m] # k[m]
  BY <1>2, <1>4
<1>6. ASSUME NEW h \in 1..(m - 1) PROVE j[h] = k[h]
  <2>1. h \in 1..kl /\ ~ (m <= h)
    BY <1>5
  <2> QED BY <1>2, <1>4, <2>1
<1>7. ByteRank[j[m]] \in Nat /\ ByteRank[k[m]] \in Nat /\ ByteRank[j[m]] # ByteRank[k[m]]
  BY <1>1, <1>5 DEF RankedBytes
<1>8. ~ (ByteRank[j[m]] < ByteRank[k[m]])
  BY <1>1, <1>5, <1>6 DEF Less
<1>9. ByteRank[k[m]] < ByteRank[j[m]] /\ \A h \in 1..(m - 1) : k[h] = j[h]
  BY <1>6, <1>7, <1>8
<1> QED BY <1>1, <1>5, <1>9 DEF Less

LEMMA LessTransitive ==
  ASSUME NEW kl \in Nat, NEW vl \in Nat, FullLines(kl, vl), RankedBytes,
         NEW a \in Key, NEW b \in Key, NEW c \in Key, Less(a, b), Less(b, c)
  PROVE  Less(a, c)
<1>1. /\ Len(a) = kl /\ Len(b) = kl /\ Len(c) = kl
      /\ \A i \in 1..kl : a[i] \in Byte /\ b[i] \in Byte /\ c[i] \in Byte
  BY KeyShape
<1>2. PICK i \in 1..kl : /\ ByteRank[a[i]] < ByteRank[b[i]]
                         /\ \A h \in 1..(i - 1) : a[h] = b[h]
  BY <1>1 DEF Less
<1>3. PICK j \in 1..kl : /\ ByteRank[b[j]] < ByteRank[c[j]]
                         /\ \A h \in 1..(j - 1) : b[h] = c[h]
  BY <1>1 DEF Less
<1>4. \A h \in 1..kl : ByteRank[a[h]] \in Nat /\ ByteRank[b[h]] \in Nat /\ ByteRank[c[h]] \in Nat
  BY <1>1 DEF RankedBytes
<1>5. CASE i < j
  <2>1. i \in 1..(j - 1)
    BY <1>5
  <2>2. ByteRank[a[i]] < ByteRank[c[i]]
    BY <1>2, <1>3, <2>1
  <2>3. ASSUME NEW h \in 1..(i - 1) PROVE a[h] = c[h]
    <3>1. h \in 1..(j - 1)
      BY <1>5
    <3> QED BY <1>2, <1>3, <3>1
  <2> QED BY <1>1, <2>2, <2>3 DEF Less
<1>6. CASE i = j
  <2>1. ByteRank[a[i]] < ByteRank[c[i]]
    BY <1>2, <1>3, <1>4, <1>6
  <2>2. \A h \in 1..(i - 1) : a[h] = c[h]
    BY <1>2, <1>3, <1>6
  <2> QED BY <1>1, <2>1, <2>2 DEF Less
<1>7. CASE i > j
  <2>1. j \in 1..(i - 1)
    BY <1>7
  <2>2. ByteRank[a[j]] < ByteRank[c[j]]
    BY <1>2, <1>3, <2>1
  <2>3. ASSUME NEW h \in 1..(j - 1) PROVE a[h] = c[h]
    <3>1. h \in 1..(i - 1)
      BY <1>7
    <3> QED BY <1>2, <1>3, <3>1
  <2> QED BY <1>1, <2>2, <2>3 DEF Less
<1> QED BY <1>5, <1>6, <1>7

LEMMA InsertedSorted ==
  ASSUME NEW kl \in Nat, NEW vl \in Nat, FullLines(kl, vl), RankedBytes,
         NEW q \in Seq(Nodes(vl)), Sorted(q), NEW i \in 1..(Len(q) + 1), NEW x \in Nodes(vl),
         \A j \in 1..Len(q) : q[j].key # x.key,
         \A j \in 1..(i - 1) : Less(q[j].key, x.key),
         i <= Len(q) => ~ Less(q[i].key, x.key),
         NEW g, g \in Seq(Nodes(vl)), Len(g) = Len(q) + 1, g[i] = x,
         \A j \in 1..(i - 1) : g[j] = q[j],
         \A j \in i..Len(q) : g[j + 1] = q[j]
  PROVE  Sorted(g)
<1>1. Len(q) \in Nat
  BY LenProperties
<1>2. \A j \in 1..Len(q) : q[j].key \in Key
  BY NodeShape
<1>3. x.key \in Key
  BY DEF Nodes
<1>4. ASSUME NEW j \in i..Len(q) PROVE Less(x.key, q[j].key)
  <2>1. i \in 1..Len(q) /\ j \in 1..Len(q)
    BY <1>1
  <2>2. Less(x.key, q[i].key)
    BY <1>2, <1>3, <2>1, LessTotal
  <2>3. CASE j = i
    BY <2>2, <2>3
  <2>4. CASE j # i
    <3>1. Less(q[i].key, q[j].key)
      BY <1>1, <2>1, <2>4 DEF Sorted
    <3> QED BY <1>2, <1>3, <2>1, <2>2, <3>1, LessTransitive
  <2> QED BY <2>3, <2>4
<1>5. SUFFICES ASSUME NEW h \in 1..Len(g), NEW m \in 1..Len(g), h < m
               PROVE  Less(g[h].key, g[m].key)
  BY DEF Sorted
<1>6. CASE m < i
  <2>1. h \in 1..(i - 1) /\ m \in 1..(i - 1) /\ h \in 1..Len(q) /\ m \in 1..Len(q)
    BY <1>1, <1>5, <1>6
  <2> QED BY <1>5, <2>1 DEF Sorted
<1>7. CASE m = i
  <2>1. h \in 1..(i - 1)
    BY <1>5, <1>7
  <2> QED BY <1>7, <2>1
<1>8. CASE m > i
  <2>1. PICK l \in i..Len(q) : m = l + 1
    <3>1. m - 1 \in i..Len(q) /\ m = (m - 1) + 1
      BY <1>1, <1>8
    <3> QED BY <3>1
  <2>2. g[m] = q[l] /\ l \in 1..Len(q)
    BY <1>1, <2>1
  <2>3. CASE h < i
    <3>1. h \in 1..(i - 1) /\ h \in 1..Len(q) /\ h < l
      BY <1>1, <2>1, <2>3
    <3> QED BY <2>2, <3>1 DEF Sorted
  <2>4. CASE h = i
    BY <1>4, <2>1, <2>2, <2>4
  <2>5. CASE h > i
    <3>1. PICK p \in i..Len(q) : h = p + 1
      <4>1. h - 1 \in i..Len(q) /\ h = (h - 1) + 1
        BY <1>1, <2>5
      <4> QED BY <4>1
    <3>2. g[h] = q[p] /\ p \in 1..Len(q) /\ p < l
      BY <1>1, <1>5, <2>1, <3>1
    <3> QED BY <2>2, <3>2 DEF Sorted
  <2> QED BY <2>3, <2>4, <2>5
<1> QED BY <1>6, <1>7, <1>8

-----------------------------------------------------------------------------
(***************************************************************************)
(* The steps                                                               *)
(***************************************************************************)
HeldIn(q, k) == \E i \in 1..Len(q) : q[i].key = k

LEMMA HoldsIsHeld == \A k : Holds(k) <=> HeldIn(list, k)
BY DEF Holds, HeldIn

\* A key that the list does not hold gets a node of its own.
LEMMA Inserting ==
  ASSUME NEW kl \in Nat, NEW vl \in Nat, FullLines(kl, vl), ListInv(vl),
         NEW k \in Key, NEW s \in Plain(vl), ~ HeldIn(list, k),
         NEW i \in Places(k), list' = Inserted(k, s, i)
  PROVE  /\ list' \in Seq(Nodes(vl)) /\ Distinct(list')
         /\ \A j \in Key : HeldIn(list', j) <=> HeldIn(list, j) \/ j = k
         /\ (\A h \in 1..Len(list) : list[h].val # FREED)
                => \A h \in 1..Len(list') : list'[h].val # FREED
         /\ RankedBytes /\ Sorted(list) => Sorted(list')
<1>1. list \in Seq(Nodes(vl)) /\ Distinct(list) /\ Len(list) \in Nat
  BY LenProperties DEF ListInv
<1>2. \A j \in 1..Len(list) : list[j].key # k /\ list[j].key \in Key
  BY <1>1, NodeShape DEF HeldIn
<1>3. \A j \in 1..Len(list) : ~ Equal(list[j].key, k)
  BY <1>2, KeyShape DEF Equal
<1>4. i \in 1..(Len(list) + 1)
  BY DEF Places
<1>5. PICK x : x = Node(k, s)
  OBVIOUS
<1>6. x \in Nodes(vl) /\ x.key = k /\ x.val = s
  BY <1>5 DEF Node, Nodes
<1>7. ~ (i <= Len(list) /\ Equal(list[i].key, k))
  BY <1>1, <1>3, <1>4
<1>8. IsInserted(list', list, i, x)
  BY <1>5, <1>7 DEF Inserted, IsInserted
<1>9. \A j \in 1..Len(list) : list[j].key # x.key
  BY <1>2, <1>6
<1>10. list' \in Seq(Nodes(vl)) /\ Distinct(list')
  BY <1>1, <1>4, <1>6, <1>8, <1>9, ListInserted
<1>11. \A h \in 1..Len(list') : list'[h] = x \/ \E j \in 1..Len(list) : list'[h] = list[j]
  BY <1>1, <1>4, <1>6, <1>8, <1>9, ListInserted
<1>12. \E h \in 1..Len(list') : list'[h] = x
  BY <1>1, <1>4, <1>6, <1>8, <1>9, ListInserted
<1>13. ASSUME NEW j \in 1..Len(list) PROVE \E h \in 1..Len(list') : list'[h] = list[j]
  <2>1. PICK q, g : q = list /\ g = list'
    OBVIOUS
  <2>2. /\ q \in Seq(Nodes(vl)) /\ Distinct(q) /\ i \in 1..(Len(q) + 1)
        /\ IsInserted(g, q, i, x)
    BY <1>1, <1>4, <1>8, <2>1
  <2>3. \A m \in 1..Len(q) : q[m].key # x.key
    BY <1>9, <2>1
  <2>4. x \in Nodes(vl)
    BY <1>6
  <2>5. \A m \in 1..Len(q) : \E h \in 1..Len(g) : g[h] = q[m]
    BY <2>2, <2>3, <2>4, ListInserted
  <2> QED BY <2>1, <2>5
<1>14. ASSUME NEW j \in Key PROVE HeldIn(list', j) <=> HeldIn(list, j) \/ j = k
  <2>1. ASSUME HeldIn(list', j) PROVE HeldIn(list, j) \/ j = k
    BY <1>6, <1>11, <2>1 DEF HeldIn
  <2>2. ASSUME HeldIn(list, j) PROVE HeldIn(list', j)
    BY <1>13, <2>2 DEF HeldIn
  <2>3. ASSUME j = k PROVE HeldIn(list', j)
    BY <1>6, <1>12, <2>3 DEF HeldIn
  <2> QED BY <2>1, <2>2, <2>3
<1>15. s # FREED
  BY DEF FullLines
<1>16. (\A h \in 1..Len(list) : list[h].val # FREED)
           => \A h \in 1..Len(list') : list'[h].val # FREED
  BY <1>6, <1>11, <1>15
<1>17. ASSUME RankedBytes, Sorted(list) PROVE Sorted(list')
  <2>1. PICK q, g : q = list /\ g = list'
    OBVIOUS
  <2>2. /\ q \in Seq(Nodes(vl)) /\ Distinct(q) /\ i \in 1..(Len(q) + 1)
        /\ IsInserted(g, q, i, x) /\ g \in Seq(Nodes(vl)) /\ Sorted(q)
    BY <1>1, <1>4, <1>8, <1>10, <1>17, <2>1
  <2>3. \A m \in 1..Len(q) : q[m].key # x.key
    BY <1>9, <2>1
  <2>4. x \in Nodes(vl)
    BY <1>6
  <2>5. Len(g) = Len(q) + 1 /\ g[i] = x
    BY <2>2, <2>3, <2>4, ListInserted
  <2>6. \A j \in 1..(i - 1) : g[j] = q[j]
    BY <2>2, <2>3, <2>4, ListInserted
  <2>7. \A j \in i..Len(q) : g[j + 1] = q[j]
    BY <2>2, <2>3, <2>4, ListInserted
  <2>8. ASSUME NEW j \in 1..(i - 1) PROVE Less(q[j].key, x.key)
    <3>1. j \in 1..Len(list)
      BY <1>1, <1>4
    <3>2. Len(list[j].key) = Len(k)
      BY <1>2, <3>1, KeyShape
    <3> QED BY <1>6, <2>1, <3>2 DEF Places
  <2>9. i <= Len(q) => ~ Less(q[i].key, x.key)
    BY <1>6, <2>1 DEF Places
  <2>10. Sorted(g)
    BY <1>17, <2>2, <2>3, <2>4, <2>5, <2>6, <2>7, <2>8, <2>9, InsertedSorted
  <2> QED BY <2>1, <2>10
<1> QED BY <1>10, <1>14, <1>16, <1>17

\* The node that a search for a key ends at holds that key.
LEMMA Found ==
  ASSUME NEW kl \in Nat, NEW vl \in Nat, FullLines(kl, vl), ListInv(vl),
         NEW k \in Key, NEW i \in Places(k), i <= Len(list), Equal(list[i].key, k)
  PROVE  i \in 1..Len(list) /\ list[i].key = k
<1>1. list \in Seq(Nodes(vl)) /\ Len(list) \in Nat
  BY LenProperties DEF ListInv
<1>2. i \in 1..Len(list)
  BY <1>1 DEF Places
<1>3. list[i].key \in Key
  BY <1>1, <1>2, NodeShape
<1> QED BY <1>2, <1>3, KeyShape DEF Equal

LEMMA StartStep ==
  ASSUME NEW kl \in Nat, NEW vl \in Nat, FullLines(kl, vl), Inv(kl, vl), Start
  PROVE  Inv(kl, vl)'
<1>1. phase' = "loading" /\ list' = << >> /\ rest' = file /\ file' = file /\ line' = << >>
  BY DEF Start
<1>2. Len(<< >>) = 0 /\ \A S : << >> \in Seq(S)
  BY EmptySeq
<1>3. ListInv(vl)'
  BY <1>1, <1>2 DEF ListInv, Distinct
<1>4. FileInv(vl)'
  BY <1>1 DEF Inv, FileInv
<1>5. LoadInv(kl, vl)'
  BY <1>1, <1>2 DEF Inv, FileInv, LoadInv, Holds
<1>6. KeptInv'
  BY <1>1 DEF KeptInv
<1>7. SaveInv(vl)'
  BY <1>1 DEF SaveInv
<1> QED BY <1>1, <1>3, <1>4, <1>5, <1>6, <1>7 DEF Inv, Ended, Running

LEMMA LoadLineStep ==
  ASSUME NEW kl \in Nat, NEW vl \in Nat, FullLines(kl, vl), Inv(kl, vl), LoadLine
  PROVE  Inv(kl, vl)'
<1>1. phase = "loading" /\ file' = file /\ deleted' = deleted
  BY DEF LoadLine
<1>2. PICK k \in Key, s \in Plain(vl) :
          /\ At(rest, 1, DataLine(k, s))
          /\ rest' = SubSeq(rest, kl + vl + 2 + 1, Len(rest))
          /\ line' \in Seq(Byte \cup Stale) /\ Len(line') = kl + vl + 3
          /\ \/ phase' = "quit" /\ list' = list
             \/ phase' = "loading" /\ \E i \in Places(k) : list' = Inserted(k, s, i)
  BY LoadedLine DEF Inv
<1>3. FileInv(vl)'
  BY <1>1 DEF Inv, FileInv
<1>4. SaveInv(vl)'
  BY <1>2 DEF SaveInv
<1>5. CASE phase' = "quit" /\ list' = list
  <2>1. ListInv(vl)'
    BY <1>5 DEF Inv, ListInv
  <2>2. LoadInv(kl, vl)' /\ KeptInv'
    BY <1>5 DEF LoadInv, KeptInv, Running
  <2> QED BY <1>3, <1>4, <1>5, <2>1, <2>2 DEF Inv, Ended
<1>6. CASE phase' = "loading" /\ \E i \in Places(k) : list' = Inserted(k, s, i)
  <2>1. PICK n \in Nat \ {0} : n = kl + vl + 2
    OBVIOUS
  <2>2. AreLines(DataLines(vl), n)
    BY <2>1, DataLinesAreLines
  <2>3. /\ Text(rest, DataLines(vl)) /\ rest # << >>
        /\ \A j \in Key : /\ Once(rest, Word(j))
                          /\ Has(rest, Word(j)) => ~ HeldIn(list, j)
    BY <1>1, HoldsIsHeld DEF Inv, LoadInv, LoadLine
  <2>4. \A j \in Key : Len(Word(j)) \in Nat
    BY WordShape
  <2>5. PICK g : g = rest' /\ g = SubSeq(rest, n + 1, Len(rest))
    BY <1>2, <2>1
  <2>6. Text(g, DataLines(vl))
    BY <2>2, <2>3, <2>5, LineTaken
  <2>7. \A j \in Key : Has(rest, Word(j)) => At(rest, 1, Word(j)) \/ Has(g, Word(j))
    BY <2>2, <2>3, <2>4, <2>5, LineTaken
  <2>8. \A j \in Key : Has(g, Word(j)) => Has(rest, Word(j))
    BY <2>2, <2>3, <2>4, <2>5, LineTaken
  <2>9. \A j \in Key : Once(g, Word(j)) /\ ~ (At(rest, 1, Word(j)) /\ Has(g, Word(j)))
    BY <2>2, <2>3, <2>4, <2>5, LineTaken
  <2>10. Len(rest) \in Nat \ {0}
    BY <2>3, EmptySeq DEF Text
  <2>11. \A j \in Key : At(rest, 1, Word(j)) <=> j = k
    BY <1>2, <2>10, WordAt
  <2>12. Has(rest, Word(k))
    BY <2>10, <2>11 DEF Has, LineStart
  <2>13. ~ HeldIn(list, k)
    BY <2>3, <2>12
  <2>14. PICK i \in Places(k) : list' = Inserted(k, s, i)
    BY <1>6
  <2>15. list' \in Seq(Nodes(vl)) /\ Distinct(list')
    BY <2>13, <2>14, Inserting DEF Inv
  <2>16. \A j \in Key : HeldIn(list', j) <=> HeldIn(list, j) \/ j = k
    BY <2>13, <2>14, Inserting DEF Inv
  <2>17. \A h \in 1..Len(list) : list[h].val # FREED
    BY <1>1 DEF Inv, ListInv
  <2>18. \A h \in 1..Len(list') : list'[h].val # FREED
    BY <2>13, <2>14, <2>17, Inserting DEF Inv
  <2>19. ListInv(vl)'
    BY <1>6, <2>15, <2>18 DEF ListInv
  <2>20. LoadInv(kl, vl)'
    <3>1. Text(rest', DataLines(vl))
      BY <2>5, <2>6
    <3>2. ASSUME NEW j \in Key
          PROVE  Once(rest', Word(j)) /\ (Has(rest', Word(j)) => ~ HeldIn(list', j))
      BY <2>3, <2>5, <2>8, <2>9, <2>11, <2>16
    <3>3. \A j \in Key : Holds(j)' <=> HeldIn(list', j)
      BY DEF Holds, HeldIn
    <3> QED BY <1>2, <3>1, <3>2, <3>3 DEF LoadInv
  <2>21. KeptInv'
    <3>1. ASSUME NEW j \in Key, Has(file, Word(j))
          PROVE  HeldIn(list', j) \/ j \in deleted \/ Has(rest', Word(j))
      <4>1. Holds(j) \/ j \in deleted \/ Has(rest, Word(j))
        BY <1>1, <3>1 DEF Inv, KeptInv, Running
      <4> QED BY <2>5, <2>7, <2>11, <2>16, <4>1, HoldsIsHeld
    <3>2. \A j \in Key : Holds(j)' <=> HeldIn(list', j)
      BY DEF Holds, HeldIn
    <3> QED BY <1>1, <1>6, <3>1, <3>2 DEF KeptInv
  <2> QED BY <1>3, <1>4, <1>6, <2>19, <2>20, <2>21 DEF Inv, Running
<1> QED BY <1>2, <1>5, <1>6

\* What a step that leaves the data file and its key set alone has to show.
LEMMA OtherParts ==
  ASSUME NEW kl \in Nat, NEW vl \in Nat, Inv(kl, vl),
         phase' \in Ended \cup {"serving", "replacing", "saving"}, phase \in Running,
         UNCHANGED file, ListInv(vl)', SaveInv(vl)',
         phase = "loading" => rest = << >> \/ phase' \in Ended,
         \A k \in Key : HeldIn(list, k) \/ k \in deleted => HeldIn(list', k) \/ k \in deleted'
  PROVE  Inv(kl, vl)'
<1>1. FileInv(vl)'
  BY DEF Inv, FileInv
<1>2. LoadInv(kl, vl)'
  BY DEF LoadInv, Ended
<1>3. KeptInv'
  <2>1. ASSUME phase' \in Running, NEW k \in Key, Has(file, Word(k))
        PROVE  HeldIn(list', k) \/ k \in deleted'
    <3>1. Holds(k) \/ k \in deleted \/ (phase = "loading" /\ Has(rest, Word(k)))
      BY <2>1 DEF Inv, KeptInv
    <3>2. ~ (phase = "loading" /\ Has(rest, Word(k)))
      BY <2>1, EmptyText DEF Running, Ended
    <3> QED BY <3>1, <3>2, HoldsIsHeld
  <2>2. \A j \in Key : Holds(j)' <=> HeldIn(list', j)
    BY DEF Holds, HeldIn
  <2> QED BY <2>1, <2>2 DEF KeptInv
<1> QED BY <1>1, <1>2, <1>3 DEF Inv, Running

LEMMA LoadEndStep ==
  ASSUME NEW kl \in Nat, NEW vl \in Nat, FullLines(kl, vl), Inv(kl, vl), LoadEnd
  PROVE  Inv(kl, vl)'
<1>1. /\ phase = "loading" /\ phase' = "serving" /\ rest = << >>
      /\ list' = list /\ file' = file /\ deleted' = deleted
  BY DEF LoadEnd, fileVars
<1>2. ListInv(vl)'
  BY <1>1 DEF Inv, ListInv
<1>3. SaveInv(vl)'
  BY <1>1 DEF SaveInv
<1> QED BY <1>1, <1>2, <1>3, OtherParts DEF Running

LEMMA PutNewStep ==
  ASSUME NEW kl \in Nat, NEW vl \in Nat, FullLines(kl, vl), Inv(kl, vl),
         NEW k \in Key, NEW v \in Val, PutNew(k, v)
  PROVE  Inv(kl, vl)'
<1>1. /\ phase = "serving" /\ phase' = "serving" /\ file' = file /\ deleted' = deleted
      /\ ~ HeldIn(list, k)
  BY HoldsIsHeld DEF PutNew, fileVars
<1>2. PICK i \in Places(k) : list' = Inserted(k, v, i)
  BY DEF PutNew
<1>3. v \in Plain(vl)
  BY DEF FullLines
<1>4. list' \in Seq(Nodes(vl)) /\ Distinct(list')
  BY <1>1, <1>2, <1>3, Inserting DEF Inv
<1>5. \A j \in Key : HeldIn(list', j) <=> HeldIn(list, j) \/ j = k
  BY <1>1, <1>2, <1>3, Inserting DEF Inv
<1>6. \A h \in 1..Len(list) : list[h].val # FREED
  BY <1>1 DEF Inv, ListInv
<1>7. \A h \in 1..Len(list') : list'[h].val # FREED
  BY <1>1, <1>2, <1>3, <1>6, Inserting DEF Inv
<1>8. ListInv(vl)'
  BY <1>1, <1>4, <1>7 DEF ListInv
<1>9. SaveInv(vl)'
  BY <1>1 DEF SaveInv
<1> QED BY <1>1, <1>5, <1>8, <1>9, OtherParts DEF Running

LEMMA FreeOldStep ==
  ASSUME NEW kl \in Nat, NEW vl \in Nat, FullLines(kl, vl), Inv(kl, vl),
         NEW k \in Key, NEW v \in Val, FreeOld(k, v)
  PROVE  Inv(kl, vl)'
<1>1. /\ phase = "serving" /\ phase' = "replacing" /\ file' = file /\ deleted' = deleted
  BY DEF FreeOld, fileVars
<1>2. PICK i \in Places(k) : /\ i <= Len(list) /\ Equal(list[i].key, k)
                             /\ list' = [list EXCEPT ![i].val = FREED]
                             /\ pending' = <<i, v>>
  BY DEF FreeOld
<1>3. list \in Seq(Nodes(vl)) /\ Distinct(list)
  BY DEF Inv, ListInv
<1>4. i \in 1..Len(list)
  BY <1>2, Found DEF Inv
<1>5. PICK w : w = FREED
  OBVIOUS
<1>6. list' = [list EXCEPT ![i].val = w] /\ w \in Plain(vl) \cup {FREED}
  BY <1>2, <1>5
<1>7. list' \in Seq(Nodes(vl)) /\ Distinct(list') /\ Len(list') = Len(list)
  <2>1. list' \in Seq(Nodes(vl))
    BY <1>3, <1>4, <1>6, ListChanged
  <2>2. Distinct(list')
    BY <1>3, <1>4, <1>6, ListChanged
  <2>3. Len(list') = Len(list)
    BY <1>3, <1>4, <1>6, ListChanged
  <2> QED BY <2>1, <2>2, <2>3
<1>8. \A h \in 1..Len(list) : list'[h].key = list[h].key
  BY <1>3, <1>4, <1>6, ListChanged
<1>9. \A h \in 1..Len(list) : h # i => list'[h] = list[h]
  BY <1>3, <1>4, <1>6, ListChanged
<1>10. \A h \in 1..Len(list) : list[h].val # FREED
  BY <1>1 DEF Inv, ListInv
<1>11. ListInv(vl)'
  <2>1. pending' \in (1..Len(list')) \X Plain(vl) /\ pending'[1] = i
    BY <1>2, <1>4, <1>7 DEF FullLines
  <2>2. \A h \in 1..Len(list') : pending'[1] # h => list'[h].val # FREED
    BY <1>7, <1>9, <1>10, <2>1
  <2> QED BY <1>1, <1>7, <2>1, <2>2 DEF ListInv
<1>12. SaveInv(vl)'
  BY <1>1 DEF SaveInv
<1>13. \A j \in Key : HeldIn(list, j) => HeldIn(list', j)
  BY <1>7, <1>8 DEF HeldIn
<1> QED BY <1>1, <1>11, <1>12, <1>13, OtherParts DEF Running

LEMMA AssignNewStep ==
  ASSUME NEW kl \in Nat, NEW vl \in Nat, FullLines(kl, vl), Inv(kl, vl), AssignNew
  PROVE  Inv(kl, vl)'
<1>1. /\ phase = "replacing" /\ phase' = "serving" /\ file' = file /\ deleted' = deleted
      /\ list' = [list EXCEPT ![pending[1]].val = pending[2]]
  BY DEF AssignNew, fileVars
<1>2. list \in Seq(Nodes(vl)) /\ Distinct(list)
  BY DEF Inv, ListInv
<1>3. PICK i, w : i = pending[1] /\ w = pending[2]
  OBVIOUS
<1>4. i \in 1..Len(list) /\ w \in Plain(vl) /\ w # FREED
  BY <1>1, <1>3 DEF Inv, ListInv, FullLines
<1>5. list' = [list EXCEPT ![i].val = w]
  BY <1>1, <1>3
<1>6. list' \in Seq(Nodes(vl)) /\ Distinct(list') /\ Len(list') = Len(list)
  <2>1. list' \in Seq(Nodes(vl))
    BY <1>2, <1>4, <1>5, ListChanged
  <2>2. Distinct(list')
    BY <1>2, <1>4, <1>5, ListChanged
  <2>3. Len(list') = Len(list)
    BY <1>2, <1>4, <1>5, ListChanged
  <2> QED BY <2>1, <2>2, <2>3
<1>7. \A h \in 1..Len(list) : list'[h].key = list[h].key
  BY <1>2, <1>4, <1>5, ListChanged
<1>8. list'[i].val = w /\ \A h \in 1..Len(list) : h # i => list'[h] = list[h]
  BY <1>2, <1>4, <1>5, ListChanged
<1>9. \A h \in 1..Len(list) : h # i => list[h].val # FREED
  BY <1>1, <1>3 DEF Inv, ListInv
<1>10. \A h \in 1..Len(list') : list'[h].val # FREED
  BY <1>4, <1>6, <1>8, <1>9
<1>11. ListInv(vl)'
  BY <1>1, <1>6, <1>10 DEF ListInv
<1>12. SaveInv(vl)'
  BY <1>1 DEF SaveInv
<1>13. \A j \in Key : HeldIn(list, j) => HeldIn(list', j)
  BY <1>6, <1>7 DEF HeldIn
<1> QED BY <1>1, <1>11, <1>12, <1>13, OtherParts DEF Running

LEMMA DeleteStep ==
  ASSUME NEW kl \in Nat, NEW vl \in Nat, FullLines(kl, vl), Inv(kl, vl),
         NEW k \in Key, Delete(k)
  PROVE  Inv(kl, vl)'
<1>1. /\ phase = "serving" /\ phase' = "serving" /\ file' = file
      /\ deleted' = deleted \cup {k}
  BY DEF Delete, fileVars
<1>2. PICK i \in Places(k) : /\ i <= Len(list) /\ Equal(list[i].key, k)
                             /\ list' = Without(i)
  BY DEF Delete
<1>3. list \in Seq(Nodes(vl)) /\ Distinct(list)
  BY DEF Inv, ListInv
<1>4. i \in 1..Len(list) /\ list[i].key = k
  BY <1>2, Found DEF Inv
<1>5. IsRemoved(list', list, i)
  BY <1>2 DEF Without, IsRemoved
<1>6. list' \in Seq(Nodes(vl)) /\ Distinct(list')
  BY <1>3, <1>4, <1>5, ListRemoved
<1>7. \A h \in 1..Len(list') : \E j \in 1..Len(list) : list'[h] = list[j]
  BY <1>3, <1>4, <1>5, ListRemoved
<1>8. ASSUME NEW j \in 1..Len(list), j # i
      PROVE  \E h \in 1..Len(list') : list'[h] = list[j]
  <2>1. PICK q : q = list
    OBVIOUS
  <2>2. q \in Seq(Nodes(vl)) /\ Distinct(q) /\ i \in 1..Len(q) /\ IsRemoved(list', q, i)
    BY <1>3, <1>4, <1>5, <2>1
  <2>3. \A m \in 1..Len(q) : m # i => \E h \in 1..Len(list') : list'[h] = q[m]
    BY <2>2, ListRemoved
  <2> QED BY <1>8, <2>1, <2>3
<1>9. \A h \in 1..Len(list) : list[h].val # FREED
  BY <1>1 DEF Inv, ListInv
<1>10. \A h \in 1..Len(list') : list'[h].val # FREED
  BY <1>7, <1>9
<1>11. ListInv(vl)'
  BY <1>1, <1>6, <1>10 DEF ListInv
<1>12. SaveInv(vl)'
  BY <1>1 DEF SaveInv
<1>13. ASSUME NEW j \in Key, HeldIn(list, j), j # k PROVE HeldIn(list', j)
  <2>1. PICK m \in 1..Len(list) : list[m].key = j
    BY <1>13 DEF HeldIn
  <2>2. m # i
    BY <1>4, <1>13, <2>1
  <2>3. PICK h \in 1..Len(list') : list'[h] = list[m]
    BY <1>8, <2>2
  <2> QED BY <2>1, <2>3 DEF HeldIn
<1>14. \A j \in Key : HeldIn(list, j) \/ j \in deleted => HeldIn(list', j) \/ j \in deleted'
  BY <1>1, <1>13
<1> QED BY <1>1, <1>11, <1>12, <1>14, OtherParts DEF Running

LEMMA BeginSaveStep ==
  ASSUME NEW kl \in Nat, NEW vl \in Nat, FullLines(kl, vl), Inv(kl, vl),
         phase \in {"serving", "replacing"}, BeginSave, deleted' = deleted,
         Garbage \subseteq Plain(vl) \/ phase # "replacing" \/ phase' # "saving"
  PROVE  Inv(kl, vl)'
<1>1. /\ phase' = "saving" /\ node' = 1 /\ temp' = << >>
      /\ list' = list /\ file' = file
  BY DEF BeginSave
<1>2. list \in Seq(Nodes(vl)) /\ Distinct(list)
  BY DEF Inv, ListInv
<1>3. ASSUME NEW i \in 1..Len(list) PROVE Readable(list[i]) \subseteq Plain(vl)
  <2>1. list[i].val \in Plain(vl) \cup {FREED}
    BY <1>2, NodeShape
  <2>2. CASE list[i].val = FREED
    <3>1. phase = "replacing"
      BY <2>2 DEF Inv, ListInv
    <3> QED BY <1>1, <2>2, <3>1 DEF Readable
  <2>3. CASE list[i].val # FREED
    BY <2>1, <2>3 DEF Readable
  <2> QED BY <2>2, <2>3
<1>4. ListInv(vl)'
  BY <1>1, <1>2, <1>3 DEF ListInv, Readable
<1>5. SaveInv(vl)'
  <2>1. Text(<< >>, DataLines(vl)) /\ \A y : ~ Has(<< >>, y) /\ Once(<< >>, y)
    BY EmptyText
  <2>2. \A i \in 1..Len(list) : ~ (i < 1)
    BY <1>2, LenProperties
  <2> QED BY <1>1, <2>1, <2>2 DEF SaveInv
<1>6. phase' \in Ended \cup {"serving", "replacing", "saving"} /\ phase \in Running
  BY <1>1 DEF Running
<1> QED BY <1>1, <1>4, <1>5, <1>6, OtherParts

LEMMA PrintedPlain ==
  ASSUME NEW s, \A i \in 1..Len(s) : s[i] # NUL
  PROVE  Printed(s) = s
BY DEF Printed, Positions

LEMMA SaveNodeStep ==
  ASSUME NEW kl \in Nat, NEW vl \in Nat, FullLines(kl, vl), Inv(kl, vl), SaveNode
  PROVE  Inv(kl, vl)'
<1>1. /\ phase = "saving" /\ phase' = "saving" /\ file' = file /\ list' = list
      /\ deleted' = deleted /\ node <= Len(list) /\ node' = node + 1
  BY DEF SaveNode
<1>2. /\ list \in Seq(Nodes(vl)) /\ Distinct(list) /\ Len(list) \in Nat
      /\ \A i \in 1..Len(list) : Readable(list[i]) \subseteq Plain(vl)
  BY <1>1, LenProperties DEF Inv, ListInv
<1>4. ListInv(vl)'
  BY <1>1, <1>2 DEF ListInv, Readable
<1>5. CASE cut'
  <2>1. SaveInv(vl)'
    BY <1>5 DEF SaveInv
  <2> QED BY <1>1, <1>4, <2>1, OtherParts DEF Running
<1>6. CASE ~ cut'
  <2> DEFINE Whole == \E v \in Readable(list[node]) : temp' = temp \o Line(list[node], v)
  <2>a. ~ cut /\ Whole
    BY <1>6 DEF SaveNode
  <2>b. /\ Text(temp, DataLines(vl)) /\ node \in Nat \ {0}
        /\ \A i \in 1..Len(list) : i < node => Has(temp, Word(list[i].key))
        /\ \A k \in Key : /\ Once(temp, Word(k))
                          /\ Has(temp, Word(k)) =>
                                 \E i \in 1..Len(list) : i < node /\ list[i].key = k
    BY <1>1, <2>a DEF Inv, SaveInv
  <2>1. node \in 1..Len(list)
    BY <1>1, <2>b
  <2>2. PICK v \in Readable(list[node]) : temp' = temp \o Line(list[node], v)
    BY <2>a
  <2>3. v \in Plain(vl)
    BY <1>2, <2>1
  <2>4. PICK k \in Key : k = list[node].key
    BY <1>2, <2>1, NodeShape
  <2>5. PICK x : x = DataLine(k, v)
    OBVIOUS
  <2>6. Line(list[node], v) = x
    <3>1. Printed(k) = k
      BY KeyShape, PrintedPlain
    <3>2. Printed(v) = v
      BY <2>3, PlainShape, PrintedPlain
    <3> QED BY <2>4, <2>5, <3>1, <3>2 DEF Line, DataLine
  <2>7. x \in DataLines(vl)
    BY <2>3, <2>5 DEF DataLines
  <2>8. PICK n \in Nat \ {0} : n = kl + vl + 2
    OBVIOUS
  <2>9. AreLines(DataLines(vl), n)
    BY <2>8, DataLinesAreLines
  <2>10. \A j \in Key : Len(Word(j)) \in 0..n /\ Len(Word(j)) \in Nat
    BY <2>8, WordShape
  <2>11. PICK g : g = temp' /\ g = temp \o x
    BY <2>2, <2>6
  <2>12. Text(g, DataLines(vl))
    BY <2>b, <2>7, <2>9, <2>11, LineAdded
  <2>13. LineStart(g, Len(temp) + 1) /\ At(g, Len(temp) + 1, x) /\ Len(g) = Len(temp) + n
    BY <2>b, <2>7, <2>9, <2>11, LineAdded
  <2>14. \A j \in Key : Has(temp, Word(j)) => Has(g, Word(j))
    BY <2>b, <2>7, <2>9, <2>10, <2>11, LineAdded
  <2>15. \A j \in Key : Has(g, Word(j)) => Has(temp, Word(j)) \/ At(x, 1, Word(j))
    BY <2>b, <2>7, <2>9, <2>10, <2>11, LineAdded
  <2>16. \A j \in Key : ~ (Has(temp, Word(j)) /\ At(x, 1, Word(j))) => Once(g, Word(j))
    BY <2>b, <2>7, <2>9, <2>10, <2>11, LineAdded
  <2>17. Len(temp) \in Nat /\ Len(x) = n /\ Len(g) \in Nat
    BY <2>b, <2>7, <2>9, <2>13, LenProperties DEF Text, AreLines
  <2>18. At(x, 1, x)
    BY <2>17 DEF At
  <2>19. \A j \in Key : At(x, 1, Word(j)) <=> j = k
    BY <2>3, <2>5, <2>17, <2>18, WordAt
  <2>20. Has(g, Word(k))
    <3>1. PICK p \in Nat : p = Len(temp) + 1
      BY <2>17
    <3>2. At(g, p, DataLine(k, v))
      BY <2>5, <2>13, <3>1
    <3>3. At(g, p, Word(k))
      BY <2>3, <2>17, <3>2, WordAt
    <3>4. p \in 1..Len(g) /\ LineStart(g, p)
      BY <2>13, <2>17, <3>1
    <3> QED BY <3>3, <3>4 DEF Has
  <2>21. ~ Has(temp, Word(k))
    <3>1. ASSUME Has(temp, Word(k)) PROVE FALSE
      <4>1. PICK i \in 1..Len(list) : i < node /\ list[i].key = k
        BY <2>b, <3>1
      <4>2. i = node
        BY <1>2, <2>1, <2>4, <4>1 DEF Distinct
      <4> QED BY <1>2, <4>1, <4>2
    <3> QED BY <3>1
  <2>22. ASSUME NEW j \in Key
         PROVE  /\ Once(temp', Word(j))
                /\ Has(temp', Word(j)) =>
                       \E i \in 1..Len(list') : i < node' /\ list'[i].key = j
    <3>1. Once(temp', Word(j))
      BY <2>11, <2>16, <2>19, <2>21
    <3>2. ASSUME Has(temp', Word(j))
          PROVE  \E i \in 1..Len(list) : i < node + 1 /\ list[i].key = j
      <4>1. CASE Has(temp, Word(j))
        <5>1. PICK i \in 1..Len(list) : i < node /\ list[i].key = j
          BY <2>b, <4>1
        <5> QED BY <1>2, <2>b, <5>1
      <4>2. CASE j = k
        BY <2>b, <2>1, <2>4, <4>2
      <4> QED BY <2>11, <2>15, <2>19, <3>2, <4>1, <4>2
    <3> QED BY <1>1, <3>1, <3>2
  <2>23. ASSUME NEW i \in 1..Len(list), i < node + 1 PROVE Has(temp', Word(list[i].key))
    <3>1. CASE i = node
      BY <2>4, <2>11, <2>20, <3>1
    <3>2. CASE i # node
      <4>1. i < node
        BY <1>2, <2>1, <2>23, <3>2
      <4>2. list[i].key \in Key /\ Has(temp, Word(list[i].key))
        BY <1>2, <2>b, <4>1, NodeShape
      <4> QED BY <2>11, <2>14, <4>2
    <3> QED BY <3>1, <3>2
  <2>24. Text(temp', DataLines(vl)) /\ node' \in Nat \ {0}
    BY <1>1, <2>b, <2>11, <2>12
  <2>25. SaveInv(vl)'
    BY <1>1, <2>22, <2>23, <2>24 DEF SaveInv
  <2> QED BY <1>1, <1>4, <2>25, OtherParts DEF Running
<1> QED BY <1>5, <1>6

\* All ends but that of a save leave the file as it is.
LEMMA EndStep ==
  ASSUME NEW kl \in Nat, NEW vl \in Nat, Inv(kl, vl),
         phase' \in Ended, UNCHANGED <<list, file>>
  PROVE  Inv(kl, vl)'
<1>1. phase' \notin Running /\ phase' \notin {"loading", "serving", "replacing", "saving"}
  BY DEF Ended, Running
<1>2. FileInv(vl)' /\ ListInv(vl)'
  BY <1>1 DEF Inv, FileInv, ListInv
<1>3. LoadInv(kl, vl)' /\ KeptInv' /\ SaveInv(vl)'
  BY <1>1 DEF LoadInv, KeptInv, SaveInv
<1> QED BY <1>2, <1>3 DEF Inv

\* Only the end of a save writes the data file, if it can rename the other one.
LEMMA SaveDoneStep ==
  ASSUME NEW kl \in Nat, NEW vl \in Nat, FullLines(kl, vl), Inv(kl, vl), SaveDone, ~ damaged'
  PROVE  /\ Inv(kl, vl)'
         /\ \A k \in Key : Has(file, Word(k)) => Has(file', Word(k)) \/ k \in deleted
<1>1. phase = "saving" /\ list' = list
  BY DEF SaveDone
<1>2. CASE RenameFails
  <2>1. file' = file /\ phase' \in Ended
    BY <1>2 DEF RenameFails, Ended
  <2> QED BY <1>1, <2>1, EndStep
<1>3. CASE Renamed
  <2>1. phase' = "exited" /\ file' = temp /\ ~ cut
    BY <1>3 DEF Renamed
  <2>2. /\ Text(temp, DataLines(vl)) /\ node \in Nat
        /\ \A i \in 1..Len(list) : i < node => Has(temp, Word(list[i].key))
        /\ \A k \in Key : Once(temp, Word(k))
    BY <1>1, <2>1 DEF Inv, SaveInv
  <2>3. FileInv(vl)'
    BY <2>1, <2>2 DEF FileInv
  <2>4. ListInv(vl)'
    BY <1>1, <2>1 DEF Inv, ListInv
  <2>5. LoadInv(kl, vl)' /\ KeptInv' /\ SaveInv(vl)'
    BY <2>1 DEF LoadInv, KeptInv, SaveInv, Running
  <2>6. ASSUME NEW k \in Key, Has(file, Word(k)), k \notin deleted
        PROVE  Has(file', Word(k))
    <3>1. HeldIn(list, k)
      BY <1>1, <2>6, HoldsIsHeld DEF Inv, KeptInv, Running
    <3>2. PICK i \in 1..Len(list) : list[i].key = k
      BY <3>1 DEF HeldIn
    <3>3. i < node
      <4>1. Len(list) \in Nat
        BY LenProperties DEF Inv, ListInv
      <4> QED BY <2>2, <4>1 DEF SaveDone
    <3> QED BY <2>1, <2>2, <3>2, <3>3
  <2> QED BY <2>1, <2>3, <2>4, <2>5, <2>6 DEF Inv, Ended
<1> QED BY <1>2, <1>3 DEF SaveDone

LEMMA StepInv ==
  ASSUME NEW kl \in Nat, NEW vl \in Nat, FullLines(kl, vl), Inv(kl, vl), [Next]_vars,
         [Garbage \subseteq Plain(vl) \/ phase # "replacing" \/ phase' # "saving"]_vars,
         ~ damaged'
  PROVE  Inv(kl, vl)'
<1>1. CASE UNCHANGED vars
  BY <1>1 DEF vars, fileVars, Inv, ListInv, FileInv, LoadInv, KeptInv, SaveInv, Holds, Readable
<1>2. CASE Start
  BY <1>2, StartStep
<1>3. CASE Load
  BY <1>3, LoadLineStep, LoadEndStep DEF Load
<1>4. CASE Command
  BY <1>4, PutNewStep, FreeOldStep, AssignNewStep, DeleteStep DEF Command
<1>5. ASSUME phase \in {"serving", "replacing"}, BeginSave, UNCHANGED deleted
      PROVE  Inv(kl, vl)'
  <2>1. phase' = "saving" /\ phase # "saving"
    BY <1>5 DEF BeginSave
  <2>2. Garbage \subseteq Plain(vl) \/ phase # "replacing" \/ phase' # "saving"
    BY <2>1 DEF vars
  <2> QED BY <1>5, <2>2, BeginSaveStep
<1>6. CASE Shutdown
  BY <1>5, <1>6 DEF Shutdown, BeginSave
<1>7. CASE Interrupt
  <2>1. PICK s \in Signal : SignalExits(s) \/ SignalWhileLoading(s) \/ SignalWhileSaving(s)
    BY <1>7 DEF Interrupt
  <2>2. CASE SignalExits(s)
    BY <1>5, <2>2 DEF SignalExits, BeginSave
  <2>3. CASE SignalWhileLoading(s)
    BY <2>3, EndStep DEF SignalWhileLoading, fileVars, Ended
  <2>4. CASE SignalWhileSaving(s)
    BY <2>4, EndStep DEF SignalWhileSaving, fileVars, Ended
  <2> QED BY <2>1, <2>2, <2>3, <2>4
<1>8. CASE Killed
  BY <1>8, EndStep DEF Killed, fileVars, Ended
<1>9. CASE SaveNode
  BY <1>9, SaveNodeStep
<1>10. CASE SaveDone
  BY <1>10, SaveDoneStep
<1> QED BY <1>1, <1>2, <1>3, <1>4, <1>6, <1>7, <1>8, <1>9, <1>10 DEF Next

\* A damaged file is not repaired: the history only grows.
LEMMA DamageStays == [Next]_vars /\ damaged => damaged'
BY DEF vars, fileVars, Next, Start, Load, LoadLine, LoadEnd, Command, PutNew, FreeOld,
       AssignNew, Delete, Shutdown, Interrupt, SignalExits, SignalWhileLoading,
       SignalWhileSaving, BeginSave, Killed, SaveNode, SaveDone, Renamed, RenameFails

LEMMA InitInv ==
  ASSUME NEW kl \in Nat, NEW vl \in Nat, Init
  PROVE  Inv(kl, vl)
<1>1. phase = "quit" /\ list = << >> /\ file = << >>
  BY DEF Init
<1>2. << >> \in Seq(Nodes(vl)) /\ Len(<< >>) = 0
  BY EmptySeq
<1> QED BY <1>1, <1>2, EmptyText
        DEF Inv, ListInv, FileInv, LoadInv, KeptInv, SaveInv, Distinct, Ended, Running

-----------------------------------------------------------------------------
\* saveDb(), loadDb() and the handler of signals (db.c): whatever interrupts the
\* server, and whether or not rename() succeeds, a key that its data file has
\* stays there, unless a client deleted it, until a file whose writes failed takes
\* the place of the data file; for keys of one length and values of one length
\* that fill the buffer of getline(), and as long as no exit writes what freed
\* memory holds.
THEOREM DataFileKeepsKeys ==
  ASSUME NEW kl \in Nat, NEW vl \in Nat, FullLines(kl, vl)
  PROVE  Spec /\ SavesStrings(vl) => KeysKept
<1>1. Init => damaged \/ Inv(kl, vl)
  BY InitInv
<1>2. /\ damaged \/ Inv(kl, vl)
      /\ [Next]_vars
      /\ [Garbage \subseteq Plain(vl) \/ phase # "replacing" \/ phase' # "saving"]_vars
      => (damaged \/ Inv(kl, vl))'
  BY StepInv, DamageStays
<1>3. /\ damaged \/ Inv(kl, vl)
      /\ (damaged \/ Inv(kl, vl))'
      /\ [Next]_vars
      => [\A k \in Key : InFile(k) => InFile(k)' \/ k \in deleted \/ damaged']_vars
  <2>1. SUFFICES ASSUME Inv(kl, vl), Inv(kl, vl)', Next, NEW k \in Key, InFile(k),
                        k \notin deleted, ~ damaged'
                 PROVE  InFile(k)'
    BY DamageStays
  <2>2. CASE file' = file
    BY <2>1, <2>2 DEF InFile
  <2>3. CASE SaveDone
    <3>1. file \in Seq(Byte) /\ file' \in Seq(Byte)
      BY <2>1 DEF Inv, FileInv, Text
    <3>2. Has(file, Word(k))
      BY <2>1, <3>1, InFileIsHas DEF InFile
    <3>3. Has(file', Word(k))
      BY <2>1, <2>3, <3>2, SaveDoneStep
    <3> QED BY <3>1, <3>3, InFileIsHas DEF InFile
  <2>4. file' = file \/ SaveDone
    BY <2>1 DEF Next, Start, Load, LoadLine, LoadEnd, Command, PutNew, FreeOld, AssignNew,
                Delete, Shutdown, Interrupt, SignalExits, SignalWhileLoading,
                SignalWhileSaving, BeginSave, Killed, SaveNode, fileVars
  <2> QED BY <2>2, <2>3, <2>4
<1> QED BY <1>1, <1>2, <1>3, PTL DEF Spec, SavesStrings, KeysKept

-----------------------------------------------------------------------------
(***************************************************************************)
(* The order of the lines                                                  *)
(***************************************************************************)

\* R[i] is what is left of the file f behind its first i lines, which are those
\* of the nodes q.
Rests(f, q, R) ==
    /\ R \in [0..Len(q) -> Seq(Byte)]
    /\ R[0] = f /\ R[Len(q)] = << >>
    /\ \A i \in 1..Len(q) : R[i - 1] = DataLine(q[i].key, q[i].val) \o R[i]

LinesOf(f, q) == \E R : Rests(f, q, R)

SavedInv(vl) ==
    /\ Sorted(list)
    /\ saved \in Seq(Nodes(vl)) /\ Sorted(saved)
    /\ IsStored(saved) => LinesOf(file, saved)

\* While the file is loaded, the list is as far as it goes what was saved.
LoadedInv ==
    phase = "loading" /\ IsStored(saved) =>
        \E R : /\ Rests(file, saved, R)
               /\ Len(list) <= Len(saved) /\ rest = R[Len(list)]
               /\ \A i \in 1..Len(list) : list[i] = saved[i]

\* While it is saved, and no write has failed, the temporary file has the lines of
\* the nodes up to the next one.
WrittenInv ==
    phase = "saving" /\ ~ cut =>
        /\ node \in 1..(Len(list) + 1)
        /\ IsStored(list) => LinesOf(temp, SubSeq(list, 1, node - 1))

OrderInv(vl) == SavedInv(vl) /\ LoadedInv /\ WrittenInv

LEMMA StoredLine ==
  ASSUME NEW kl \in Nat, NEW vl \in Nat, FullLines(kl, vl),
         NEW x \in Nodes(vl), x.val \in Val
  PROVE  /\ x.key \in Key /\ x.val \in Plain(vl)
         /\ DataLine(x.key, x.val) \in Seq(Byte)
         /\ Len(DataLine(x.key, x.val)) = kl + vl + 2
<1>1. x.key \in Key /\ x.val \in Plain(vl)
  BY DEF Nodes, FullLines
<1>2. PICK y : y = DataLine(x.key, x.val)
  OBVIOUS
<1>3. y \in Seq(Byte) /\ Len(y) = kl + vl + 2
  <2>1. IsDataLine(y, x.key, x.val, kl, vl)
    BY <1>1, <1>2, DataLineShape
  <2> QED BY <2>1 DEF IsDataLine
<1> QED BY <1>1, <1>2, <1>3

\* A line determines its key and its value.
LEMMA OneLineAt ==
  ASSUME NEW kl \in Nat, NEW vl \in Nat, FullLines(kl, vl), NEW f, Len(f) \in Nat,
         NEW k \in Key, NEW s \in Plain(vl), At(f, 1, DataLine(k, s)),
         NEW j \in Key, NEW t \in Plain(vl), At(f, 1, DataLine(j, t))
  PROVE  j = k /\ t = s
<1>1. At(f, 1, Word(j))
  BY WordAt
<1>2. j = k
  BY <1>1, WordAt
<1>3. PICK x, y : x = DataLine(k, s) /\ y = DataLine(j, t)
  OBVIOUS
<1>4. /\ Len(x) = kl + vl + 2
      /\ \A i \in 1..vl : x[kl + 1 + i] = s[i]
  <2>1. IsDataLine(x, k, s, kl, vl)
    BY <1>3, DataLineShape
  <2> QED BY <2>1 DEF IsDataLine
<1>5. /\ Len(y) = kl + vl + 2
      /\ \A i \in 1..vl : y[kl + 1 + i] = t[i]
  <2>1. IsDataLine(y, j, t, kl, vl)
    BY <1>3, DataLineShape
  <2> QED BY <2>1 DEF IsDataLine
<1>6. \A i \in 1..(kl + vl + 2) : f[1 + i - 1] = x[i]
  BY <1>3, <1>4 DEF At
<1>7. \A i \in 1..(kl + vl + 2) : f[1 + i - 1] = y[i]
  BY <1>3, <1>5 DEF At
<1>8. ASSUME NEW i \in 1..vl PROVE t[i] = s[i]
  <2>1. PICK h \in 1..(kl + vl + 2) : h = kl + 1 + i
    OBVIOUS
  <2>2. x[h] = y[h]
    BY <1>6, <1>7
  <2> QED BY <1>4, <1>5, <2>1, <2>2
<1>9. s \in Seq(Byte) /\ t \in Seq(Byte) /\ Len(s) = vl /\ Len(t) = vl
  BY PlainShape
<1> QED BY <1>2, <1>8, <1>9, SeqEqual

\* What the first line leaves.
LEMMA FrontLine ==
  ASSUME NEW n \in Nat \ {0}, NEW x \in Seq(Byte), Len(x) = n, NEW r \in Seq(Byte),
         NEW f, f = x \o r
  PROVE  f # << >> /\ Len(f) \in Nat /\ At(f, 1, x) /\ SubSeq(f, n + 1, Len(f)) = r
<1>1. f \in Seq(Byte) /\ Len(f) = n + Len(r) /\ Len(r) \in Nat
  BY ConcatProperties, LenProperties
<1>2. \A j \in 1..n : f[j] = x[j]
  BY Joined
<1>3. \A j \in 1..Len(r) : f[n + j] = r[j]
  <2>1. \A j \in 1..Len(r) : f[Len(x) + j] = r[j]
    BY Joined
  <2> QED BY <2>1
<1>4. At(f, 1, x)
  <2>1. \A j \in 1..n : 1 + j - 1 = j
    OBVIOUS
  <2> QED BY <1>1, <1>2, <2>1 DEF At
<1>5. f # << >>
  BY <1>1, EmptySeq
<1>6. PICK p, g : p = n + 1 /\ g = SubSeq(f, p, Len(f))
  OBVIOUS
<1>7. p \in 1..(Len(f) + 1)
  BY <1>1, <1>6
<1>13. IsLastPart(g, f, p, Byte)
  BY <1>1, <1>6, <1>7, LastPart
<1>8. g \in Seq(Byte) /\ Len(g) = Len(f) - p + 1
  BY <1>13 DEF IsLastPart
<1>9. \A j \in p..Len(f) : j - p + 1 \in 1..Len(g) /\ g[j - p + 1] = f[j]
  BY <1>13 DEF IsLastPart
<1>10. ASSUME NEW j \in 1..Len(r) PROVE g[j] = r[j]
  <2>1. PICK h \in p..Len(f) : h = n + j /\ h - p + 1 = j
    <3>1. n + j \in p..Len(f) /\ (n + j) - p + 1 = j
      BY <1>1, <1>6
    <3> QED BY <3>1
  <2> QED BY <1>3, <1>9, <2>1
<1>11. Len(g) = Len(r)
  BY <1>1, <1>6, <1>8
<1>12. g = r
  BY <1>8, <1>10, <1>11, SeqEqual
<1> QED BY <1>1, <1>4, <1>5, <1>6, <1>12

LEMMA NoLines == \A q : q = << >> => LinesOf(<< >>, q) /\ Sorted(q)
<1>1. Len(<< >>) = 0 /\ << >> \in Seq(Byte)
  BY EmptySeq
<1>2. Rests(<< >>, << >>, [i \in 0..0 |-> << >>])
  BY <1>1 DEF Rests
<1> QED BY <1>1, <1>2 DEF LinesOf, Sorted

LEMMA Regrouped ==
  \A d, r, y : d \in Seq(Byte) /\ r \in Seq(Byte) /\ y \in Seq(Byte)
              => (d \o r) \o y = d \o (r \o y)
<1> SUFFICES ASSUME NEW d, NEW r, NEW y, d \in Seq(Byte), r \in Seq(Byte), y \in Seq(Byte)
            PROVE  (d \o r) \o y = d \o (r \o y)
  OBVIOUS
<1>1. PICK S : S = Byte
  OBVIOUS
<1>2. d \in Seq(S) /\ r \in Seq(S) /\ y \in Seq(S)
  BY <1>1
<1> QED BY ONLY <1>2, ConcatAssociative, SMTT(60)

LEMMA LinesAppended ==
  ASSUME NEW kl \in Nat, NEW vl \in Nat, FullLines(kl, vl),
         NEW q \in Seq(Nodes(vl)), IsStored(q), NEW x \in Nodes(vl), x.val \in Val,
         NEW f, LinesOf(f, q), NEW g, g = f \o DataLine(x.key, x.val),
         NEW p, p = Append(q, x)
  PROVE  LinesOf(g, p)
<1>1. PICK R : Rests(f, q, R)
  BY DEF LinesOf
<1>2. Len(q) \in Nat
  BY LenProperties
<1>3. PICK y : y = DataLine(x.key, x.val)
  OBVIOUS
<1>4. y \in Seq(Byte)
  BY <1>3, StoredLine
<1>5. \A i \in 0..Len(q) : R[i] \in Seq(Byte)
  BY <1>1 DEF Rests
<1>6. /\ Len(p) = Len(q) + 1 /\ p[Len(q) + 1] = x
      /\ \A i \in 1..Len(q) : p[i] = q[i]
  BY AppendProperties
<1>7. PICK m : m = Len(p)
  OBVIOUS
<1>8. m = Len(q) + 1
  BY <1>6, <1>7
<1> DEFINE Q == [i \in 0..m |-> IF i <= Len(q) THEN R[i] \o y ELSE << >>]
<1>9. \A i \in 0..m : Q[i] = IF i <= Len(q) THEN R[i] \o y ELSE << >>
  OBVIOUS
<1>10. Q \in [0..m -> Seq(Byte)]
  <2>1. \A i \in 0..Len(q) : R[i] \o y \in Seq(Byte)
    BY <1>4, <1>5, ConcatProperties
  <2>2. << >> \in Seq(Byte)
    BY EmptySeq
  <2>3. ASSUME NEW i \in 0..m
        PROVE  (IF i <= Len(q) THEN R[i] \o y ELSE << >>) \in Seq(Byte)
    <3>1. CASE i <= Len(q)
      <4>1. i \in 0..Len(q)
        BY <1>2, <1>8, <3>1
      <4> QED BY <2>1, <3>1, <4>1
    <3> QED BY <2>2, <3>1
  <2> QED BY <2>3
<1> HIDE DEF Q
<1>11. Q[0] = g
  <2>1. Q[0] = R[0] \o y
    <3>1. 0 \in 0..m /\ 0 <= Len(q)
      BY <1>2, <1>8
    <3> QED BY <1>9, <3>1, Zenon
  <2> QED BY <1>1, <1>3, <2>1 DEF Rests
<1>12. Q[m] = << >>
  BY <1>2, <1>8, <1>9
<1>13. ASSUME NEW i \in 1..m PROVE Q[i - 1] = DataLine(p[i].key, p[i].val) \o Q[i]
  <2>1. CASE i <= Len(q)
    <3>1. i \in 1..Len(q) /\ i \in 0..m /\ i - 1 \in 0..m /\ i - 1 <= Len(q) /\ i \in 0..Len(q)
      BY <1>2, <1>8, <2>1
    <3>2. Q[i] = R[i] \o y /\ Q[i - 1] = R[i - 1] \o y
      BY <1>9, <2>1, <3>1
    <3>3. PICK d : d = DataLine(q[i].key, q[i].val)
      OBVIOUS
    <3>4. R[i - 1] = d \o R[i]
      BY <1>1, <3>1, <3>3 DEF Rests
    <3>5. d \in Seq(Byte)
      <4>1. q[i] \in Nodes(vl) /\ q[i].val \in Val
        BY <3>1, NodeShape DEF IsStored
      <4> QED BY <3>3, <4>1, StoredLine
    <3>6. (d \o R[i]) \o y = d \o (R[i] \o y)
      <4>1. PICK r : r = R[i]
        OBVIOUS
      <4>2. r \in Seq(Byte)
        BY <1>5, <3>1, <4>1
      <4>3. (d \o r) \o y = d \o (r \o y)
        BY ONLY <1>4, <3>5, <4>2, Regrouped
      <4> QED BY <4>1, <4>3
    <3>7. p[i] = q[i]
      BY <1>6, <3>1
    <3> QED BY <3>2, <3>3, <3>4, <3>6, <3>7
  <2>2. CASE i = m
    <3>1. Q[i - 1] = R[Len(q)] \o y
      <4>1. i - 1 = Len(q) /\ Len(q) \in 0..m /\ Len(q) <= Len(q)
        BY <1>2, <1>8, <2>2
      <4>2. Q[Len(q)] = R[Len(q)] \o y
        BY <1>9, <4>1, Zenon
      <4> QED BY <4>1, <4>2
    <3>2. R[Len(q)] = << >>
      BY <1>1 DEF Rests
    <3>3. << >> \o y = y /\ y \o << >> = y
      BY <1>4, ConcatEmptySeq
    <3>4. p[i] = x
      BY <1>6, <1>8, <2>2
    <3>5. Q[i - 1] = y
      BY <3>1, <3>2, <3>3, Zenon
    <3>6. DataLine(p[i].key, p[i].val) = y /\ Q[i] = << >>
      BY <1>3, <1>12, <2>2, <3>4, Zenon
    <3> QED BY <3>3, <3>5, <3>6, Zenon
  <2>3. i <= Len(q) \/ i = m
    BY <1>2, <1>8
  <2> QED BY <2>1, <2>2, <2>3, Zenon
<1>14. Rests(g, p, Q)
  BY <1>7, <1>10, <1>11, <1>12, <1>13 DEF Rests
<1> QED BY <1>14 DEF LinesOf

LEMMA StartOrder ==
  ASSUME NEW vl \in Nat, OrderInv(vl), Start
  PROVE  OrderInv(vl)'
<1>1. /\ phase' = "loading" /\ list' = << >> /\ rest' = file /\ file' = file
      /\ saved' = saved
  BY DEF Start
<1>2. Len(<< >>) = 0
  BY EmptySeq
<1>3. SavedInv(vl)'
  BY <1>1, NoLines DEF OrderInv, SavedInv, IsStored
<1>4. LoadedInv'
  <2>1. ASSUME IsStored(saved)
        PROVE  \E R : /\ Rests(file, saved, R)
                      /\ 0 <= Len(saved) /\ file = R[0]
    <3>1. PICK R : Rests(file, saved, R)
      BY <2>1 DEF OrderInv, SavedInv, LinesOf
    <3>2. Len(saved) \in Nat
      BY LenProperties DEF OrderInv, SavedInv
    <3> QED BY <3>1, <3>2 DEF Rests
  <2>2. IsStored(saved)' <=> IsStored(saved)
    BY <1>1 DEF IsStored
  <2> QED BY <1>1, <1>2, <2>1, <2>2 DEF LoadedInv
<1>5. WrittenInv'
  BY <1>1 DEF WrittenInv
<1> QED BY <1>3, <1>4, <1>5 DEF OrderInv

\* A line is loaded behind the nodes of the lines before it.
LEMMA LoadLineOrder ==
  ASSUME NEW kl \in Nat, NEW vl \in Nat, FullLines(kl, vl), RankedBytes,
         Inv(kl, vl), OrderInv(vl), LoadLine
  PROVE  OrderInv(vl)'
<1>1. phase = "loading" /\ rest # << >> /\ file' = file /\ saved' = saved
  BY DEF LoadLine
<1>2. PICK k \in Key, s \in Plain(vl) :
          /\ At(rest, 1, DataLine(k, s))
          /\ rest' = SubSeq(rest, kl + vl + 2 + 1, Len(rest))
          /\ line' \in Seq(Byte \cup Stale) /\ Len(line') = kl + vl + 3
          /\ \/ phase' = "quit" /\ list' = list
             \/ phase' = "loading" /\ \E i \in Places(k) : list' = Inserted(k, s, i)
  BY LoadedLine DEF Inv
<1>3. WrittenInv'
  BY <1>2 DEF WrittenInv
<1>4. saved \in Seq(Nodes(vl)) /\ Sorted(saved) /\ Len(saved) \in Nat
  BY LenProperties DEF OrderInv, SavedInv
<1>5. CASE phase' = "quit" /\ list' = list
  <2>1. SavedInv(vl)'
    BY <1>1, <1>5 DEF OrderInv, SavedInv, IsStored
  <2>2. LoadedInv'
    BY <1>5 DEF LoadedInv
  <2> QED BY <1>3, <2>1, <2>2 DEF OrderInv
<1>6. CASE phase' = "loading" /\ \E i \in Places(k) : list' = Inserted(k, s, i)
  <2>1. PICK i \in Places(k) : list' = Inserted(k, s, i)
    BY <1>6
  <2>2. Len(rest) \in Nat \ {0}
    BY <1>1, EmptySeq DEF Inv, LoadInv, Text
  <2>3. ~ HeldIn(list, k)
    <3>1. At(rest, 1, Word(k))
      BY <1>2, <2>2, WordAt
    <3>2. Has(rest, Word(k))
      BY <2>2, <3>1 DEF Has, LineStart
    <3> QED BY <1>1, <3>2, HoldsIsHeld DEF Inv, LoadInv
  <2>4. Sorted(list')
    BY <2>1, <2>3, Inserting DEF Inv, OrderInv, SavedInv
  <2>5. SavedInv(vl)'
    BY <1>1, <2>4 DEF OrderInv, SavedInv, IsStored
  <2>6. ASSUME IsStored(saved)
        PROVE  \E R : /\ Rests(file, saved, R)
                      /\ Len(list') <= Len(saved) /\ rest' = R[Len(list')]
                      /\ \A j \in 1..Len(list') : list'[j] = saved[j]
    <3>1. PICK R : /\ Rests(file, saved, R)
                   /\ Len(list) <= Len(saved) /\ rest = R[Len(list)]
                   /\ \A j \in 1..Len(list) : list[j] = saved[j]
      BY <1>1, <2>6 DEF OrderInv, LoadedInv
    <3>2. list \in Seq(Nodes(vl)) /\ Len(list) \in Nat
      BY LenProperties DEF Inv, ListInv
    <3>3. PICK m : m = Len(list) + 1
      OBVIOUS
    <3>4. m \in 1..Len(saved) /\ m - 1 = Len(list)
      <4>1. Len(list) # Len(saved)
        BY <1>1, <3>1 DEF Rests
      <4> QED BY <1>4, <3>1, <3>2, <3>3, <4>1
    <3>5. PICK x \in Nodes(vl) : x = saved[m] /\ x.val \in Val
      BY <1>4, <2>6, <3>4, NodeShape DEF IsStored
    <3>6. PICK y, r : y = DataLine(x.key, x.val) /\ r = R[m]
      OBVIOUS
    <3>7. rest = y \o r
      BY <3>1, <3>4, <3>5, <3>6 DEF Rests
    <3>8. r \in Seq(Byte)
      <4>1. m \in 0..Len(saved)
        BY <3>4
      <4> QED BY <3>1, <3>6, <4>1 DEF Rests
    <3>9. /\ x.key \in Key /\ x.val \in Plain(vl)
          /\ y \in Seq(Byte) /\ Len(y) = kl + vl + 2
      BY <3>5, <3>6, StoredLine
    <3>10. PICK n \in Nat \ {0} : n = kl + vl + 2
      OBVIOUS
    <3>11. At(rest, 1, y) /\ SubSeq(rest, n + 1, Len(rest)) = r
      <4>1. PICK f : f = rest /\ f = y \o r
        BY <3>7
      <4>2. Len(y) = n
        BY <3>9, <3>10
      <4>3. At(f, 1, y)
        BY <3>8, <3>9, <4>1, <4>2, FrontLine
      <4>4. SubSeq(f, n + 1, Len(f)) = r
        BY <3>8, <3>9, <4>1, <4>2, FrontLine
      <4> QED BY <4>1, <4>3, <4>4
    <3>12. rest' = r
      BY <1>2, <3>10, <3>11
    <3>13. x.key = k /\ x.val = s
      BY <1>2, <2>2, <3>6, <3>9, <3>11, OneLineAt
    <3>14. i = m
      <4>1. i \in 1..(Len(list) + 1) /\ (i <= Len(list) => ~ Less(list[i].key, k))
        BY <2>1 DEF Places
      <4>2. ASSUME i <= Len(list) PROVE FALSE
        <5>1. i \in 1..Len(list) /\ i \in 1..Len(saved) /\ i < m
          BY <3>2, <3>3, <3>4, <4>1, <4>2
        <5>2. Less(saved[i].key, saved[m].key)
          BY <1>4, <3>4, <5>1 DEF Sorted
        <5>3. list[i] = saved[i]
          BY <3>1, <5>1
        <5> QED BY <3>5, <3>13, <4>1, <4>2, <5>2, <5>3
      <4> QED BY <3>2, <3>3, <4>1, <4>2
    <3>15. x = Node(k, s)
      BY <3>5, <3>13 DEF Nodes, Node
    <3>16. IsInserted(list', list, i, x)
      BY <2>1, <3>2, <3>3, <3>14, <3>15 DEF Inserted, IsInserted
    <3>17. PICK q, g : q = list /\ g = list'
      OBVIOUS
    <3>18. /\ q \in Seq(Nodes(vl)) /\ Distinct(q) /\ i \in 1..(Len(q) + 1)
           /\ IsInserted(g, q, i, x)
      BY <2>1, <3>2, <3>16, <3>17 DEF Inv, ListInv, Places
    <3>19. \A j \in 1..Len(q) : q[j].key # x.key
      BY <2>3, <3>13, <3>17 DEF HeldIn
    <3>20. Len(g) = Len(q) + 1 /\ g[i] = x /\ \A j \in 1..(i - 1) : g[j] = q[j]
      <4>1. PICK S : S = Nodes(vl)
        OBVIOUS
      <4>2. /\ q \in Seq(S) /\ Distinct(q) /\ i \in 1..(Len(q) + 1)
            /\ IsInserted(g, q, i, x) /\ x \in S
        BY <3>5, <3>18, <4>1
      <4> QED BY ONLY <3>19, <4>2, ListInserted
    <3>21. \A j \in 1..(i - 1) : g[j] = q[j]
      BY <3>20
    <3>22. Len(list') = m
      BY <3>3, <3>17, <3>20
    <3>23. ASSUME NEW j \in 1..m PROVE list'[j] = saved[j]
      <4>1. CASE j = m
        BY <3>5, <3>14, <3>17, <3>20, <4>1
      <4>2. CASE j # m
        <5>1. j \in 1..(i - 1) /\ j \in 1..Len(list)
          BY <3>2, <3>3, <3>14, <4>2
        <5> QED BY <3>1, <3>17, <3>21, <5>1
      <4> QED BY <4>1, <4>2
    <3>24. m <= Len(saved)
      BY <3>4
    <3> QED BY <3>1, <3>6, <3>12, <3>22, <3>23, <3>24
  <2>7. IsStored(saved)' <=> IsStored(saved)
    BY <1>1 DEF IsStored
  <2>8. LoadedInv'
    BY <1>1, <2>6, <2>7 DEF LoadedInv
  <2> QED BY <1>3, <2>5, <2>8 DEF OrderInv
<1> QED BY <1>2, <1>5, <1>6

\* Steps between loading and saving keep the list sorted.
LEMMA SortedOrder ==
  ASSUME NEW vl \in Nat, OrderInv(vl), UNCHANGED <<file, saved>>, Sorted(list'),
         phase' \notin {"loading", "saving"}
  PROVE  OrderInv(vl)'
BY DEF OrderInv, SavedInv, LoadedInv, WrittenInv, IsStored

LEMMA ChangedSorted ==
  ASSUME NEW q, NEW g, Sorted(q), Len(g) = Len(q), \A h \in 1..Len(q) : g[h].key = q[h].key
  PROVE  Sorted(g)
BY DEF Sorted

LEMMA CommandOrder ==
  ASSUME NEW kl \in Nat, NEW vl \in Nat, FullLines(kl, vl), RankedBytes,
         Inv(kl, vl), OrderInv(vl), Command
  PROVE  OrderInv(vl)'
<1>1. /\ phase' \in {"serving", "replacing"} /\ UNCHANGED <<file, saved>>
  BY DEF Command, PutNew, FreeOld, AssignNew, Delete, fileVars
<1>2. list \in Seq(Nodes(vl)) /\ Distinct(list) /\ Sorted(list)
  BY DEF Inv, ListInv, OrderInv, SavedInv
<1>3. ASSUME NEW k \in Key, NEW v \in Val, PutNew(k, v) PROVE Sorted(list')
  <2>1. PICK i \in Places(k) : list' = Inserted(k, v, i)
    BY <1>3 DEF PutNew
  <2>2. v \in Plain(vl) /\ ~ HeldIn(list, k)
    BY <1>3, HoldsIsHeld DEF FullLines, PutNew
  <2> QED BY <1>2, <2>1, <2>2, Inserting DEF Inv
<1>4. ASSUME NEW k \in Key, NEW v \in Val, FreeOld(k, v) PROVE Sorted(list')
  <2>1. PICK i \in Places(k) : /\ i <= Len(list) /\ Equal(list[i].key, k)
                               /\ list' = [list EXCEPT ![i].val = FREED]
    BY <1>4 DEF FreeOld
  <2>2. i \in 1..Len(list)
    BY <2>1, Found DEF Inv
  <2>3. PICK w : w = FREED
    OBVIOUS
  <2>4. list' = [list EXCEPT ![i].val = w] /\ w \in Plain(vl) \cup {FREED}
    BY <2>1, <2>3
  <2>5. Len(list') = Len(list)
    BY <1>2, <2>2, <2>4, ListChanged
  <2>6. \A h \in 1..Len(list) : list'[h].key = list[h].key
    BY <1>2, <2>2, <2>4, ListChanged
  <2> QED BY <1>2, <2>5, <2>6, ChangedSorted
<1>5. ASSUME AssignNew PROVE Sorted(list')
  <2>1. PICK i, w : i = pending[1] /\ w = pending[2]
    OBVIOUS
  <2>2. i \in 1..Len(list) /\ w \in Plain(vl)
    BY <1>5, <2>1 DEF Inv, ListInv, AssignNew
  <2>3. list' = [list EXCEPT ![i].val = w]
    BY <1>5, <2>1 DEF AssignNew
  <2>4. Len(list') = Len(list)
    BY <1>2, <2>2, <2>3, ListChanged
  <2>5. \A h \in 1..Len(list) : list'[h].key = list[h].key
    BY <1>2, <2>2, <2>3, ListChanged
  <2> QED BY <1>2, <2>4, <2>5, ChangedSorted
<1>6. ASSUME NEW k \in Key, Delete(k) PROVE Sorted(list')
  <2>1. PICK i \in Places(k) : /\ i <= Len(list) /\ Equal(list[i].key, k)
                               /\ list' = Without(i)
    BY <1>6 DEF Delete
  <2>2. i \in 1..Len(list)
    BY <2>1, Found DEF Inv
  <2>3. PICK q, g : q = list /\ g = list'
    OBVIOUS
  <2>4. q \in Seq(Nodes(vl)) /\ Distinct(q) /\ i \in 1..Len(q) /\ IsRemoved(g, q, i)
    BY <1>2, <2>1, <2>2, <2>3 DEF Without, IsRemoved
  <2>5. \A h, m \in 1..Len(g) : h < m =>
            \E j, l \in 1..Len(q) : j < l /\ g[h] = q[j] /\ g[m] = q[l]
    BY <2>4, ListRemoved
  <2>6. Sorted(g)
    BY <1>2, <2>3, <2>5 DEF Sorted
  <2> QED BY <2>3, <2>6
<1>7. Sorted(list')
  BY <1>3, <1>4, <1>5, <1>6 DEF Command
<1> QED BY <1>1, <1>7, SortedOrder

\* The first nodes of a list, none of them, one more, and all.
LEMMA PrefixFacts ==
  ASSUME NEW S, NEW q \in Seq(S)
  PROVE  /\ SubSeq(q, 1, 1 - 1) = << >>
         /\ SubSeq(q, 1, Len(q)) = q
         /\ \A n \in 1..Len(q) :
                /\ SubSeq(q, 1, n - 1) \in Seq(S) /\ Len(SubSeq(q, 1, n - 1)) = n - 1
                /\ \A i \in 1..(n - 1) : SubSeq(q, 1, n - 1)[i] = q[i]
                /\ SubSeq(q, 1, n) = Append(SubSeq(q, 1, n - 1), q[n])
<1>1. Len(q) \in Nat /\ \A i \in 1..Len(q) : q[i] \in S
  BY LenProperties, ElementOfSeq
<1>2. ASSUME NEW n \in 0..Len(q)
      PROVE  /\ SubSeq(q, 1, n) \in Seq(S) /\ Len(SubSeq(q, 1, n)) = n
             /\ \A i \in 1..n : SubSeq(q, 1, n)[i] = q[i]
  <2>1. \A i \in 1..n : q[i] \in S
    BY <1>1, <1>2
  <2>2. /\ SubSeq(q, 1, n) \in Seq(S)
        /\ Len(SubSeq(q, 1, n)) = IF 1 <= n THEN n - 1 + 1 ELSE 0
        /\ \A i \in 1..(n - 1 + 1) : SubSeq(q, 1, n)[i] = q[1 + i - 1]
    BY <2>1, SubSeqProperties
  <2> QED BY <1>1, <1>2, <2>2
<1>3. SubSeq(q, 1, 1 - 1) = << >>
  <2>1. 0 \in 0..Len(q) /\ 1 - 1 = 0
    BY <1>1
  <2>2. SubSeq(q, 1, 1 - 1) \in Seq(S) /\ Len(SubSeq(q, 1, 1 - 1)) = 0
    BY <1>2, <2>1
  <2> QED BY <2>2, EmptySeq
<1>4. SubSeq(q, 1, Len(q)) = q
  <2>1. Len(q) \in 0..Len(q)
    BY <1>1
  <2>2. PICK p : p = SubSeq(q, 1, Len(q))
    OBVIOUS
  <2>3. p \in Seq(S) /\ Len(p) = Len(q) /\ \A i \in 1..Len(q) : p[i] = q[i]
    BY <1>2, <2>1, <2>2
  <2> QED BY <2>2, <2>3, SeqEqual
<1>5. ASSUME NEW n \in 1..Len(q)
      PROVE  SubSeq(q, 1, n) = Append(SubSeq(q, 1, n - 1), q[n])
  <2>1. n \in 0..Len(q) /\ n - 1 \in 0..Len(q) /\ q[n] \in S
    BY <1>1, <1>5
  <2>2. PICK p, r : p = SubSeq(q, 1, n) /\ r = SubSeq(q, 1, n - 1)
    OBVIOUS
  <2>3. p \in Seq(S) /\ Len(p) = n /\ \A i \in 1..n : p[i] = q[i]
    BY <1>2, <2>1, <2>2
  <2>4. r \in Seq(S) /\ Len(r) = n - 1 /\ \A i \in 1..(n - 1) : r[i] = q[i]
    BY <1>2, <2>1, <2>2
  <2>5. PICK a : a = Append(r, q[n])
    OBVIOUS
  <2>6. /\ a \in Seq(S) /\ Len(a) = n /\ a[n] = q[n]
        /\ \A i \in 1..(n - 1) : a[i] = r[i]
    BY <2>1, <2>4, <2>5, AppendProperties
  <2>7. \A i \in 1..n : p[i] = a[i]
    <3> TAKE i \in 1..n
    <3>1. i = n \/ i \in 1..(n - 1)
      BY <1>5
    <3> QED BY <2>3, <2>4, <2>6, <3>1
  <2>8. p = a
    BY <2>3, <2>6, <2>7, SeqEqual
  <2> QED BY <2>2, <2>5, <2>8
<1> QED
  <2>1. \A n \in 1..Len(q) : n - 1 \in 0..Len(q)
    BY <1>1
  <2> QED BY <1>2, <1>3, <1>4, <1>5, <2>1

LEMMA BeginSaveOrder ==
  ASSUME NEW kl \in Nat, NEW vl \in Nat, Inv(kl, vl), OrderInv(vl), BeginSave
  PROVE  OrderInv(vl)'
<1>1. /\ phase' = "saving" /\ temp' = << >> /\ node' = 1
      /\ UNCHANGED <<list, file, saved>>
  BY DEF BeginSave
<1>2. SavedInv(vl)'
  BY <1>1 DEF OrderInv, SavedInv, IsStored
<1>3. LoadedInv'
  BY <1>1 DEF LoadedInv
<1>4. WrittenInv'
  <2>1. list \in Seq(Nodes(vl)) /\ 1 \in 1..(Len(list) + 1)
    <3>1. list \in Seq(Nodes(vl)) /\ Len(list) \in Nat
      BY LenProperties DEF Inv, ListInv
    <3> QED BY <3>1
  <2>2. SubSeq(list, 1, 1 - 1) = << >>
    BY <2>1, PrefixFacts
  <2> QED BY <1>1, <2>1, <2>2, NoLines DEF WrittenInv
<1> QED BY <1>2, <1>3, <1>4 DEF OrderInv

LEMMA SaveNodeOrder ==
  ASSUME NEW kl \in Nat, NEW vl \in Nat, FullLines(kl, vl), RankedBytes,
         Inv(kl, vl), OrderInv(vl), SaveNode
  PROVE  OrderInv(vl)'
<1>1. /\ phase = "saving" /\ phase' = "saving" /\ UNCHANGED <<list, file, saved>>
      /\ node <= Len(list) /\ node' = node + 1
  BY DEF SaveNode
<1>2. SavedInv(vl)' /\ LoadedInv'
  BY <1>1 DEF OrderInv, SavedInv, LoadedInv, IsStored
<1>3. CASE cut'
  BY <1>2, <1>3 DEF OrderInv, WrittenInv
<1>4. CASE ~ cut'
  <2> DEFINE Whole == \E v \in Readable(list[node]) : temp' = temp \o Line(list[node], v)
  <2>1. ~ cut /\ Whole
    BY <1>4 DEF SaveNode
  <2>2. PICK q : q = SubSeq(list, 1, node - 1)
    OBVIOUS
  <2>3. node \in 1..(Len(list) + 1) /\ (IsStored(list) => LinesOf(temp, q))
    BY <1>1, <2>1, <2>2 DEF OrderInv, WrittenInv
  <2>4. list \in Seq(Nodes(vl)) /\ Len(list) \in Nat
    BY LenProperties DEF Inv, ListInv
  <2>5. node \in 1..Len(list) /\ node + 1 \in 1..(Len(list) + 1) /\ (node + 1) - 1 = node
    BY <1>1, <2>3, <2>4
  <2>6. PICK x \in Nodes(vl) : x = list[node]
    BY <2>4, <2>5, NodeShape
  <2>7. /\ q \in Seq(Nodes(vl)) /\ Len(q) = node - 1
        /\ \A i \in 1..(node - 1) : q[i] = list[i]
        /\ SubSeq(list, 1, node) = Append(q, x)
    BY <2>2, <2>4, <2>5, <2>6, PrefixFacts
  <2>8. ASSUME IsStored(list) PROVE LinesOf(temp', SubSeq(list, 1, node))
    <3>1. IsStored(q) /\ x.val \in Val
      <4>1. \A i \in 1..(node - 1) : i \in 1..Len(list)
        BY <2>4, <2>5
      <4> QED BY <2>5, <2>6, <2>7, <2>8, <4>1 DEF IsStored
    <3>2. x.val # FREED /\ x.val \in Plain(vl) /\ x.key \in Key
      BY <3>1, PersistenceAssumption, StoredLine
    <3>3. temp' = temp \o Line(x, x.val)
      BY <2>1, <2>6, <3>2 DEF Readable
    <3>4. Line(x, x.val) = DataLine(x.key, x.val)
      <4>1. Printed(x.key) = x.key
        BY <3>2, KeyShape, PrintedPlain
      <4>2. Printed(x.val) = x.val
        BY <3>2, PlainShape, PrintedPlain
      <4> QED BY <4>1, <4>2 DEF Line, DataLine
    <3>5. temp' = temp \o DataLine(x.key, x.val) /\ LinesOf(temp, q)
      BY <2>3, <2>8, <3>3, <3>4
    <3>6. PICK p : p = Append(q, x)
      OBVIOUS
    <3>7. LinesOf(temp', p)
      BY <2>7, <3>1, <3>5, <3>6, LinesAppended
    <3> QED BY <2>7, <3>6, <3>7
  <2>9. WrittenInv'
    BY <1>1, <2>5, <2>8 DEF WrittenInv, IsStored
  <2> QED BY <1>2, <2>9 DEF OrderInv
<1> QED BY <1>3, <1>4

LEMMA SaveDoneOrder ==
  ASSUME NEW kl \in Nat, NEW vl \in Nat, Inv(kl, vl), OrderInv(vl), SaveDone, ~ damaged'
  PROVE  OrderInv(vl)'
<1>1. phase = "saving" /\ list' = list /\ node > Len(list)
  BY DEF SaveDone
<1>2. phase' \in {"exited", "unsaved"}
  BY DEF SaveDone, Renamed, RenameFails
<1>3. LoadedInv' /\ WrittenInv'
  BY <1>2 DEF LoadedInv, WrittenInv
<1>4. CASE RenameFails
  BY <1>1, <1>3, <1>4 DEF RenameFails, OrderInv, SavedInv, IsStored
<1>5. CASE Renamed
  <2>1. file' = temp /\ saved' = list /\ ~ cut
    BY <1>5 DEF Renamed
  <2>2. list \in Seq(Nodes(vl)) /\ Len(list) \in Nat
    BY LenProperties DEF Inv, ListInv
  <2>3. /\ node \in 1..(Len(list) + 1)
        /\ IsStored(list) => LinesOf(temp, SubSeq(list, 1, node - 1))
    BY <1>1, <2>1 DEF OrderInv, WrittenInv
  <2>4. node - 1 = Len(list)
    BY <1>1, <2>2, <2>3
  <2>5. IsStored(list) => LinesOf(temp, list)
    BY <2>2, <2>3, <2>4, PrefixFacts
  <2>6. SavedInv(vl)'
    BY <1>1, <2>1, <2>2, <2>5 DEF OrderInv, SavedInv, IsStored
  <2> QED BY <1>3, <2>6 DEF OrderInv
<1> QED BY <1>4, <1>5 DEF SaveDone

LEMMA StepOrder ==
  ASSUME NEW kl \in Nat, NEW vl \in Nat, FullLines(kl, vl), RankedBytes,
         Inv(kl, vl), OrderInv(vl), [Next]_vars, ~ damaged'
  PROVE  OrderInv(vl)'
<1>1. CASE UNCHANGED vars
  BY <1>1 DEF vars, fileVars, OrderInv, SavedInv, LoadedInv, WrittenInv, IsStored
<1>2. ASSUME phase' \notin {"loading", "saving"}, UNCHANGED <<list, file, saved>>
      PROVE  OrderInv(vl)'
  BY <1>2, SortedOrder DEF OrderInv, SavedInv
<1>3. CASE Start
  BY <1>3, StartOrder
<1>4. CASE Load
  <2>1. CASE LoadEnd
    BY <1>2, <2>1 DEF LoadEnd, fileVars
  <2> QED BY <1>4, <2>1, LoadLineOrder DEF Load
<1>5. CASE Command
  BY <1>5, CommandOrder
<1>6. CASE Shutdown
  BY <1>6, BeginSaveOrder DEF Shutdown
<1>7. CASE Interrupt
  <2>1. PICK s \in Signal : SignalExits(s) \/ SignalWhileLoading(s) \/ SignalWhileSaving(s)
    BY <1>7 DEF Interrupt
  <2>2. CASE SignalExits(s)
    BY <2>2, BeginSaveOrder DEF SignalExits
  <2>3. CASE SignalWhileLoading(s)
    BY <1>2, <2>3 DEF SignalWhileLoading, fileVars
  <2>4. CASE SignalWhileSaving(s)
    BY <1>2, <2>4 DEF SignalWhileSaving, fileVars
  <2> QED BY <2>1, <2>2, <2>3, <2>4
<1>8. CASE Killed
  BY <1>2, <1>8 DEF Killed, fileVars
<1>9. CASE SaveNode
  BY <1>9, SaveNodeOrder
<1>10. CASE SaveDone
  BY <1>10, SaveDoneOrder
<1> QED BY <1>1, <1>3, <1>4, <1>5, <1>6, <1>7, <1>8, <1>9, <1>10 DEF Next

LEMMA InitOrder ==
  ASSUME NEW vl \in Nat, Init
  PROVE  OrderInv(vl)
<1>1. phase = "quit" /\ list = << >> /\ file = << >> /\ saved = << >>
  BY DEF Init
<1>2. << >> \in Seq(Nodes(vl))
  BY EmptySeq
<1> QED BY <1>1, <1>2, NoLines DEF OrderInv, SavedInv, LoadedInv, WrittenInv

\* loadDb() and saveDb() (db.c): under the same conditions, and as bytes are
\* told apart by their rank, a server that has loaded its data file holds just
\* the nodes that were in memory when the last save was finished, with their
\* values and in their order, if no value in it had been freed and no file whose
\* writes failed has become the data file.
THEOREM RestartRestores ==
  ASSUME NEW kl \in Nat, NEW vl \in Nat, FullLines(kl, vl), RankedBytes
  PROVE  Spec /\ SavesStrings(vl) => LoadsWhatWasSaved
<1>1. Init => damaged \/ (Inv(kl, vl) /\ OrderInv(vl))
  BY InitInv, InitOrder
<1>2. /\ damaged \/ (Inv(kl, vl) /\ OrderInv(vl))
      /\ [Next]_vars
      /\ [Garbage \subseteq Plain(vl) \/ phase # "replacing" \/ phase' # "saving"]_vars
      => (damaged \/ (Inv(kl, vl) /\ OrderInv(vl)))'
  BY StepInv, StepOrder, DamageStays
<1>3. /\ damaged \/ (Inv(kl, vl) /\ OrderInv(vl))
      /\ [Next]_vars
      => [phase = "loading" /\ phase' = "serving" /\ IsStored(saved) /\ ~ damaged
          => list = saved]_vars
  <2>1. SUFFICES ASSUME Inv(kl, vl), OrderInv(vl), Next, phase = "loading",
                        phase' = "serving", IsStored(saved)
                 PROVE  list = saved
    OBVIOUS
  <2>2. rest = << >>
    BY <2>1 DEF Next, Start, Load, LoadLine, LoadEnd, Command, PutNew, FreeOld, AssignNew,
                Delete, Shutdown, Interrupt, SignalExits, SignalWhileLoading,
                SignalWhileSaving, BeginSave, Killed, SaveNode, SaveDone, Renamed,
                RenameFails, Ended
  <2>3. PICK R : /\ Rests(file, saved, R)
                 /\ Len(list) <= Len(saved) /\ rest = R[Len(list)]
                 /\ \A i \in 1..Len(list) : list[i] = saved[i]
    BY <2>1 DEF OrderInv, LoadedInv
  <2>4. /\ list \in Seq(Nodes(vl)) /\ Len(list) \in Nat
        /\ saved \in Seq(Nodes(vl)) /\ Len(saved) \in Nat
    BY <2>1, LenProperties DEF Inv, ListInv, OrderInv, SavedInv
  <2>5. ASSUME Len(list) < Len(saved) PROVE FALSE
    <3>1. PICK m \in 1..Len(saved) : m - 1 = Len(list)
      <4>1. Len(list) + 1 \in 1..Len(saved) /\ (Len(list) + 1) - 1 = Len(list)
        BY <2>4, <2>5
      <4> QED BY <4>1
    <3>2. PICK x \in Nodes(vl) : x = saved[m] /\ x.val \in Val
      BY <2>1, <2>4, NodeShape DEF IsStored
    <3>3. PICK y, r : y = DataLine(x.key, x.val) /\ r = R[m]
      OBVIOUS
    <3>4. R[m - 1] = y \o r
      BY <2>3, <3>2, <3>3 DEF Rests
    <3>5. r \in Seq(Byte) /\ y \in Seq(Byte) /\ Len(y) = kl + vl + 2
      <4>1. m \in 0..Len(saved)
        BY <2>4
      <4>2. r \in Seq(Byte)
        BY <2>3, <3>3, <4>1 DEF Rests
      <4> QED BY <3>2, <3>3, <4>2, StoredLine
    <3>6. PICK f : f = y \o r
      OBVIOUS
    <3>7. PICK n \in Nat \ {0} : n = kl + vl + 2
      OBVIOUS
    <3>8. f # << >>
      BY <3>5, <3>6, <3>7, FrontLine
    <3> QED BY <2>2, <2>3, <3>1, <3>4, <3>6, <3>8
  <2>6. Len(list) = Len(saved)
    BY <2>3, <2>4, <2>5
  <2> QED BY <2>3, <2>4, <2>6, SeqEqual
<1> QED BY <1>1, <1>2, <1>3, PTL DEF Spec, SavesStrings, LoadsWhatWasSaved
=============================================================================
