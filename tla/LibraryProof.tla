---------------------------- MODULE LibraryProof ----------------------------
(***************************************************************************)
(* The libraries under the store.  No timer is lost and every timer that   *)
(* is due is called, for any number of timers, delays and ticks in a       *)
(* second, whatever callbacks create and delete and whenever the clock is  *)
(* set back; no socket is lost or closed under its owner, for any number   *)
(* of descriptors, addresses and bytes, whichever system call fails; and   *)
(* the memory in use is counted exactly, for any number of blocks.         *)
(***************************************************************************)
EXTENDS TimeEvents, Anet, Zmalloc, SequenceTheorems, FiniteSetTheorems, WellFoundedInduction,
        TLAPS

Entry == [n : Nat, id : Nat \cup {AE_DELETED_EVENT_ID}, when : Nat]
Place == 1..Len(timers)

\* The list has the newest timer in front, those not deleted are live, and what is
\* live and not exposed is in the list.
Listed ==
    /\ timers \in Seq(Entry)
    /\ nextId \in Nat
    /\ \A i \in Place : timers[i].n < nextId /\ timers[i].id \in {timers[i].n, AE_DELETED_EVENT_ID}
    /\ \A i, j \in Place : i < j => timers[j].n < timers[i].n
    /\ \A i \in Place : timers[i].id = timers[i].n <=> timers[i].n \in live
    /\ \A k \in live \ exposed : \E i \in Place : timers[i].n = k

\* In the list s, m comes after k.
Follows(s, k, m) ==
    \E p \in 1..Len(s) : s[p].n = k /\ m = IF p = Len(s) THEN -1 ELSE s[p + 1].n

Walk == [on : BOOLEAN, te : Nat \cup {-1}, prev : Nat \cup {-1}, maxId : Int,
         calling : BOOLEAN, finalizing : BOOLEAN, due : SUBSET Nat, called : SUBSET Nat]

\* The walk stands in the list, te right behind prev, or behind what is exposed.
Standing ==
    /\ walk \in Walk
    /\ walk.maxId < nextId /\ walk.te <= walk.maxId
    /\ walk.te # -1 => \E i \in Place : timers[i].n = walk.te
    /\ ~ walk.on => walk = NoWalk
    /\ walk.on => sleeping = AWAKE
    /\ walk.calling => walk.te # -1
    /\ walk.prev # -1 => Follows(timers, walk.prev, walk.te)
    /\ walk.on /\ walk.prev = -1 /\ ~ walk.calling =>
          \A i \in Place : timers[i].n > walk.te => timers[i].n \in exposed

\* Who was called is behind the walk, who has to be called is in front of it, in the list.
Turns ==
    /\ \A k \in walk.called : walk.te <= k /\ k <= walk.maxId
    /\ walk.te \in walk.called <=> walk.calling
    /\ \A k \in walk.due : k <= walk.maxId
    /\ \A k \in (walk.due \cap live) \ walk.called :
          /\ k <= walk.te
          /\ \E i \in Place : timers[i].n = k
          /\ \A i \in Place : timers[i].n = k => timers[i].when <= clock

Clocked == clock \in Nat /\ SECOND <= clock /\ sleeping \in Int

TimeInv == Listed /\ Standing /\ Turns /\ Clocked /\ NeverOversleeps

-----------------------------------------------------------------------------
(***************************************************************************)
(* The list of timers                                                      *)
(***************************************************************************)
\* A nonempty set of naturals has a least element.
LEMMA LeastOfNaturals ==
  ASSUME NEW S, S \subseteq Nat, S # {}
  PROVE  \E m \in S : \A n \in S : m <= n
<1>1. PICK m \in S : \A y \in S : ~ (<<y, m>> \in OpToRel(<, Nat))
  BY NatLessThanWellFounded, WFMin, Zenon
<1>2. ASSUME NEW n \in S PROVE m <= n
  <2>1. ~ (n < m)
    BY <1>1 DEF OpToRel
  <2>2. m \in Nat /\ n \in Nat
    OBVIOUS
  <2> QED BY <2>1, <2>2
<1> QED BY <1>2

\* Every timer stands in one place, where the walk finds it.
LEMMA InPlace ==
  ASSUME Listed, NEW i \in Place
  PROVE  /\ Len(timers) \in Nat /\ DOMAIN timers = Place
         /\ timers[i] \in Entry
         /\ \A j \in Place : timers[j].n = timers[i].n => j = i
         /\ Timer(timers[i].n) = timers[i]
         /\ Next_(timers[i].n) = IF i = Len(timers) THEN -1 ELSE timers[i + 1].n
<1>1. Len(timers) \in Nat /\ timers \in [Place -> Entry] /\ DOMAIN timers = Place
  BY LenProperties DEF Listed, Place
<1>2. \A j \in Place : j \in Nat /\ timers[j] \in Entry /\ timers[j].n \in Nat
  BY <1>1 DEF Entry, Place
<1>3. \A j \in Place : timers[j].n = timers[i].n => j = i
  <2> SUFFICES ASSUME NEW j \in Place, timers[j].n = timers[i].n, j # i PROVE FALSE
    OBVIOUS
  <2>1. i < j \/ j < i
    BY <1>2
  <2>2. timers[j].n < timers[i].n \/ timers[i].n < timers[j].n
    BY <2>1 DEF Listed
  <2> QED BY <1>2, <2>2
<1>4. Timer(timers[i].n) = timers[i]
  <2>1. \A t \in ToSet(timers) : t.n = timers[i].n => t = timers[i]
    BY <1>1, <1>3 DEF ToSet
  <2>2. timers[i] \in ToSet(timers)
    BY <1>1 DEF ToSet
  <2> QED BY <2>1, <2>2 DEF Timer
<1>5. Next_(timers[i].n) = IF i = Len(timers) THEN -1 ELSE timers[i + 1].n
  <2> DEFINE q == CHOOSE j \in DOMAIN timers : timers[j].n = timers[i].n
  <2>1. q = i
    BY <1>1, <1>3
  <2>2. Next_(timers[i].n) = IF q = Len(timers) THEN -1 ELSE timers[q + 1].n
    BY DEF Next_
  <2> HIDE DEF q
  <2> QED BY <2>1, <2>2
<1> QED BY <1>1, <1>2, <1>3, <1>4, <1>5

\* Who comes next is an older timer in the list, and nobody stands in between.
LEMMA NextPlace ==
  ASSUME Listed, NEW k, NEW m, Follows(timers, k, m)
  PROVE  /\ m = Next_(k) /\ m \in Nat \cup {-1} /\ m < k
         /\ m # -1 => \E i \in Place : timers[i].n = m
         /\ \A i \in Place : timers[i].n < k => timers[i].n <= m
<1>1. PICK p \in Place : timers[p].n = k /\ m = IF p = Len(timers) THEN -1 ELSE timers[p + 1].n
  BY DEF Follows, Place
<1>2. /\ Len(timers) \in Nat /\ p \in 1..Len(timers) /\ timers[p].n \in Nat
      /\ m = Next_(k)
  BY <1>1, InPlace DEF Place, Entry
<1>3. CASE p = Len(timers)
  <2>1. \A i \in Place : i = p \/ i < p
    BY <1>2, <1>3 DEF Place
  <2>2. \A i \in Place : timers[i].n \in Nat /\ (i = p \/ timers[p].n < timers[i].n)
    BY <2>1, InPlace DEF Listed, Entry
  <2> QED BY <1>1, <1>2, <1>3, <2>2
<1>4. CASE p # Len(timers)
  <2>1. p + 1 \in Place /\ p < p + 1 /\ m = timers[p + 1].n
    BY <1>1, <1>2, <1>4 DEF Place
  <2>2. m \in Nat /\ m < k
    BY <1>1, <2>1, InPlace DEF Listed, Entry
  <2>3. ASSUME NEW i \in Place, timers[i].n < k PROVE timers[i].n <= m
    <3>1. i < p \/ i = p \/ i = p + 1 \/ p + 1 < i
      BY <1>2 DEF Place
    <3>2. timers[i].n \in Nat
      BY InPlace DEF Entry
    <3>3. ~ (i < p) /\ i # p
      <4>1. i < p => timers[p].n < timers[i].n
        BY DEF Listed
      <4> QED BY <1>1, <1>2, <2>3, <3>2, <4>1
    <3>4. p + 1 < i => timers[i].n < timers[p + 1].n
      BY <2>1 DEF Listed
    <3> QED BY <2>1, <2>2, <3>1, <3>2, <3>3, <3>4
  <2> QED BY <1>2, <2>1, <2>2, <2>3
<1> QED BY <1>3, <1>4

LEMMA PlaceFollows ==
  ASSUME Listed, NEW i \in Place
  PROVE  Follows(timers, timers[i].n, Next_(timers[i].n))
BY InPlace DEF Follows, Place

\* The head is the newest timer.
LEMMA HeadIsNewest ==
  ASSUME Listed
  PROVE  /\ HeadTimer(timers) \in Nat \cup {-1} /\ HeadTimer(timers) < nextId
         /\ HeadTimer(timers) # -1 => 1 \in Place /\ timers[1].n = HeadTimer(timers)
         /\ \A i \in Place : timers[i].n <= HeadTimer(timers)
<1>1. Len(timers) \in Nat /\ timers \in Seq(Entry) /\ nextId \in Nat
  BY LenProperties DEF Listed
<1>2. CASE timers = << >>
  BY <1>1, <1>2 DEF HeadTimer, Place
<1>3. CASE timers # << >>
  <2>1. 1 \in Place /\ HeadTimer(timers) = timers[1].n
    BY <1>1, <1>3 DEF HeadTimer, Place
  <2>2. timers[1].n \in Nat /\ timers[1].n < nextId
    BY <2>1, InPlace DEF Listed, Entry
  <2>3. ASSUME NEW i \in Place PROVE timers[i].n <= timers[1].n
    <3>1. i = 1 \/ 1 < i
      BY <1>1 DEF Place
    <3>2. 1 < i => timers[i].n < timers[1].n
      BY <2>1 DEF Listed
    <3>3. timers[i].n \in Nat
      BY InPlace DEF Entry
    <3> QED BY <2>2, <3>1, <3>2, <3>3
  <2> QED BY <2>1, <2>2, <2>3
<1> QED BY <1>2, <1>3

-----------------------------------------------------------------------------
(***************************************************************************)
(* Changes of the list                                                     *)
(***************************************************************************)
LEMMA EntryDeleted ==
  ASSUME NEW e \in Entry, NEW d, d = [e EXCEPT !.id = AE_DELETED_EVENT_ID]
  PROVE  d \in Entry /\ d.n = e.n /\ d.id = AE_DELETED_EVENT_ID /\ d.when = e.when
BY DEF Entry

LEMMA EntryTimed ==
  ASSUME NEW e \in Entry, NEW x \in Nat, NEW d, d = [e EXCEPT !.when = x]
  PROVE  d \in Entry /\ d.n = e.n /\ d.id = e.id /\ d.when = x
BY DEF Entry

\* A change that leaves every timer in its place.
LEMMA RemadeInPlace ==
  ASSUME Listed, NEW h \in [Place -> Entry], timers' = h,
         \A i \in Place : h[i].n = timers[i].n
  PROVE  /\ timers' \in Seq(Entry) /\ Place' = Place
         /\ \A k, m : Follows(timers, k, m) => Follows(timers', k, m)
         /\ \A i, j \in Place : i < j => timers'[j].n < timers'[i].n
<1>1. Len(timers) \in Nat /\ timers \in Seq(Entry)
  BY LenProperties DEF Listed
<1>2. timers' \in Seq(Entry) /\ Len(timers') = Len(timers)
  <2> DEFINE l == Len(timers)
  <2>1. l \in Nat /\ h \in [1..l -> Entry]
    BY <1>1 DEF Place
  <2> HIDE DEF l
  <2>2. h \in Seq(Entry) /\ Len(h) = l
    BY <2>1
  <2> QED BY <2>2 DEF l
<1>3. Place' = Place
  BY <1>2 DEF Place
<1>5. ASSUME NEW k, NEW m, Follows(timers, k, m) PROVE Follows(timers', k, m)
  <2>1. PICK q \in Place : timers[q].n = k /\ m = IF q = Len(timers) THEN -1 ELSE timers[q + 1].n
    BY <1>5 DEF Follows, Place
  <2>2. q # Len(timers) => q + 1 \in Place
    BY <1>1 DEF Place
  <2>3. timers'[q].n = k /\ m = IF q = Len(timers') THEN -1 ELSE timers'[q + 1].n
    BY <1>2, <2>1, <2>2
  <2>4. q \in 1..Len(timers')
    BY <1>2, <2>1 DEF Place
  <2> QED BY <2>3, <2>4 DEF Follows
<1>6. \A i, j \in Place : i < j => timers'[j].n < timers'[i].n
  BY DEF Listed
<1> QED BY <1>2, <1>3, <1>5, <1>6

\* A timer's id is overwritten.
LEMMA DeletedInPlace ==
  ASSUME Listed, NEW k \in Nat, timers' = WithId(k, AE_DELETED_EVENT_ID),
         live' = live \ {k}, UNCHANGED <<nextId, exposed>>
  PROVE  /\ Listed' /\ Place' = Place
         /\ \A j, m : Follows(timers, j, m) => Follows(timers', j, m)
         /\ \A i \in Place : timers'[i].n = timers[i].n /\ timers'[i].when = timers[i].when
<1>1. timers \in [Place -> Entry] /\ DOMAIN timers = Place
  BY LenProperties DEF Listed, Place
<1> DEFINE h == [i \in Place |-> IF timers[i].n = k
                                 THEN [timers[i] EXCEPT !.id = AE_DELETED_EVENT_ID] ELSE timers[i]]
<1>2. timers' = h
  BY <1>1 DEF WithId
<1>3. ASSUME NEW i \in Place
      PROVE  /\ h[i] \in Entry /\ h[i].n = timers[i].n /\ h[i].when = timers[i].when
             /\ h[i].id = IF timers[i].n = k THEN AE_DELETED_EVENT_ID ELSE timers[i].id
  <2>1. timers[i] \in Entry
    BY <1>1
  <2>2. CASE timers[i].n = k
    <3>1. h[i] = [timers[i] EXCEPT !.id = AE_DELETED_EVENT_ID]
      BY <2>2
    <3>2. PICK e \in Entry : e = timers[i]
      BY <2>1
    <3>3. PICK d : d = h[i]
      OBVIOUS
    <3> HIDE DEF h
    <3>4. d = [e EXCEPT !.id = AE_DELETED_EVENT_ID]
      BY <3>1, <3>2, <3>3
    <3>5. d \in Entry /\ d.n = e.n /\ d.id = AE_DELETED_EVENT_ID /\ d.when = e.when
      BY ONLY <3>4, EntryDeleted
    <3> QED BY <2>2, <3>2, <3>3, <3>5
  <2>3. CASE timers[i].n # k
    BY <2>1, <2>3
  <2> QED BY <2>2, <2>3
<1>4. h \in [Place -> Entry]
  BY <1>3
<1> HIDE DEF h
<1>5. /\ timers' \in Seq(Entry) /\ Place' = Place
      /\ \A j, m : Follows(timers, j, m) => Follows(timers', j, m)
      /\ \A i, j \in Place : i < j => timers'[j].n < timers'[i].n
  BY <1>2, <1>3, <1>4, RemadeInPlace
<1>6. \A i \in Place : timers'[i].n < nextId
                       /\ timers'[i].id \in {timers'[i].n, AE_DELETED_EVENT_ID}
  BY <1>2, <1>3 DEF Listed
<1>7. /\ \A i \in Place : timers'[i].id = timers'[i].n <=> timers'[i].n \in live'
      /\ \A j \in live' \ exposed' : \E i \in Place : timers'[i].n = j
  <2>1. \A i \in Place : timers[i].n # AE_DELETED_EVENT_ID
    BY InPlace DEF AE_DELETED_EVENT_ID, Entry
  <2> QED BY <1>2, <1>3, <2>1 DEF Listed
<1>8. Listed'
  BY <1>5, <1>6, <1>7 DEF Listed
<1> QED BY <1>2, <1>3, <1>5, <1>8

\* The times of timers are changed.
LEMMA TimedInPlace ==
  ASSUME Listed, NEW w \in [Place -> Nat], UNCHANGED <<live, nextId, exposed>>,
         timers' = [i \in DOMAIN timers |-> [timers[i] EXCEPT !.when = w[i]]]
  PROVE  /\ Listed' /\ Place' = Place
         /\ \A j, m : Follows(timers, j, m) => Follows(timers', j, m)
         /\ \A i \in Place : timers'[i].n = timers[i].n /\ timers'[i].when = w[i]
<1>1. timers \in [Place -> Entry] /\ DOMAIN timers = Place
  BY LenProperties DEF Listed, Place
<1> DEFINE h == [i \in Place |-> [timers[i] EXCEPT !.when = w[i]]]
<1>2. timers' = h
  BY <1>1
<1>3. ASSUME NEW i \in Place
      PROVE  /\ h[i] \in Entry /\ h[i].n = timers[i].n /\ h[i].when = w[i]
             /\ h[i].id = timers[i].id
  <2>1. timers[i] \in Entry /\ w[i] \in Nat
    BY <1>1
  <2>2. h[i] = [timers[i] EXCEPT !.when = w[i]]
    OBVIOUS
  <2> HIDE DEF h
  <2>3. PICK e \in Entry : e = timers[i]
    BY <2>1
  <2>4. PICK d : d = h[i]
    OBVIOUS
  <2>5. PICK x \in Nat : x = w[i]
    BY <2>1
  <2>6. d = [e EXCEPT !.when = x]
    BY <2>2, <2>3, <2>4, <2>5
  <2>7. d \in Entry /\ d.n = e.n /\ d.id = e.id /\ d.when = x
    BY ONLY <2>6, EntryTimed
  <2> QED BY <2>3, <2>4, <2>5, <2>7
<1>4. h \in [Place -> Entry]
  BY <1>3
<1> HIDE DEF h
<1>5. /\ timers' \in Seq(Entry) /\ Place' = Place
      /\ \A j, m : Follows(timers, j, m) => Follows(timers', j, m)
      /\ \A i, j \in Place : i < j => timers'[j].n < timers'[i].n
  BY <1>2, <1>3, <1>4, RemadeInPlace
<1>6. \A i \in Place : timers'[i].n < nextId
                       /\ timers'[i].id \in {timers'[i].n, AE_DELETED_EVENT_ID}
  BY <1>2, <1>3 DEF Listed
<1>7. /\ \A i \in Place : timers'[i].id = timers'[i].n <=> timers'[i].n \in live'
      /\ \A j \in live' \ exposed' : \E i \in Place : timers'[i].n = j
  <2>1. live' = live /\ exposed' = exposed
    OBVIOUS
  <2>2. \A i \in Place : timers'[i].id = timers[i].id /\ timers'[i].n = timers[i].n
    BY <1>2, <1>3
  <2>3. /\ \A i \in Place : timers[i].id = timers[i].n <=> timers[i].n \in live
        /\ \A j \in live \ exposed : \E i \in Place : timers[i].n = j
    BY DEF Listed
  <2> QED BY ONLY <2>1, <2>2, <2>3
<1>8. Listed'
  <2>1. nextId' = nextId /\ nextId \in Nat
    BY DEF Listed
  <2>2. \A i \in Place' : timers'[i].n < nextId'
                           /\ timers'[i].id \in {timers'[i].n, AE_DELETED_EVENT_ID}
    BY <1>5, <1>6, <2>1
  <2>3. \A i, j \in Place' : i < j => timers'[j].n < timers'[i].n
    BY <1>5
  <2>4. /\ \A i \in Place' : timers'[i].id = timers'[i].n <=> timers'[i].n \in live'
        /\ \A j \in live' \ exposed' : \E i \in Place' : timers'[i].n = j
    BY <1>5, <1>7
  <2> QED BY <1>5, <2>1, <2>2, <2>3, <2>4 DEF Listed
<1> QED BY <1>2, <1>3, <1>5, <1>8

\* A new timer goes in front.
LEMMA CreatedInFront ==
  ASSUME Listed, clock \in Nat, NEW ms \in Nat,
         timers' = <<[n |-> nextId, id |-> nextId, when |-> clock + ms]>> \o timers,
         nextId' = nextId + 1, live' = live \cup {nextId}, exposed \subseteq exposed'
  PROVE  /\ Listed'
         /\ \A k, m : Follows(timers, k, m) => Follows(timers', k, m)
         /\ \A i \in Place : \E j \in Place' : timers'[j] = timers[i]
         /\ \A j \in Place' : \/ timers'[j].n = nextId /\ timers'[j].when = clock + ms
                              \/ \E i \in Place : timers'[j] = timers[i]
<1> DEFINE e == [n |-> nextId, id |-> nextId, when |-> clock + ms]
           l == Len(timers)
<1>1. l \in Nat /\ timers \in Seq(Entry) /\ nextId \in Nat /\ Place = 1..l
  BY LenProperties DEF Listed, Place
<1>2. e \in Entry /\ e.n = nextId /\ e.id = nextId /\ e.when = clock + ms
  BY <1>1 DEF Entry
<1>3. timers' = <<e>> \o timers
  OBVIOUS
<1> HIDE DEF e
<1>4. /\ timers' \in Seq(Entry) /\ Len(timers') = l + 1
      /\ \A j \in 1..(l + 1) : timers'[j] = IF j = 1 THEN e ELSE timers[j - 1]
  <2> DEFINE one == <<e>>
  <2>1. one \in Seq(Entry) /\ Len(one) = 1 /\ one[1] = e
    BY <1>2
  <2> HIDE DEF one
  <2>2. /\ one \o timers \in Seq(Entry) /\ Len(one \o timers) = Len(one) + Len(timers)
        /\ \A j \in 1..(Len(one) + Len(timers)) :
              (one \o timers)[j] = IF j <= Len(one) THEN one[j] ELSE timers[j - Len(one)]
    BY ONLY <1>1, <2>1, ConcatProperties
  <2>3. timers' = one \o timers
    BY <1>3 DEF one
  <2> HIDE DEF l
  <2>4. Len(one) + Len(timers) = l + 1
    BY <1>1, <2>1 DEF l
  <2>5. \A j \in 1..(l + 1) : j <= 1 <=> j = 1
    BY <1>1
  <2> QED BY <2>1, <2>2, <2>3, <2>4, <2>5
<1>5. Place' = 1..(l + 1)
  BY <1>4 DEF Place
<1> HIDE DEF l
<1>6. \A j \in Place' : j # 1 => j - 1 \in Place /\ timers'[j] = timers[j - 1]
  BY <1>1, <1>4, <1>5
<1>7. \A i \in Place : i + 1 \in Place' /\ timers'[i + 1] = timers[i]
  <2> TAKE i \in Place
  <2>1. i + 1 \in 1..(l + 1) /\ i + 1 # 1 /\ (i + 1) - 1 = i
    BY <1>1
  <2> QED BY <1>4, <1>5, <2>1
<1>8. 1 \in Place' /\ timers'[1] = e
  BY <1>1, <1>4, <1>5
<1>9. \A i \in Place : i \in Int /\ timers[i].n \in Nat /\ timers[i].n < nextId
                       /\ timers[i].id \in {timers[i].n, AE_DELETED_EVENT_ID}
  BY <1>1, InPlace DEF Listed, Entry
<1>10. Listed'
  <2>1. \A j \in Place' : timers'[j].n < nextId'
                          /\ timers'[j].id \in {timers'[j].n, AE_DELETED_EVENT_ID}
    <3> TAKE j \in Place'
    <3>1. CASE j = 1
      BY <1>1, <1>2, <1>8, <3>1
    <3>2. CASE j # 1
      <4>1. j - 1 \in Place /\ timers'[j] = timers[j - 1]
        BY <1>6, <3>2
      <4>2. timers[j - 1].n < nextId + 1
        BY <1>1, <1>9, <4>1
      <4> QED BY <1>9, <4>1, <4>2
    <3> QED BY <3>1, <3>2
  <2>2. \A i, j \in Place' : i < j => timers'[j].n < timers'[i].n
    <3> SUFFICES ASSUME NEW i \in Place', NEW j \in Place', i < j
                 PROVE  timers'[j].n < timers'[i].n
      OBVIOUS
    <3>0. i \in 1..(l + 1) /\ j \in 1..(l + 1)
      BY <1>5
    <3>1. j # 1 /\ j - 1 \in Place /\ timers'[j] = timers[j - 1] /\ i \in Int /\ j \in Int
      <4>1. i \in Int /\ j \in Int /\ j # 1
        BY <1>1, <3>0
      <4> QED BY <1>6, <4>1
    <3>2. CASE i = 1
      BY <1>2, <1>8, <1>9, <3>1, <3>2
    <3>3. CASE i # 1
      <4>1. i - 1 \in Place /\ timers'[i] = timers[i - 1]
        BY <1>6, <3>3
      <4>2. i - 1 < j - 1
        BY <3>1
      <4> QED BY <3>1, <4>1, <4>2 DEF Listed
    <3> QED BY <3>2, <3>3
  <2>3. \A j \in Place' : timers'[j].id = timers'[j].n <=> timers'[j].n \in live'
    <3> TAKE j \in Place'
    <3>1. CASE j = 1
      BY <1>2, <1>8, <3>1
    <3>2. CASE j # 1
      <4>1. j - 1 \in Place /\ timers'[j] = timers[j - 1]
        BY <1>6, <3>2
      <4>2. timers[j - 1].n # nextId
        BY <1>1, <1>9, <4>1
      <4> QED BY <4>1, <4>2 DEF Listed
    <3> QED BY <3>1, <3>2
  <2>5. \A k \in live' \ exposed' : \E j \in Place' : timers'[j].n = k
    <3> TAKE k \in live' \ exposed'
    <3>1. CASE k = nextId
      BY <1>2, <1>8, <3>1
    <3>2. CASE k # nextId
      <4>1. PICK i \in Place : timers[i].n = k
        BY <3>2 DEF Listed
      <4> QED BY <1>7, <4>1
    <3> QED BY <3>1, <3>2
  <2>4. nextId' \in Nat
    BY <1>1
  <2> QED BY <1>4, <2>1, <2>2, <2>3, <2>4, <2>5 DEF Listed
<1>11. ASSUME NEW k, NEW m, Follows(timers, k, m) PROVE Follows(timers', k, m)
  <2>1. PICK q \in Place : timers[q].n = k /\ m = IF q = Len(timers) THEN -1 ELSE timers[q + 1].n
    BY <1>11 DEF Follows, Place
  <2>2. q + 1 \in 1..Len(timers') /\ timers'[q + 1].n = k /\ (q = l <=> q + 1 = Len(timers'))
    BY <1>1, <1>4, <1>5, <1>7, <2>1
  <2>3. q # l => q + 1 \in Place /\ timers'[q + 1 + 1] = timers[q + 1]
    <3>1. q \in 1..l
      BY <1>1, <2>1
    <3>2. q # l => q + 1 \in 1..l
      BY <1>1, <3>1
    <3> QED BY <1>1, <1>7, <3>2
  <2>4. m = IF q + 1 = Len(timers') THEN -1 ELSE timers'[q + 1 + 1].n
    BY <2>1, <2>2, <2>3 DEF l
  <2> QED BY <2>2, <2>4 DEF Follows
<1> QED BY <1>2, <1>6, <1>7, <1>8, <1>10, <1>11

\* A deleted timer is taken out, and with it the exposed ones behind place c.
LEMMA TakenOut ==
  ASSUME Listed, NEW i \in Place, timers[i].id = AE_DELETED_EVENT_ID,
         UNCHANGED <<live, nextId, exposed>>, NEW c \in 0..(i - 1),
         \A j \in Place : c < j /\ j < i => timers[j].n \in exposed,
         timers' \in Seq(Entry), Len(timers') = Len(timers) - (i - c),
         \A j \in 1..(Len(timers) - (i - c)) :
            timers'[j] = timers[IF j <= c THEN j ELSE j + (i - c)]
  PROVE  /\ Listed'
         /\ \A k \in Place : k <= c \/ i < k => \E j \in Place' : timers'[j] = timers[k]
         /\ \A j \in Place' : \E k \in Place : timers'[j] = timers[k]
         /\ c # 0 => Follows(timers', timers[c].n, Next_(timers[i].n))
         /\ c = 0 => \A j \in Place' : timers'[j].n <= Next_(timers[i].n)
<1> DEFINE l == Len(timers)
           Old(j) == IF j <= c THEN j ELSE j + (i - c)
<1>1. /\ l \in Nat /\ Place = 1..l /\ i \in 1..l /\ c \in 0..(i - 1)
      /\ Place' = 1..(l - (i - c)) /\ Len(timers') = l - (i - c)
  BY LenProperties DEF Listed, Place
<1>2. \A j \in Place' : /\ Old(j) \in Place /\ timers'[j] = timers[Old(j)]
                        /\ Old(j) <= c \/ i < Old(j)
  BY <1>1
<1>3. \A j, k \in Place' : j < k => Old(j) < Old(k)
  BY <1>1
<1>4. \A k \in Place : k <= c \/ i < k => \E j \in Place' : Old(j) = k
  <2> SUFFICES ASSUME NEW k \in Place, k <= c \/ i < k PROVE \E j \in Place' : Old(j) = k
    OBVIOUS
  <2>1. CASE k <= c
    <3>1. k \in Place' /\ Old(k) = k
      BY <1>1, <2>1
    <3> QED BY <3>1
  <2>2. CASE i < k
    <3>1. k - (i - c) \in Place' /\ Old(k - (i - c)) = k
      BY <1>1, <2>2
    <3> QED BY <3>1
  <2> QED BY <2>1, <2>2
<1>5. Next_(timers[i].n) = IF i = l THEN -1 ELSE timers[i + 1].n
  BY InPlace
<1>6. c # 0 => Follows(timers', timers[c].n, Next_(timers[i].n))
  <2> SUFFICES ASSUME c # 0 PROVE Follows(timers', timers[c].n, Next_(timers[i].n))
    OBVIOUS
  <2>1. c \in Place' /\ Old(c) = c
    BY <1>1
  <2>2. i # l => c + 1 \in Place' /\ Old(c + 1) = i + 1
    BY <1>1
  <2>3. i = l <=> c = Len(timers')
    <3> HIDE DEF l, Old
    <3>1. i \in Int /\ c \in Int /\ l \in Int
      BY <1>1
    <3>2. PICK g : g = Len(timers')
      OBVIOUS
    <3>3. g = l - (i - c)
      BY <1>1, <3>2
    <3>4. i = l <=> c = g
      BY ONLY <3>1, <3>3
    <3> QED BY <3>2, <3>4
  <2>4. timers'[c].n = timers[c].n
    BY <1>2, <2>1
  <2>5. Next_(timers[i].n) = IF c = Len(timers') THEN -1 ELSE timers'[c + 1].n
    <3> HIDE DEF Old, l
    <3> QED BY <1>2, <1>5, <2>2, <2>3
  <2>6. c \in 1..Len(timers')
    BY <1>1, <2>1
  <2> QED BY <2>4, <2>5, <2>6 DEF Follows
<1>7. c = 0 => \A j \in Place' : timers'[j].n <= Next_(timers[i].n)
  <2> SUFFICES ASSUME c = 0, NEW j \in Place' PROVE timers'[j].n <= Next_(timers[i].n)
    OBVIOUS
  <2>1. Old(j) \in Place /\ i < Old(j) /\ timers'[j] = timers[Old(j)]
    BY <1>1, <1>2
  <2> HIDE DEF Old, l
  <2>2. timers[Old(j)].n < timers[i].n
    BY <2>1 DEF Listed
  <2>3. Follows(timers, timers[i].n, Next_(timers[i].n))
    BY PlaceFollows
  <2> QED BY <2>1, <2>2, <2>3, NextPlace
<1> HIDE DEF Old, l
<1>8. Listed'
  <2>1. \A j \in Place' : timers'[j].n < nextId
                          /\ timers'[j].id \in {timers'[j].n, AE_DELETED_EVENT_ID}
    BY <1>2 DEF Listed
  <2>2. \A j, k \in Place' : j < k => timers'[k].n < timers'[j].n
    BY <1>2, <1>3 DEF Listed
  <2>3. \A j \in Place' : timers'[j].id = timers'[j].n <=> timers'[j].n \in live
    BY <1>2 DEF Listed
  <2>4. ASSUME NEW k \in live \ exposed PROVE \E j \in Place' : timers'[j].n = k
    <3>1. PICK m \in Place : timers[m].n = k
      BY <2>4 DEF Listed
    <3>2. m # i
      <4>1. timers[i].n \in Nat
        BY InPlace DEF Entry
      <4>2. timers[i].id # timers[i].n
        <5>1. PICK n : n = timers[i].n
          OBVIOUS
        <5>2. n \in Nat
          BY <4>1, <5>1
        <5>3. n # -1
          BY ONLY <5>2
        <5> QED BY <5>1, <5>3 DEF AE_DELETED_EVENT_ID
      <4>3. timers[i].n \notin live
        BY <4>2 DEF Listed
      <4> QED BY <3>1, <4>3
    <3>3. ~ (c < m /\ m < i)
      BY <3>1
    <3>4. m <= c \/ i < m
      BY <1>1, <3>2, <3>3
    <3> QED BY <1>2, <1>4, <3>1, <3>4
  <2>5. nextId \in Nat /\ UNCHANGED <<live, nextId, exposed>>
    BY DEF Listed
  <2> QED BY <2>1, <2>2, <2>3, <2>4, <2>5 DEF Listed
<1> QED BY <1>2, <1>4, <1>6, <1>7, <1>8

-----------------------------------------------------------------------------
(***************************************************************************)
(* Every step keeps the invariant: handlers and the clock                  *)
(***************************************************************************)
LEMMA NoWalkFacts ==
  /\ NoWalk \in Walk /\ ~ NoWalk.on /\ NoWalk.te = -1 /\ NoWalk.prev = -1 /\ NoWalk.maxId = -1
  /\ ~ NoWalk.calling /\ ~ NoWalk.finalizing /\ NoWalk.due = {} /\ NoWalk.called = {}
BY DEF NoWalk, Walk

LEMMA InitTimeInv == TimeInit => TimeInv
<1> SUFFICES ASSUME TimeInit PROVE TimeInv
  OBVIOUS
<1>1. timers = << >> /\ nextId = 0 /\ live = {} /\ walk = NoWalk /\ clock = SECOND
      /\ sleeping = -1 /\ exposed = {} /\ far = FALSE
  BY DEF TimeInit, AWAKE
<1>2. timers \in Seq(Entry) /\ Place = {}
  BY <1>1 DEF Place
<1>3. Listed
  BY <1>1, <1>2 DEF Listed
<1>4. Standing
  BY <1>1, NoWalkFacts DEF Standing
<1>5. Turns
  BY <1>1, NoWalkFacts DEF Turns
<1>6. Clocked
  BY <1>1, TimeAssumption DEF Clocked, TimeAssumption
<1>7. NeverOversleeps
  BY <1>1 DEF NeverOversleeps, FOREVER
<1> QED BY <1>3, <1>4, <1>5, <1>6, <1>7 DEF TimeInv

\* The walk's number never exceeds that of the newest timer.
LEMMA WalkFacts ==
  ASSUME TimeInv
  PROVE  /\ walk \in Walk /\ nextId \in Nat /\ walk.maxId \in Int /\ walk.maxId < nextId
         /\ walk.te \in Nat \cup {-1} /\ walk.te <= walk.maxId
         /\ walk.prev \in Nat \cup {-1} /\ walk.on \in BOOLEAN
         /\ walk.calling \in BOOLEAN /\ walk.finalizing \in BOOLEAN
         /\ walk.due \subseteq Nat /\ walk.called \subseteq Nat
         /\ clock \in Nat /\ sleeping \in Int
         /\ \A i \in Place : timers[i].n \in Nat /\ timers[i].when \in Nat /\ timers[i] \in Entry
         /\ ToSet(timers) = {timers[i] : i \in Place}
BY InPlace, LenProperties DEF TimeInv, Standing, Clocked, Listed, Walk, Entry, ToSet, Place

LEMMA CreateTimeInv ==
  ASSUME TimeInv, NEW ms \in Delays, aeCreateTimeEvent(ms)
  PROVE  TimeInv'
<1>1. ms \in Nat
  BY TimeAssumption DEF TimeAssumption
<1>2. /\ Listed'
      /\ \A k, m : Follows(timers, k, m) => Follows(timers', k, m)
      /\ \A i \in Place : \E j \in Place' : timers'[j] = timers[i]
      /\ \A j \in Place' : \/ timers'[j].n = nextId /\ timers'[j].when = clock + ms
                           \/ \E i \in Place : timers'[j] = timers[i]
  <2>1. exposed \subseteq exposed'
    BY DEF aeCreateTimeEvent
  <2> QED BY <1>1, <2>1, CreatedInFront DEF aeCreateTimeEvent, TimeInv, Clocked
<1>3. /\ sleeping = -1 /\ (~ walk.on \/ walk.calling \/ walk.finalizing)
      /\ nextId' = nextId + 1 /\ live' = live \cup {nextId}
      /\ exposed' = IF walk.finalizing /\ walk.prev = -1 THEN exposed \cup {nextId} ELSE exposed
      /\ UNCHANGED <<lastTime, clock, sleeping, walk, far>>
  BY DEF aeCreateTimeEvent, InCode, AWAKE
<1>4. Standing'
  BY <1>2, <1>3, WalkFacts DEF TimeInv, Standing
<1>5. Turns'
  <2>1. ASSUME NEW k \in (walk.due \cap live') \ walk.called
        PROVE  /\ k <= walk.te /\ \E j \in Place' : timers'[j].n = k
               /\ \A j \in Place' : timers'[j].n = k => timers'[j].when <= clock
    <3>1. k # nextId /\ k \in live
      BY <1>3, <2>1, WalkFacts DEF TimeInv, Turns
    <3> QED BY <1>2, <2>1, <3>1 DEF TimeInv, Turns
  <2> QED BY <1>3, <2>1 DEF TimeInv, Turns
<1>6. Clocked' /\ NeverOversleeps'
  BY <1>3 DEF TimeInv, Clocked, NeverOversleeps, FOREVER
<1> QED BY <1>2, <1>4, <1>5, <1>6 DEF TimeInv

LEMMA DeleteTimeInv ==
  ASSUME TimeInv, NEW id \in 0..(nextId - 1), aeDeleteTimeEvent(id)
  PROVE  TimeInv'
<1>1. /\ Listed' /\ Place' = Place
      /\ \A j, m : Follows(timers, j, m) => Follows(timers', j, m)
      /\ \A i \in Place : timers'[i].n = timers[i].n /\ timers'[i].when = timers[i].when
  <2>1. id \in Nat
    BY WalkFacts
  <2> QED BY <2>1, DeletedInPlace DEF aeDeleteTimeEvent, TimeInv
<1>2. /\ sleeping = -1 /\ live' \subseteq live
      /\ UNCHANGED <<nextId, lastTime, clock, sleeping, walk, exposed, far>>
  BY DEF aeDeleteTimeEvent, InCode, AWAKE
<1>3. Standing'
  BY <1>1, <1>2 DEF TimeInv, Standing
<1>4. Turns'
  BY <1>1, <1>2 DEF TimeInv, Turns
<1>5. Clocked' /\ NeverOversleeps'
  BY <1>2 DEF TimeInv, Clocked, NeverOversleeps, FOREVER
<1> QED BY <1>1, <1>3, <1>4, <1>5 DEF TimeInv

LEMMA TickTimeInv == TimeInv /\ Tick => TimeInv'
<1> SUFFICES ASSUME TimeInv, Tick PROVE TimeInv'
  OBVIOUS
<1>1. /\ clock' = clock + 1 /\ sleeping' = IF sleeping > 0 THEN sleeping - 1 ELSE sleeping
      /\ UNCHANGED <<timers, nextId, lastTime, walk, live, exposed, far>> /\ sleeping # 0
  BY DEF Tick
<1>2. Listed' /\ Place' = Place
  BY <1>1 DEF TimeInv, Listed, Place
<1>3. Standing'
  BY <1>1, <1>2 DEF TimeInv, Standing, AWAKE
<1>4. Turns'
  <2>1. ASSUME NEW k \in (walk.due \cap live) \ walk.called, NEW i \in Place, timers[i].n = k
        PROVE  timers[i].when <= clock + 1
    <3>1. timers[i].when <= clock
      BY <2>1 DEF TimeInv, Turns
    <3> QED BY <3>1, WalkFacts
  <2> QED BY <1>1, <1>2, <2>1 DEF TimeInv, Turns
<1>5. Clocked'
  BY <1>1, TimeAssumption DEF TimeInv, Clocked, TimeAssumption
<1>6. NeverOversleeps'
  <2>0. sleeping' = FOREVER => sleeping = FOREVER
    BY <1>1, WalkFacts DEF FOREVER
  <2> SUFFICES ASSUME sleeping' > 0, NEW t \in ToSet(timers)
               PROVE  clock' + sleeping' <= t.when
    BY <1>1, <2>0 DEF TimeInv, NeverOversleeps
  <2>1. sleeping > 0 /\ sleeping' = sleeping - 1
    BY <1>1, WalkFacts
  <2>2. clock + sleeping <= t.when
    BY <2>1 DEF TimeInv, NeverOversleeps
  <2> QED BY <1>1, <2>1, <2>2, WalkFacts
<1> QED BY <1>2, <1>3, <1>4, <1>5, <1>6 DEF TimeInv

LEMMA SetBackTimeInv == TimeInv /\ SetBack => TimeInv'
<1> SUFFICES ASSUME TimeInv, SetBack PROVE TimeInv'
  OBVIOUS
<1>1. /\ clock' = clock - SECOND /\ walk' = [walk EXCEPT !.due = {}] /\ clock >= 2 * SECOND
      /\ UNCHANGED <<timers, nextId, lastTime, sleeping, live, exposed, far>>
  BY DEF SetBack
<1>2. Listed' /\ Place' = Place
  BY <1>1 DEF TimeInv, Listed, Place
<1>3. /\ walk' \in Walk /\ walk'.on = walk.on /\ walk'.te = walk.te /\ walk'.prev = walk.prev
      /\ walk'.maxId = walk.maxId /\ walk'.calling = walk.calling
      /\ walk'.finalizing = walk.finalizing /\ walk'.called = walk.called
      /\ walk'.due = {} /\ (walk = NoWalk => walk' = NoWalk)
  <2>1. walk \in Walk
    BY WalkFacts
  <2>2. walk = NoWalk => walk' = NoWalk
    BY <1>1 DEF NoWalk
  <2> QED BY <1>1, <2>1, <2>2 DEF Walk
<1>4. Standing'
  BY <1>1, <1>2, <1>3 DEF TimeInv, Standing
<1>5. Turns'
  BY <1>1, <1>2, <1>3 DEF TimeInv, Turns
<1>6. Clocked'
  BY <1>1, TimeAssumption DEF TimeInv, Clocked, TimeAssumption
<1>7. NeverOversleeps'
  <2> SUFFICES ASSUME sleeping > 0, NEW t \in ToSet(timers)
               PROVE  clock' + sleeping <= t.when
    BY <1>1 DEF TimeInv, NeverOversleeps
  <2>1. clock + sleeping <= t.when
    BY DEF TimeInv, NeverOversleeps
  <2>2. t.when \in Nat /\ SECOND \in Nat
    BY WalkFacts, TimeAssumption DEF TimeAssumption
  <2> QED BY <1>1, <2>1, <2>2, WalkFacts
<1> QED BY <1>2, <1>4, <1>5, <1>6, <1>7 DEF TimeInv

\* The nearest timer is one of the list, and none is nearer.
LEMMA NearestTimer ==
  ASSUME TimeInv, timers # << >>
  PROVE  /\ aeSearchNearestTimer \in ToSet(timers)
         /\ \A u \in ToSet(timers) : aeSearchNearestTimer.when <= u.when
<1> DEFINE W == {t.when : t \in ToSet(timers)}
<1>1. ToSet(timers) # {} /\ \A t \in ToSet(timers) : t.when \in Nat
  <2>1. 1 \in Place
    BY LenProperties DEF TimeInv, Listed, Place
  <2> QED BY <2>1, WalkFacts
<1>2. W \subseteq Nat /\ W # {}
  BY <1>1
<1>3. PICK w \in W : \A v \in W : w <= v
  <2> HIDE DEF W
  <2> QED BY <1>2, LeastOfNaturals
<1>4. \E t \in ToSet(timers) : \A u \in ToSet(timers) : t.when <= u.when
  BY <1>3
<1> QED BY <1>4 DEF aeSearchNearestTimer

\* The int is the number itself as far as an int goes, and never more.
LEMMA Remainder ==
  ASSUME NEW x \in Nat, NEW m \in Nat \ {0}
  PROVE  x % m \in 0..(m - 1) /\ x % m <= x /\ (x < m => x % m = x)
<1>1. x % m \in 0..(m - 1)
  OBVIOUS
<1>2. PICK q \in Int, z \in 0..(m - 1) : x = m * q + z /\ z = x % m
  OBVIOUS
<1>3. q >= 0
  <2> SUFFICES ASSUME q <= -1 PROVE FALSE
    BY <1>2
  <2>1. m * q <= m * (-1)
    OBVIOUS
  <2> QED BY <1>2, <2>1
<1>4. m * q >= 0
  BY <1>3
<1>5. x < m => q = 0
  <2> SUFFICES ASSUME x < m, q >= 1 PROVE FALSE
    BY <1>2, <1>3
  <2>1. m * q >= m * 1
    OBVIOUS
  <2> QED BY <1>2, <2>1
<1> QED BY <1>1, <1>2, <1>4, <1>5

LEMMA IntTaken ==
  ASSUME NEW ms \in Nat
  PROVE  AsInt(ms) \in Int /\ AsInt(ms) <= ms /\ (ms <= INT_MAX => AsInt(ms) = ms)
<1>1. INT_MAX \in Nat
  BY TimeAssumption DEF TimeAssumption
<1> DEFINE x == ms + INT_MAX + 1
           m == 2 * (INT_MAX + 1)
<1>2. x \in Nat /\ m \in Nat \ {0} /\ (ms <= INT_MAX => x < m)
  BY <1>1
<1>3. AsInt(ms) = (x % m) - (INT_MAX + 1)
  BY DEF AsInt
<1>4. x = ms + INT_MAX + 1
  OBVIOUS
<1> HIDE DEF x, m
<1>5. x % m \in 0..(m - 1) /\ x % m <= x /\ (x < m => x % m = x)
  BY <1>2, Remainder
<1>6. x % m \in Int
  BY <1>2, <1>5
<1> QED BY <1>1, <1>2, <1>3, <1>4, <1>5, <1>6

LEMMA SleepTimeInv == TimeInv /\ Sleep => TimeInv'
<1> SUFFICES ASSUME TimeInv, Sleep PROVE TimeInv'
  OBVIOUS
<1>1. /\ ~ walk.on /\ UNCHANGED <<timers, nextId, lastTime, clock, walk, live, exposed>>
      /\ sleeping' = IF timers = << >> THEN FOREVER ELSE Timeout
      /\ far' = (timers # << >> /\ aeSearchNearestTimer.when - clock > INT_MAX)
  BY DEF Sleep
<1>2. Listed' /\ Place' = Place
  BY <1>1 DEF TimeInv, Listed, Place
<1>3. Standing'
  BY <1>1, <1>2 DEF TimeInv, Standing
<1>4. Turns'
  BY <1>1, <1>2 DEF TimeInv, Turns
<1>5. CASE timers = << >>
  <2>1. Clocked' /\ NeverOversleeps'
    BY <1>1, <1>5 DEF TimeInv, Clocked, NeverOversleeps, FOREVER
  <2> QED BY <1>2, <1>3, <1>4, <2>1 DEF TimeInv
<1>6. CASE timers # << >>
  <2>1. PICK w \in Nat : w = aeSearchNearestTimer.when /\ \A u \in ToSet(timers) : w <= u.when
    BY <1>6, NearestTimer, WalkFacts
  <2>2. PICK ms \in Nat : ms = IF w - clock > 0 THEN w - clock ELSE 0
    BY <2>1, WalkFacts
  <2>3. PICK t \in Int : t = AsInt(ms) /\ t <= ms /\ (ms <= INT_MAX => t = ms)
    BY IntTaken
  <2>4. sleeping' = IF t < 0 THEN FOREVER ELSE t
    BY <1>1, <1>6, <2>1, <2>2, <2>3 DEF Timeout
  <2>5. Clocked'
    BY <1>1, <2>4 DEF TimeInv, Clocked, FOREVER
  <2>6. ASSUME sleeping' > 0, NEW u \in ToSet(timers) PROVE clock + sleeping' <= u.when
    <3>1. sleeping' = t
      BY <2>4, <2>6 DEF FOREVER
    <3>2. w <= u.when /\ u.when \in Nat /\ clock \in Nat
      BY <2>1, WalkFacts
    <3> QED BY <2>2, <2>3, <2>6, <3>1, <3>2
  <2>7. sleeping' = FOREVER => far'
    <3> SUFFICES ASSUME sleeping' = FOREVER, ~ far' PROVE FALSE
      OBVIOUS
    <3>1. INT_MAX \in Nat
      BY TimeAssumption DEF TimeAssumption
    <3>2. ms <= INT_MAX
      <4>1. ~ (w - clock > INT_MAX)
        BY <1>1, <1>6, <2>1
      <4> QED BY <2>1, <2>2, <3>1, <4>1, WalkFacts
    <3> QED BY <2>3, <2>4, <3>2 DEF FOREVER
  <2>8. NeverOversleeps'
    BY <1>1, <2>6, <2>7 DEF NeverOversleeps
  <2> QED BY <1>2, <1>3, <1>4, <2>5, <2>8 DEF TimeInv
<1> QED BY <1>5, <1>6

-----------------------------------------------------------------------------
(***************************************************************************)
(* Every step keeps the invariant: the walk                                *)
(***************************************************************************)
LEMMA StartTimeInv == TimeInv /\ StartWalk => TimeInv'
<1> SUFFICES ASSUME TimeInv, StartWalk PROVE TimeInv'
  OBVIOUS
<1> DEFINE skewed == clock \div SECOND < lastTime
           D == {t.n : t \in {t \in ToSet(timers) : skewed \/ clock >= t.when}}
           w == [i \in Place |-> timers[i].when % SECOND]
<1>1. /\ timers' = IF skewed THEN Forced ELSE timers
      /\ walk' = [on |-> TRUE, te |-> HeadTimer(timers), prev |-> -1, maxId |-> nextId - 1,
                  calling |-> FALSE, finalizing |-> FALSE, due |-> D, called |-> {}]
      /\ sleeping' = -1 /\ UNCHANGED <<nextId, clock, live, exposed>>
  BY DEF StartWalk, NoWalk, AWAKE
<1> HIDE DEF skewed, D
<1>2. SECOND \in Nat \ {0} /\ SECOND <= clock /\ Listed
  BY TimeAssumption DEF TimeAssumption, TimeInv, Clocked
<1>3. /\ Listed' /\ Place' = Place
      /\ \A i \in Place : timers'[i].n = timers[i].n
      /\ skewed => \A i \in Place : timers'[i].when <= clock
      /\ ~ skewed => timers' = timers
  <2>1. CASE skewed
    <3>1. w \in [Place -> Nat] /\ \A i \in Place : w[i] < SECOND
      BY <1>2, WalkFacts
    <3>2. timers' = [i \in DOMAIN timers |-> [timers[i] EXCEPT !.when = w[i]]]
      <4>1. DOMAIN timers = Place
        BY <1>2, LenProperties DEF Listed, Place
      <4> QED BY <1>1, <2>1, <4>1 DEF Forced
    <3> HIDE DEF w
    <3>3. /\ Listed' /\ Place' = Place
          /\ \A i \in Place : timers'[i].n = timers[i].n /\ timers'[i].when = w[i]
      BY <1>1, <1>2, <3>1, <3>2, TimedInPlace
    <3>4. \A i \in Place : w[i] <= clock
      BY <1>2, <3>1, WalkFacts
    <3> QED BY <2>1, <3>3, <3>4
  <2>2. CASE ~ skewed
    BY <1>1, <1>2, <2>2 DEF Listed, Place
  <2> QED BY <2>1, <2>2
<1>4. /\ HeadTimer(timers) \in Nat \cup {-1} /\ HeadTimer(timers) < nextId
      /\ HeadTimer(timers) # -1 => 1 \in Place /\ timers[1].n = HeadTimer(timers)
      /\ \A i \in Place : timers[i].n <= HeadTimer(timers)
  BY <1>2, HeadIsNewest
<1>5. \A k \in D : k \in Nat /\ k < nextId
                   /\ \E i \in Place : timers[i].n = k /\ (skewed \/ clock >= timers[i].when)
  BY <1>2, WalkFacts DEF D, Listed
<1>6. /\ walk' \in Walk /\ walk'.on /\ walk'.te = HeadTimer(timers) /\ walk'.prev = -1
      /\ walk'.maxId = nextId - 1 /\ ~ walk'.calling /\ walk'.due = D /\ walk'.called = {}
  <2>1. D \subseteq Nat /\ nextId - 1 \in Int
    BY <1>5, WalkFacts
  <2> QED BY <1>1, <1>4, <2>1 DEF Walk
<1> HIDE DEF w
<1>7. Standing'
  <2>1. nextId - 1 < nextId /\ HeadTimer(timers) <= nextId - 1
    BY <1>4, WalkFacts
  <2>2. \A i \in Place : ~ (timers'[i].n > HeadTimer(timers))
    BY <1>3, <1>4, WalkFacts
  <2> QED BY <1>1, <1>3, <1>4, <1>6, <2>1, <2>2 DEF Standing, AWAKE
<1>8. Turns'
  <2>1. \A k \in D : k <= nextId - 1
    BY <1>5, WalkFacts
  <2>2. ASSUME NEW k \in D
        PROVE  /\ k <= HeadTimer(timers) /\ \E i \in Place : timers'[i].n = k
               /\ \A i \in Place : timers'[i].n = k => timers'[i].when <= clock
    <3>1. PICK j \in Place : timers[j].n = k /\ (skewed \/ clock >= timers[j].when)
      BY <1>5
    <3>2. ASSUME NEW i \in Place, timers'[i].n = k PROVE timers'[i].when <= clock
      <4>1. i = j
        BY <1>2, <1>3, <3>1, <3>2, InPlace
      <4> QED BY <1>3, <3>1, <4>1, WalkFacts
    <3> QED BY <1>3, <1>4, <3>1, <3>2
  <2> QED BY <1>1, <1>3, <1>6, <2>1, <2>2 DEF Turns
<1>9. Clocked' /\ NeverOversleeps'
  BY <1>1 DEF TimeInv, Clocked, NeverOversleeps, FOREVER
<1> QED BY <1>3, <1>7, <1>8, <1>9 DEF TimeInv

\* Where the walk goes after the timer in place i.
LEMMA WhereNext ==
  ASSUME TimeInv, walk.te # -1
  PROVE  \E i \in Place :
            /\ timers[i].n = walk.te /\ Te = timers[i]
            /\ Next_(walk.te) \in Nat \cup {-1}
            /\ Next_(walk.te) < walk.te /\ Next_(walk.te) <= walk.maxId
            /\ Next_(walk.te) # -1 => \E j \in Place : timers[j].n = Next_(walk.te)
            /\ Follows(timers, walk.te, Next_(walk.te))
            /\ \A j \in Place : timers[j].n < walk.te => timers[j].n <= Next_(walk.te)
            /\ \A j \in Place : timers[j].n = walk.te => j = i
<1>1. Listed
  BY DEF TimeInv
<1>2. PICK i \in Place : timers[i].n = walk.te
  BY DEF TimeInv, Standing
<1>3. Te = timers[i] /\ \A j \in Place : timers[j].n = walk.te => j = i
  BY <1>1, <1>2, InPlace DEF Te
<1>4. Follows(timers, walk.te, Next_(walk.te))
  BY <1>1, <1>2, PlaceFollows
<1>5. /\ Next_(walk.te) \in Nat \cup {-1} /\ Next_(walk.te) < walk.te
      /\ Next_(walk.te) # -1 => \E j \in Place : timers[j].n = Next_(walk.te)
      /\ \A j \in Place : timers[j].n < walk.te => timers[j].n <= Next_(walk.te)
  BY <1>1, <1>4, NextPlace
<1>6. Next_(walk.te) <= walk.maxId
  BY <1>5, WalkFacts
<1> QED BY <1>2, <1>3, <1>4, <1>5, <1>6

\* Those called are behind the next timer too, and those to be called, apart from
\* the current one, in front of it or it.
LEMMA TurnsOn ==
  ASSUME TimeInv, walk.te # -1, NEW d, d = (walk.due \cap live) \ walk.called
  PROVE  /\ \A k \in walk.called : Next_(walk.te) < k /\ k <= walk.maxId
         /\ \A k \in d : k # walk.te => k <= Next_(walk.te)
<1>1. PICK i \in Place :
            /\ timers[i].n = walk.te
            /\ Next_(walk.te) \in Nat \cup {-1}
            /\ Next_(walk.te) < walk.te
            /\ \A j \in Place : timers[j].n < walk.te => timers[j].n <= Next_(walk.te)
  BY WhereNext
<1>2. \A k \in walk.called : k \in Nat /\ walk.te <= k /\ k <= walk.maxId
  BY WalkFacts DEF TimeInv, Turns
<1>3. ASSUME NEW k \in d, k # walk.te PROVE k <= Next_(walk.te)
  <2>1. k <= walk.te /\ k \in Nat
    BY WalkFacts DEF TimeInv, Turns
  <2>2. PICK j \in Place : timers[j].n = k
    BY DEF TimeInv, Turns
  <2> QED BY <1>1, <1>3, <2>1, <2>2, WalkFacts
<1> QED BY <1>1, <1>2, <1>3, WalkFacts

LEMMA NotNowTimeInv == TimeInv /\ NotNow => TimeInv'
<1> SUFFICES ASSUME TimeInv, NotNow PROVE TimeInv'
  OBVIOUS
<1> DEFINE nx == Next_(walk.te)
<1>1. /\ walk.on /\ ~ walk.calling /\ walk.te # -1 /\ clock < Te.when
      /\ walk' = [walk EXCEPT !.prev = walk.te, !.te = nx]
      /\ UNCHANGED <<timers, nextId, lastTime, clock, sleeping, live, exposed, far>>
  BY DEF NotNow, Walking
<1> HIDE DEF nx
<1>2. PICK i \in Place :
            /\ timers[i].n = walk.te /\ Te = timers[i]
            /\ nx \in Nat \cup {-1} /\ nx < walk.te /\ nx <= walk.maxId
            /\ nx # -1 => \E j \in Place : timers[j].n = nx
            /\ Follows(timers, walk.te, nx)
  BY <1>1, WhereNext DEF nx
<1>3. Listed' /\ Place' = Place
  BY <1>1 DEF TimeInv, Listed, Place
<1>4. /\ walk' \in Walk /\ walk'.on = walk.on /\ walk'.te = nx /\ walk'.prev = walk.te
      /\ walk'.maxId = walk.maxId /\ walk'.calling = walk.calling
      /\ walk'.finalizing = walk.finalizing /\ walk'.called = walk.called
      /\ walk'.due = walk.due
  BY <1>1, <1>2, WalkFacts DEF Walk
<1>5. Standing'
  BY <1>1, <1>2, <1>3, <1>4 DEF TimeInv, Standing
<1>6. Turns'
  <2> DEFINE d == (walk.due \cap live) \ walk.called
  <2>1. /\ \A k \in walk.called : nx < k /\ k <= walk.maxId
        /\ \A k \in d : k # walk.te => k <= nx
    <3> HIDE DEF d
    <3>1. d = (walk.due \cap live) \ walk.called
      BY DEF d
    <3> QED BY <1>1, <3>1, TurnsOn DEF nx
  <2>2. walk.te \notin d
    <3>1. walk.te \in d => Te.when <= clock
      BY <1>2 DEF TimeInv, Turns
    <3> QED BY <1>1, <1>2, <3>1, WalkFacts
  <2>3. \A k \in walk.called : k \in Nat /\ nx <= k /\ nx # k
    BY <1>2, <2>1, WalkFacts
  <2>4. \A k \in d : /\ k <= nx /\ \E j \in Place : timers[j].n = k
                     /\ \A j \in Place : timers[j].n = k => timers[j].when <= clock
    BY <2>1, <2>2 DEF TimeInv, Turns
  <2>5. \A k \in walk.due : k <= walk.maxId
    BY DEF TimeInv, Turns
  <2> QED BY <1>1, <1>3, <1>4, <2>1, <2>3, <2>4, <2>5 DEF Turns
<1>7. Clocked' /\ NeverOversleeps'
  BY <1>1 DEF TimeInv, Clocked, NeverOversleeps
<1> QED BY <1>3, <1>5, <1>6, <1>7 DEF TimeInv

LEMMA CallTimeInv == TimeInv /\ CallTimer => TimeInv'
<1> SUFFICES ASSUME TimeInv, CallTimer PROVE TimeInv'
  OBVIOUS
<1>1. /\ walk.on /\ ~ walk.calling /\ walk.te # -1
      /\ walk' = [walk EXCEPT !.calling = TRUE, !.called = @ \cup {walk.te}]
      /\ UNCHANGED <<timers, nextId, lastTime, clock, sleeping, live, exposed, far>>
  BY DEF CallTimer, Walking
<1>2. Listed' /\ Place' = Place
  BY <1>1 DEF TimeInv, Listed, Place
<1>3. /\ walk' \in Walk /\ walk'.on = walk.on /\ walk'.te = walk.te /\ walk'.prev = walk.prev
      /\ walk'.maxId = walk.maxId /\ walk'.calling /\ walk'.called = walk.called \cup {walk.te}
      /\ walk'.due = walk.due
  BY <1>1, WalkFacts DEF Walk
<1>4. Standing'
  BY <1>1, <1>2, <1>3 DEF TimeInv, Standing
<1>5. Turns'
  <2>1. walk.te \in Nat /\ walk.te <= walk.te /\ walk.te <= walk.maxId
    BY <1>1, WalkFacts
  <2> QED BY <1>1, <1>2, <1>3, <2>1 DEF TimeInv, Turns
<1>6. Clocked' /\ NeverOversleeps'
  BY <1>1 DEF TimeInv, Clocked, NeverOversleeps
<1> QED BY <1>2, <1>4, <1>5, <1>6 DEF TimeInv

\* A callback has returned: the timer stays in its place, with another time or
\* without its id.
LEMMA ReturnedTimeInv ==
  ASSUME TimeInv, walk.calling,
         Listed', Place' = Place,
         \A j, m : Follows(timers, j, m) => Follows(timers', j, m),
         \A i \in Place : /\ timers'[i].n = timers[i].n
                          /\ timers[i].n # walk.te => timers'[i].when = timers[i].when,
         live' \subseteq live,
         walk' = [walk EXCEPT !.calling = FALSE, !.prev = walk.te, !.te = Next_(walk.te)],
         UNCHANGED <<nextId, lastTime, clock, sleeping, exposed, far>>
  PROVE  TimeInv'
<1> DEFINE nx == Next_(walk.te)
<1>1. /\ walk.on /\ walk.te # -1 /\ walk.te \in walk.called /\ sleeping = -1
      /\ walk' = [walk EXCEPT !.calling = FALSE, !.prev = walk.te, !.te = nx]
  <2>1. walk.on
    <3>1. ~ walk.on => walk = NoWalk
      BY DEF TimeInv, Standing
    <3> QED BY <3>1, NoWalkFacts, WalkFacts
  <2> QED BY <2>1 DEF TimeInv, Standing, Turns, AWAKE
<1> HIDE DEF nx
<1>2. PICK i \in Place :
            /\ timers[i].n = walk.te
            /\ nx \in Nat \cup {-1} /\ nx < walk.te /\ nx <= walk.maxId
            /\ nx # -1 => \E j \in Place : timers[j].n = nx
            /\ Follows(timers, walk.te, nx)
  BY <1>1, WhereNext DEF nx
<1>3. /\ walk' \in Walk /\ walk'.on = walk.on /\ walk'.te = nx /\ walk'.prev = walk.te
      /\ walk'.maxId = walk.maxId /\ ~ walk'.calling /\ walk'.called = walk.called
      /\ walk'.due = walk.due
  BY <1>1, <1>2, WalkFacts DEF Walk
<1>4. Standing'
  BY <1>1, <1>2, <1>3 DEF TimeInv, Standing
<1>5. Turns'
  <2> DEFINE d == (walk.due \cap live) \ walk.called
  <2>1. /\ \A k \in walk.called : nx < k /\ k <= walk.maxId
        /\ \A k \in d : k # walk.te => k <= nx
    <3> HIDE DEF d
    <3>1. d = (walk.due \cap live) \ walk.called
      BY DEF d
    <3> QED BY <1>1, <3>1, TurnsOn DEF nx
  <2>2. \A k \in walk.called : k \in Nat /\ nx <= k /\ nx # k
    BY <1>2, <2>1, WalkFacts
  <2>3. \A k \in d : k # walk.te /\ k <= nx /\ (\E j \in Place : timers[j].n = k)
                     /\ \A j \in Place : timers[j].n = k => timers[j].when <= clock
    BY <1>1, <2>1 DEF TimeInv, Turns
  <2>4. \A k \in walk.due : k <= walk.maxId
    BY DEF TimeInv, Turns
  <2>5. \A k \in (walk.due \cap live') \ walk.called :
          /\ k <= nx /\ \E j \in Place : timers'[j].n = k
          /\ \A j \in Place : timers'[j].n = k => timers'[j].when <= clock
    BY <2>3
  <2> QED BY <1>3, <2>1, <2>2, <2>4, <2>5 DEF Turns
<1>6. Clocked' /\ NeverOversleeps'
  BY <1>1 DEF TimeInv, Clocked, NeverOversleeps, FOREVER
<1> QED BY <1>4, <1>5, <1>6 DEF TimeInv

LEMMA RepeatTimeInv ==
  ASSUME TimeInv, NEW ms \in Delays, Repeat(ms)
  PROVE  TimeInv'
<1> DEFINE w == [i \in Place |-> IF timers[i].n = walk.te THEN clock + ms ELSE timers[i].when]
<1>1. w \in [Place -> Nat]
  BY WalkFacts, TimeAssumption DEF TimeAssumption
<1>2. timers' = [i \in DOMAIN timers |-> [timers[i] EXCEPT !.when = w[i]]]
  <2>1. DOMAIN timers = Place /\ Listed
    BY LenProperties DEF TimeInv, Listed, Place
  <2>2. ASSUME NEW i \in Place
        PROVE  (IF timers[i].n = walk.te THEN [timers[i] EXCEPT !.when = clock + ms] ELSE timers[i])
               = [timers[i] EXCEPT !.when = w[i]]
    <3>1. CASE timers[i].n = walk.te
      BY <3>1
    <3>2. CASE timers[i].n # walk.te
      <4>1. PICK e \in Entry : e = timers[i]
        BY WalkFacts
      <4>2. e = [e EXCEPT !.when = e.when]
        BY DEF Entry
      <4>3. w[i] = timers[i].when
        BY <3>2
      <4> QED BY <3>2, <4>1, <4>2, <4>3
    <3> QED BY <3>1, <3>2
  <2>3. timers' = [i \in Place |-> IF timers[i].n = walk.te
                                   THEN [timers[i] EXCEPT !.when = clock + ms] ELSE timers[i]]
    BY <2>1 DEF Repeat
  <2> HIDE DEF w
  <2> QED BY <2>1, <2>2, <2>3
<1>3. \A i \in Place : timers[i].n # walk.te => w[i] = timers[i].when
  OBVIOUS
<1> HIDE DEF w
<1>4. /\ walk.calling /\ UNCHANGED <<nextId, lastTime, clock, sleeping, live, exposed, far>>
      /\ walk' = [walk EXCEPT !.calling = FALSE, !.prev = walk.te, !.te = Next_(walk.te)]
  BY DEF Repeat
<1>5. /\ Listed' /\ Place' = Place
      /\ \A j, m : Follows(timers, j, m) => Follows(timers', j, m)
      /\ \A i \in Place : timers'[i].n = timers[i].n /\ timers'[i].when = w[i]
  BY <1>1, <1>2, <1>4, TimedInPlace DEF TimeInv
<1> QED BY <1>3, <1>4, <1>5, ReturnedTimeInv

LEMMA NoMoreTimeInv == TimeInv /\ NoMore => TimeInv'
<1> SUFFICES ASSUME TimeInv, NoMore PROVE TimeInv'
  OBVIOUS
<1>1. /\ walk.calling /\ UNCHANGED <<nextId, lastTime, clock, sleeping, exposed, far>>
      /\ walk' = [walk EXCEPT !.calling = FALSE, !.prev = walk.te, !.te = Next_(walk.te)]
      /\ timers' = WithId(walk.te, AE_DELETED_EVENT_ID) /\ live' = live \ {walk.te}
  BY DEF NoMore
<1>2. walk.te \in Nat
  BY <1>1, WalkFacts DEF TimeInv, Standing
<1>3. /\ Listed' /\ Place' = Place
      /\ \A j, m : Follows(timers, j, m) => Follows(timers', j, m)
      /\ \A i \in Place : timers'[i].n = timers[i].n /\ timers'[i].when = timers[i].when
  BY <1>1, <1>2, DeletedInPlace DEF TimeInv
<1> QED BY <1>1, <1>3, ReturnedTimeInv

LEMMA EndTimeInv == TimeInv /\ EndWalk => TimeInv'
<1> SUFFICES ASSUME TimeInv, EndWalk PROVE TimeInv'
  OBVIOUS
<1>1. walk' = NoWalk /\ UNCHANGED <<timers, nextId, lastTime, clock, sleeping, live, exposed, far>>
  BY DEF EndWalk
<1>2. Listed' /\ Place' = Place
  BY <1>1 DEF TimeInv, Listed, Place
<1>3. Standing'
  BY <1>1, <1>2, NoWalkFacts, WalkFacts DEF Standing
<1>4. Turns'
  BY <1>1, <1>2, NoWalkFacts DEF Turns
<1>5. Clocked' /\ NeverOversleeps'
  BY <1>1 DEF TimeInv, Clocked, NeverOversleeps
<1> QED BY <1>2, <1>3, <1>4, <1>5 DEF TimeInv

\* What RemoveDeleted leaves is the list without the timer in place i, and without
\* those in front of it if the walk has passed none.
LEMMA UnlinkedIs ==
  ASSUME TimeInv, Walking, NEW i \in Place, timers[i].n = walk.te,
         NEW u, u = Unlinked(walk.te)
  PROVE  \E c \in 0..(i - 1) :
            /\ u \in Seq(Entry) /\ Len(u) = Len(timers) - (i - c)
            /\ \A j \in 1..(Len(timers) - (i - c)) :
                  u[j] = timers[IF j <= c THEN j ELSE j + (i - c)]
            /\ walk.prev = -1 => c = 0
            /\ walk.prev # -1 => c = i - 1 /\ c # 0 /\ timers[c].n = walk.prev
<1> DEFINE l == Len(timers)
           b == SubSeq(timers, i + 1, l)
           p == CHOOSE p \in DOMAIN timers : timers[p].n = walk.prev
           a == SubSeq(timers, 1, p)
<1>1. /\ Listed /\ timers \in Seq(Entry) /\ l \in Nat /\ Place = 1..l /\ i \in 1..l
      /\ DOMAIN timers = Place
  BY LenProperties DEF TimeInv, Listed, Place
<1>2. u = IF walk.prev = -1 THEN b ELSE a \o b
  <2> DEFINE q == CHOOSE j \in DOMAIN timers : timers[j].n = walk.te
  <2>1. q = i
    BY <1>1, InPlace
  <2>2. u = IF walk.prev = -1 THEN SubSeq(timers, q + 1, Len(timers))
            ELSE a \o SubSeq(timers, q + 1, Len(timers))
    BY DEF Unlinked
  <2> HIDE DEF q, a
  <2> QED BY <2>1, <2>2
<1> HIDE DEF l
<1>3. b \in Seq(Entry) /\ Len(b) = l - i /\ \A j \in 1..(l - i) : b[j] = timers[i + j]
  BY <1>1, SubSeqProperties DEF l
<1> HIDE DEF b
<1>4. CASE walk.prev = -1
  <2>1. u = b /\ Len(u) = l - i /\ u \in Seq(Entry)
    BY <1>2, <1>3, <1>4
  <2>2. \A j \in 1..(l - i) : ~ (j <= 0) /\ u[j] = timers[j + i]
    BY <1>1, <1>3, <2>1
  <2>3. 0 \in 0..(i - 1) /\ i - 0 = i
    BY <1>1
  <2> QED BY <1>4, <2>1, <2>2, <2>3 DEF l
<1>5. CASE walk.prev # -1
  <2>1. PICK q \in Place : timers[q].n = walk.prev
                           /\ walk.te = IF q = l THEN -1 ELSE timers[q + 1].n
    BY <1>5 DEF TimeInv, Standing, Follows, Place, l
  <2>2. q # l /\ timers[q + 1].n = walk.te /\ q \in 1..l
    BY <1>1, <2>1 DEF Walking
  <2>3. q + 1 \in Place
    BY <1>1, <2>2
  <2>4. i = q + 1
    BY <1>1, <2>2, <2>3, InPlace
  <2>5. p = q
    BY <1>1, <2>1, InPlace
  <2>6. a \in Seq(Entry) /\ Len(a) = q /\ \A j \in 1..q : a[j] = timers[j]
    <3> HIDE DEF p
    <3>1. a = SubSeq(timers, 1, q)
      BY <2>5
    <3> HIDE DEF a
    <3>2. q \in Nat /\ \A j \in 1..q : timers[j] \in Entry
      BY <1>1, <2>2, WalkFacts
    <3>3. \A j \in 1..q : 1 + j - 1 = j
      BY <3>2
    <3>4. /\ SubSeq(timers, 1, q) \in Seq(Entry) /\ Len(SubSeq(timers, 1, q)) = q
          /\ \A j \in 1..q : SubSeq(timers, 1, q)[j] = timers[j]
      BY <1>1, <3>2, SubSeqProperties
    <3> QED BY <3>1, <3>4
  <2> HIDE DEF a, p
  <2>7. /\ a \o b \in Seq(Entry) /\ Len(a \o b) = Len(a) + Len(b)
        /\ \A j \in 1..(Len(a) + Len(b)) :
              (a \o b)[j] = IF j <= Len(a) THEN a[j] ELSE b[j - Len(a)]
    BY ONLY <1>3, <2>6, ConcatProperties
  <2>8. Len(a) + Len(b) = l - 1 /\ Len(a) = q /\ u = a \o b
    <3>1. u = a \o b
      BY <1>2, <1>5
    <3>2. q \in Int /\ l \in Int /\ q + (l - (q + 1)) = l - 1
      BY <1>1, <2>2
    <3> QED BY <1>3, <2>4, <2>6, <3>1, <3>2
  <2>9. ASSUME NEW j \in 1..(l - 1) PROVE u[j] = timers[IF j <= q THEN j ELSE j + 1]
    <3>1. CASE j <= q
      <4>1. j \in 1..q
        BY <1>1, <2>2, <3>1
      <4> QED BY <2>6, <2>7, <2>8, <3>1, <4>1
    <3>2. CASE ~ (j <= q)
      <4>1. j - q \in 1..(l - i) /\ i + (j - q) = j + 1
        BY <1>1, <2>2, <2>4, <3>2
      <4> QED BY <1>3, <2>7, <2>8, <3>2, <4>1
    <3> QED BY <3>1, <3>2
  <2>10. q \in 0..(i - 1) /\ q = i - 1 /\ q # 0 /\ i - q = 1
    BY <1>1, <2>2, <2>4
  <2> HIDE DEF l
  <2>11. /\ u \in Seq(Entry) /\ Len(u) = l - (i - q)
         /\ \A j \in 1..(l - (i - q)) : u[j] = timers[IF j <= q THEN j ELSE j + (i - q)]
    BY <2>7, <2>8, <2>9, <2>10
  <2> QED BY <1>5, <2>1, <2>10, <2>11 DEF l
<1> QED BY <1>4, <1>5

LEMMA RemoveTimeInv == TimeInv /\ RemoveDeleted => TimeInv'
<1> SUFFICES ASSUME TimeInv, RemoveDeleted PROVE TimeInv'
  OBVIOUS
<1> DEFINE nx == Next_(walk.te)
<1>1. /\ Walking /\ walk.on /\ ~ walk.calling /\ walk.te # -1 /\ Te.id = AE_DELETED_EVENT_ID
      /\ timers' = Unlinked(walk.te) /\ walk' = [walk EXCEPT !.te = nx, !.finalizing = TRUE]
      /\ UNCHANGED <<nextId, lastTime, clock, sleeping, live, exposed, far>>
  BY DEF RemoveDeleted, Walking
<1> HIDE DEF nx
<1>2. PICK i \in Place :
            /\ timers[i].n = walk.te /\ Te = timers[i]
            /\ nx \in Nat \cup {-1} /\ nx < walk.te /\ nx <= walk.maxId
            /\ nx # -1 => \E j \in Place : timers[j].n = nx
            /\ \A j \in Place : timers[j].n = walk.te => j = i
  BY <1>1, WhereNext DEF nx
<1>3. PICK c \in 0..(i - 1) :
            /\ timers' \in Seq(Entry) /\ Len(timers') = Len(timers) - (i - c)
            /\ \A j \in 1..(Len(timers) - (i - c)) :
                  timers'[j] = timers[IF j <= c THEN j ELSE j + (i - c)]
            /\ walk.prev = -1 => c = 0
            /\ walk.prev # -1 => c = i - 1 /\ c # 0 /\ timers[c].n = walk.prev
  BY <1>1, <1>2, UnlinkedIs
<1>10. Len(timers) \in Nat /\ Place = 1..Len(timers) /\ i \in 1..Len(timers)
  BY LenProperties DEF TimeInv, Listed, Place
<1>11. ASSUME NEW j \in Place, j < i PROVE timers[j].n > timers[i].n
  BY <1>11, WalkFacts DEF TimeInv, Listed
<1>12. \A j \in Place : c < j /\ j < i => timers[j].n \in exposed
  <2>1. CASE walk.prev = -1
    BY <1>1, <1>2, <1>11, <2>1 DEF TimeInv, Standing
  <2>2. CASE walk.prev # -1
    BY <1>3, <1>10, <2>2
  <2> QED BY <2>1, <2>2
<1>4. /\ Listed'
      /\ \A k \in Place : k <= c \/ i < k => \E j \in Place' : timers'[j] = timers[k]
      /\ \A j \in Place' : \E k \in Place : timers'[j] = timers[k]
      /\ c # 0 => Follows(timers', timers[c].n, nx)
      /\ c = 0 => \A j \in Place' : timers'[j].n <= nx
  <2>1. Listed /\ timers[i].id = AE_DELETED_EVENT_ID /\ UNCHANGED <<live, nextId, exposed>>
    BY <1>1, <1>2 DEF TimeInv
  <2> QED BY <1>2, <1>3, <1>12, <2>1, TakenOut DEF nx
<1>13. ASSUME NEW k \in Place, timers[k].n < walk.te PROVE \E j \in Place' : timers'[j] = timers[k]
  <2>1. ~ (k < i) /\ k # i
    BY <1>2, <1>11, <1>13, WalkFacts
  <2>2. i < k
    BY <1>10, <2>1
  <2> QED BY <1>4, <2>2
<1>5. /\ walk' \in Walk /\ walk'.on = walk.on /\ walk'.te = nx /\ walk'.prev = walk.prev
      /\ walk'.maxId = walk.maxId /\ walk'.calling = walk.calling
      /\ walk'.finalizing /\ walk'.called = walk.called
      /\ walk'.due = walk.due
  BY <1>1, <1>2, WalkFacts DEF Walk
<1>6. nx # -1 => \E j \in Place' : timers'[j].n = nx
  <2> SUFFICES ASSUME nx # -1 PROVE \E j \in Place' : timers'[j].n = nx
    OBVIOUS
  <2>1. PICK k \in Place : timers[k].n = nx
    BY <1>2
  <2> QED BY <1>2, <1>13, <2>1
<1>7. Standing'
  <2>1. walk.prev # -1 => Follows(timers', walk.prev, nx)
    BY <1>3, <1>4
  <2>2. ASSUME walk.prev = -1, NEW j \in Place' PROVE ~ (timers'[j].n > nx)
    <3>1. timers'[j].n <= nx
      BY <1>3, <1>4, <2>2
    <3>2. timers'[j].n \in Nat
      BY <1>4, WalkFacts
    <3> QED BY <1>2, <3>1, <3>2
  <2> QED BY <1>1, <1>2, <1>5, <1>6, <2>1, <2>2 DEF TimeInv, Standing
<1>8. Turns'
  <2> DEFINE d == (walk.due \cap live) \ walk.called
  <2>1. /\ \A k \in walk.called : nx < k /\ k <= walk.maxId
        /\ \A k \in d : k # walk.te => k <= nx
    <3> HIDE DEF d
    <3>1. d = (walk.due \cap live) \ walk.called
      BY DEF d
    <3> QED BY <1>1, <3>1, TurnsOn DEF nx
  <2>2. walk.te \notin live
    <3>1. AE_DELETED_EVENT_ID \notin Nat
      BY DEF AE_DELETED_EVENT_ID
    <3> QED BY <1>1, <1>2, <3>1, WalkFacts DEF TimeInv, Listed
  <2>3. \A k \in walk.called : k \in Nat /\ nx <= k /\ nx # k
    BY <1>2, <2>1, WalkFacts
  <2>4. ASSUME NEW k \in d
        PROVE  /\ k <= nx /\ \E j \in Place' : timers'[j].n = k
               /\ \A j \in Place' : timers'[j].n = k => timers'[j].when <= clock
    <3>1. /\ k <= nx /\ k <= walk.te /\ k # walk.te
          /\ \A j \in Place : timers[j].n = k => timers[j].when <= clock
      BY <2>1, <2>2 DEF TimeInv, Turns
    <3>2. PICK m \in Place : timers[m].n = k
      BY DEF TimeInv, Turns
    <3>3. timers[m].n < walk.te
      BY <3>1, <3>2, WalkFacts
    <3> QED BY <1>4, <1>13, <3>1, <3>2, <3>3
  <2>5. \A k \in walk.due : k <= walk.maxId
    BY DEF TimeInv, Turns
  <2> QED BY <1>1, <1>5, <2>1, <2>3, <2>4, <2>5 DEF Turns
<1>9. Clocked' /\ NeverOversleeps'
  <2>1. sleeping = -1
    BY <1>1 DEF TimeInv, Standing, AWAKE
  <2> QED BY <1>1, <2>1 DEF TimeInv, Clocked, NeverOversleeps, FOREVER
<1> QED BY <1>4, <1>7, <1>8, <1>9 DEF TimeInv

LEMMA FinalizerTimeInv == TimeInv /\ FinalizerReturns => TimeInv'
<1> SUFFICES ASSUME TimeInv, FinalizerReturns PROVE TimeInv'
  OBVIOUS
<1>1. /\ walk.finalizing /\ walk' = [walk EXCEPT !.finalizing = FALSE]
      /\ UNCHANGED <<timers, nextId, lastTime, clock, sleeping, live, exposed, far>>
  BY DEF FinalizerReturns
<1>2. Listed' /\ Place' = Place
  BY <1>1 DEF TimeInv, Listed, Place
<1>3. /\ walk' \in Walk /\ walk'.on = walk.on /\ walk'.te = walk.te /\ walk'.prev = walk.prev
      /\ walk'.maxId = walk.maxId /\ walk'.calling = walk.calling
      /\ ~ walk'.finalizing /\ walk'.called = walk.called /\ walk'.due = walk.due
  BY <1>1, WalkFacts DEF Walk
<1>4. walk.on
  BY <1>1, NoWalkFacts, WalkFacts DEF TimeInv, Standing
<1>5. Standing'
  BY <1>1, <1>2, <1>3, <1>4 DEF TimeInv, Standing
<1>6. Turns'
  BY <1>1, <1>2, <1>3 DEF TimeInv, Turns
<1>7. Clocked' /\ NeverOversleeps'
  BY <1>1 DEF TimeInv, Clocked, NeverOversleeps
<1> QED BY <1>2, <1>5, <1>6, <1>7 DEF TimeInv

LEMMA NextTimeInv == TimeInv /\ [TimeNext]_timeVars => TimeInv'
<1> SUFFICES ASSUME TimeInv, [TimeNext]_timeVars PROVE TimeInv'
  OBVIOUS
<1>1. ASSUME NEW ms \in Delays, aeCreateTimeEvent(ms) PROVE TimeInv'
  BY <1>1, CreateTimeInv
<1>2. ASSUME NEW ms \in Delays, Repeat(ms) PROVE TimeInv'
  BY <1>2, RepeatTimeInv
<1>3. ASSUME NEW id \in 0..(nextId - 1), aeDeleteTimeEvent(id) PROVE TimeInv'
  BY <1>3, DeleteTimeInv
<1>4. Tick \/ SetBack \/ Sleep => TimeInv'
  BY TickTimeInv, SetBackTimeInv, SleepTimeInv
<1>5. StartWalk \/ RemoveDeleted \/ FinalizerReturns \/ NotNow \/ CallTimer \/ NoMore \/ EndWalk
         => TimeInv'
  BY StartTimeInv, RemoveTimeInv, FinalizerTimeInv, NotNowTimeInv, CallTimeInv, NoMoreTimeInv,
     EndTimeInv
<1>6. CASE UNCHANGED timeVars
  <2>1. UNCHANGED <<timers, nextId, lastTime, clock, sleeping, walk, live, exposed, far>>
    BY <1>6 DEF timeVars
  <2>2. Listed' /\ Place' = Place
    BY <2>1 DEF TimeInv, Listed, Place
  <2>3. Standing' /\ Turns'
    BY <2>1, <2>2 DEF TimeInv, Standing, Turns
  <2>4. Clocked' /\ NeverOversleeps'
    BY <2>1 DEF TimeInv, Clocked, NeverOversleeps
  <2> QED BY <2>2, <2>3, <2>4 DEF TimeInv
<1> QED BY <1>1, <1>2, <1>3, <1>4, <1>5, <1>6 DEF TimeNext

LEMMA AlwaysTimeInv == TimeSpec => []TimeInv
BY InitTimeInv, NextTimeInv, PTL DEF TimeSpec

-----------------------------------------------------------------------------
(***************************************************************************)
(* Theorems                                                                *)
(***************************************************************************)
\* No timer is lost but those that a finalizer creates in front of a walk that has
\* passed none yet, no two entries of the list are the same timer, and the walk
\* points to entries that have not been freed, whatever callbacks and finalizers
\* create and delete between two of its steps (aeCreateTimeEvent,
\* aeDeleteTimeEvent, processTimeEvents).
THEOREM TimersKept == TimeSpec => []NoTimerLost
<1>1. TimeInv => NoTimerLost
  <2> SUFFICES ASSUME TimeInv PROVE NoTimerLost
    OBVIOUS
  <2>1. Listed /\ DOMAIN timers = Place /\ ToSet(timers) = {timers[i] : i \in Place}
    BY WalkFacts, LenProperties DEF TimeInv, Listed, Place
  <2>2. \A t \in ToSet(timers) : t.n \in Nat /\ t.id \in {t.n, AE_DELETED_EVENT_ID}
    BY <2>1, WalkFacts DEF Listed
  <2>3. ListedIds \subseteq live /\ live \ exposed \subseteq ListedIds
    <3>1. AE_DELETED_EVENT_ID \notin Nat
      BY DEF AE_DELETED_EVENT_ID
    <3>2. ASSUME NEW k \in live \ exposed PROVE k \in ListedIds
      <4>1. PICK i \in Place : timers[i].n = k
        BY <2>1 DEF Listed
      <4>2. timers[i].id = k /\ timers[i] \in ToSet(timers) /\ k \in Nat
        BY <2>1, <4>1, WalkFacts DEF Listed
      <4> QED BY <3>1, <4>2 DEF ListedIds
    <3>3. ASSUME NEW t \in ToSet(timers), t.id # AE_DELETED_EVENT_ID PROVE t.id \in live
      BY <2>1, <2>2, <3>3 DEF Listed
    <3> QED BY <3>2, <3>3 DEF ListedIds
  <2>4. IsInjective(timers)
    BY <2>1, InPlace DEF IsInjective
  <2>5. Nodes = {timers[i].n : i \in Place}
    BY <2>1 DEF Nodes
  <2>6. walk.te = -1 \/ walk.te \in Nodes
    BY <2>5 DEF TimeInv, Standing
  <2>7. walk.prev = -1 \/ walk.prev \in Nodes
    BY <2>5 DEF TimeInv, Standing, Follows, Place
  <2> QED BY <2>2, <2>3, <2>4, <2>6, <2>7 DEF NoTimerLost
<1> QED BY <1>1, AlwaysTimeInv, PTL

\* The loop never sleeps beyond the first timer, unless that is more than INT_MAX
\* ticks away, and a walk calls every timer that
\* was due when it began and is not deleted before its turn, once, and none that was
\* created meanwhile (aeSearchNearestTimer, processTimeEvents).
THEOREM DueTimersCalled == TimeSpec => []DueIsCalled
<1>1. TimeInv => DueIsCalled
  <2> SUFFICES ASSUME TimeInv PROVE DueIsCalled
    OBVIOUS
  <2>1. (walk.on /\ walk.te = -1) => walk.due \cap live \subseteq walk.called
    <3> SUFFICES ASSUME walk.te = -1, NEW k \in (walk.due \cap live) \ walk.called PROVE FALSE
      OBVIOUS
    <3>1. k <= -1 /\ k \in Nat
      BY WalkFacts DEF TimeInv, Turns
    <3> QED BY <3>1
  <2>2. walk.called \subseteq 0..walk.maxId
    <3>1. \A k \in walk.called : k \in Nat /\ k <= walk.maxId
      BY WalkFacts DEF TimeInv, Turns
    <3> QED BY <3>1, WalkFacts
  <2>3. Walking => walk.te \notin walk.called
    BY DEF TimeInv, Turns, Walking
  <2>4. NeverOversleeps
    BY DEF TimeInv
  <2> QED BY <2>1, <2>2, <2>3, <2>4 DEF DueIsCalled
<1> QED BY <1>1, AlwaysTimeInv, PTL

-----------------------------------------------------------------------------
Opening == TcpFn \cup UnixFn
Steps == {"reuse", "nonblock", "source", "connect", "v6only", "bind", "listen"}

Stage == Steps \cup {"none", "resolve", "socket", "error", "done", "transfer"}

Request == [fn : {"none"} \cup Opening \cup TransferFn, nonblock : BOOLEAN, source : BOOLEAN,
            best : BOOLEAN, v6 : BOOLEAN, at : Stage, s : Descriptor \cup {ERR},
            left : Int, count : Int, total : Int]

\* step is one that the function makes.
IsStep(r, step) == \E i \in 1..Len(Program(r)) : step = Program(r)[i]

\* With a socket the function is at one of its steps or done, without one it is not.
Placed(r) ==
    /\ r.fn = "none" => r = Nothing
    /\ r.fn \in TransferFn => r.at = "transfer"
    /\ r.fn \in Opening /\ r.s = ERR => r.at \in {"resolve", "socket", "error"}
    /\ r.fn \in Opening /\ r.s # ERR => r.at = "done" \/ IsStep(r, r.at)

AnetInv == request \in Request /\ Placed(request) /\ SocketsAccounted /\ opened \subseteq Descriptor

-----------------------------------------------------------------------------
LEMMA Joined ==
  ASSUME NEW a \in Seq(Steps), NEW b \in Seq(Steps), NEW c, c = a \o b,
         Len(a) # 0 \/ Len(b) # 0
  PROVE  c \in Seq(Steps) /\ Len(c) # 0
<1>1. Len(a) \in Nat /\ Len(b) \in Nat
  OBVIOUS
<1>2. c \in Seq(Steps) /\ Len(c) = Len(a) + Len(b)
  BY ConcatProperties
<1> QED BY <1>1, <1>2

\* What each function does with a socket is a nonempty list of steps.
LEMMA ProgramSteps ==
  ASSUME NEW r, r.fn \in Opening
  PROVE  Program(r) \in Seq(Steps) /\ Len(Program(r)) # 0
<1> DEFINE Chosen(c, step) == IF c THEN <<step>> ELSE << >>
           a == <<"reuse">>
           n == Chosen(r.nonblock, "nonblock")
           o == Chosen(r.source, "source")
           c == <<"connect">>
           v == Chosen(r.v6, "v6only")
           b == <<"reuse", "bind", "listen">>
           an == a \o n
           ano == an \o o
           anoc == ano \o c
           anc == an \o c
           vb == v \o b
<1>1. /\ a \in Seq(Steps) /\ Len(a) # 0 /\ n \in Seq(Steps) /\ o \in Seq(Steps)
      /\ c \in Seq(Steps) /\ v \in Seq(Steps) /\ b \in Seq(Steps) /\ Len(b) # 0
  <2>1. \A step \in Steps : <<step>> \in Seq(Steps) /\ Len(<<step>>) # 0
    OBVIOUS
  <2>2. << >> \in Seq(Steps)
    OBVIOUS
  <2>3. {"reuse", "nonblock", "source", "connect", "v6only"} \subseteq Steps
    BY DEF Steps
  <2>4. b \in Seq(Steps)
    BY DEF Steps
  <2>5. Len(b) # 0
    OBVIOUS
  <2> HIDE DEF b
  <2> QED BY <2>1, <2>2, <2>3, <2>4, <2>5
<1>2. /\ r.fn = "anetTcpGenericConnect" => Program(r) = anoc
      /\ r.fn = "anetUnixGenericConnect" => Program(r) = anc
      /\ r.fn = "_anetTcpServer" => Program(r) = vb
      /\ r.fn = "anetUnixServer" => Program(r) = b
  BY DEF Program
<1> HIDE DEF a, n, o, c, v, b
<1>3. an \in Seq(Steps) /\ Len(an) # 0
  BY <1>1, Joined
<1> HIDE DEF an
<1>4. ano \in Seq(Steps) /\ Len(ano) # 0 /\ anc \in Seq(Steps) /\ Len(anc) # 0
  BY <1>1, <1>3, Joined
<1> HIDE DEF ano, anc
<1>5. anoc \in Seq(Steps) /\ Len(anoc) # 0 /\ vb \in Seq(Steps) /\ Len(vb) # 0
  BY <1>1, <1>4, Joined
<1> HIDE DEF anoc, vb
<1> QED BY <1>1, <1>2, <1>4, <1>5 DEF Opening, TcpFn, UnixFn

\* A step is none of the places without a socket, and leads to another step or the end.
LEMMA StepLeads ==
  ASSUME NEW r, r.fn \in Opening
  PROVE  /\ IsStep(r, Head(Program(r)))
         /\ \A step : IsStep(r, step) =>
               /\ step \in Steps
               /\ StepAfter(r, step) = "done" \/ IsStep(r, StepAfter(r, step))
<1> DEFINE p == Program(r)
<1>1. p \in Seq(Steps) /\ Len(p) \in Nat \ {0} /\ DOMAIN p = 1..Len(p)
  BY ProgramSteps
<1>2. IsStep(r, Head(p))
  <2>1. Head(p) = p[1] /\ 1 \in 1..Len(p)
    <3> HIDE DEF p
    <3> QED BY <1>1
  <2> QED BY <2>1 DEF IsStep
<1>3. ASSUME NEW step, IsStep(r, step)
      PROVE  /\ step \in Steps
             /\ StepAfter(r, step) = "done" \/ IsStep(r, StepAfter(r, step))
  <2> DEFINE i == CHOOSE i \in DOMAIN p : p[i] = step
  <2>1. i \in 1..Len(p) /\ p[i] = step
    BY <1>1, <1>3 DEF IsStep
  <2>2. StepAfter(r, step) = IF i = Len(p) THEN "done" ELSE p[i + 1]
    BY DEF StepAfter
  <2>3. i # Len(p) => i + 1 \in 1..Len(p)
    <3> DEFINE l == Len(p)
    <3>1. l \in Nat /\ i \in 1..l
      BY <1>1, <2>1
    <3> HIDE DEF i, l
    <3>2. i # l => i + 1 \in 1..l
      BY <3>1
    <3> QED BY <3>2 DEF l
  <2>4. p[i] \in Steps
    <3> HIDE DEF i, p
    <3> QED BY <1>1, <2>1
  <2> QED BY <2>1, <2>2, <2>3, <2>4 DEF IsStep
<1> QED BY <1>2, <1>3

\* The steps depend on the arguments alone.
LEMMA SameProgram ==
  ASSUME NEW r, NEW q, q.fn = r.fn, q.nonblock = r.nonblock, q.source = r.source, q.v6 = r.v6
  PROVE  \A step : IsStep(q, step) <=> IsStep(r, step)
BY DEF IsStep, Program

LEMMA NothingIs ==
  /\ Nothing \in Request /\ Nothing.fn = "none" /\ Nothing.s = ERR /\ Nothing.at = "none"
  /\ Placed(Nothing) /\ Nothing.fn \notin Opening \cup TransferFn
<1>1. /\ Nothing.fn = "none" /\ Nothing.s = ERR /\ Nothing.at = "none"
      /\ Nothing.fn \notin Opening \cup TransferFn
  BY DEF Nothing, Opening, TcpFn, UnixFn, TransferFn
<1>2. Nothing \in Request
  <2>1. "none" \in Stage /\ ERR \in Descriptor \cup {ERR} /\ 0 \in Int
    BY DEF Stage
  <2> QED BY <2>1 DEF Nothing, Request
<1>3. Placed(Nothing)
  BY <1>1 DEF Placed
<1> QED BY <1>1, <1>2, <1>3

\* What a place says of the request.
LEMMA PlaceSays ==
  ASSUME AnetInv
  PROVE  /\ request \in Request /\ request.s \in Descriptor \cup {ERR}
         /\ request.at \in {"resolve", "socket", "error"} =>
               request.fn \in Opening /\ request.s = ERR
         /\ request.at = "done" \/ (request.s # ERR /\ request.at \in Steps)
               => request.fn \in Opening /\ request.s # ERR
         /\ request.s # ERR /\ request.fn \in Opening /\ request.at # "done"
               => IsStep(request, request.at)
         /\ request.at = "transfer" <=> request.fn \in TransferFn
         /\ request.fn \in Opening => request.at # "none"
<1>1. /\ request \in Request /\ Placed(request)
      /\ request.fn = "none" \/ request.fn \in Opening \/ request.fn \in TransferFn
  BY DEF AnetInv, Request
<1>2. CASE request.fn = "none"
  BY <1>1, <1>2, NothingIs DEF Placed, Steps
<1>3. CASE request.fn \in TransferFn
  BY <1>1, <1>3 DEF Placed, TransferFn, Opening, TcpFn, UnixFn, Steps, Request
<1>4. CASE request.fn \in Opening
  <2>1. IsStep(request, request.at) => request.at \in Steps
    BY <1>4, StepLeads
  <2>2. request.fn \notin TransferFn /\ request.s \in Descriptor \cup {ERR}
    BY <1>1, <1>4 DEF TransferFn, Opening, TcpFn, UnixFn, Request
  <2> QED BY <1>1, <1>4, <2>1, <2>2 DEF Placed, Steps
<1> QED BY <1>1, <1>2, <1>3, <1>4

-----------------------------------------------------------------------------
(***************************************************************************)
(* Every step keeps the invariant                                          *)
(***************************************************************************)
Working(r) == IF r.fn \in Opening /\ r.s # ERR THEN {r.s} ELSE {}

LEMMA Accounts ==
  SocketsAccounted <=>
    /\ opened = (held \cup leaked) \cup Working(request)
    /\ held \cap leaked = {} /\ Working(request) \cap (held \cup leaked) = {}
    /\ request.fn \in TransferFn => request.s \in held
BY DEF SocketsAccounted, Working, Opening, Fn

LEMMA AccountsNext ==
  SocketsAccounted' <=>
    /\ opened' = (held' \cup leaked') \cup Working(request')
    /\ held' \cap leaked' = {} /\ Working(request') \cap (held' \cup leaked') = {}
    /\ request'.fn \in TransferFn => request'.s \in held'
BY DEF SocketsAccounted, Working, Opening, Fn

\* The function returns; its socket has been given to the caller, closed or left.
LEMMA ReturnsInv ==
  ASSUME AnetInv, request' = Nothing,
         opened' = held' \cup leaked', held' \cap leaked' = {}, opened' \subseteq Descriptor
  PROVE  AnetInv'
<1>1. Working(request') = {} /\ request'.fn \notin TransferFn
  BY NothingIs DEF Working
<1>2. SocketsAccounted'
  BY <1>1, AccountsNext
<1> QED BY <1>2, NothingIs DEF AnetInv

\* The function that runs goes on, with the same arguments but for the source.
LEMMA GoesOnInv ==
  ASSUME AnetInv, NEW q \in Request, request' = q,
         request.fn \in Opening, q.fn = request.fn,
         q.s = ERR => q.at \in {"resolve", "socket", "error"},
         q.s # ERR => q.at = "done" \/ IsStep(q, q.at),
         UNCHANGED <<held, leaked>>,
         opened' = (held \cup leaked) \cup (IF q.s # ERR THEN {q.s} ELSE {}),
         q.s # ERR => q.s \notin held \cup leaked
  PROVE  AnetInv'
<1>1. q.fn # "none" /\ q.fn \notin TransferFn /\ q.fn \in Opening
  BY DEF Opening, TcpFn, UnixFn, TransferFn
<1>2. Placed(q)
  BY <1>1 DEF Placed
<1>3. Working(q) = IF q.s # ERR THEN {q.s} ELSE {}
  BY <1>1 DEF Working
<1>4. SocketsAccounted'
  BY <1>1, <1>3, Accounts, AccountsNext DEF AnetInv
<1>5. opened' \subseteq Descriptor
  BY Accounts DEF AnetInv, Request
<1> QED BY <1>2, <1>4, <1>5 DEF AnetInv

LEMMA InitInv == AnetInit => AnetInv
<1> SUFFICES ASSUME AnetInit PROVE AnetInv
  OBVIOUS
<1>1. request = Nothing /\ opened = {} /\ held = {} /\ leaked = {}
  BY DEF AnetInit
<1>2. SocketsAccounted
  BY <1>1, NothingIs, Accounts DEF Working
<1> QED BY <1>1, <1>2, NothingIs DEF AnetInv

\* Whose the descriptors are.
LEMMA Owners ==
  ASSUME AnetInv
  PROVE  /\ held \cap leaked = {}
         /\ request.fn \notin Opening \/ request.s = ERR => opened = held \cup leaked
         /\ request.fn \in Opening /\ request.s # ERR =>
               /\ opened = (held \cup leaked) \cup {request.s}
               /\ request.s \notin held \cup leaked
         /\ request.fn \in TransferFn => request.fn \notin Opening
BY Accounts DEF AnetInv, Working, TransferFn, Opening, TcpFn, UnixFn

LEMMA CallInv == AnetInv /\ Call => AnetInv'
<1> SUFFICES ASSUME AnetInv, Call PROVE AnetInv'
  OBVIOUS
<1>1. PICK nb, src, best, v6 \in BOOLEAN, fn \in TcpFn \cup UnixFn :
        /\ src => fn = "anetTcpGenericConnect" /\ nb
        /\ best => src
        /\ nb => fn \in {"anetTcpGenericConnect", "anetUnixGenericConnect"}
        /\ v6 => fn = "_anetTcpServer"
        /\ request' = [Nothing EXCEPT !.fn = fn, !.nonblock = nb, !.source = src, !.best = best,
                        !.v6 = v6, !.at = IF fn \in TcpFn THEN "resolve" ELSE "socket"]
  BY DEF Call
<1>2. fn \in Opening /\ request = Nothing /\ UNCHANGED <<opened, held, leaked>>
  BY DEF Call, Idle, Opening
<1>3. /\ request' \in Request /\ request'.fn = fn /\ request'.s = ERR
      /\ request'.at \in {"resolve", "socket", "error"}
  <2>1. PICK at \in {"resolve", "socket"} : at = IF fn \in TcpFn THEN "resolve" ELSE "socket"
    OBVIOUS
  <2>2. at \in Stage /\ ERR \in Descriptor \cup {ERR} /\ 0 \in Int
    BY DEF Stage
  <2>3. request' = [fn |-> fn, nonblock |-> nb, source |-> src, best |-> best, v6 |-> v6,
                    at |-> at, s |-> ERR, left |-> 0, count |-> 0, total |-> 0]
    BY <1>1, <2>1 DEF Nothing
  <2>4. request' \in Request
    <3>1. fn \in {"none"} \cup Opening \cup TransferFn
      BY <1>2
    <3> QED BY ONLY <2>1, <2>2, <2>3, <3>1, nb \in BOOLEAN, src \in BOOLEAN, best \in BOOLEAN,
                 v6 \in BOOLEAN DEF Request
  <2> QED BY <2>1, <2>3, <2>4
<1>4. fn # "none" /\ fn \notin TransferFn
  BY DEF Opening, TcpFn, UnixFn, TransferFn
<1>5. Placed(request')
  BY <1>3, <1>4 DEF Placed
<1>6. SocketsAccounted'
  <2>1. Working(request') = {} /\ opened = held \cup leaked /\ held \cap leaked = {}
    BY <1>2, <1>3, Owners, NothingIs DEF Working
  <2> QED BY <1>2, <1>3, <1>4, <2>1, AccountsNext
<1> QED BY <1>2, <1>3, <1>5, <1>6 DEF AnetInv

\* Only places without a socket are reached without one.
LEMMA NoSocketInv ==
  ASSUME AnetInv, request.at \in {"resolve", "socket", "error"}, UNCHANGED <<opened, held, leaked>>,
         NEW at \in {"resolve", "socket", "error"}, NEW left \in Int, NEW src \in BOOLEAN,
         request' = [request EXCEPT !.at = at, !.left = left, !.source = src]
  PROVE  AnetInv'
<1>1. request \in Request /\ request.fn \in Opening /\ request.s = ERR
  BY PlaceSays
<1>2. PICK r \in Request : r = request
  BY <1>1
<1>3. PICK q : q = request'
  OBVIOUS
<1>4. q = [r EXCEPT !.at = at, !.left = left, !.source = src]
  BY <1>2, <1>3
<1>5. q \in Request /\ q.at = at /\ q.s = r.s /\ q.fn = r.fn
  <2>1. at \in Stage
    BY DEF Stage
  <2> QED BY ONLY <1>4, <2>1, r \in Request, left \in Int, src \in BOOLEAN DEF Request
<1> QED BY <1>1, <1>2, <1>3, <1>5, Owners, GoesOnInv

LEMMA ResolveInv == AnetInv /\ anetResolve => AnetInv'
<1> SUFFICES ASSUME AnetInv, anetResolve PROVE AnetInv'
  OBVIOUS
<1>1. request.at = "resolve" /\ UNCHANGED <<opened, held, leaked>> /\ request \in Request
  BY PlaceSays DEF anetResolve
<1>2. CASE \E n \in 1..MaxAddresses : request' = [request EXCEPT !.at = "socket", !.left = n]
  <2>1. PICK n \in 1..MaxAddresses : request' = [request EXCEPT !.at = "socket", !.left = n]
    BY <1>2
  <2>2. n \in Int /\ request.source \in BOOLEAN
    BY <1>1 DEF Request
  <2>3. request' = [request EXCEPT !.at = "socket", !.left = n, !.source = request.source]
    BY <1>1, <2>1 DEF Request
  <2> QED BY <1>1, <2>2, <2>3, NoSocketInv
<1>3. CASE request' = Nothing
  BY <1>1, <1>3, ReturnsInv, Owners, PlaceSays DEF AnetInv
<1> QED BY <1>2, <1>3 DEF anetResolve, Returns

LEMMA SocketInv == AnetInv /\ Socket => AnetInv'
<1> SUFFICES ASSUME AnetInv, Socket PROVE AnetInv'
  OBVIOUS
<1>1. PICK fd \in Descriptor \ opened :
        /\ opened' = opened \cup {fd}
        /\ request' = [request EXCEPT !.s = fd, !.at = Head(Program(request))]
  BY DEF Socket
<1>2. /\ request.at = "socket" /\ UNCHANGED <<held, leaked>>
      /\ request \in Request /\ request.fn \in Opening /\ request.s = ERR
  BY PlaceSays DEF Socket
<1>3. PICK r \in Request : r = request
  BY <1>2
<1>4. PICK at : at = Head(Program(r))
  OBVIOUS
<1>5. IsStep(r, at) /\ at \in Stage
  BY <1>2, <1>3, <1>4, StepLeads DEF Stage
<1>6. PICK q : q = request'
  OBVIOUS
<1>7. q = [r EXCEPT !.s = fd, !.at = at]
  BY <1>1, <1>3, <1>4, <1>6
<1>8. /\ q \in Request /\ q.at = at /\ q.s = fd /\ q.fn = r.fn
      /\ q.nonblock = r.nonblock /\ q.source = r.source /\ q.v6 = r.v6
  <2>1. fd \in Descriptor \cup {ERR}
    OBVIOUS
  <2> QED BY ONLY <1>5, <1>7, <2>1, r \in Request DEF Request
<1>9. IsStep(q, q.at)
  BY <1>5, <1>8, SameProgram
<1>10. fd # ERR /\ opened = held \cup leaked
  BY <1>2, AnetAssumption, Owners DEF AnetAssumption
<1> QED BY <1>1, <1>2, <1>3, <1>6, <1>8, <1>9, <1>10, GoesOnInv

LEMMA SocketFailsInv == AnetInv /\ SocketFails => AnetInv'
<1> SUFFICES ASSUME AnetInv, SocketFails PROVE AnetInv'
  OBVIOUS
<1>1. request.at = "socket" /\ UNCHANGED <<opened, held, leaked>> /\ request \in Request
  BY PlaceSays DEF SocketFails
<1>2. CASE request' = [request EXCEPT !.left = @ - 1]
  <2>1. request.left - 1 \in Int /\ request.source \in BOOLEAN
    BY <1>1 DEF Request
  <2>2. request' = [request EXCEPT !.at = "socket", !.left = request.left - 1,
                                   !.source = request.source]
    BY <1>1, <1>2 DEF Request
  <2> QED BY <1>1, <2>1, <2>2, NoSocketInv
<1>3. CASE request' = Nothing
  BY <1>1, <1>3, ReturnsInv, Owners, PlaceSays DEF AnetInv
<1> QED BY <1>2, <1>3 DEF SocketFails, Returns

LEMMA NoAddressInv == AnetInv /\ NoAddressLeft => AnetInv'
<1> SUFFICES ASSUME AnetInv, NoAddressLeft PROVE AnetInv'
  OBVIOUS
<1>1. /\ request.at = "socket" /\ UNCHANGED <<opened, held, leaked>> /\ request \in Request
      /\ request' = [request EXCEPT !.at = "error"]
  BY PlaceSays DEF NoAddressLeft
<1>2. request.left \in Int /\ request.source \in BOOLEAN
  BY <1>1 DEF Request
<1>3. request' = [request EXCEPT !.at = "error", !.left = request.left, !.source = request.source]
  BY <1>1 DEF Request
<1> QED BY <1>1, <1>2, <1>3, NoSocketInv

LEMMA FailsOrRetriesInv == AnetInv /\ FailsOrRetries => AnetInv'
<1> SUFFICES ASSUME AnetInv, FailsOrRetries PROVE AnetInv'
  OBVIOUS
<1>1. request.at = "error" /\ UNCHANGED <<opened, held, leaked>> /\ request \in Request
  BY PlaceSays DEF FailsOrRetries
<1>2. CASE request' = [request EXCEPT !.source = FALSE, !.at = "resolve", !.left = 0]
  <2>1. PICK at \in {"resolve", "socket", "error"}, left \in Int, src \in BOOLEAN :
          at = "resolve" /\ left = 0 /\ src = FALSE
    <3>1. PICK at \in {"resolve", "socket", "error"} : at = "resolve"
      OBVIOUS
    <3>2. PICK left \in Int : left = 0
      OBVIOUS
    <3>3. PICK src \in BOOLEAN : src = FALSE
      OBVIOUS
    <3> QED BY <3>1, <3>2, <3>3
  <2>2. request' = [request EXCEPT !.at = at, !.left = left, !.source = src]
    BY <1>1, <1>2, <2>1 DEF Request
  <2> QED BY <1>1, <2>2, NoSocketInv
<1>3. CASE request' = Nothing
  BY <1>1, <1>3, ReturnsInv, Owners, PlaceSays DEF AnetInv
<1> QED BY <1>2, <1>3 DEF FailsOrRetries, Returns

LEMMA SucceedsInv == AnetInv /\ Succeeds => AnetInv'
<1> SUFFICES ASSUME AnetInv, Succeeds PROVE AnetInv'
  OBVIOUS
<1>1. /\ request \in Request /\ request.fn \in Opening /\ request.s # ERR /\ request.at # "done"
      /\ request' = [request EXCEPT !.at = StepAfter(request, request.at)]
      /\ UNCHANGED <<opened, held, leaked>>
  BY PlaceSays DEF Succeeds, Fn, Opening
<1>2. PICK r \in Request : r = request
  BY <1>1
<1>3. PICK at : at = StepAfter(r, r.at)
  OBVIOUS
<1>4. (at = "done" \/ IsStep(r, at)) /\ at \in Stage
  BY <1>1, <1>2, <1>3, PlaceSays, StepLeads DEF Stage
<1>5. PICK q : q = request'
  OBVIOUS
<1>6. q = [r EXCEPT !.at = at]
  BY <1>1, <1>2, <1>3, <1>5
<1>7. /\ q \in Request /\ q.at = at /\ q.s = r.s /\ q.fn = r.fn
      /\ q.nonblock = r.nonblock /\ q.source = r.source /\ q.v6 = r.v6
  BY ONLY <1>4, <1>6, r \in Request DEF Request
<1>8. q.at = "done" \/ IsStep(q, q.at)
  BY <1>4, <1>7, SameProgram
<1> QED BY <1>1, <1>2, <1>5, <1>7, <1>8, Owners, GoesOnInv

LEMMA DoneInv == AnetInv /\ Done => AnetInv'
<1> SUFFICES ASSUME AnetInv, Done PROVE AnetInv'
  OBVIOUS
<1>1. /\ request.fn \in Opening /\ request.s # ERR /\ UNCHANGED <<opened, leaked>>
      /\ held' = held \cup {request.s} /\ request' = Nothing
  BY PlaceSays DEF Done, Returns
<1>2. opened' = held' \cup leaked' /\ held' \cap leaked' = {}
  BY <1>1, Owners
<1> QED BY <1>1, <1>2, ReturnsInv DEF AnetInv

\* The socket is closed and the function goes on without it.
LEMMA ClosedInv ==
  ASSUME AnetInv, request.s # ERR, request.fn \in Opening,
         opened' = opened \ {request.s}, UNCHANGED <<held, leaked>>,
         NEW at \in {"socket", "error"}, NEW left \in Int,
         request' = [request EXCEPT !.s = ERR, !.at = at, !.left = left]
  PROVE  AnetInv'
<1>1. PICK r \in Request : r = request
  BY DEF AnetInv
<1>2. PICK q : q = request'
  OBVIOUS
<1>3. q = [r EXCEPT !.s = ERR, !.at = at, !.left = left]
  BY <1>1, <1>2
<1>4. q \in Request /\ q.at = at /\ q.s = ERR /\ q.fn = r.fn
  <2>1. at \in Stage /\ ERR \in Descriptor \cup {ERR}
    BY DEF Stage
  <2> QED BY ONLY <1>3, <2>1, r \in Request, left \in Int DEF Request
<1> QED BY <1>1, <1>2, <1>4, Owners, GoesOnInv

LEMMA ConnectStepFailsInv == AnetInv /\ ConnectStepFails => AnetInv'
<1> SUFFICES ASSUME AnetInv, ConnectStepFails PROVE AnetInv'
  OBVIOUS
<1>1. /\ request \in Request /\ request.fn \in Opening /\ request.s # ERR
      /\ opened' = opened \ {request.s} /\ UNCHANGED <<held, leaked>>
      /\ request' = [request EXCEPT !.s = ERR, !.at = "error"]
  BY PlaceSays DEF ConnectStepFails, ErrorCloses, Step, Fn, Opening, TcpFn
<1>2. PICK at \in {"socket", "error"} : at = "error"
  OBVIOUS
<1>3. request' = [request EXCEPT !.s = ERR, !.at = at, !.left = request.left]
  BY <1>1, <1>2 DEF Request
<1>4. request.left \in Int
  BY <1>1 DEF Request
<1> QED BY <1>1, <1>3, <1>4, ClosedInv

LEMMA ConnectFailsInv == AnetInv /\ ConnectFails => AnetInv'
<1> SUFFICES ASSUME AnetInv, ConnectFails PROVE AnetInv'
  OBVIOUS
<1>1. /\ request \in Request /\ request.fn \in Opening /\ request.s # ERR
      /\ opened' = opened \ {request.s} /\ UNCHANGED <<held, leaked>>
      /\ request' = [request EXCEPT !.s = ERR, !.left = @ - 1, !.at = "socket"]
  BY PlaceSays DEF ConnectFails, Step, Fn, Opening, TcpFn
<1>2. PICK at \in {"socket", "error"} : at = "socket"
  OBVIOUS
<1>3. request.left - 1 \in Int
  BY <1>1 DEF Request
<1>4. PICK left \in Int : left = request.left - 1
  BY <1>3
<1>5. request' = [request EXCEPT !.s = ERR, !.at = at, !.left = left]
  BY <1>1, <1>2, <1>4 DEF Request
<1> QED BY <1>1, <1>5, ClosedInv

LEMMA ClosesAndReturnsInv == AnetInv /\ ClosesAndReturns => AnetInv'
<1> SUFFICES ASSUME AnetInv, ClosesAndReturns PROVE AnetInv'
  OBVIOUS
<1>1. /\ request.fn \in Opening /\ request.s # ERR /\ request' = Nothing
      /\ opened' = opened \ {request.s} /\ UNCHANGED <<held, leaked>>
  BY DEF ClosesAndReturns, Step, Fn, Opening, TcpFn, UnixFn, Returns
<1>2. opened' = held' \cup leaked' /\ held' \cap leaked' = {}
  BY <1>1, Owners
<1> QED BY <1>1, <1>2, ReturnsInv DEF AnetInv

LEMMA ReturnsWithoutClosingInv == AnetInv /\ ReturnsWithoutClosing => AnetInv'
<1> SUFFICES ASSUME AnetInv, ReturnsWithoutClosing PROVE AnetInv'
  OBVIOUS
<1>1. /\ request.fn \in Opening /\ request.s # ERR /\ request' = Nothing
      /\ leaked' = leaked \cup {request.s} /\ UNCHANGED <<opened, held>>
  BY DEF ReturnsWithoutClosing, Step, Fn, Opening, TcpFn, UnixFn, Returns
<1>2. opened' = held' \cup leaked' /\ held' \cap leaked' = {}
  BY <1>1, Owners
<1> QED BY <1>1, <1>2, ReturnsInv DEF AnetInv

\* What callers do between two calls.
LEMMA IdleInv ==
  ASSUME AnetInv, Idle, UNCHANGED <<leaked, request>>,
         opened' = held' \cup leaked, held' \cap leaked = {}, opened' \subseteq Descriptor
  PROVE  AnetInv'
<1>1. request' = Nothing
  BY DEF Idle
<1> QED BY <1>1, ReturnsInv DEF AnetInv

LEMMA AcceptInv == AnetInv /\ anetGenericAccept => AnetInv'
<1> SUFFICES ASSUME AnetInv, anetGenericAccept PROVE AnetInv'
  OBVIOUS
<1>1. /\ Idle /\ UNCHANGED <<leaked, request>>
      /\ \/ \E fd \in Descriptor \ opened : opened' = opened \cup {fd} /\ held' = held \cup {fd}
         \/ UNCHANGED <<opened, held>>
  BY DEF anetGenericAccept
<1>2. opened = held \cup leaked /\ held \cap leaked = {}
  BY <1>1, NothingIs, Owners DEF Idle
<1>3. opened' = held' \cup leaked /\ held' \cap leaked = {}
  BY <1>1, <1>2
<1> QED BY <1>1, <1>3, IdleInv DEF AnetInv

LEMMA CloseHeldInv == AnetInv /\ CloseHeld => AnetInv'
<1> SUFFICES ASSUME AnetInv, CloseHeld PROVE AnetInv'
  OBVIOUS
<1>1. PICK fd \in held : held' = held \ {fd} /\ opened' = opened \ {fd}
  BY DEF CloseHeld
<1>2. Idle /\ UNCHANGED <<leaked, request>>
  BY DEF CloseHeld
<1>3. opened = held \cup leaked /\ held \cap leaked = {}
  BY <1>2, NothingIs, Owners DEF Idle
<1>4. opened' = held' \cup leaked /\ held' \cap leaked = {}
  BY <1>1, <1>3
<1> QED BY <1>1, <1>2, <1>4, IdleInv DEF AnetInv

\* A transfer leaves the sockets alone.
LEMMA TransferInv ==
  ASSUME AnetInv, UNCHANGED <<opened, held, leaked>>, opened = held \cup leaked,
         NEW q \in Request, request' = q, q.fn \in TransferFn, q.at = "transfer", q.s \in held
  PROVE  AnetInv'
<1>1. q.fn # "none" /\ q.fn \notin Opening
  BY DEF Opening, TcpFn, UnixFn, TransferFn
<1>2. Placed(q) /\ Working(q) = {}
  BY <1>1 DEF Placed, Working
<1>3. SocketsAccounted'
  BY <1>2, Owners, AccountsNext
<1> QED BY <1>2, <1>3 DEF AnetInv

LEMMA StartTransferInv == AnetInv /\ MaxCount \in Nat /\ StartTransfer => AnetInv'
<1> SUFFICES ASSUME AnetInv, MaxCount \in Nat, StartTransfer PROVE AnetInv'
  OBVIOUS
<1>1. PICK fd \in held, fn \in TransferFn, n \in 0..MaxCount :
        request' = [Nothing EXCEPT !.fn = fn, !.s = fd, !.count = n, !.at = "transfer"]
  BY DEF StartTransfer
<1>2. Idle /\ UNCHANGED <<opened, held, leaked>> /\ opened = held \cup leaked
  BY NothingIs, Owners DEF StartTransfer, Idle
<1>3. PICK q : q = request'
  OBVIOUS
<1>4. q \in Request /\ q.fn = fn /\ q.at = "transfer" /\ q.s = fd
  <2>1. q = [fn |-> fn, nonblock |-> FALSE, source |-> FALSE, best |-> FALSE, v6 |-> FALSE,
             at |-> "transfer", s |-> fd, left |-> 0, count |-> n, total |-> 0]
    BY <1>1, <1>3 DEF Nothing
  <2>2. /\ fn \in {"none"} \cup Opening \cup TransferFn /\ "transfer" \in Stage
        /\ fd \in opened /\ n \in Int
    BY <1>2 DEF Stage
  <2>3. fd \in Descriptor \cup {ERR}
    BY <2>2 DEF AnetInv
  <2> QED BY ONLY <2>1, <2>2, <2>3 DEF Request
<1> QED BY <1>2, <1>3, <1>4, TransferInv

LEMMA TransferSomeInv == AnetInv /\ TransferSome => AnetInv'
<1> SUFFICES ASSUME AnetInv, TransferSome PROVE AnetInv'
  OBVIOUS
<1>1. /\ request \in Request /\ request.fn \in TransferFn /\ request.s \in held
      /\ request.at = "transfer"
      /\ UNCHANGED <<opened, held, leaked>> /\ opened = held \cup leaked
  BY PlaceSays, Owners, Accounts DEF TransferSome, AnetInv
<1>2. PICK n \in 1..(request.count - request.total) :
        request' = [request EXCEPT !.total = request.total + n]
  BY DEF TransferSome
<1>3. PICK q : q = request'
  OBVIOUS
<1>4. q \in Request /\ q.fn = request.fn /\ q.at = request.at /\ q.s = request.s
  BY <1>1, <1>2, <1>3 DEF Request
<1> QED BY <1>1, <1>3, <1>4, TransferInv

LEMMA TransferEndsInv == AnetInv /\ TransferEnds => AnetInv'
<1> SUFFICES ASSUME AnetInv, TransferEnds PROVE AnetInv'
  OBVIOUS
<1>1. request' = Nothing /\ UNCHANGED <<opened, held, leaked>> /\ request.fn \in TransferFn
  BY PlaceSays DEF TransferEnds, Returns
<1>2. opened' = held' \cup leaked' /\ held' \cap leaked' = {}
  BY <1>1, Owners
<1> QED BY <1>1, <1>2, ReturnsInv DEF AnetInv

LEMMA NextInv == AnetInv /\ [AnetNext]_anetVars => AnetInv'
<1> SUFFICES ASSUME AnetInv, [AnetNext]_anetVars PROVE AnetInv'
  OBVIOUS
<1>1. Call \/ anetResolve \/ Socket \/ SocketFails \/ NoAddressLeft \/ FailsOrRetries => AnetInv'
  BY CallInv, ResolveInv, SocketInv, SocketFailsInv, NoAddressInv, FailsOrRetriesInv
<1>2. Succeeds \/ Done \/ ConnectStepFails \/ ConnectFails => AnetInv'
  BY SucceedsInv, DoneInv, ConnectStepFailsInv, ConnectFailsInv
<1>3. ClosesAndReturns \/ ReturnsWithoutClosing => AnetInv'
  BY ClosesAndReturnsInv, ReturnsWithoutClosingInv
<1>4. anetGenericAccept \/ StartTransfer \/ TransferSome \/ TransferEnds \/ CloseHeld => AnetInv'
  BY AcceptInv, StartTransferInv, TransferSomeInv, TransferEndsInv, CloseHeldInv, AnetAssumption
  DEF AnetAssumption
<1>5. CASE UNCHANGED anetVars
  <2>1. UNCHANGED <<opened, held, leaked, request>>
    BY <1>5 DEF anetVars
  <2>2. SocketsAccounted'
    BY <2>1, Accounts, AccountsNext DEF AnetInv
  <2> QED BY <2>1, <2>2 DEF AnetInv
<1> QED BY <1>1, <1>2, <1>3, <1>4, <1>5 DEF AnetNext

-----------------------------------------------------------------------------
\* Whichever call fails, an open descriptor belongs to a caller, is the one being worked
\* on, or was left behind at one of the two places that the code has for it; none is
\* closed under its owner (anetTcpGenericConnect, _anetTcpServer, anetListen and theirs).
THEOREM SocketsAlwaysAccounted == AnetSpec => []SocketsAccounted
<1>1. AnetInv => SocketsAccounted
  BY DEF AnetInv
<1> QED BY <1>1, InitInv, NextInv, PTL DEF AnetSpec

-----------------------------------------------------------------------------
(***************************************************************************)
(* Sums over finite sets: what the fold of the community modules computes, *)
(* whichever order it takes the elements in.                               *)
(***************************************************************************)
Some(s) == CHOOSE x \in s : TRUE

\* The fold over the subsets of S that adds up w.
FoldIs(w, S, f) ==
    f = [s \in SUBSET S |-> IF s = {} THEN 0 ELSE w[Some(s)] + f[s \ {Some(s)}]]

Folded(w, S) == CHOOSE f : FoldIs(w, S, f)
SumOver(w, S) == Folded(w, S)[S]

LEMMA SomeIsIn == \A s : s # {} => Some(s) \in s
  BY DEF Some

\* A set of finite sets that is not empty has a least one.
LEMMA Fewest ==
  ASSUME NEW C, C # {}, \A s \in C : IsFiniteSet(s)
  PROVE  \E s \in C : \A t \in C : ~ (Cardinality(t) < Cardinality(s))
<1> DEFINE N == {Cardinality(s) : s \in C}
<1>1. N \subseteq Nat /\ N # {}
  BY FS_CardinalityType
<1>2. PICK m \in N : \A y \in N : ~ (<<y, m>> \in OpToRel(<, Nat))
  <2> HIDE DEF N
  <2> QED BY <1>1, NatLessThanWellFounded, WFMin, Zenon
<1>3. PICK s \in C : m = Cardinality(s)
  BY <1>2
<1>4. ASSUME NEW t \in C PROVE ~ (Cardinality(t) < Cardinality(s))
  <2>1. Cardinality(t) \in N /\ Cardinality(t) \in Nat /\ m \in Nat
    BY <1>1, <1>3
  <2> HIDE DEF N
  <2> QED BY <1>2, <1>3, <2>1 DEF OpToRel
<1> QED BY <1>4

LEMMA Smaller ==
  ASSUME NEW S, IsFiniteSet(S), NEW x \in S
  PROVE  /\ IsFiniteSet(S \ {x}) /\ Cardinality(S \ {x}) < Cardinality(S)
         /\ Cardinality(S) \in Nat /\ Cardinality(S \ {x}) \in Nat
  BY FS_RemoveElement, FS_CardinalityType

\* What a fold is at each set.
LEMMA FoldsAt ==
  ASSUME NEW w, NEW S, NEW f, FoldIs(w, S, f)
  PROVE  /\ f[{}] = 0
         /\ \A s \in SUBSET S : s # {} => f[s] = w[Some(s)] + f[s \ {Some(s)}]
  BY DEF FoldIs

LEMMA FoldsOnce ==
  ASSUME NEW w, NEW S, IsFiniteSet(S), NEW f, FoldIs(w, S, f), NEW g, FoldIs(w, S, g)
  PROVE  f = g
<1> DEFINE C == {s \in SUBSET S : f[s] # g[s]}
<1>1. \A s \in C : IsFiniteSet(s)
  BY FS_Subset
<1>2. C = {}
  <2> SUFFICES ASSUME C # {} PROVE FALSE
    OBVIOUS
  <2>1. PICK s \in C : \A t \in C : ~ (Cardinality(t) < Cardinality(s))
    <3> HIDE DEF C
    <3> QED BY <1>1, Fewest
  <2>2. s \in SUBSET S /\ s # {}
    BY FoldsAt
  <2>3. Some(s) \in s
    BY <2>2, SomeIsIn
  <2>4. s \ {Some(s)} \notin C
    <3> HIDE DEF C
    <3> QED BY <1>1, <2>1, <2>3, Smaller
  <2>5. f[s \ {Some(s)}] = g[s \ {Some(s)}]
    BY <2>2, <2>4
  <2>6. f[s] = g[s]
    BY <2>2, <2>5, FoldsAt
  <2> QED BY <2>1, <2>6
<1>3. \A s \in SUBSET S : f[s] = g[s]
  BY <1>2
<1>4. f = [s \in SUBSET S |-> f[s]] /\ g = [s \in SUBSET S |-> g[s]]
  BY DEF FoldIs
<1> QED BY <1>3, <1>4

LEMMA FoldsPart ==
  ASSUME NEW w, NEW S, NEW f, FoldIs(w, S, f), NEW T \in SUBSET S
  PROVE  FoldIs(w, T, [s \in SUBSET T |-> f[s]])
<1>3. f[{}] = 0 /\ \A s \in SUBSET S : s # {} => f[s] = w[Some(s)] + f[s \ {Some(s)}]
  BY DEF FoldIs
<1> DEFINE g == [s \in SUBSET T |-> f[s]]
<1>1. ASSUME NEW s \in SUBSET T
      PROVE  g[s] = IF s = {} THEN 0 ELSE w[Some(s)] + g[s \ {Some(s)}]
  <2>1. s \in SUBSET S /\ s \ {Some(s)} \in SUBSET T
    OBVIOUS
  <2>2. g[s] = f[s] /\ g[s \ {Some(s)}] = f[s \ {Some(s)}]
    BY <2>1
  <2>3. f[s] = IF s = {} THEN 0 ELSE w[Some(s)] + f[s \ {Some(s)}]
    BY ONLY <1>3, <2>1
  <2> HIDE DEF g
  <2> QED BY ONLY <2>2, <2>3
<1>2. g = [s \in SUBSET T |-> g[s]]
  OBVIOUS
<1> HIDE DEF g
<1> QED BY <1>1, <1>2 DEF FoldIs

LEMMA FoldsExist ==
  ASSUME NEW w, NEW U, IsFiniteSet(U)
  PROVE  FoldIs(w, U, Folded(w, U))
<1> DEFINE C == {S \in SUBSET U : ~ \E f : FoldIs(w, S, f)}
<1>1. \A S \in C : IsFiniteSet(S)
  BY FS_Subset
<1>2. C = {}
  <2> SUFFICES ASSUME C # {} PROVE FALSE
    OBVIOUS
  <2>1. PICK S \in C : \A T \in C : ~ (Cardinality(T) < Cardinality(S))
    <3> HIDE DEF C
    <3> QED BY <1>1, Fewest
  <2>2. S \in SUBSET U /\ IsFiniteSet(S) /\ ~ \E f : FoldIs(w, S, f)
    BY <1>1
  <2>3. ASSUME NEW s \in SUBSET S, s # S PROVE FoldIs(w, s, Folded(w, s))
    <3>1. PICK x \in S : x \notin s
      BY <2>3
    <3>2. s \in SUBSET (S \ {x}) /\ IsFiniteSet(S \ {x})
          /\ Cardinality(S \ {x}) < Cardinality(S) /\ Cardinality(S) \in Nat /\ Cardinality(S \ {x}) \in Nat
      BY <2>2, <3>1, Smaller
    <3>3. Cardinality(s) <= Cardinality(S \ {x}) /\ Cardinality(s) \in Nat
      BY <3>2, FS_Subset, FS_CardinalityType
    <3>4. Cardinality(s) < Cardinality(S)
      BY <3>2, <3>3
    <3>5. s \notin C
      <4> HIDE DEF C
      <4> QED BY <2>1, <3>4
    <3>6. \E f : FoldIs(w, s, f)
      BY <2>2, <3>5
    <3> QED BY <3>6 DEF Folded
  <2> DEFINE h(s) == Folded(w, s)[s]
             g == [s \in SUBSET S |-> IF s = {} THEN 0 ELSE w[Some(s)] + h(s \ {Some(s)})]
  <2>4. ASSUME NEW s \in SUBSET S, s # S PROVE g[s] = h(s)
    <3>1. FoldIs(w, s, Folded(w, s))
      BY <2>3, <2>4
    <3>2. CASE s = {}
      BY <3>1, <3>2, FoldsAt
    <3>3. CASE s # {}
      <4> DEFINE r == s \ {Some(s)}
      <4>1. r \in SUBSET s /\ r \in SUBSET S /\ r # S /\ IsFiniteSet(r)
        <5>1. Some(s) \in s
          BY <3>3, SomeIsIn
        <5> QED BY <2>2, <5>1, FS_Subset
      <4>2. FoldIs(w, r, Folded(w, r))
        BY <2>3, <4>1
      <4>3. FoldIs(w, r, [t \in SUBSET r |-> Folded(w, s)[t]])
        <5> HIDE DEF r
        <5> QED BY <3>1, <4>1, FoldsPart
      <4>4. Folded(w, r) = [t \in SUBSET r |-> Folded(w, s)[t]]
        <5> HIDE DEF r
        <5> QED BY <4>1, <4>2, <4>3, FoldsOnce
      <4>5. h(r) = Folded(w, s)[r]
        <5> HIDE DEF r
        <5>1. r \in SUBSET r
          OBVIOUS
        <5> QED BY <4>4, <5>1
      <4>6. h(s) = w[Some(s)] + Folded(w, s)[r]
        BY <3>1, <3>3, FoldsAt
      <4>7. g[s] = w[Some(s)] + h(r)
        BY <3>3
      <4> QED BY <4>5, <4>6, <4>7
    <3> QED BY <3>2, <3>3
  <2>5. ASSUME NEW s \in SUBSET S
        PROVE  g[s] = IF s = {} THEN 0 ELSE w[Some(s)] + g[s \ {Some(s)}]
    <3>1. CASE s = {}
      BY <3>1
    <3>2. CASE s # {}
      <4>1. Some(s) \in s
        BY <3>2, SomeIsIn
      <4>2. s \ {Some(s)} \in SUBSET S /\ s \ {Some(s)} # S
        BY <4>1
      <4>3. g[s \ {Some(s)}] = h(s \ {Some(s)})
        <5> HIDE DEF g, h
        <5> QED BY <2>4, <4>2
      <4>4. g[s] = w[Some(s)] + h(s \ {Some(s)})
        BY <3>2
      <4> HIDE DEF g, h
      <4> QED BY <3>2, <4>3, <4>4
    <3> QED BY <3>1, <3>2
  <2>6. g = [s \in SUBSET S |-> g[s]]
    OBVIOUS
  <2>7. FoldIs(w, S, g)
    <3> HIDE DEF g
    <3> QED BY <2>5, <2>6 DEF FoldIs
  <2> QED BY <2>2, <2>7
<1>3. \E f : FoldIs(w, U, f)
  BY <1>2
<1> QED BY <1>3 DEF Folded

LEMMA SumEmpty == \A w : SumOver(w, {}) = 0
<1> TAKE w
<1>1. IsFiniteSet({})
  BY FS_EmptySet
<1>2. FoldIs(w, {}, Folded(w, {}))
  BY <1>1, FoldsExist
<1> QED BY <1>2, FoldsAt DEF SumOver

\* The sum of a part, taken by the fold over the whole.
LEMMA SumPart ==
  ASSUME NEW w, NEW S, IsFiniteSet(S), NEW T \in SUBSET S
  PROVE  SumOver(w, T) = Folded(w, S)[T]
<1>1. IsFiniteSet(T)
  BY FS_Subset
<1>2. FoldIs(w, T, Folded(w, T)) /\ FoldIs(w, T, [s \in SUBSET T |-> Folded(w, S)[s]])
  BY <1>1, FoldsExist, FoldsPart
<1>3. Folded(w, T) = [s \in SUBSET T |-> Folded(w, S)[s]]
  BY <1>1, <1>2, FoldsOnce
<1>4. T \in SUBSET T
  OBVIOUS
<1> QED BY <1>3, <1>4 DEF SumOver

LEMMA SumSome ==
  ASSUME NEW w, NEW S, IsFiniteSet(S), S # {}
  PROVE  Some(S) \in S /\ SumOver(w, S) = w[Some(S)] + SumOver(w, S \ {Some(S)})
<1>1. Some(S) \in S /\ S \ {Some(S)} \in SUBSET S
  BY SomeIsIn
<1>2. FoldIs(w, S, Folded(w, S))
  BY FoldsExist
<1>3. SumOver(w, S) = w[Some(S)] + Folded(w, S)[S \ {Some(S)}]
  BY <1>2, FoldsAt DEF SumOver
<1> QED BY <1>1, <1>3, SumPart

LEMMA SumIsInt ==
  ASSUME NEW w, NEW U, IsFiniteSet(U), \A x \in U : w[x] \in Int
  PROVE  SumOver(w, U) \in Int
<1> DEFINE C == {S \in SUBSET U : SumOver(w, S) \notin Int}
<1>1. \A S \in C : IsFiniteSet(S)
  BY FS_Subset
<1>2. C = {}
  <2> SUFFICES ASSUME C # {} PROVE FALSE
    OBVIOUS
  <2>1. PICK S \in C : \A T \in C : ~ (Cardinality(T) < Cardinality(S))
    <3> HIDE DEF C
    <3> QED BY <1>1, Fewest
  <2>2. S \in SUBSET U /\ S # {} /\ IsFiniteSet(S)
    BY <1>1, SumEmpty
  <2>3. Some(S) \in S /\ SumOver(w, S) = w[Some(S)] + SumOver(w, S \ {Some(S)})
    BY <2>2, SumSome
  <2>4. S \ {Some(S)} \notin C
    <3> HIDE DEF C
    <3> QED BY <2>1, <2>2, <2>3, Smaller
  <2>5. SumOver(w, S \ {Some(S)}) \in Int
    BY <2>2, <2>4
  <2>6. SumOver(w, S) \in Int
    BY <2>2, <2>3, <2>5
  <2> QED BY <2>1, <2>6
<1> QED BY <1>2

\* The order does not matter: any element can be taken out first.
LEMMA SumWithout ==
  ASSUME NEW w, NEW U, IsFiniteSet(U), \A x \in U : w[x] \in Int, NEW b \in U
  PROVE  SumOver(w, U) = w[b] + SumOver(w, U \ {b})
<1> DEFINE Bad(S) == \E c \in S : SumOver(w, S) # w[c] + SumOver(w, S \ {c})
           C == {S \in SUBSET U : Bad(S)}
<1>1. \A S \in C : IsFiniteSet(S)
  BY FS_Subset
<1>2. C = {}
  <2> SUFFICES ASSUME C # {} PROVE FALSE
    OBVIOUS
  <2>1. PICK S \in C : \A T \in C : ~ (Cardinality(T) < Cardinality(S))
    <3> HIDE DEF C
    <3> QED BY <1>1, Fewest
  <2>2. S \in SUBSET U /\ IsFiniteSet(S)
    BY <1>1
  <2>3. PICK c \in S : SumOver(w, S) # w[c] + SumOver(w, S \ {c})
    OBVIOUS
  <2> DEFINE x == Some(S)
  <2>4. x \in S /\ SumOver(w, S) = w[x] + SumOver(w, S \ {x})
    BY <2>2, <2>3, SumSome
  <2> HIDE DEF x
  <2>5. c # x
    BY <2>3, <2>4
  <2>6. S \ {x} \notin C /\ S \ {c} \notin C
    <3> HIDE DEF C
    <3> QED BY <2>1, <2>2, <2>3, <2>4, Smaller
  <2>7. S \ {x} \in SUBSET U /\ S \ {c} \in SUBSET U /\ c \in S \ {x} /\ x \in S \ {c}
    BY <2>2, <2>4, <2>5
  <2>8. /\ SumOver(w, S \ {x}) = w[c] + SumOver(w, (S \ {x}) \ {c})
        /\ SumOver(w, S \ {c}) = w[x] + SumOver(w, (S \ {c}) \ {x})
    BY <2>6, <2>7
  <2>9. (S \ {x}) \ {c} = (S \ {c}) \ {x}
    OBVIOUS
  <2>10. SumOver(w, (S \ {x}) \ {c}) \in Int /\ w[c] \in Int /\ w[x] \in Int
    <3>1. (S \ {x}) \ {c} \in SUBSET U /\ IsFiniteSet((S \ {x}) \ {c})
      BY <2>7, FS_Subset
    <3> QED BY <2>7, <3>1, SumIsInt
  <2>11. w[c] + SumOver(w, S \ {c}) = w[x] + SumOver(w, S \ {x})
    <3> DEFINE t == SumOver(w, (S \ {x}) \ {c})
    <3>1. SumOver(w, S \ {x}) = w[c] + t /\ SumOver(w, S \ {c}) = w[x] + t
      BY <2>8, <2>9
    <3> HIDE DEF t
    <3>2. t \in Int
      BY <2>10 DEF t
    <3> QED BY <2>10, <3>1, <3>2
  <2> QED BY <2>3, <2>4, <2>11
<1> QED BY <1>2

LEMMA SumSame ==
  ASSUME NEW w, NEW v, NEW U, IsFiniteSet(U), \A x \in U : w[x] = v[x]
  PROVE  SumOver(w, U) = SumOver(v, U)
<1> DEFINE C == {S \in SUBSET U : SumOver(w, S) # SumOver(v, S)}
<1>1. \A S \in C : IsFiniteSet(S)
  BY FS_Subset
<1>2. C = {}
  <2> SUFFICES ASSUME C # {} PROVE FALSE
    OBVIOUS
  <2>1. PICK S \in C : \A T \in C : ~ (Cardinality(T) < Cardinality(S))
    <3> HIDE DEF C
    <3> QED BY <1>1, Fewest
  <2>2. S \in SUBSET U /\ S # {} /\ IsFiniteSet(S)
    BY <1>1, SumEmpty
  <2>3. /\ Some(S) \in S
        /\ SumOver(w, S) = w[Some(S)] + SumOver(w, S \ {Some(S)})
        /\ SumOver(v, S) = v[Some(S)] + SumOver(v, S \ {Some(S)})
    BY <2>2, SumSome
  <2>4. S \ {Some(S)} \notin C
    <3> HIDE DEF C
    <3> QED BY <2>1, <2>2, <2>3, Smaller
  <2>5. SumOver(w, S \ {Some(S)}) = SumOver(v, S \ {Some(S)})
    BY <2>2, <2>4
  <2>6. SumOver(w, S) = SumOver(v, S)
    BY <2>2, <2>3, <2>5
  <2> QED BY <2>1, <2>6
<1> QED BY <1>2

-----------------------------------------------------------------------------
(***************************************************************************)
(* What zmalloc counts                                                     *)
(***************************************************************************)
LEMMA NoMultiple ==
  ASSUME NEW L \in Nat \ {0}, NEW q \in Int, NEW a \in 0..(L - 1), NEW b \in 0..(L - 1),
         L * q = a - b
  PROVE  q = 0
<1>1. CASE q >= 1
  <2>1. L * q >= L
    BY <1>1
  <2> QED BY <2>1
<1>2. CASE q <= -1
  <2>1. L * q <= -L
    BY <1>2
  <2> QED BY <2>1
<1> QED BY <1>1, <1>2

LEMMA Divided ==
  ASSUME NEW L \in Nat \ {0}, NEW n \in Nat
  PROVE  n = L * (n \div L) + (n % L) /\ n % L \in 0..(L - 1) /\ n \div L \in Int
<1>1. n = L * (n \div L) + (n % L)
  OBVIOUS
<1>2. n % L \in 0..(L - 1)
  OBVIOUS
<1>3. n \div L \in Int
  OBVIOUS
<1> QED BY <1>1, <1>2, <1>3

\* A prefix of whole words is not rounded.
LEMMA RoundedPrefix ==
  ASSUME ZmallocAssumption, NEW n \in Nat
  PROVE  /\ Rounded(n) \in Nat
         /\ Rounded(n + PREFIX_SIZE) = Rounded(n) + PREFIX_SIZE
<1> DEFINE m == n + PREFIX_SIZE
<1>1. LONG \in Nat \ {0} /\ PREFIX_SIZE \in Nat /\ PREFIX_SIZE % LONG = 0 /\ m \in Nat
  BY DEF ZmallocAssumption
<1>2. PICK a \in Int : n = LONG * a + (n % LONG) /\ n % LONG \in 0..(LONG - 1)
  BY <1>1, Divided
<1>3. PICK b \in Int : m = LONG * b + (m % LONG) /\ m % LONG \in 0..(LONG - 1)
  BY <1>1, Divided
<1>4. PICK c \in Int : PREFIX_SIZE = LONG * c
  <2>1. /\ PREFIX_SIZE = LONG * (PREFIX_SIZE \div LONG) + (PREFIX_SIZE % LONG)
        /\ PREFIX_SIZE \div LONG \in Int
    BY <1>1, Divided
  <2>2. LONG * (PREFIX_SIZE \div LONG) \in Int
    BY <1>1, <2>1
  <2> DEFINE c == PREFIX_SIZE \div LONG
  <2>3. c \in Int /\ PREFIX_SIZE = LONG * c
    <3>1. LONG * c \in Int /\ PREFIX_SIZE = LONG * c + 0
      BY <1>1, <2>1, <2>2
    <3> HIDE DEF c
    <3> QED BY <2>1, <3>1 DEF c
  <2> HIDE DEF c
  <2> QED BY <2>3
<1>5. LONG * (b - a - c) = (n % LONG) - (m % LONG)
  BY <1>1, <1>2, <1>3, <1>4
<1>6. b - a - c = 0
  BY <1>1, <1>2, <1>3, <1>5, NoMultiple
<1>7. n % LONG = m % LONG
  BY <1>1, <1>2, <1>3, <1>5, <1>6
<1> QED BY <1>1, <1>2, <1>7 DEF Rounded

\* What a block takes, by what is written in front of it.
Taken(p) == [b \in Block |-> Rounded(p[b] + PREFIX_SIZE)]

ZmallocInv ==
    /\ prefix \in [Block -> Nat \cup {-1}]
    /\ IsFiniteSet(Allocated)
    /\ used_memory = SumOver(Taken(prefix), Allocated)

LEMMA TakenIs ==
  ASSUME ZmallocAssumption, NEW p, NEW b \in Block, p[b] \in Nat
  PROVE  /\ Taken(p)[b] = Rounded(p[b] + PREFIX_SIZE)
         /\ Taken(p)[b] = Rounded(p[b]) + PREFIX_SIZE
         /\ Taken(p)[b] \in Int /\ Rounded(p[b]) \in Int /\ PREFIX_SIZE \in Int
<1>1. Taken(p)[b] = Rounded(p[b] + PREFIX_SIZE)
  BY DEF Taken
<1>2. /\ Rounded(p[b] + PREFIX_SIZE) = Rounded(p[b]) + PREFIX_SIZE
      /\ Rounded(p[b]) \in Nat /\ PREFIX_SIZE \in Nat
  BY RoundedPrefix DEF ZmallocAssumption
<1> QED BY ONLY <1>1, <1>2

\* The fold of the property is the sum.
LEMMA PropertyIsSum ==
  ASSUME IsFiniteSet(Allocated)
  PROVE  MapThenSumSet(LAMBDA b : Rounded(prefix[b] + PREFIX_SIZE), Allocated)
            = SumOver(Taken(prefix), Allocated)
<1> DEFINE w == Taken(prefix)
           Loop(f) == f = [s \in SUBSET Allocated |->
                             IF s = {} THEN 0
                             ELSE LET x == CHOOSE x \in s : TRUE
                                  IN  Rounded(prefix[x] + PREFIX_SIZE) + f[s \ {x}]]
           g == CHOOSE f : Loop(f)
<1>1. MapThenSumSet(LAMBDA b : Rounded(prefix[b] + PREFIX_SIZE), Allocated) = g[Allocated]
  BY DEF MapThenSumSet, MapThenFoldSet
<1>2. ASSUME NEW f PROVE Loop(f) <=> FoldIs(w, Allocated, f)
  <2>1. ASSUME NEW s \in SUBSET Allocated, s # {}
        PROVE  Rounded(prefix[Some(s)] + PREFIX_SIZE) = w[Some(s)]
    <3>1. Some(s) \in Block
      BY <2>1, SomeIsIn DEF Allocated
    <3> QED BY <3>1 DEF Taken
  <2>2. [s \in SUBSET Allocated |-> IF s = {} THEN 0
            ELSE Rounded(prefix[Some(s)] + PREFIX_SIZE) + f[s \ {Some(s)}]]
        = [s \in SUBSET Allocated |-> IF s = {} THEN 0 ELSE w[Some(s)] + f[s \ {Some(s)}]]
    <3> HIDE DEF w
    <3> QED BY <2>1
  <2>3. Loop(f) <=> f = [s \in SUBSET Allocated |-> IF s = {} THEN 0
            ELSE Rounded(prefix[Some(s)] + PREFIX_SIZE) + f[s \ {Some(s)}]]
    BY DEF Some
  <2> HIDE DEF Loop, w
  <2> QED BY <2>2, <2>3 DEF FoldIs
<1>3. FoldIs(w, Allocated, Folded(w, Allocated))
  BY FoldsExist
<1>4. Loop(g)
  <2> HIDE DEF Loop
  <2> QED BY <1>2, <1>3
<1>5. g = Folded(w, Allocated)
  <2> HIDE DEF Loop, g, w
  <2> QED BY <1>2, <1>3, <1>4, FoldsOnce
<1> QED BY <1>1, <1>5 DEF SumOver

Holding(p) == {b \in Block : p[b] # -1}
PrefixFn == [Block -> Nat \cup {-1}]
Total(p) == SumOver(Taken(p), Holding(p))

\* What the blocks of S take does not depend on the others.
LEMMA TakenBy ==
  ASSUME ZmallocAssumption, NEW p \in PrefixFn, IsFiniteSet(Holding(p)),
         NEW S \in SUBSET Holding(p)
  PROVE  /\ SumOver(Taken(p), S) \in Int
         /\ \A a \in S : SumOver(Taken(p), S)
                         = Rounded(p[a]) + PREFIX_SIZE + SumOver(Taken(p), S \ {a})
         /\ \A q \in PrefixFn : (\A b \in S : q[b] = p[b])
                                => SumOver(Taken(q), S) = SumOver(Taken(p), S)
<1> PICK w : w = Taken(p)
  OBVIOUS
<1>1. IsFiniteSet(S)
  BY FS_Subset
<1>2. \A b \in S : p[b] \in Nat /\ b \in Block
  BY DEF Holding, PrefixFn
<1>3. \A b \in S : w[b] \in Int /\ w[b] = Rounded(p[b]) + PREFIX_SIZE
  BY <1>2, TakenIs
<1>4. SumOver(w, S) \in Int
  BY <1>1, <1>3, SumIsInt
<1>5. \A a \in S : SumOver(w, S) = w[a] + SumOver(w, S \ {a})
  BY <1>1, <1>3, SumWithout
<1>6. ASSUME NEW q \in PrefixFn, \A b \in S : q[b] = p[b]
      PROVE  SumOver(Taken(q), S) = SumOver(w, S)
  <2> PICK v : v = Taken(q)
    OBVIOUS
  <2>1. \A b \in S : v[b] = w[b]
    BY <1>2, <1>6 DEF Taken
  <2> QED BY <1>1, <2>1, SumSame
<1> QED BY <1>3, <1>4, <1>5, <1>6

\* One more block is allocated, or one less.
LEMMA BlockMore ==
  ASSUME ZmallocAssumption, NEW p \in PrefixFn, IsFiniteSet(Holding(p)),
         NEW a \in Block \ Holding(p), NEW n \in Nat, NEW q \in PrefixFn,
         q[a] = n, \A b \in Block \ {a} : q[b] = p[b]
  PROVE  /\ IsFiniteSet(Holding(q)) /\ Holding(q) = Holding(p) \cup {a}
         /\ Total(q) = Total(p) + Rounded(n) + PREFIX_SIZE
         /\ Total(p) \in Int /\ Rounded(n) \in Int
<1>1. q \in PrefixFn /\ q[a] = n /\ \A b \in Block \ {a} : q[b] = p[b]
  OBVIOUS
<1>2. Holding(q) = Holding(p) \cup {a} /\ IsFiniteSet(Holding(q))
  <2>1. IsFiniteSet(Holding(p) \cup {a})
    BY FS_AddElement
  <2>2. Holding(q) = Holding(p) \cup {a}
    BY <1>1 DEF Holding
  <2> QED BY <2>1, <2>2
<1>3. Holding(q) \ {a} = Holding(p) /\ a \in Holding(q)
  BY <1>2
<1>4. SumOver(Taken(q), Holding(q)) = Rounded(n) + PREFIX_SIZE + SumOver(Taken(q), Holding(p))
  <2> PICK S : S = Holding(q)
    OBVIOUS
  <2>1. \A c \in S : SumOver(Taken(q), S) = Rounded(q[c]) + PREFIX_SIZE + SumOver(Taken(q), S \ {c})
    <3>1. S \in SUBSET Holding(q) /\ IsFiniteSet(Holding(q))
      BY <1>2
    <3> QED BY <1>1, <3>1, TakenBy
  <2>2. a \in S /\ S \ {a} = Holding(p)
    BY <1>3
  <2>3. SumOver(Taken(q), S) = Rounded(q[a]) + PREFIX_SIZE + SumOver(Taken(q), S \ {a})
    BY <2>1, <2>2
  <2> QED BY <1>1, <2>2, <2>3
<1>5. /\ SumOver(Taken(q), Holding(p)) = SumOver(Taken(p), Holding(p))
      /\ SumOver(Taken(p), Holding(p)) \in Int
  <2>1. \A b \in Holding(p) : q[b] = p[b]
    BY <1>1 DEF Holding
  <2> QED BY <1>1, <2>1, TakenBy
<1>6. Rounded(n) \in Int /\ PREFIX_SIZE \in Int
  BY RoundedPrefix DEF ZmallocAssumption
<1> QED BY ONLY <1>1, <1>2, <1>4, <1>5, <1>6 DEF Total

LEMMA BlockLess ==
  ASSUME ZmallocAssumption, NEW p \in PrefixFn, IsFiniteSet(Holding(p)),
         NEW a \in Holding(p), NEW q, q = [p EXCEPT ![a] = -1]
  PROVE  /\ q \in PrefixFn /\ IsFiniteSet(Holding(q)) /\ Holding(q) = Holding(p) \ {a}
         /\ Total(q) = Total(p) - Rounded(p[a]) - PREFIX_SIZE
         /\ Total(p) \in Int /\ Rounded(p[a]) \in Int /\ p[a] \in Nat /\ a \in Block
<1>1. q \in PrefixFn /\ q[a] = -1 /\ \A b \in Block \ {a} : q[b] = p[b]
  BY DEF PrefixFn, Holding
<1>2. Holding(q) = Holding(p) \ {a} /\ IsFiniteSet(Holding(q))
  <2>1. IsFiniteSet(Holding(p) \ {a})
    BY FS_RemoveElement
  <2>2. Holding(q) = Holding(p) \ {a}
    BY <1>1 DEF Holding
  <2> QED BY <2>1, <2>2
<1>3. p[a] \in Nat /\ a \in Block
  BY DEF PrefixFn, Holding
<1>4. /\ SumOver(Taken(p), Holding(p))
             = Rounded(p[a]) + PREFIX_SIZE + SumOver(Taken(p), Holding(p) \ {a})
      /\ SumOver(Taken(p), Holding(p)) \in Int
  BY TakenBy
<1>5. /\ SumOver(Taken(q), Holding(q)) = SumOver(Taken(p), Holding(p) \ {a})
      /\ SumOver(Taken(p), Holding(p) \ {a}) \in Int
  <2> PICK S : S = Holding(p) \ {a}
    OBVIOUS
  <2>1. \A b \in S : q[b] = p[b]
    BY <1>1 DEF Holding
  <2>2. S \in SUBSET Holding(p)
    OBVIOUS
  <2>3. SumOver(Taken(q), S) = SumOver(Taken(p), S) /\ SumOver(Taken(p), S) \in Int
    <3>1. /\ SumOver(Taken(p), S) \in Int
          /\ \A r \in PrefixFn : (\A b \in S : r[b] = p[b])
                                => SumOver(Taken(r), S) = SumOver(Taken(p), S)
      BY <2>2, TakenBy
    <3> QED BY <1>1, <2>1, <3>1
  <2> QED BY <1>2, <2>3
<1>6. Rounded(p[a]) \in Int /\ PREFIX_SIZE \in Int
  BY <1>3, RoundedPrefix DEF ZmallocAssumption
<1> QED BY ONLY <1>1, <1>2, <1>3, <1>4, <1>5, <1>6 DEF Total

LEMMA InitZmallocInv == ZmallocInit => ZmallocInv
<1> SUFFICES ASSUME ZmallocInit PROVE ZmallocInv
  OBVIOUS
<1>1. prefix \in [Block -> Nat \cup {-1}] /\ Allocated = {} /\ used_memory = 0
  BY DEF ZmallocInit, Allocated
<1>2. IsFiniteSet({}) /\ SumOver(Taken(prefix), {}) = 0
  BY FS_EmptySet, SumEmpty
<1> QED BY <1>1, <1>2 DEF ZmallocInv

LEMMA ZmallocSteps ==
  ASSUME ZmallocAssumption, ZmallocInv, [ZmallocNext]_zmallocVars
  PROVE  ZmallocInv'
<1>1. prefix \in PrefixFn /\ IsFiniteSet(Holding(prefix)) /\ used_memory = Total(prefix)
      /\ Allocated = Holding(prefix)
  BY DEF ZmallocInv, Allocated, Holding, Total, PrefixFn
<1>2. PREFIX_SIZE \in Nat /\ Size \subseteq Nat
  BY DEF ZmallocAssumption
<1>3. PICK p : p = prefix
  OBVIOUS
<1>4. PICK q : q = prefix'
  OBVIOUS
<1>5. SUFFICES q \in PrefixFn /\ IsFiniteSet(Holding(q)) /\ used_memory' = Total(q)
  BY <1>4 DEF ZmallocInv, Allocated, Holding, Total, PrefixFn, Taken
<1>6. CASE zmalloc
  <2>1. PICK b \in Block \ Allocated, size \in Size :
          /\ prefix' = [prefix EXCEPT ![b] = size]
          /\ used_memory' = used_memory + Rounded(size + PREFIX_SIZE)
    BY <1>6 DEF zmalloc, update_zmalloc_stat_alloc
  <2>2. size \in Nat /\ b \in Block \ Holding(p) /\ q = [p EXCEPT ![b] = size]
    BY <1>1, <1>2, <1>3, <1>4, <2>1
  <2>3. /\ q \in PrefixFn /\ IsFiniteSet(Holding(q))
        /\ Total(q) = Total(p) + Rounded(size) + PREFIX_SIZE
        /\ Total(p) \in Int /\ Rounded(size) \in Int
    <3>1. p \in PrefixFn /\ IsFiniteSet(Holding(p)) /\ b \in Block \ Holding(p) /\ size \in Nat
      BY <1>1, <1>3, <2>2
    <3>2. q \in PrefixFn /\ q[b] = size /\ \A x \in Block \ {b} : q[x] = p[x]
      BY <3>1, <2>2 DEF PrefixFn
    <3> QED BY <3>1, <3>2, BlockMore
  <2>4. Rounded(size + PREFIX_SIZE) = Rounded(size) + PREFIX_SIZE
    BY <2>2, RoundedPrefix
  <2> QED BY ONLY <1>1, <1>2, <1>3, <2>1, <2>3, <2>4
<1>7. CASE zrealloc
  <2>1. PICK b \in Allocated, to \in Block, size \in Size :
          /\ to = b \/ to \notin Allocated
          /\ prefix' = [[prefix EXCEPT ![b] = -1] EXCEPT ![to] = size]
          /\ used_memory' = used_memory - Rounded(prefix[b]) + Rounded(size)
    BY <1>7 DEF zrealloc, update_zmalloc_stat_alloc, update_zmalloc_stat_free
  <2>2. PICK r : r = [p EXCEPT ![b] = -1]
    OBVIOUS
  <2>3. /\ r \in PrefixFn /\ IsFiniteSet(Holding(r)) /\ Holding(r) = Holding(p) \ {b}
        /\ Total(r) = Total(p) - Rounded(p[b]) - PREFIX_SIZE
        /\ Total(p) \in Int /\ Rounded(p[b]) \in Int
    BY <1>1, <1>3, <2>2, BlockLess
  <2>4. size \in Nat /\ to \in Block \ Holding(r) /\ q = [r EXCEPT ![to] = size]
    BY <1>1, <1>2, <1>3, <1>4, <2>1, <2>2, <2>3
  <2>5. /\ q \in PrefixFn /\ IsFiniteSet(Holding(q))
        /\ Total(q) = Total(r) + Rounded(size) + PREFIX_SIZE
        /\ Rounded(size) \in Int
    <3>1. r \in PrefixFn /\ IsFiniteSet(Holding(r)) /\ to \in Block \ Holding(r) /\ size \in Nat
      BY <2>3, <2>4
    <3>2. q \in PrefixFn /\ q[to] = size /\ \A x \in Block \ {to} : q[x] = r[x]
      BY <3>1, <2>4 DEF PrefixFn
    <3> QED BY <3>1, <3>2, BlockMore
  <2> QED BY ONLY <1>1, <1>2, <1>3, <2>1, <2>3, <2>5
<1>8. CASE zfree
  <2>1. PICK b \in Allocated :
          /\ prefix' = [prefix EXCEPT ![b] = -1]
          /\ used_memory' = used_memory - Rounded(prefix[b] + PREFIX_SIZE)
    BY <1>8 DEF zfree, update_zmalloc_stat_free
  <2>2. b \in Holding(p) /\ q = [p EXCEPT ![b] = -1]
    BY <1>1, <1>3, <1>4, <2>1
  <2>3. /\ q \in PrefixFn /\ IsFiniteSet(Holding(q))
        /\ Total(q) = Total(p) - Rounded(p[b]) - PREFIX_SIZE
        /\ Total(p) \in Int /\ Rounded(p[b]) \in Int /\ p[b] \in Nat
    BY <1>1, <1>3, <2>2, BlockLess
  <2>4. Rounded(p[b] + PREFIX_SIZE) = Rounded(p[b]) + PREFIX_SIZE
    BY <2>3, RoundedPrefix
  <2> QED BY ONLY <1>1, <1>2, <1>3, <2>1, <2>3, <2>4
<1>9. CASE UNCHANGED zmallocVars
  BY <1>1, <1>4, <1>9 DEF zmallocVars
<1> QED BY <1>6, <1>7, <1>8, <1>9 DEF ZmallocNext

\* used_memory (zmalloc.c:91-109) is what the live blocks take, after any number of
\* allocations, resizings and releases of any sizes: it never drifts.
THEOREM MemoryCounted == ZmallocSpec => []UsedMemoryExact
<1>1. ZmallocInit => ZmallocInv
  BY InitZmallocInv
<1>2. ZmallocInv /\ [ZmallocNext]_zmallocVars => ZmallocInv'
  BY ZmallocAssumption, ZmallocSteps
<1>3. ZmallocInv => UsedMemoryExact
  BY PropertyIsSum DEF ZmallocInv, UsedMemoryExact
<1> QED BY <1>1, <1>2, <1>3, PTL DEF ZmallocSpec
=============================================================================
