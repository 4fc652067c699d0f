----------------------------- MODULE ServerProof -----------------------------
(***************************************************************************)
(* The event loop watches what its masks say, whoever uses it, and the     *)
(* server never mixes up its clients, for every number of descriptors,     *)
(* connections and reply lengths.                                          *)
(***************************************************************************)
EXTENDS Server, FiniteSetTheorems, SequenceTheorems, WellFoundedInduction, TLAPS

-----------------------------------------------------------------------------
(***************************************************************************)
(* The least and the greatest of a set                                     *)
(***************************************************************************)
LEMMA LeastOfNaturals ==
  ASSUME NEW S, S \subseteq Nat, S # {}
  PROVE  Least(S) \in S
<1>1. PICK m \in S : \A y \in S : ~ (<<y, m>> \in OpToRel(<, Nat))
  BY NatLessThanWellFounded, WFMin, Zenon
<1>2. ASSUME NEW j \in S PROVE m <= j
  <2>1. ~ (j < m)
    BY <1>1 DEF OpToRel
  <2> QED BY <2>1
<1> QED BY <1>2 DEF Least

LEMMA GreatestOfBounded ==
  ASSUME NEW n \in Nat, NEW S, S \subseteq 0..n, S # {}
  PROVE  Greatest(S) \in S /\ \A j \in S : j <= Greatest(S)
<1> DEFINE T == {n - i : i \in S}
<1>1. T \subseteq Nat /\ T # {}
  <2>1. \A i \in S : n - i \in Nat
    OBVIOUS
  <2>2. PICK i : i \in S
    OBVIOUS
  <2>3. n - i \in T
    BY <2>2
  <2> QED BY <2>1, <2>3
<1>2. PICK m \in T : \A y \in T : ~ (<<y, m>> \in OpToRel(<, Nat))
  <2> HIDE DEF T
  <2> QED BY <1>1, NatLessThanWellFounded, WFMin, Zenon
<1>3. PICK g \in S : m = n - g
  BY <1>2
<1>4. ASSUME NEW j \in S PROVE j <= g
  <2>1. n - j \in T /\ n - j \in Nat /\ m \in Nat
    BY <1>1, <1>2
  <2>2. ~ (n - j < m)
    <3> HIDE DEF T
    <3> QED BY <1>2, <2>1 DEF OpToRel
  <2> QED BY <1>3, <2>1, <2>2
<1> QED BY <1>3, <1>4 DEF Greatest

-----------------------------------------------------------------------------
(***************************************************************************)
(* The struct aeEventLoop, with handlers of P and their data of D          *)
(***************************************************************************)
Slot(P, D) == [mask : Mask, rfileProc : P, wfileProc : P, clientData : D]
Slots(P, D) == UNION {[0..(n - 1) -> Slot(P, D)] : n \in Nat}
LoopRecord(P, D) ==
    [events : Slots(P, D), setsize : Nat, maxfd : Nat \cup {-1}, stop : {FALSE},
     watched : [Fd -> Mask]]
Loop(P, D) ==
    {l \in LoopRecord(P, D) : l.events \in [0..(l.setsize - 1) -> Slot(P, D)]}

Used(l) == {fd \in DOMAIN l.events : MaskOf(l, fd) # {}}

\* LoopAgrees, of a struct on its own, and nothing is watched that is not open.
Agrees(l) ==
    /\ \A fd \in Fd : l.watched[fd] = IF fd < l.setsize THEN MaskOf(l, fd) ELSE {}
    /\ l.maxfd = IF Used(l) = {} THEN -1 ELSE Greatest(Used(l))
WatchedOpen(l) == \A fd \in Fd : l.watched[fd] # {} => fd \in Open

\* maxfd, without the choice of a greatest one.
LEMMA MaxfdIs ==
  ASSUME NEW P, NEW D, NEW l \in Loop(P, D), NEW m \in Nat \cup {-1},
         m = -1 => Used(l) = {},
         m # -1 => m \in Used(l) /\ \A i \in Used(l) : i <= m
  PROVE  m = IF Used(l) = {} THEN -1 ELSE Greatest(Used(l))
<1>1. Used(l) \subseteq Nat /\ l.setsize \in Nat /\ Used(l) \subseteq 0..l.setsize
  BY DEF Loop, LoopRecord, Used
<1>2. CASE m = -1
  BY <1>2
<1>3. CASE m # -1
  <2>1. Greatest(Used(l)) \in Used(l) /\ \A j \in Used(l) : j <= Greatest(Used(l))
    BY <1>1, <1>3, GreatestOfBounded
  <2> QED BY <1>1, <1>3, <2>1
<1> QED BY <1>2, <1>3

LEMMA MaxfdBounds ==
  ASSUME NEW P, NEW D, NEW l \in Loop(P, D), Agrees(l)
  PROVE  /\ \A i \in Used(l) : i <= l.maxfd
         /\ l.maxfd # -1 => l.maxfd \in Used(l)
         /\ l.maxfd < l.setsize /\ l.setsize \in Nat /\ l.maxfd \in Nat \cup {-1}
<1>1. Used(l) \subseteq Nat /\ l.setsize \in Nat /\ Used(l) \subseteq 0..(l.setsize - 1)
      /\ Used(l) \subseteq 0..l.setsize /\ l.maxfd \in Nat \cup {-1}
  BY DEF Loop, LoopRecord, Used
<1>2. CASE Used(l) = {}
  BY <1>1, <1>2 DEF Agrees
<1>3. CASE Used(l) # {}
  <2>1. Greatest(Used(l)) \in Used(l) /\ \A j \in Used(l) : j <= Greatest(Used(l))
    BY <1>1, <1>3, GreatestOfBounded
  <2> QED BY <1>1, <1>3, <2>1 DEF Agrees
<1> QED BY <1>2, <1>3

\* What aeCreateFileEvent makes of the struct, field by field.
Registered(l, fd, mask, proc, data) ==
    [mask |-> MaskOf(l, fd) \cup mask,
     rfileProc |-> IF AE_READABLE \in mask THEN proc ELSE l.events[fd].rfileProc,
     wfileProc |-> IF AE_WRITABLE \in mask THEN proc ELSE l.events[fd].wfileProc,
     clientData |-> data]

LEMMA LoopFields ==
  ASSUME NEW P, NEW D, NEW l \in Loop(P, D)
  PROVE  /\ l = [events |-> l.events, setsize |-> l.setsize, maxfd |-> l.maxfd, stop |-> FALSE,
                 watched |-> l.watched]
         /\ l.events \in [0..(l.setsize - 1) -> Slot(P, D)] /\ l.setsize \in Nat
         /\ l.maxfd \in Nat \cup {-1} /\ l.watched \in [Fd -> Mask]
  BY DEF Loop, LoopRecord

LEMMA LoopOf ==
  ASSUME NEW P, NEW D, NEW n \in Nat, NEW events \in [0..(n - 1) -> Slot(P, D)],
         NEW m \in Nat \cup {-1}, NEW watched \in [Fd -> Mask],
         NEW l, l = [events |-> events, setsize |-> n, maxfd |-> m, stop |-> FALSE,
                     watched |-> watched]
  PROVE  l \in Loop(P, D)
  BY DEF Loop, LoopRecord, Slots

LEMMA Created ==
  ASSUME NEW P, NEW D, NEW l \in Loop(P, D), NEW fd \in Fd \cap Nat, fd < l.setsize,
         NEW mask \in Mask, NEW proc \in P, NEW data \in D
  PROVE  LET r == aeCreateFileEvent(l, fd, mask, proc, data)
         IN  /\ r \in Loop(P, D) /\ r.setsize = l.setsize
             /\ r.watched = [l.watched EXCEPT ![fd] = MaskOf(l, fd) \cup mask]
             /\ r.events = [l.events EXCEPT ![fd] = Registered(l, fd, mask, proc, data)]
             /\ r.maxfd = IF fd > l.maxfd THEN fd ELSE l.maxfd
<1> DEFINE r == aeCreateFileEvent(l, fd, mask, proc, data)
           events == [l.events EXCEPT ![fd] = Registered(l, fd, mask, proc, data)]
           watched == [l.watched EXCEPT ![fd] = MaskOf(l, fd) \cup mask]
           m == IF fd > l.maxfd THEN fd ELSE l.maxfd
<1>1. /\ l = [events |-> l.events, setsize |-> l.setsize, maxfd |-> l.maxfd, stop |-> FALSE,
              watched |-> l.watched]
      /\ l.events \in [0..(l.setsize - 1) -> Slot(P, D)] /\ l.setsize \in Nat
      /\ l.maxfd \in Nat \cup {-1} /\ l.watched \in [Fd -> Mask]
  BY LoopFields
<1>2. PICK e, n, x, w : l = [events |-> e, setsize |-> n, maxfd |-> x, stop |-> FALSE, watched |-> w]
  BY <1>1
<1>3. r = [events |-> events, setsize |-> l.setsize, maxfd |-> m, stop |-> FALSE, watched |-> watched]
  <2>1. r = [l EXCEPT !.watched = watched, !.events = events, !.maxfd = m]
    BY <1>1 DEF aeCreateFileEvent, Registered
  <2>2. e = l.events /\ n = l.setsize /\ x = l.maxfd /\ w = l.watched
    BY <1>2
  <2> HIDE DEF r, events, watched, m
  <2>3. r = [events |-> events, setsize |-> n, maxfd |-> m, stop |-> FALSE, watched |-> watched]
    BY <1>2, <2>1
  <2> QED BY <2>2, <2>3
<1>4. l.events[fd] \in Slot(P, D)
  BY <1>1
<1>5. Registered(l, fd, mask, proc, data) \in Slot(P, D)
  BY <1>4 DEF Registered, Slot, MaskOf, Mask
<1> HIDE DEF r
<1>6. events \in [0..(l.setsize - 1) -> Slot(P, D)] /\ watched \in [Fd -> Mask] /\ m \in Nat \cup {-1}
  BY <1>1, <1>4, <1>5 DEF MaskOf, Slot, Mask
<1> HIDE DEF events, watched, m
<1>7. r \in Loop(P, D)
  BY <1>1, <1>3, <1>6, LoopOf
<1> QED BY <1>3, <1>7 DEF r, events, watched, m

LEMMA CreatedIs ==
  ASSUME NEW P, NEW D, NEW l, l \in Loop(P, D), NEW fd, fd \in Fd, fd \in Nat, fd < l.setsize,
         NEW mask, mask \in Mask, NEW proc, proc \in P, NEW data, data \in D,
         NEW r, r = aeCreateFileEvent(l, fd, mask, proc, data)
  PROVE  /\ r \in Loop(P, D) /\ r.setsize = l.setsize
         /\ r.events = [l.events EXCEPT ![fd] = Registered(l, fd, mask, proc, data)]
<1>1. fd \in Fd \cap Nat
  OBVIOUS
<1> DEFINE q == aeCreateFileEvent(l, fd, mask, proc, data)
<1>2. /\ q \in Loop(P, D) /\ q.setsize = l.setsize
      /\ q.watched = [l.watched EXCEPT ![fd] = MaskOf(l, fd) \cup mask]
      /\ q.events = [l.events EXCEPT ![fd] = Registered(l, fd, mask, proc, data)]
      /\ q.maxfd = IF fd > l.maxfd THEN fd ELSE l.maxfd
  BY <1>1, Created
<1> HIDE DEF q
<1>3. r = q
  BY DEF q
<1> QED BY <1>2, <1>3

\* A descriptor is registered that is not watched for anything, or is watched.
LEMMA CreatedAgrees ==
  ASSUME NEW P, NEW D, NEW l \in Loop(P, D), NEW fd \in Fd \cap Nat, fd < l.setsize, fd \in Open,
         NEW mask \in Mask \ {{}}, NEW proc \in P, NEW data \in D, Agrees(l), WatchedOpen(l)
  PROVE  /\ Agrees(aeCreateFileEvent(l, fd, mask, proc, data))
         /\ WatchedOpen(aeCreateFileEvent(l, fd, mask, proc, data))
<1> DEFINE r == aeCreateFileEvent(l, fd, mask, proc, data)
<1>1. /\ r \in Loop(P, D) /\ r.setsize = l.setsize
      /\ r.watched = [l.watched EXCEPT ![fd] = MaskOf(l, fd) \cup mask]
      /\ r.events = [l.events EXCEPT ![fd] = Registered(l, fd, mask, proc, data)]
      /\ r.maxfd = IF fd > l.maxfd THEN fd ELSE l.maxfd
  BY Created
<1>2. /\ l.events \in [0..(l.setsize - 1) -> Slot(P, D)] /\ l.setsize \in Nat
      /\ l.maxfd \in Nat \cup {-1} /\ l.watched \in [Fd -> Mask] /\ r.maxfd \in Nat \cup {-1}
  BY <1>1, LoopFields
<1> HIDE DEF r
<1>3. \A i \in 0..(l.setsize - 1) :
        MaskOf(r, i) = IF i = fd THEN MaskOf(l, fd) \cup mask ELSE MaskOf(l, i)
  BY <1>1, <1>2 DEF MaskOf, Registered
<1>4. \A i \in Fd : r.watched[i] = IF i < r.setsize THEN MaskOf(r, i) ELSE {}
  <2> SUFFICES ASSUME NEW i \in Fd PROVE r.watched[i] = IF i < r.setsize THEN MaskOf(r, i) ELSE {}
    OBVIOUS
  <2>1. i \in Nat
    BY EventLoopAssumption
  <2>2. l.watched[i] = IF i < l.setsize THEN MaskOf(l, i) ELSE {}
    BY DEF Agrees
  <2>3. r.watched[i] = IF i = fd THEN MaskOf(l, fd) \cup mask ELSE l.watched[i]
    BY <1>1, <1>2
  <2>4. i < l.setsize => MaskOf(r, i) = IF i = fd THEN MaskOf(l, fd) \cup mask ELSE MaskOf(l, i)
    BY <1>2, <1>3, <2>1
  <2> QED BY <1>1, <2>2, <2>3, <2>4
<1>5. WatchedOpen(r)
  BY <1>1, <1>2 DEF WatchedOpen
<1>6. Used(r) = Used(l) \cup {fd}
  BY <1>1, <1>2, <1>3 DEF Used, Mask
<1>7. r.maxfd = IF Used(r) = {} THEN -1 ELSE Greatest(Used(r))
  <2>1. \A i \in Used(l) : i <= l.maxfd /\ i \in Nat
    BY <1>2, MaxfdBounds DEF Used
  <2>2. l.maxfd # -1 => l.maxfd \in Used(l)
    BY MaxfdBounds
  <2>3. r.maxfd \in Used(r) /\ \A i \in Used(r) : i <= r.maxfd
    BY <1>1, <1>2, <1>6, <2>1, <2>2
  <2> QED BY <1>1, <1>2, <2>3, MaxfdIs
<1> QED BY <1>4, <1>5, <1>7 DEF Agrees, r

\* Deleting the events of a descriptor, field by field.
Lessened(l, fd, mask) ==
    [mask |-> MaskOf(l, fd) \ mask, rfileProc |-> l.events[fd].rfileProc,
     wfileProc |-> l.events[fd].wfileProc, clientData |-> l.events[fd].clientData]

\* MaxAfter, from the events alone.
Below(events, m) == {i \in 0..(m - 1) : events[i].mask # {}}
MaxLeft(events, fd, m) ==
    IF fd # m \/ events[fd].mask # {} THEN m
    ELSE IF Below(events, m) = {} THEN -1 ELSE Greatest(Below(events, m))

LEMMA MaxLeftIs ==
  ASSUME NEW events, NEW fd, NEW m \in Nat \cup {-1}
  PROVE  MaxLeft(events, fd, m) \in Nat \cup {-1}
<1>1. CASE Below(events, m) # {} /\ m # -1
  <2>1. Below(events, m) \subseteq 0..m /\ m \in Nat
    BY <1>1 DEF Below
  <2>2. Greatest(Below(events, m)) \in Below(events, m)
    BY <1>1, <2>1, GreatestOfBounded
  <2> QED BY <2>1, <2>2 DEF MaxLeft
<1>2. CASE Below(events, m) = {} \/ m = -1
  BY <1>2 DEF MaxLeft, Below
<1> QED BY <1>1, <1>2

LEMMA Deleted ==
  ASSUME NEW P, NEW D, NEW l \in Loop(P, D), NEW fd \in Fd \cap Nat, NEW mask \in Mask
  PROVE  LET r == aeDeleteFileEvent(l, fd, mask)
         IN  /\ r \in Loop(P, D) /\ r.setsize = l.setsize
             /\ fd >= l.setsize => r = l
             /\ fd < l.setsize =>
                    /\ r.events = [l.events EXCEPT ![fd] = Lessened(l, fd, mask)]
                    /\ MaskOf(l, fd) = {} => r = l
                    /\ MaskOf(l, fd) # {} =>
                        /\ r.watched = IF EpollAccepts(l, fd)
                                       THEN [l.watched EXCEPT ![fd] = MaskOf(l, fd) \ mask]
                                       ELSE l.watched
                        /\ r.maxfd = MaxLeft(r.events, fd, l.maxfd)
<1> DEFINE r == aeDeleteFileEvent(l, fd, mask)
           left == MaskOf(l, fd) \ mask
           events == [l.events EXCEPT ![fd] = Lessened(l, fd, mask)]
           watched == IF EpollAccepts(l, fd) THEN [l.watched EXCEPT ![fd] = left] ELSE l.watched
           d == [l EXCEPT !.events[fd].mask = left,
                          !.watched[fd] = IF EpollAccepts(l, fd) THEN left ELSE @]
<1>1. /\ l = [events |-> l.events, setsize |-> l.setsize, maxfd |-> l.maxfd, stop |-> FALSE,
              watched |-> l.watched]
      /\ l.events \in [0..(l.setsize - 1) -> Slot(P, D)] /\ l.setsize \in Nat
      /\ l.maxfd \in Nat \cup {-1} /\ l.watched \in [Fd -> Mask]
  BY LoopFields
<1>2. CASE fd >= l.setsize
  BY <1>1, <1>2 DEF aeDeleteFileEvent
<1>3. ASSUME fd < l.setsize
      PROVE  [l.events EXCEPT ![fd].mask = left] = events /\ (MaskOf(l, fd) = {} => events = l.events)
  <2>1. l.events[fd] \in Slot(P, D)
    BY <1>1, <1>3
  <2>2. [l.events[fd] EXCEPT !.mask = left] = Lessened(l, fd, mask)
    BY <2>1 DEF Lessened, Slot
  <2>3. MaskOf(l, fd) = {} => Lessened(l, fd, mask) = l.events[fd]
    BY <2>1 DEF Lessened, Slot, MaskOf
  <2> QED BY <1>1, <2>2, <2>3
<1>4. CASE fd < l.setsize /\ MaskOf(l, fd) = {}
  BY <1>1, <1>3, <1>4 DEF aeDeleteFileEvent
<1>5. CASE fd < l.setsize /\ MaskOf(l, fd) # {}
  <2>1. d = [l EXCEPT !.events = events, !.watched = watched]
    BY <1>1, <1>3, <1>5
  <2>2. PICK e, n, x, w : l = [events |-> e, setsize |-> n, maxfd |-> x, stop |-> FALSE, watched |-> w]
    BY <1>1
  <2>3. n = l.setsize /\ x = l.maxfd
    BY <2>2
  <2>4. r = [d EXCEPT !.maxfd = MaxAfter(d, fd)]
    BY <1>1, <1>5 DEF aeDeleteFileEvent
  <2> HIDE DEF d, events, watched, r
  <2>5. d = [events |-> events, setsize |-> n, maxfd |-> x, stop |-> FALSE, watched |-> watched]
    BY <2>1, <2>2
  <2>6. r = [events |-> events, setsize |-> l.setsize, maxfd |-> MaxAfter(d, fd), stop |-> FALSE,
             watched |-> watched]
    BY <2>3, <2>4, <2>5
  <2>7. MaxAfter(d, fd) = MaxLeft(d.events, fd, d.maxfd)
    BY DEF MaxAfter, MaxLeft, Below, MaskOf
  <2>8. r.maxfd = MaxLeft(r.events, fd, l.maxfd)
    BY <2>3, <2>5, <2>6, <2>7
  <2>9. r.maxfd \in Nat \cup {-1}
    BY <1>1, <2>8, MaxLeftIs
  <2>10. /\ events \in [0..(l.setsize - 1) -> Slot(P, D)] /\ watched \in [Fd -> Mask]
    <3>1. l.events[fd] \in Slot(P, D)
      BY <1>1, <1>5
    <3>2. Lessened(l, fd, mask) \in Slot(P, D) /\ left \in Mask
      BY <3>1 DEF Lessened, Slot, MaskOf, Mask
    <3> QED BY <1>1, <3>2 DEF events, watched
  <2>11. r.events = events /\ r.watched = watched /\ r.setsize = l.setsize
    BY <2>6
  <2>12. r = [events |-> events, setsize |-> l.setsize, maxfd |-> r.maxfd, stop |-> FALSE, watched |-> watched]
    BY <2>6
  <2>13. r \in Loop(P, D)
    BY <1>1, <2>9, <2>10, <2>12, LoopOf
  <2>14. \/ EpollAccepts(l, fd) /\ r.watched = [l.watched EXCEPT ![fd] = MaskOf(l, fd) \ mask]
         \/ ~ EpollAccepts(l, fd) /\ r.watched = l.watched
    BY <2>11 DEF watched
  <2>15. r.events = [l.events EXCEPT ![fd] = Lessened(l, fd, mask)]
    BY <2>11 DEF events
  <2>16. ~ (fd >= l.setsize)
    BY <1>1, <1>5
  <2> HIDE DEF left
  <2> QED BY <1>5, <2>8, <2>11, <2>13, <2>14, <2>15, <2>16 DEF r
<1> QED BY <1>1, <1>2, <1>4, <1>5

LEMMA DeletedIs ==
  ASSUME NEW P, NEW D, NEW l, l \in Loop(P, D), NEW fd, fd \in Fd, fd \in Nat, fd < l.setsize,
         NEW mask, mask \in Mask, NEW r, r = aeDeleteFileEvent(l, fd, mask)
  PROVE  /\ r \in Loop(P, D) /\ r.setsize = l.setsize
         /\ r.events = [l.events EXCEPT ![fd] = Lessened(l, fd, mask)]
<1>1. fd \in Fd \cap Nat
  OBVIOUS
<1> DEFINE q == aeDeleteFileEvent(l, fd, mask)
<1>2. /\ q \in Loop(P, D) /\ q.setsize = l.setsize
      /\ fd >= l.setsize => q = l
      /\ fd < l.setsize =>
             /\ q.events = [l.events EXCEPT ![fd] = Lessened(l, fd, mask)]
             /\ MaskOf(l, fd) = {} => q = l
             /\ MaskOf(l, fd) # {} =>
                 /\ q.watched = IF EpollAccepts(l, fd)
                                THEN [l.watched EXCEPT ![fd] = MaskOf(l, fd) \ mask]
                                ELSE l.watched
                 /\ q.maxfd = MaxLeft(q.events, fd, l.maxfd)
  BY <1>1, Deleted
<1> HIDE DEF q
<1>3. r = q
  BY DEF q
<1> QED BY <1>2, <1>3

LEMMA DeletedAgrees ==
  ASSUME NEW P, NEW D, NEW l \in Loop(P, D), NEW fd \in Fd \cap Nat, NEW mask \in Mask,
         Agrees(l), WatchedOpen(l)
  PROVE  /\ Agrees(aeDeleteFileEvent(l, fd, mask))
         /\ WatchedOpen(aeDeleteFileEvent(l, fd, mask))
<1> DEFINE r == aeDeleteFileEvent(l, fd, mask)
<1>1. CASE r = l
  BY <1>1
<1>2. CASE r # l
  <2>1. fd < l.setsize /\ MaskOf(l, fd) # {}
    <3>1. fd >= l.setsize => r = l
      BY DEF aeDeleteFileEvent
    <3>2. fd < l.setsize /\ MaskOf(l, fd) = {} => r = l
      BY DEF aeDeleteFileEvent
    <3>3. l.setsize \in Nat
      BY LoopFields
    <3> HIDE DEF r
    <3> QED BY <1>2, <3>1, <3>2, <3>3
  <2>2. /\ l.events \in [0..(l.setsize - 1) -> Slot(P, D)] /\ l.setsize \in Nat
        /\ l.maxfd \in Nat \cup {-1} /\ l.watched \in [Fd -> Mask]
    BY LoopFields
  <2>3. EpollAccepts(l, fd)
    <3>1. l.watched[fd] = MaskOf(l, fd)
      BY <2>1 DEF Agrees
    <3>2. fd \in Open
      BY <2>1, <3>1 DEF WatchedOpen
    <3> QED BY <3>1, <3>2 DEF EpollAccepts
  <2>4. /\ r \in Loop(P, D) /\ r.setsize = l.setsize
        /\ r.events = [l.events EXCEPT ![fd] = Lessened(l, fd, mask)]
        /\ r.watched = [l.watched EXCEPT ![fd] = MaskOf(l, fd) \ mask]
        /\ r.maxfd = MaxLeft(r.events, fd, l.maxfd)
    BY <2>1, <2>3, Deleted
  <2>5. r.maxfd \in Nat \cup {-1}
    BY <2>4, LoopFields
  <2> HIDE DEF r
  <2>6. \A i \in 0..(l.setsize - 1) :
          MaskOf(r, i) = IF i = fd THEN MaskOf(l, fd) \ mask ELSE MaskOf(l, i)
    BY <2>2, <2>4 DEF MaskOf, Lessened
  <2>7. \A i \in Fd : r.watched[i] = IF i < r.setsize THEN MaskOf(r, i) ELSE {}
    <3> SUFFICES ASSUME NEW i \in Fd PROVE r.watched[i] = IF i < r.setsize THEN MaskOf(r, i) ELSE {}
      OBVIOUS
    <3>1. i \in Nat
      BY EventLoopAssumption
    <3>2. l.watched[i] = IF i < l.setsize THEN MaskOf(l, i) ELSE {}
      BY DEF Agrees
    <3>3. r.watched[i] = IF i = fd THEN MaskOf(l, fd) \ mask ELSE l.watched[i]
      BY <2>2, <2>4
    <3>4. i < l.setsize => MaskOf(r, i) = IF i = fd THEN MaskOf(l, fd) \ mask ELSE MaskOf(l, i)
      BY <2>2, <2>6, <3>1
    <3> QED BY <2>1, <2>4, <3>2, <3>3, <3>4
  <2>8. WatchedOpen(r)
    <3>1. \A i \in Fd : r.watched[i] # {} => l.watched[i] # {}
      BY <2>1, <2>2, <2>4 DEF Agrees
    <3> QED BY <3>1 DEF WatchedOpen
  <2>9. Used(r) = IF MaskOf(r, fd) = {} THEN Used(l) \ {fd} ELSE Used(l)
    <3>1. DOMAIN r.events = 0..(l.setsize - 1) /\ DOMAIN l.events = 0..(l.setsize - 1)
          /\ fd \in 0..(l.setsize - 1)
      BY <2>1, <2>2, <2>4
    <3>2. MaskOf(r, fd) = MaskOf(l, fd) \ mask
      BY <2>6, <3>1
    <3> QED BY <2>1, <2>6, <3>1, <3>2 DEF Used
  <2>10. /\ \A i \in Used(l) : i <= l.maxfd /\ i \in Nat
         /\ l.maxfd # -1 => l.maxfd \in Used(l)
    BY <2>2, MaxfdBounds DEF Used
  <2>11. fd \in Used(l) /\ l.maxfd # -1 /\ l.maxfd \in Used(l)
    <3>1. fd \in Used(l)
      BY <2>1, <2>2 DEF Used
    <3>2. l.maxfd # -1
      BY <2>2, <2>10, <3>1
    <3> QED BY <2>10, <3>1, <3>2
  <2>12. r.maxfd = IF Used(r) = {} THEN -1 ELSE Greatest(Used(r))
    <3>1. CASE fd # l.maxfd \/ MaskOf(r, fd) # {}
      <4>1. r.maxfd = l.maxfd
        BY <2>4, <3>1 DEF MaxLeft, MaskOf
      <4>2. r.maxfd \in Used(r) /\ \A i \in Used(r) : i <= r.maxfd
        BY <2>9, <2>10, <2>11, <3>1, <4>1
      <4>3. r.maxfd # -1
        BY <2>11, <4>1
      <4> QED BY <2>4, <2>5, <4>2, <4>3, MaxfdIs
    <3>2. CASE fd = l.maxfd /\ MaskOf(r, fd) = {}
      <4>1. Below(r.events, l.maxfd) = Used(r)
        <5>1. Used(r) = Used(l) \ {l.maxfd}
          BY <2>9, <3>2
        <5>2. \A i \in Used(r) : i \in 0..(l.maxfd - 1)
          BY <2>2, <2>10, <5>1
        <5>3. l.maxfd \in Nat /\ l.maxfd < l.setsize
          BY <2>2, <2>11, MaxfdBounds
        <5>4. \A i \in 0..(l.maxfd - 1) : i \in DOMAIN r.events
          BY <2>2, <2>4, <5>3
        <5> QED BY <5>2, <5>4 DEF Below, Used, MaskOf
      <4>2. r.events[fd].mask = {}
        BY <3>2 DEF MaskOf
      <4>3. MaxLeft(r.events, fd, l.maxfd)
              = IF Below(r.events, l.maxfd) = {} THEN -1 ELSE Greatest(Below(r.events, l.maxfd))
        BY <3>2, <4>2 DEF MaxLeft
      <4> QED BY <2>4, <4>1, <4>3
    <3> QED BY <3>1, <3>2
  <2> QED BY <2>7, <2>8, <2>12 DEF Agrees, r
<1> QED BY <1>1, <1>2

LEMMA ResizedAgrees ==
  ASSUME NEW P, NEW D, NULL \in P, NULL \in D, NEW l \in Loop(P, D), NEW n \in Nat,
         Agrees(l), WatchedOpen(l)
  PROVE  /\ aeResizeSetSize(l, n) \in Loop(P, D)
         /\ Agrees(aeResizeSetSize(l, n)) /\ WatchedOpen(aeResizeSetSize(l, n))
<1> DEFINE r == aeResizeSetSize(l, n)
<1>1. CASE n = l.setsize \/ l.maxfd >= n
  BY <1>1 DEF aeResizeSetSize
<1>2. CASE ~ (n = l.setsize \/ l.maxfd >= n)
  <2> DEFINE events == [fd \in 0..(n - 1) |-> IF fd <= l.maxfd THEN l.events[fd] ELSE Unset]
  <2>1. /\ l = [events |-> l.events, setsize |-> l.setsize, maxfd |-> l.maxfd, stop |-> FALSE,
                watched |-> l.watched]
        /\ l.events \in [0..(l.setsize - 1) -> Slot(P, D)] /\ l.setsize \in Nat
        /\ l.maxfd \in Nat \cup {-1} /\ l.watched \in [Fd -> Mask]
    BY LoopFields
  <2>2. /\ \A i \in Used(l) : i <= l.maxfd /\ i \in Nat
        /\ l.maxfd # -1 => l.maxfd \in Used(l)
        /\ l.maxfd < l.setsize /\ l.maxfd < n
    BY <1>2, <2>1, MaxfdBounds DEF Used
  <2>3. r = [l EXCEPT !.setsize = n, !.events = events]
    BY <1>2 DEF aeResizeSetSize
  <2>4. PICK e, k, x, w : l = [events |-> e, setsize |-> k, maxfd |-> x, stop |-> FALSE, watched |-> w]
    BY <2>1
  <2>5. x = l.maxfd /\ w = l.watched
    BY <2>4
  <2> HIDE DEF r, events
  <2>6. r = [events |-> events, setsize |-> n, maxfd |-> l.maxfd, stop |-> FALSE, watched |-> l.watched]
    BY <2>3, <2>4, <2>5
  <2>7. Unset \in Slot(P, D)
    BY DEF Unset, Slot, Mask
  <2>8. events \in [0..(n - 1) -> Slot(P, D)]
    BY <2>1, <2>2, <2>7 DEF events
  <2>9. r \in Loop(P, D)
    BY <2>1, <2>6, <2>8, LoopOf
  <2>10. \A i \in 0..(n - 1) : MaskOf(r, i) = IF i <= l.maxfd THEN MaskOf(l, i) ELSE {}
    BY <2>6 DEF MaskOf, events, Unset
  <2>11. \A i \in 0..(l.setsize - 1) : i > l.maxfd => MaskOf(l, i) = {}
    BY <2>1, <2>2 DEF Used
  <2>12. \A i \in Fd : r.watched[i] = IF i < r.setsize THEN MaskOf(r, i) ELSE {}
    <3> SUFFICES ASSUME NEW i \in Fd PROVE r.watched[i] = IF i < r.setsize THEN MaskOf(r, i) ELSE {}
      OBVIOUS
    <3>1. i \in Nat /\ r.watched = l.watched /\ r.setsize = n
      BY <2>6, EventLoopAssumption
    <3>2. l.watched[i] = IF i < l.setsize THEN MaskOf(l, i) ELSE {}
      BY DEF Agrees
    <3>3. CASE i <= l.maxfd
      BY <2>1, <2>2, <2>10, <3>1, <3>2, <3>3
    <3>4. CASE i > l.maxfd
      <4>1. l.watched[i] = {}
        BY <2>1, <2>11, <3>1, <3>2, <3>4
      <4>2. i < n => MaskOf(r, i) = {}
        BY <2>1, <2>10, <3>1, <3>4
      <4> QED BY <3>1, <4>1, <4>2
    <3> QED BY <2>1, <3>1, <3>3, <3>4
  <2>13. WatchedOpen(r)
    BY <2>6 DEF WatchedOpen
  <2>14. Used(r) = Used(l)
    <3>1. DOMAIN r.events = 0..(n - 1) /\ DOMAIN l.events = 0..(l.setsize - 1)
      BY <2>1, <2>6, <2>8
    <3>2. ASSUME NEW i \in Used(l) PROVE i \in Used(r)
      <4>1. i \in 0..(l.setsize - 1) /\ i <= l.maxfd /\ MaskOf(l, i) # {}
        BY <2>2, <3>1 DEF Used
      <4>2. i \in 0..(n - 1)
        BY <2>1, <2>2, <4>1
      <4> QED BY <2>10, <3>1, <4>1, <4>2 DEF Used
    <3>3. ASSUME NEW i \in Used(r) PROVE i \in Used(l)
      <4>1. i \in 0..(n - 1) /\ MaskOf(r, i) # {}
        BY <3>1 DEF Used
      <4>2. i <= l.maxfd /\ MaskOf(l, i) # {}
        BY <2>10, <4>1
      <4>3. i \in 0..(l.setsize - 1)
        BY <2>1, <2>2, <4>1, <4>2
      <4> QED BY <3>1, <4>2, <4>3 DEF Used
    <3> QED BY <3>2, <3>3
  <2>15. r.maxfd = IF Used(r) = {} THEN -1 ELSE Greatest(Used(r))
    BY <2>6, <2>14 DEF Agrees
  <2> QED BY <2>9, <2>12, <2>13, <2>15 DEF Agrees, r
<1> QED BY <1>1, <1>2

LEMMA ClosedUnwatched ==
  ASSUME NEW P, NEW D, NEW l \in Loop(P, D), NEW fd \in Fd, l.watched[fd] = {}
  PROVE  Closed(l, fd) = l
  BY LoopFields DEF Closed

LEMMA ClosedLoop ==
  ASSUME NEW P, NEW D, NEW l \in Loop(P, D), NEW fd \in Fd
  PROVE  /\ Closed(l, fd) \in Loop(P, D) /\ Closed(l, fd).setsize = l.setsize
         /\ Closed(l, fd).events = l.events
<1>1. PICK e, n, m, w :
          /\ e = l.events /\ n = l.setsize /\ m = l.maxfd /\ w = l.watched
          /\ l = [events |-> e, setsize |-> n, maxfd |-> m, stop |-> FALSE, watched |-> w]
          /\ e \in [0..(n - 1) -> Slot(P, D)] /\ n \in Nat
          /\ m \in Nat \cup {-1} /\ w \in [Fd -> Mask]
  BY LoopFields
<1> DEFINE v == [w EXCEPT ![fd] = {}]
<1>2. v \in [Fd -> Mask]
  BY <1>1 DEF Mask
<1> HIDE DEF v
<1> DEFINE r == Closed(l, fd)
<1>3. r = [l EXCEPT !.watched = v]
  BY <1>1 DEF Closed, v
<1> HIDE DEF r
<1>4. r = [events |-> e, setsize |-> n, maxfd |-> m, stop |-> FALSE, watched |-> v]
  <2>1. PICK a, b, d, f : l = [events |-> a, setsize |-> b, maxfd |-> d, stop |-> FALSE, watched |-> f]
    BY <1>1
  <2>2. e = a /\ n = b /\ m = d
    BY <1>1, <2>1
  <2>3. r = [events |-> a, setsize |-> b, maxfd |-> d, stop |-> FALSE, watched |-> v]
    BY <1>3, <2>1
  <2> QED BY <2>2, <2>3
<1>5. r \in Loop(P, D)
  BY <1>1, <1>2, <1>4, LoopOf
<1> QED BY <1>1, <1>4, <1>5 DEF r

-----------------------------------------------------------------------------
(***************************************************************************)
(* Any code that uses the loop                                             *)
(***************************************************************************)
AnyLoop == Loop(Proc \cup {NULL}, Data \cup {NULL})

AnyInv == /\ loop \in AnyLoop
          /\ Agrees(loop) /\ WatchedOpen(loop)
          /\ DOMAIN file = Fd

LEMMA NewLoop ==
  ASSUME NEW P, NEW D, NULL \in P, NULL \in D, NEW n \in Nat
  PROVE  /\ aeCreateEventLoop(n) \in Loop(P, D) /\ Agrees(aeCreateEventLoop(n))
         /\ WatchedOpen(aeCreateEventLoop(n)) /\ aeCreateEventLoop(n).setsize = n
         /\ \A fd \in 0..(n - 1) : aeCreateEventLoop(n).events[fd] = Unset
<1> DEFINE l == aeCreateEventLoop(n)
<1>1. Unset \in Slot(P, D)
  BY DEF Unset, Slot, Mask
<1>2. l = [events |-> [fd \in 0..(n - 1) |-> Unset], setsize |-> n, maxfd |-> -1, stop |-> FALSE,
           watched |-> [fd \in Fd |-> {}]]
  BY DEF aeCreateEventLoop
<1> HIDE DEF l
<1>3. l \in Loop(P, D)
  BY <1>1, <1>2, LoopOf DEF Mask
<1>4. Used(l) = {}
  BY <1>2 DEF Used, MaskOf, Unset
<1>5. Agrees(l) /\ WatchedOpen(l)
  <2>1. \A fd \in 0..(n - 1) : MaskOf(l, fd) = {}
    BY <1>2 DEF MaskOf, Unset
  <2>2. \A fd \in Fd : l.watched[fd] = IF fd < l.setsize THEN MaskOf(l, fd) ELSE {}
    <3> SUFFICES ASSUME NEW fd \in Fd, fd < n PROVE MaskOf(l, fd) = {}
      BY <1>2
    <3>1. fd \in 0..(n - 1)
      BY EventLoopAssumption
    <3> QED BY <2>1, <3>1
  <2>3. l.maxfd = -1 /\ \A fd \in Fd : l.watched[fd] = {}
    BY <1>2
  <2> QED BY <1>4, <2>2, <2>3 DEF Agrees, WatchedOpen
<1> QED BY <1>2, <1>3, <1>5 DEF l

LEMMA AnyNextInv ==
  ASSUME EventLoopAssumption, AnyInv, [AnyNext]_eventVars
  PROVE  AnyInv'
<1> DEFINE P == Proc \cup {NULL}
           D == Data \cup {NULL}
<1>0. NULL \in P /\ NULL \in D /\ Proc \subseteq P /\ Data \subseteq D
      /\ loop \in Loop(P, D) /\ Agrees(loop) /\ WatchedOpen(loop) /\ DOMAIN file = Fd
  BY DEF AnyInv, AnyLoop
<1>1. AnyInv' <=> /\ loop' \in Loop(P, D) /\ Agrees(loop') /\ DOMAIN file' = Fd
                  /\ WatchedOpen(loop)'
  BY DEF AnyInv, AnyLoop, Agrees, Used, MaskOf, Loop, LoopRecord, Slots, Slot, Mask
<1> HIDE DEF P, D
<1>2. CASE AnyOpen
  <2>1. UNCHANGED loop /\ file' = [file EXCEPT ![Least(Free)] = "open"] /\ Free # {}
    BY <1>2 DEF AnyOpen
  <2>2. Least(Free) \in Free
    BY <2>1, EventLoopAssumption, LeastOfNaturals DEF Free
  <2>3. \A fd \in Open : file'[fd] = file[fd]
    BY <1>0, <2>1, <2>2 DEF Free, Open
  <2>4. WatchedOpen(loop)'
    BY <1>0, <2>1, <2>3 DEF WatchedOpen, Open
  <2> QED BY <1>0, <1>1, <2>1, <2>4
<1>3. CASE AnyCreate
  <2>1. PICK fd \in Open, mask \in Mask \ {{}}, p \in Proc, d \in Data :
            Registrable(loop, fd) /\ loop' = aeCreateFileEvent(loop, fd, mask, p, d)
    BY <1>3 DEF AnyCreate
  <2>2. UNCHANGED file
    BY <1>3 DEF AnyCreate
  <2>3. fd \in Fd \cap Nat /\ fd < loop.setsize /\ p \in P /\ d \in D
    BY <1>0, <2>1 DEF Open, Registrable, EventLoopAssumption
  <2> DEFINE l == aeCreateFileEvent(loop, fd, mask, p, d)
  <2>4. l \in Loop(P, D) /\ Agrees(l) /\ WatchedOpen(l)
    BY <1>0, <2>3, Created, CreatedAgrees
  <2>5. loop' = l
    BY <2>1
  <2> HIDE DEF l
  <2>6. WatchedOpen(loop)'
    BY <2>2, <2>4, <2>5 DEF WatchedOpen, Open
  <2> QED BY <1>0, <1>1, <2>2, <2>4, <2>5, <2>6
<1>4. CASE AnyDelete
  <2>1. PICK fd \in Fd, mask \in Mask \ {{}} : loop' = aeDeleteFileEvent(loop, fd, mask)
    BY <1>4 DEF AnyDelete
  <2>2. UNCHANGED file /\ fd \in Fd \cap Nat
    BY <1>4 DEF AnyDelete, EventLoopAssumption
  <2> DEFINE l == aeDeleteFileEvent(loop, fd, mask)
  <2>3. l \in Loop(P, D) /\ Agrees(l) /\ WatchedOpen(l)
    BY <1>0, <2>2, Deleted, DeletedAgrees
  <2>4. loop' = l
    BY <2>1
  <2> HIDE DEF l
  <2>5. WatchedOpen(loop)'
    BY <2>2, <2>3, <2>4 DEF WatchedOpen, Open
  <2> QED BY <1>0, <1>1, <2>2, <2>3, <2>4, <2>5
<1>5. CASE AnyClose
  <2>1. PICK fd \in Open :
            /\ fd < loop.setsize => MaskOf(loop, fd) = {}
            /\ file' = [file EXCEPT ![fd] = CLOSED] /\ loop' = Closed(loop, fd)
    BY <1>5 DEF AnyClose
  <2>2. loop.watched[fd] = {} /\ fd \in Fd
    BY <1>0, <2>1 DEF Agrees, Open
  <2>3. loop' = loop
    BY <1>0, <2>1, <2>2, ClosedUnwatched
  <2>4. \A i \in Open \ {fd} : file'[i] = file[i]
    BY <2>1
  <2>5. WatchedOpen(loop)'
    BY <1>0, <2>2, <2>3, <2>4 DEF WatchedOpen, Open
  <2> QED BY <1>0, <1>1, <2>1, <2>3, <2>5
<1>6. CASE AnyResize
  <2>1. PICK n \in SetSize : loop' = aeResizeSetSize(loop, n)
    BY <1>6 DEF AnyResize
  <2>2. UNCHANGED file /\ n \in Nat
    BY <1>6 DEF AnyResize, EventLoopAssumption
  <2> DEFINE l == aeResizeSetSize(loop, n)
  <2>3. l \in Loop(P, D) /\ Agrees(l) /\ WatchedOpen(l)
    BY <1>0, <2>2, ResizedAgrees
  <2>4. loop' = l
    BY <2>1
  <2> HIDE DEF l
  <2>5. WatchedOpen(loop)'
    BY <2>2, <2>3, <2>4 DEF WatchedOpen, Open
  <2> QED BY <1>0, <1>1, <2>2, <2>3, <2>4, <2>5
<1>7. CASE UNCHANGED eventVars
  BY <1>0, <1>1, <1>7 DEF eventVars, WatchedOpen, Open
<1> QED BY <1>2, <1>3, <1>4, <1>5, <1>6, <1>7 DEF AnyNext

\* Whatever code does with the loop - registering, deleting, resizing, closing what
\* it has deleted - the masks are what epoll watches and maxfd is the largest
\* descriptor in use (ae.c: aeCreateFileEvent, aeDeleteFileEvent, aeResizeSetSize).
THEOREM LoopAlwaysAgrees == AnySpec => []LoopAgrees
<1>1. AnyInit => AnyInv
  <2> SUFFICES ASSUME AnyInit PROVE AnyInv
    OBVIOUS
  <2>1. PICK n \in SetSize : loop = aeCreateEventLoop(n)
    BY DEF AnyInit
  <2>2. n \in Nat /\ NULL \in Proc \cup {NULL} /\ NULL \in Data \cup {NULL}
    BY EventLoopAssumption
  <2> QED BY <2>1, <2>2, NewLoop DEF AnyInit, AnyInv, AnyLoop
<1>2. AnyInv /\ [AnyNext]_eventVars => AnyInv'
  BY EventLoopAssumption, AnyNextInv
<1>3. AnyInv => LoopAgrees
  BY DEF AnyInv, Agrees, Used, LoopAgrees
<1> QED BY <1>1, <1>2, <1>3, PTL DEF AnySpec

-----------------------------------------------------------------------------
(***************************************************************************)
(* The server                                                              *)
(***************************************************************************)
Handlers_ == {readQueryFromClient, acceptTcpHandler, NULL}
ClientData == Conn \cup {NULL}
ServerLoop == Loop(Handlers_, ClientData)
NetState == {"new", "backlog", "open", "finished", "reset", "gone"}
Net == [Conn -> [state : NetState, input : BOOLEAN, room : Int]]
Clients == [Conn -> [state : {"none", "alive", "freed"}, fd : Nat \cup {-1}]]
Events == Seq([fd : Fd, mask : Mask, rfired : BOOLEAN])

\* How the event of a client looks.
ClientEvent(c) ==
    [mask |-> {AE_READABLE}, rfileProc |-> readQueryFromClient, wfileProc |-> NULL,
     clientData |-> c]

ServerTypeOK ==
    /\ loop \in ServerLoop /\ file = [fd \in Fd |-> file[fd]]
    /\ net \in Net /\ client \in Clients /\ fired \in Events

\* A client has its own descriptor within the array, and was accepted; nobody waits
\* for a socket to become writable.
ClientsApart ==
    /\ \A c \in Alive :
        /\ client[c].fd \in Fd /\ client[c].fd < loop.setsize
        /\ file[client[c].fd] = c
        /\ loop.events[client[c].fd] = ClientEvent(c)
        /\ net[c].state \notin {"new", "backlog"}
    /\ \A fd \in Fd : file[fd] \in Conn => file[fd] \in Alive /\ client[file[fd]].fd = fd
    /\ \A fd \in 0..(loop.setsize - 1) : loop.events[fd].wfileProc = NULL

\* What is still to be written and what was add up to the reply, until its
\* connection is reset: from then on the reply cannot end.
ReplyInv ==
    Replying =>
        /\ reply \in [to : Conn, total : Nat, pos : Int, delivered : Nat, length : Nat \ {0}]
        /\ \/ reply.total + reply.delivered = reply.length
           \/ reply.total > 0 /\ net[reply.to].state = "reset"

ServerInv == ServerTypeOK /\ ClientsApart /\ ReplyInv

\* Steps after which the descriptors and the clients are what they were.
LEMMA OthersKeepClients ==
  ASSUME ServerTypeOK, ClientsApart, UNCHANGED <<loop, file, client>>, net' \in Net,
         fired' \in Events,
         \A c \in Conn : net'[c].state \in {"new", "backlog"} => net[c].state \in {"new", "backlog"}
  PROVE  ServerTypeOK' /\ ClientsApart'
<1>1. ServerTypeOK'
  BY DEF ServerTypeOK, ServerLoop, Loop, LoopRecord, Slots, Slot, Mask
<1>2. Alive' = Alive /\ \A c \in Alive : c \in Conn
  BY DEF Alive
<1>3. ClientsApart'
  BY <1>2 DEF ClientsApart, ClientEvent
<1> QED BY <1>1, <1>3

LEMMA FiredKeeps ==
  ASSUME fired \in Events, fired # << >>
  PROVE  /\ At \in Fd
         /\ AfterRead => fired' \in Events
         /\ AfterEvent => fired' \in Events
<1> DEFINE E == [fd : Fd, mask : Mask, rfired : BOOLEAN]
<1>1. Head(fired) \in E /\ Tail(fired) \in Seq(E)
  BY HeadTailProperties DEF Events
<1>2. At \in Fd
  BY <1>1 DEF At
<1>3. [Head(fired) EXCEPT !.rfired = TRUE] \in E
  BY <1>1
<1> HIDE DEF E
<1>4. AfterRead => fired' \in Seq(E)
  BY <1>1, <1>3, ConcatProperties DEF AfterRead
<1>5. AfterEvent => fired' \in Seq(E)
  BY <1>1 DEF AfterEvent
<1> QED BY <1>2, <1>4, <1>5 DEF E, Events

\* epoll reports events of descriptors.
LEMMA PollKeeps ==
  ASSUME EventLoopAssumption, Poll
  PROVE  fired' \in Events
<1> DEFINE E == [fd : Fd, mask : Mask, rfired : BOOLEAN]
           ready == {fd \in Fd : loop.watched[fd] # {} /\ ReadableNow(fd)}
           mask(fd) == {AE_READABLE} \cup IF HangsUp(fd) THEN {AE_WRITABLE} ELSE {}
           S == {Event(fd, mask(fd)) : fd \in ready}
           f == [fd \in ready |-> Event(fd, mask(fd))]
<1>1. fired' \in Orders(S)
  BY DEF Poll, PollAll, aeApiPoll
<1>2. \A fd \in ready : Event(fd, mask(fd)) \in E
  <2> SUFFICES ASSUME NEW fd \in ready PROVE Event(fd, mask(fd)) \in E
    OBVIOUS
  <2>1. mask(fd) \in Mask /\ fd \in Fd
    BY DEF Mask
  <2> HIDE DEF mask
  <2> QED BY <2>1 DEF Event
<1>3. IsFiniteSet(ready)
  BY FS_Subset DEF EventLoopAssumption
<1> HIDE DEF ready, mask
<1>4. S \subseteq E
  BY <1>2
<1>5. f \in Surjection(ready, S)
  BY DEF Surjection
<1>6. IsFiniteSet(S)
  <2> HIDE DEF f, S
  <2> QED BY <1>3, <1>5, FS_Surjection
<1> HIDE DEF S, E
<1>7. Cardinality(S) \in Nat
  BY <1>6, FS_CardinalityType
<1>8. fired' \in [1..Cardinality(S) -> E]
  BY <1>1, <1>4 DEF Orders
<1> DEFINE n == Cardinality(S)
<1> HIDE DEF n
<1>9. n \in Nat /\ fired' \in [1..n -> E]
  BY <1>7, <1>8 DEF n
<1>10. fired' \in Seq(E)
  BY <1>9
<1> QED BY <1>10 DEF Events, E

\* An accepted connection gets a number that nobody has.
LEMMA RegisterKeeps ==
  ASSUME EventLoopAssumption, ServerAssumption, ServerTypeOK, ClientsApart, AcceptAndRegister
  PROVE  ServerTypeOK' /\ ClientsApart'
<1> DEFINE fd == Least(Free)
<1>1. PICK c \in Backlog :
          /\ Free # {} /\ fd < loop.setsize /\ MaskOf(loop, fd) = {}
          /\ file' = [file EXCEPT ![fd] = c]
          /\ loop' = aeCreateFileEvent(loop, fd, {AE_READABLE}, readQueryFromClient, c)
          /\ client' = [client EXCEPT ![c] = [state |-> "alive", fd |-> fd]]
          /\ net' = [net EXCEPT ![c].state = "open"]
  BY DEF AcceptAndRegister, Set
<1>2. fd \in Free
  BY <1>1, LeastOfNaturals DEF EventLoopAssumption, Free
<1> HIDE DEF fd
<1>3. fd \in Fd /\ fd \in Nat /\ file[fd] = CLOSED /\ c \in Conn
  BY <1>2 DEF Free, Open, EventLoopAssumption, Backlog
<1>4. /\ loop' \in ServerLoop /\ loop'.setsize = loop.setsize
      /\ loop'.events = [loop.events EXCEPT
            ![fd] = Registered(loop, fd, {AE_READABLE}, readQueryFromClient, c)]
  <2>1. {AE_READABLE} \in Mask /\ readQueryFromClient \in Handlers_ /\ c \in ClientData
    BY <1>3 DEF Mask, Handlers_, ClientData
  <2>2. loop \in Loop(Handlers_, ClientData)
    BY DEF ServerTypeOK, ServerLoop
  <2> DEFINE l == aeCreateFileEvent(loop, fd, {AE_READABLE}, readQueryFromClient, c)
  <2>3. l = aeCreateFileEvent(loop, fd, {AE_READABLE}, readQueryFromClient, c) /\ loop' = l
    BY <1>1
  <2> HIDE DEF l
  <2>4. /\ l \in Loop(Handlers_, ClientData) /\ l.setsize = loop.setsize
        /\ l.events = [loop.events EXCEPT
              ![fd] = Registered(loop, fd, {AE_READABLE}, readQueryFromClient, c)]
    <3>1. PICK m \in Mask, p \in Handlers_, d \in ClientData :
              m = {AE_READABLE} /\ p = readQueryFromClient /\ d = c
      BY <2>1
    <3>2. l = aeCreateFileEvent(loop, fd, m, p, d)
      BY <2>3, <3>1
    <3>3. fd \in Fd /\ fd \in Nat /\ fd < loop.setsize
      BY <1>1, <1>3
    <3>4. l \in Loop(Handlers_, ClientData) /\ l.setsize = loop.setsize
          /\ l.events = [loop.events EXCEPT ![fd] = Registered(loop, fd, m, p, d)]
      BY ONLY <2>2, <3>2, <3>3, CreatedIs
    <3> QED BY <3>1, <3>4
  <2> QED BY <2>3, <2>4 DEF ServerLoop
<1>5. /\ loop.events \in [0..(loop.setsize - 1) -> Slot(Handlers_, ClientData)]
      /\ loop.setsize \in Nat /\ fd \in 0..(loop.setsize - 1)
  BY <1>1, <1>3, LoopFields DEF ServerTypeOK, ServerLoop
<1>6. Registered(loop, fd, {AE_READABLE}, readQueryFromClient, c) = ClientEvent(c)
  <2>1. AE_READABLE \in {AE_READABLE} /\ AE_WRITABLE \notin {AE_READABLE}
    BY DEF AE_READABLE, AE_WRITABLE
  <2>2. loop.events[fd].wfileProc = NULL
    BY <1>5 DEF ClientsApart
  <2> QED BY <1>1, <2>1, <2>2 DEF Registered, ClientEvent
<1>7. net' \in Net /\ net'[c].state = "open" /\ \A d \in Conn \ {c} : net'[d] = net[d]
  BY <1>1, <1>3 DEF ServerTypeOK, Net, NetState
<1>8. /\ client' \in Clients /\ client'[c] = [state |-> "alive", fd |-> fd]
      /\ \A d \in Conn \ {c} : client'[d] = client[d]
  BY <1>1, <1>3 DEF ServerTypeOK, Clients
<1>9. fired' \in Events
  BY FiredKeeps DEF AcceptAndRegister, Handling, ServerTypeOK
<1>10. /\ file' = [i \in Fd |-> file'[i]] /\ file'[fd] = c /\ \A i \in Fd \ {fd} : file'[i] = file[i]
  BY <1>1, <1>3 DEF ServerTypeOK
<1>11. ServerTypeOK'
  BY <1>4, <1>7, <1>8, <1>9, <1>10 DEF ServerTypeOK, ServerLoop, Loop, LoopRecord, Slots, Slot,
     Mask, Net, Clients, Events
<1>12. c \notin Alive /\ Alive' = Alive \cup {c}
  BY <1>1, <1>3, <1>8 DEF Alive, ClientsApart, Backlog
<1>13. \A d \in Alive : client[d].fd \in Fd \ {fd} /\ d # c
  <2> SUFFICES ASSUME NEW d \in Alive PROVE client[d].fd \in Fd \ {fd} /\ d # c
    OBVIOUS
  <2>1. file[client[d].fd] = d /\ client[d].fd \in Fd /\ d \in Conn
    BY DEF ClientsApart, Alive
  <2> QED BY <1>3, <1>12, <2>1 DEF ServerAssumption
<1>14. loop'.events[fd] = ClientEvent(c) /\ \A i \in (0..(loop.setsize - 1)) \ {fd} : loop'.events[i] = loop.events[i]
  BY <1>4, <1>5, <1>6
<1>15. ASSUME NEW d \in Alive'
       PROVE  /\ client'[d].fd \in Fd /\ client'[d].fd < loop'.setsize
              /\ file'[client'[d].fd] = d
              /\ loop'.events[client'[d].fd] = ClientEvent(d)
              /\ net'[d].state \notin {"new", "backlog"}
  <2>1. CASE d = c
    BY <1>1, <1>3, <1>4, <1>7, <1>8, <1>10, <1>14, <2>1
  <2>2. CASE d # c
    <3>1. d \in Alive /\ d \in Conn /\ client'[d] = client[d] /\ net'[d] = net[d]
      BY <1>7, <1>8, <1>12, <2>2 DEF Alive
    <3>2. client[d].fd \in Fd /\ client[d].fd # fd /\ client[d].fd < loop.setsize
      BY <1>13, <3>1 DEF ClientsApart
    <3>3. \A i \in Nat : i < loop.setsize /\ i # fd => i \in (0..(loop.setsize - 1)) \ {fd}
      BY ONLY <1>5
    <3>4. client[d].fd \in Nat
      BY <3>2, EventLoopAssumption DEF EventLoopAssumption
    <3>5. client[d].fd \in (0..(loop.setsize - 1)) \ {fd}
      BY ONLY <3>2, <3>3, <3>4
    <3> QED BY <1>4, <1>10, <1>14, <3>5, <3>1, <3>2, <3>3 DEF ClientsApart
  <2> QED BY <2>1, <2>2
<1>16. ASSUME NEW i \in Fd, file'[i] \in Conn
       PROVE  file'[i] \in Alive' /\ client'[file'[i]].fd = i
  <2>1. CASE i = fd
    BY <1>8, <1>10, <1>12, <2>1
  <2>2. CASE i # fd
    <3>1. file'[i] = file[i] /\ file[i] \in Alive /\ client[file[i]].fd = i
      BY <1>10, <1>16, <2>2 DEF ClientsApart
    <3>2. file[i] # c /\ file[i] \in Conn
      BY <1>13, <3>1 DEF Alive
    <3> QED BY <1>8, <1>12, <3>1, <3>2
  <2> QED BY <2>1, <2>2
<1>17. \A i \in 0..(loop'.setsize - 1) : loop'.events[i].wfileProc = NULL
  BY <1>4, <1>14 DEF ClientsApart, ClientEvent
<1>18. \A d \in Alive' : ClientEvent(d)' = ClientEvent(d)
  BY DEF ClientEvent
<1> QED BY <1>11, <1>15, <1>16, <1>17, <1>18 DEF ClientsApart

\* The number of a refused connection is closed twice, but nobody else can have got
\* it in between: the log file is closed again.
LEMMA RefuseKeeps ==
  ASSUME EventLoopAssumption, ServerAssumption, ServerTypeOK, ClientsApart, AcceptAndRefuse
  PROVE  ServerTypeOK' /\ ClientsApart'
<1> DEFINE fd == Least(Free)
<1>1. PICK c \in Backlog :
          /\ file' = [Logged([[file EXCEPT ![fd] = c] EXCEPT ![fd] = CLOSED]) EXCEPT ![fd] = CLOSED]
          /\ loop' = Closed(loop, fd)
          /\ net' = [net EXCEPT ![c].state = "gone"]
  BY DEF AcceptAndRefuse, Set
<1>2. fd \in Free
  BY LeastOfNaturals DEF AcceptAndRefuse, EventLoopAssumption, Free
<1> HIDE DEF fd
<1>3. fd \in Fd /\ fd \in Nat /\ file[fd] = CLOSED /\ c \in Conn
      /\ file = [i \in Fd |-> file[i]]
  BY <1>2 DEF Free, Open, EventLoopAssumption, Backlog, ServerTypeOK
<1>4. [[file EXCEPT ![fd] = c] EXCEPT ![fd] = CLOSED] = file
  <2> DEFINE f == [[file EXCEPT ![fd] = c] EXCEPT ![fd] = CLOSED]
  <2>1. f = [i \in Fd |-> f[i]] /\ \A i \in Fd : f[i] = file[i]
    BY <1>3
  <2> HIDE DEF f
  <2>2. f = file
    BY <1>3, <2>1
  <2> QED BY <2>2 DEF f
<1>5. Logged(file) = file
  <2> DEFINE left == {i \in Fd : file[i] = CLOSED}
             g == Least(left)
             f == [[file EXCEPT ![g] = LOG] EXCEPT ![g] = CLOSED]
  <2>1. left \subseteq Nat /\ left # {}
    BY <1>3 DEF EventLoopAssumption
  <2>2. g \in left
    <3> HIDE DEF left
    <3> QED BY <2>1, LeastOfNaturals
  <2>3. Logged(file) = f
    BY <2>1 DEF Logged
  <2> HIDE DEF g
  <2>4. f = [i \in Fd |-> f[i]] /\ \A i \in Fd : f[i] = file[i]
    BY <1>3, <2>2
  <2> HIDE DEF f
  <2> QED BY <1>3, <2>3, <2>4
<1>6. file' = [i \in Fd |-> file'[i]] /\ \A i \in Fd : file'[i] = file[i]
  <2> DEFINE f == [file EXCEPT ![fd] = CLOSED]
  <2>1. f = [i \in Fd |-> f[i]] /\ \A i \in Fd : f[i] = file[i]
    BY <1>3
  <2>2. file' = f
    BY <1>1, <1>4, <1>5
  <2> HIDE DEF f
  <2> QED BY <2>1, <2>2
<1>7. /\ loop' \in ServerLoop /\ loop'.setsize = loop.setsize /\ loop'.events = loop.events
  BY <1>1, <1>3, ClosedLoop DEF ServerTypeOK, ServerLoop
<1>8. net' \in Net /\ net'[c].state = "gone" /\ \A d \in Conn \ {c} : net'[d] = net[d]
  BY <1>1, <1>3 DEF ServerTypeOK, Net, NetState
<1>9. fired' \in Events /\ client' = client
  BY FiredKeeps DEF AcceptAndRefuse, Handling, ServerTypeOK
<1>10. ServerTypeOK'
  BY <1>6, <1>7, <1>8, <1>9 DEF ServerTypeOK, ServerLoop, Loop, LoopRecord, Slots, Slot,
     Mask, Net, Clients, Events
<1>11. Alive' = Alive /\ \A d \in Alive : d \in Conn /\ ClientEvent(d)' = ClientEvent(d)
  BY <1>9 DEF Alive, ClientEvent
<1>12. \A d \in Alive : net'[d].state \notin {"new", "backlog"}
  BY <1>8, <1>11 DEF ClientsApart
<1> QED BY <1>6, <1>7, <1>9, <1>10, <1>11, <1>12 DEF ClientsApart

\* The struct after freeClient.
LEMMA Freed ==
  ASSUME NEW P, NEW D, NEW l, l \in Loop(P, D), NEW fd, fd \in Fd, fd \in Nat, fd < l.setsize,
         NEW r, r = Closed(WithoutEvents(l, fd), fd), EventLoopAssumption
  PROVE  /\ r \in Loop(P, D) /\ r.setsize = l.setsize
         /\ \A i \in 0..(l.setsize - 1) :
                /\ r.events[i].wfileProc = l.events[i].wfileProc
                /\ i # fd => r.events[i] = l.events[i]
<1>1. PICK R \in Mask, W \in Mask : R = {AE_READABLE} /\ W = {AE_WRITABLE}
  <2>1. {AE_READABLE} \in Mask /\ {AE_WRITABLE} \in Mask
    BY DEF Mask
  <2> QED BY <2>1
<1> DEFINE a == aeDeleteFileEvent(l, fd, R)
           b == aeDeleteFileEvent(a, fd, W)
<1>3. a \in Loop(P, D) /\ a.setsize = l.setsize /\ a.events = [l.events EXCEPT ![fd] = Lessened(l, fd, R)]
  <2>1. a = aeDeleteFileEvent(l, fd, R)
    OBVIOUS
  <2> HIDE DEF a
  <2> QED BY ONLY <1>1, <2>1, fd \in Fd, fd \in Nat, fd < l.setsize, l \in Loop(P, D), R \in Mask, DeletedIs
<1>4. r = Closed(b, fd)
  BY <1>1 DEF WithoutEvents
<1>5. b = aeDeleteFileEvent(a, fd, W)
  OBVIOUS
<1> HIDE DEF a, b
<1>6. b \in Loop(P, D) /\ b.setsize = a.setsize /\ b.events = [a.events EXCEPT ![fd] = Lessened(a, fd, W)]
  BY ONLY <1>1, <1>3, <1>5, fd \in Fd, fd \in Nat, fd < l.setsize, W \in Mask, DeletedIs
<1>7. r \in Loop(P, D) /\ r.setsize = b.setsize /\ r.events = b.events
  BY <1>4, <1>6, ClosedLoop
<1>8. l.events \in [0..(l.setsize - 1) -> Slot(P, D)] /\ l.setsize \in Nat
  BY LoopFields
<1>9. fd \in 0..(l.setsize - 1)
  BY <1>8
<1>10. a.events[fd].wfileProc = l.events[fd].wfileProc
  BY <1>3, <1>8, <1>9 DEF Lessened
<1>11. /\ b.events[fd].wfileProc = a.events[fd].wfileProc
  BY <1>3, <1>6, <1>8, <1>9 DEF Lessened
<1>12. \A i \in (0..(l.setsize - 1)) \ {fd} : b.events[i] = l.events[i]
  BY <1>3, <1>6, <1>8
<1> QED BY <1>3, <1>6, <1>7, <1>10, <1>11, <1>12

\* A client whose read failed or found the end: its own descriptor is closed.
LEMMA FreeKeeps ==
  ASSUME EventLoopAssumption, ServerAssumption, ServerTypeOK, ClientsApart, ReadEnds
  PROVE  ServerTypeOK' /\ ClientsApart'
<1>1. At \in Fd /\ At \in Nat /\ fired' \in Events
  BY FiredKeeps DEF ReadEnds, Handling, ServerTypeOK, EventLoopAssumption
<1>2. PICK fd, c : fd = At /\ c = Sender
  OBVIOUS
<1>3. fd \in Fd /\ fd \in Nat /\ file[fd] = c /\ c \in Conn
  BY <1>1, <1>2 DEF ReadEnds, Sender
<1>4. /\ c \in Alive /\ client[c].fd = fd /\ loop.events[fd] = ClientEvent(c)
      /\ fd < loop.setsize
  BY <1>3 DEF ClientsApart
<1>5. loop.events[At].clientData = c
  BY <1>2, <1>4 DEF ClientEvent
<1>6. /\ loop' = Closed(WithoutEvents(loop, fd), fd)
      /\ file' = [file EXCEPT ![fd] = CLOSED]
      /\ client' = [client EXCEPT ![c] = [state |-> "freed", fd |-> -1]]
      /\ net' = net
  BY <1>4, <1>5 DEF ReadEnds, freeClient
<1>7. loop \in Loop(Handlers_, ClientData)
  BY DEF ServerTypeOK, ServerLoop
<1>8. /\ loop' \in ServerLoop /\ loop'.setsize = loop.setsize
      /\ \A i \in 0..(loop.setsize - 1) :
            /\ loop'.events[i].wfileProc = loop.events[i].wfileProc
            /\ i # fd => loop'.events[i] = loop.events[i]
  <2> DEFINE r == Closed(WithoutEvents(loop, fd), fd)
  <2>1. r = Closed(WithoutEvents(loop, fd), fd) /\ loop' = r
    BY <1>6
  <2> HIDE DEF r
  <2>2. /\ r \in Loop(Handlers_, ClientData) /\ r.setsize = loop.setsize
        /\ \A i \in 0..(loop.setsize - 1) :
              /\ r.events[i].wfileProc = loop.events[i].wfileProc
              /\ i # fd => r.events[i] = loop.events[i]
    BY ONLY EventLoopAssumption, <1>3, <1>4, <1>7, <2>1, Freed
  <2> QED BY <2>1, <2>2 DEF ServerLoop
<1>9. /\ file' = [i \in Fd |-> file'[i]] /\ file'[fd] = CLOSED
      /\ \A i \in Fd \ {fd} : file'[i] = file[i]
  BY <1>3, <1>6 DEF ServerTypeOK
<1>10. /\ client' \in Clients /\ client'[c].state = "freed"
       /\ \A d \in Conn \ {c} : client'[d] = client[d]
  BY <1>3, <1>6 DEF ServerTypeOK, Clients
<1>11. ServerTypeOK'
  BY <1>1, <1>6, <1>8, <1>9, <1>10 DEF ServerTypeOK, ServerLoop, Loop, LoopRecord, Slots, Slot,
     Mask, Net, Clients, Events
<1>12. Alive' = Alive \ {c}
  BY <1>3, <1>10 DEF Alive
<1>13. ASSUME NEW d \in Alive'
       PROVE  /\ client'[d].fd \in Fd /\ client'[d].fd < loop'.setsize
              /\ file'[client'[d].fd] = d
              /\ loop'.events[client'[d].fd] = ClientEvent(d)
              /\ net'[d].state \notin {"new", "backlog"}
  <2>1. d \in Alive /\ d # c /\ d \in Conn /\ client'[d] = client[d]
    BY <1>10, <1>12 DEF Alive
  <2>2. /\ client[d].fd \in Fd /\ client[d].fd < loop.setsize /\ file[client[d].fd] = d
        /\ loop.events[client[d].fd] = ClientEvent(d) /\ net[d].state \notin {"new", "backlog"}
    BY <2>1 DEF ClientsApart
  <2>3. client[d].fd # fd
    BY <1>3, <2>1, <2>2
  <2>4. client[d].fd \in 0..(loop.setsize - 1)
    <3>1. loop.setsize \in Nat
      BY <1>7, LoopFields
    <3>2. client[d].fd \in Nat
      BY <2>2, EventLoopAssumption DEF EventLoopAssumption
    <3> QED BY <2>2, <3>1, <3>2
  <2> QED BY <1>6, <1>8, <1>9, <2>1, <2>2, <2>3, <2>4
<1>14. ASSUME NEW i \in Fd, file'[i] \in Conn
       PROVE  file'[i] \in Alive' /\ client'[file'[i]].fd = i
  <2>1. i # fd
    BY <1>9, <1>14 DEF ServerAssumption
  <2>2. file'[i] = file[i] /\ file[i] \in Alive /\ client[file[i]].fd = i /\ file[i] \in Conn
    BY <1>9, <1>14, <2>1 DEF ClientsApart
  <2>3. file[i] # c
    BY <1>4, <2>1, <2>2
  <2> QED BY <1>10, <1>12, <2>2, <2>3
<1>15. \A i \in 0..(loop'.setsize - 1) : loop'.events[i].wfileProc = NULL
  BY <1>8 DEF ClientsApart
<1>16. \A d \in Alive' : ClientEvent(d)' = ClientEvent(d)
  BY DEF ClientEvent
<1> QED BY <1>11, <1>13, <1>14, <1>15, <1>16 DEF ClientsApart

\* What a client does on its side, and reading a request, leave the state of the
\* others and what is reset as it is.
LEMMA ClientSideKeeps ==
  ASSUME ServerAssumption, ServerTypeOK, NEW c \in Conn, ClientSide(c)
  PROVE  /\ net' \in Net /\ UNCHANGED <<loop, file, fired, client, reply>>
         /\ \A d \in Conn :
                /\ net'[d].state \in {"new", "backlog"} => net[d].state \in {"new", "backlog"}
                /\ net[d].state = "reset" => net'[d].state = "reset"
<1>1. net \in Net
  BY DEF ServerTypeOK
<1>2. UNCHANGED <<loop, file, fired, client, reply>>
  BY DEF ClientSide, Connect, GiveUp, Send, Finish, Reset, ReadReply, OnlyNet
<1>3. /\ net' \in Net
      /\ \A d \in Conn \ {c} : net'[d] = net[d]
      /\ net'[c].state \in {"new", "backlog"} => net[c].state \in {"new", "backlog"}
      /\ net[c].state = "reset" => net'[c].state = "reset"
  <2>1. CASE Connect(c)
    <3>1. net[c].state = "new" /\ net' = [net EXCEPT ![c].state = "backlog"]
      BY <2>1 DEF Connect, Set
    <3>2. net' \in Net
      BY <1>1, <3>1 DEF Net, NetState
    <3>3. net'[c].state = "backlog" /\ \A d \in Conn \ {c} : net'[d] = net[d]
      BY <1>1, <3>1 DEF Net
    <3> QED BY <3>1, <3>2, <3>3
  <2>2. CASE GiveUp(c)
    <3>1. net[c].state = "backlog" /\ net' = [net EXCEPT ![c].state = "gone"]
      BY <2>2 DEF GiveUp, Set
    <3>2. net' \in Net
      BY <1>1, <3>1 DEF Net, NetState
    <3>3. net'[c].state = "gone" /\ \A d \in Conn \ {c} : net'[d] = net[d]
      BY <1>1, <3>1 DEF Net
    <3> QED BY <3>1, <3>2, <3>3
  <2>3. CASE Send(c)
    <3>1. net' = [net EXCEPT ![c].input = TRUE]
      BY <2>3 DEF Send, Set
    <3>2. net' \in Net
      BY <1>1, <3>1 DEF Net, NetState
    <3>3. net'[c].state = net[c].state /\ \A d \in Conn \ {c} : net'[d] = net[d]
      BY <1>1, <3>1 DEF Net
    <3> QED BY <3>1, <3>2, <3>3
  <2>4. CASE Finish(c)
    <3>1. net[c].state = "open" /\ net' = [net EXCEPT ![c].state = "finished"]
      BY <2>4 DEF Finish, Set
    <3>2. net' \in Net
      BY <1>1, <3>1 DEF Net, NetState
    <3>3. net'[c].state = "finished" /\ \A d \in Conn \ {c} : net'[d] = net[d]
      BY <1>1, <3>1 DEF Net
    <3> QED BY <3>1, <3>2, <3>3
  <2>5. CASE Reset(c)
    <3>1. net' = [net EXCEPT ![c].state = "reset", ![c].input = FALSE]
      BY <2>5 DEF Reset
    <3>2. net' \in Net
      BY <1>1, <3>1 DEF Net, NetState
    <3>3. net'[c].state = "reset" /\ \A d \in Conn \ {c} : net'[d] = net[d]
      BY <1>1, <3>1 DEF Net
    <3> QED BY <3>2, <3>3
  <2>6. CASE ReadReply(c)
    <3>1. net' = [net EXCEPT ![c].room = Room]
      BY <2>6 DEF ReadReply, Set
    <3>2. net' \in Net
      BY <1>1, <3>1 DEF Net, NetState, ServerAssumption
    <3>3. net'[c].state = net[c].state /\ \A d \in Conn \ {c} : net'[d] = net[d]
      BY <1>1, <3>1 DEF Net
    <3> QED BY <3>1, <3>2, <3>3
  <2> QED BY <2>1, <2>2, <2>3, <2>4, <2>5, <2>6 DEF ClientSide
<1> QED BY <1>2, <1>3

\* The reply that nobody writes on.
LEMMA ReplyStays ==
  ASSUME ReplyInv, UNCHANGED reply,
         \A d \in Conn : net[d].state = "reset" => net'[d].state = "reset"
  PROVE  ReplyInv'
  BY DEF ReplyInv, Replying

LEMMA RequestKeeps ==
  ASSUME EventLoopAssumption, ServerAssumption, ServerInv, ReadRequest
  PROVE  ServerInv'
<1>1. At \in Fd /\ fired' \in Events /\ UNCHANGED <<loop, file, client>> /\ reply = NoReply
  BY FiredKeeps DEF ReadRequest, Handling, ServerInv, ServerTypeOK
<1>2. PICK c \in Conn : c = Sender
  BY DEF ReadRequest
<1>3. loop.events[At].clientData = c
  <2>1. file[At] = c
    BY <1>2 DEF Sender
  <2>2. c \in Alive /\ client[c].fd = At
    BY <1>1, <2>1 DEF ServerInv, ClientsApart
  <2>3. loop.events[At] = ClientEvent(c)
    BY <2>2 DEF ServerInv, ClientsApart
  <2> QED BY <2>3 DEF ClientEvent
<1>4. net \in Net
  BY DEF ServerInv, ServerTypeOK
<1>7. CASE \E n \in 1..MaxReply :
            /\ reply' = [to |-> loop.events[At].clientData, total |-> n, pos |-> 0,
                         delivered |-> 0, length |-> n]
            /\ Set(Sender, "input", FALSE)
  <2>1. PICK n \in 1..MaxReply :
            /\ reply' = [to |-> c, total |-> n, pos |-> 0, delivered |-> 0, length |-> n]
            /\ Set(c, "input", FALSE)
    BY <1>2, <1>3, <1>7
  <2>2. net' = [net EXCEPT ![c].input = FALSE]
    BY <2>1 DEF Set
  <2>3. /\ net' \in Net /\ \A d \in Conn : net'[d].state = net[d].state
    BY <1>4, <2>2 DEF Net
  <2>4. ServerTypeOK' /\ ClientsApart'
    BY <1>1, <2>3, OthersKeepClients DEF ServerInv
  <2>5. n \in Nat /\ n # 0
    OBVIOUS
  <2>6. ReplyInv'
    BY <2>1, <2>5 DEF ReplyInv
  <2> QED BY <2>4, <2>6 DEF ServerInv
<1>8. CASE /\ \E n \in 0..net[Sender].room :
                net' = [net EXCEPT ![Sender].input = FALSE, ![Sender].room = @ - n]
           /\ UNCHANGED reply
  <2>1. PICK n \in 0..net[c].room : net' = [net EXCEPT ![c].input = FALSE, ![c].room = @ - n]
    BY <1>2, <1>8
  <2>4. /\ net' \in Net /\ \A d \in Conn : net'[d].state = net[d].state
    <3>1. net[c].room \in Int /\ n \in Int
      BY <1>4 DEF Net
    <3> DEFINE q == net[c].room - n
    <3>2. net' = [net EXCEPT ![c].input = FALSE, ![c].room = q] /\ q \in Int
      BY <1>4, <2>1, <3>1
    <3> HIDE DEF q
    <3>3. net' \in Net
      BY <1>4, <3>2 DEF Net
    <3> QED BY <1>4, <3>2, <3>3 DEF Net
  <2>5. ServerTypeOK' /\ ClientsApart'
    BY <1>1, <2>4, OthersKeepClients DEF ServerInv
  <2>6. ReplyInv'
    BY <1>8, <2>4, ReplyStays DEF ServerInv
  <2> QED BY <2>5, <2>6 DEF ServerInv
<1>9. reply = NoReply /\ ReadRequest =>
        \/ \E n \in 1..MaxReply :
            /\ reply' = [to |-> loop.events[At].clientData, total |-> n, pos |-> 0,
                         delivered |-> 0, length |-> n]
            /\ Set(Sender, "input", FALSE)
        \/ /\ \E n \in 0..net[Sender].room :
                net' = [net EXCEPT ![Sender].input = FALSE, ![Sender].room = @ - n]
           /\ UNCHANGED reply
  BY DEF ReadRequest
<1> QED BY <1>1, <1>7, <1>8, <1>9

\* What remains and what was delivered, together, is the whole reply; after a reset
\* there is always something left.
LEMMA WriteKeeps ==
  ASSUME EventLoopAssumption, ServerAssumption, ServerInv, WriteSome \/ WriteFails
  PROVE  ServerInv' /\ reply' # NoReply
<1>1. PICK t, n, p, d, k :
          /\ reply = [to |-> t, total |-> n, pos |-> p, delivered |-> d, length |-> k]
          /\ t \in Conn /\ n \in Nat /\ p \in Int /\ d \in Nat /\ k \in Nat \ {0}
          /\ n + d = k \/ (n > 0 /\ net[t].state = "reset")
  <2>1. Replying
    BY DEF WriteSome, WriteFails
  <2>2. /\ reply \in [to : Conn, total : Nat, pos : Int, delivered : Nat, length : Nat \ {0}]
        /\ \/ reply.total + reply.delivered = reply.length
           \/ reply.total > 0 /\ net[reply.to].state = "reset"
    BY <2>1 DEF ServerInv, ReplyInv
  <2> QED BY <2>2
<1>2. net \in Net /\ fired \in Events
  BY DEF ServerInv, ServerTypeOK
<1>3. ASSUME NEW m \in 1..n, Written(m)
      PROVE  reply' = [to |-> t, total |-> n - m, pos |-> p + m, delivered |-> d + m, length |-> k]
  BY <1>1, <1>3 DEF Written
<1>4. CASE WriteSome
  <2>1. PICK m \in 1..n :
            /\ Written(m) /\ net[t].state \in {"open", "finished"}
            /\ net' = net \/ net' = [net EXCEPT ![t].room = net[t].room - m]
    BY <1>1, <1>4 DEF WriteSome, Peer, Set
  <2>2. UNCHANGED <<loop, file, fired, client>>
    BY <1>4 DEF WriteSome
  <2>3. net' \in Net /\ \A c \in Conn : net'[c].state = net[c].state
    <3>1. CASE net' = net
      BY <1>2, <3>1
    <3>2. CASE net' = [net EXCEPT ![t].room = net[t].room - m]
      <4> DEFINE q == net[t].room - m
      <4>1. net' = [net EXCEPT ![t].room = q] /\ q \in Int
        BY <1>1, <1>2, <3>2 DEF Net
      <4> HIDE DEF q
      <4>2. net' \in Net
        BY <1>1, <1>2, <4>1 DEF Net
      <4> QED BY <1>1, <1>2, <4>1, <4>2 DEF Net
    <3> QED BY <2>1, <3>1, <3>2
  <2>4. ServerTypeOK' /\ ClientsApart'
    BY <1>2, <2>2, <2>3, OthersKeepClients DEF ServerInv
  <2>5. reply' = [to |-> t, total |-> n - m, pos |-> p + m, delivered |-> d + m, length |-> k]
    BY <1>3, <2>1
  <2>6. n + d = k
    BY <1>1, <2>1
  <2>7. n - m \in Nat /\ d + m \in Nat /\ p + m \in Int /\ (n - m) + (d + m) = k
    BY <1>1, <2>6
  <2>8. /\ reply' \in [to : Conn, total : Nat, pos : Int, delivered : Nat, length : Nat \ {0}]
        /\ reply'.total + reply'.delivered = reply'.length
    BY <1>1, <2>5, <2>7
  <2>9. ReplyInv'
    BY <2>8 DEF ReplyInv
  <2>10. reply' # NoReply
    BY <1>1, <2>5 DEF NoReply
  <2> QED BY <2>4, <2>9, <2>10 DEF ServerInv
<1>5. CASE WriteFails
  <2>1. /\ UNCHANGED <<loop, file, fired, net, client>> /\ net[t].state = "reset"
        /\ reply' = [to |-> t, total |-> n + 1, pos |-> p - 1, delivered |-> d, length |-> k]
    BY <1>1, <1>5 DEF WriteFails, Peer
  <2>2. ServerTypeOK' /\ ClientsApart'
    BY <1>2, <2>1, OthersKeepClients DEF ServerInv
  <2>3. n + 1 \in Nat /\ p - 1 \in Int /\ n + 1 > 0
    BY <1>1
  <2>4. /\ reply' \in [to : Conn, total : Nat, pos : Int, delivered : Nat, length : Nat \ {0}]
        /\ reply'.total > 0 /\ net'[reply'.to].state = "reset"
    BY <1>1, <2>1, <2>3
  <2>5. ReplyInv'
    BY <2>4 DEF ReplyInv
  <2>6. reply' # NoReply
    BY <1>1, <2>1 DEF NoReply
  <2> QED BY <2>2, <2>5, <2>6 DEF ServerInv
<1> QED BY <1>4, <1>5

\* Steps of the server that touch neither descriptors nor clients.
LEMMA IdleKeeps ==
  ASSUME ServerInv, UNCHANGED <<loop, file, net, client>>, fired' \in Events,
         UNCHANGED reply \/ reply' = NoReply
  PROVE  ServerInv'
<1>1. net \in Net
  BY DEF ServerInv, ServerTypeOK
<1>2. ServerTypeOK' /\ ClientsApart'
  BY <1>1, OthersKeepClients DEF ServerInv
<1>3. ReplyInv'
  <2>1. CASE UNCHANGED reply
    BY <2>1, ReplyStays DEF ServerInv
  <2>2. CASE reply' = NoReply
    BY <2>2 DEF ReplyInv, Replying, NoReply
  <2> QED BY <2>1, <2>2
<1> QED BY <1>2, <1>3 DEF ServerInv

LEMMA ServerNextInv ==
  ASSUME EventLoopAssumption, ServerAssumption, ServerInv, [Next]_vars
  PROVE  ServerInv'
<1>1. fired \in Events
  BY DEF ServerInv, ServerTypeOK
<1>2. ASSUME reply = NoReply, UNCHANGED reply PROVE ReplyInv'
  BY <1>2 DEF ReplyInv, Replying, NoReply
<1>3. CASE Poll
  BY <1>3, PollKeeps, IdleKeeps DEF Poll
<1>4. CASE AcceptAndRegister
  <2>1. ServerTypeOK' /\ ClientsApart'
    BY <1>4, RegisterKeeps DEF ServerInv
  <2> QED BY <1>2, <1>4, <2>1 DEF ServerInv, AcceptAndRegister, Handling
<1>5. CASE AcceptAndRefuse
  <2>1. ServerTypeOK' /\ ClientsApart'
    BY <1>5, RefuseKeeps DEF ServerInv
  <2> QED BY <1>2, <1>5, <2>1 DEF ServerInv, AcceptAndRefuse, Handling
<1>6. CASE AcceptNobody \/ AcceptFails
  <2>1. fired' \in Events
    BY <1>1, <1>6, FiredKeeps DEF AcceptNobody, AcceptFails, Handling
  <2> QED BY <1>6, <2>1, IdleKeeps DEF AcceptNobody, AcceptFails
<1>7. CASE ReadRequest
  BY <1>7, RequestKeeps
<1>8. CASE ReadEnds
  <2>1. ServerTypeOK' /\ ClientsApart'
    BY <1>8, FreeKeeps DEF ServerInv
  <2> QED BY <1>2, <1>8, <2>1 DEF ServerInv, ReadEnds, Handling
<1>9. CASE EventDone
  <2>1. fired' \in Events
    BY <1>1, <1>9, FiredKeeps DEF EventDone
  <2> QED BY <1>9, <2>1, IdleKeeps DEF EventDone
<1>10. CASE WriteSome \/ WriteFails
  BY <1>10, WriteKeeps
<1>11. CASE ReplyDone
  BY <1>1, <1>11, IdleKeeps DEF ReplyDone
<1>12. CASE \E c \in Conn : ClientSide(c)
  <2>1. PICK c \in Conn : ClientSide(c)
    BY <1>12
  <2>2. /\ net' \in Net /\ UNCHANGED <<loop, file, fired, client, reply>>
        /\ \A d \in Conn :
              /\ net'[d].state \in {"new", "backlog"} => net[d].state \in {"new", "backlog"}
              /\ net[d].state = "reset" => net'[d].state = "reset"
    BY <2>1, ClientSideKeeps DEF ServerInv
  <2>3. ServerTypeOK' /\ ClientsApart'
    BY <1>1, <2>2, OthersKeepClients DEF ServerInv
  <2>4. ReplyInv'
    BY <2>2, ReplyStays DEF ServerInv
  <2> QED BY <2>3, <2>4 DEF ServerInv
<1>13. CASE UNCHANGED vars
  BY <1>1, <1>13, IdleKeeps DEF vars
<1> QED BY <1>3, <1>4, <1>5, <1>6, <1>7, <1>8, <1>9, <1>10, <1>11, <1>12, <1>13
        DEF Next, Run, Accept, Read, Write

LEMMA ServerInitInv ==
  ASSUME EventLoopAssumption, ServerAssumption, Init
  PROVE  ServerInv
<1>1. PICK inherited \in Inherited :
        file = [fd \in Fd |-> CASE fd = 0 -> EPOLL
                               [] fd = 1 -> LISTEN
                               [] fd \in inherited -> "inherited"
                               [] OTHER -> CLOSED]
  BY DEF Init
<1>2. file = [fd \in Fd |-> file[fd]] /\ \A fd \in Fd : file[fd] \in {EPOLL, LISTEN, "inherited", CLOSED}
  BY <1>1
<1>3. \A fd \in Fd : file[fd] \notin Conn
  BY <1>2 DEF ServerAssumption
<1> DEFINE l == aeCreateEventLoop(MAX_EVENT_SIZE)
<1>4. /\ l \in Loop(Handlers_, ClientData) /\ l.setsize = MAX_EVENT_SIZE
      /\ \A fd \in 0..(MAX_EVENT_SIZE - 1) : l.events[fd] = Unset
  <2>1. NULL \in Handlers_ /\ NULL \in ClientData /\ MAX_EVENT_SIZE \in Nat
    BY DEF Handlers_, ClientData, ServerAssumption
  <2> QED BY <2>1, NewLoop
<1>5. {AE_READABLE} \in Mask /\ acceptTcpHandler \in Handlers_ /\ NULL \in ClientData
  BY DEF Mask, Handlers_, ClientData
<1>6. loop = aeCreateFileEvent(l, 1, {AE_READABLE}, acceptTcpHandler, NULL)
  BY DEF Init
<1> HIDE DEF l
<1>7. 1 \in Fd /\ 1 \in Nat /\ 1 < l.setsize /\ l.setsize \in Nat
  BY <1>4 DEF ServerAssumption
<1>8. PICK m \in Mask, p \in Handlers_, d \in ClientData, one \in Nat :
          m = {AE_READABLE} /\ p = acceptTcpHandler /\ d = NULL /\ one = 1
  BY <1>5
<1>9. /\ loop = aeCreateFileEvent(l, one, m, p, d) /\ one \in Fd /\ one < l.setsize
      /\ l \in Loop(Handlers_, ClientData)
  BY <1>4, <1>6, <1>7, <1>8
<1>10. /\ loop \in Loop(Handlers_, ClientData) /\ loop.setsize = l.setsize
       /\ loop.events = [l.events EXCEPT ![one] = Registered(l, one, m, p, d)]
  BY ONLY <1>9, one \in Nat, m \in Mask, p \in Handlers_,
          d \in ClientData, CreatedIs
<1>11. l.events \in [0..(l.setsize - 1) -> Slot(Handlers_, ClientData)]
  BY <1>4, LoopFields
<1>12. \A fd \in 0..(loop.setsize - 1) : loop.events[fd].wfileProc = NULL
  <2>1. Registered(l, one, m, p, d).wfileProc = l.events[one].wfileProc
    BY <1>8 DEF Registered, AE_READABLE, AE_WRITABLE
  <2>2. \A fd \in 0..(l.setsize - 1) : l.events[fd].wfileProc = NULL
    BY <1>4 DEF Unset
  <2>3. one \in 0..(l.setsize - 1)
    BY <1>7, <1>8
  <2> QED BY <1>10, <1>11, <2>1, <2>2, <2>3
<1>13. net \in Net /\ client \in Clients /\ Alive = {}
  BY DEF Init, Net, NetState, Clients, NoClient, Alive, ServerAssumption
<1>14. fired \in Events /\ reply = NoReply
  BY DEF Init, Events
<1>15. ServerTypeOK
  BY <1>2, <1>10, <1>13, <1>14 DEF ServerTypeOK, ServerLoop
<1>16. ClientsApart
  BY <1>3, <1>12, <1>13 DEF ClientsApart
<1> QED BY <1>14, <1>15, <1>16 DEF ServerInv, ReplyInv, Replying

\* The descriptor of a client stands for its connection and is watched with that
\* client as data, and no accepted connection is left without a client, however
\* numbers are refused, closed twice and given out again (db.c: createClient,
\* acceptCommonHandler, freeClient).
THEOREM ClientsOnDescriptors == Spec => []OneClientPerDescriptor
<1>1. Init => ServerInv
  BY EventLoopAssumption, ServerAssumption, ServerInitInv
<1>2. ServerInv /\ [Next]_vars => ServerInv'
  BY EventLoopAssumption, ServerAssumption, ServerNextInv
<1>3. ServerInv => OneClientPerDescriptor
  BY DEF ServerInv, ClientsApart, OneClientPerDescriptor, ClientEvent
<1> QED BY <1>1, <1>2, <1>3, PTL DEF Spec

\* addReply ends only with the whole reply handed over, for every length and every
\* way the socket cuts it (db.c: addReply).
THEOREM RepliesWhole == Spec => ReplyWhole
<1>1. Init => ServerInv
  BY EventLoopAssumption, ServerAssumption, ServerInitInv
<1>2. ServerInv /\ [Next]_vars => ServerInv'
  BY EventLoopAssumption, ServerAssumption, ServerNextInv
<1>3. ServerInv /\ [Next]_vars => [Replying /\ reply' = NoReply => reply.delivered = reply.length]_vars
  <2> SUFFICES ASSUME ServerInv, Next, Replying, reply' = NoReply
               PROVE  reply.delivered = reply.length
    OBVIOUS
  <2>1. reply # NoReply
    BY DEF Replying
  <2>2. ~ (WriteSome \/ WriteFails)
    BY EventLoopAssumption, ServerAssumption, WriteKeeps
  <2>3. ~ \E c \in Conn : ClientSide(c)
    BY <2>1 DEF ClientSide, Connect, GiveUp, Send, Finish, Reset, ReadReply, OnlyNet
  <2>4. ~ (Poll \/ Accept \/ Read \/ EventDone)
    BY <2>1 DEF Poll, Accept, AcceptAndRegister, AcceptAndRefuse, AcceptNobody, AcceptFails,
       Read, ReadRequest, ReadEnds, Handling, EventDone
  <2>5. reply.total <= 0
    BY <2>2, <2>3, <2>4 DEF Next, Run, Write, ReplyDone
  <2>6. /\ reply.total \in Nat /\ reply.delivered \in Nat
        /\ \/ reply.total + reply.delivered = reply.length
           \/ reply.total > 0
    BY DEF ServerInv, ReplyInv
  <2> QED BY <2>5, <2>6
<1> QED BY <1>1, <1>2, <1>3, PTL DEF Spec, ReplyWhole
=============================================================================
