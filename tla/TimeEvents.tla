----------------------------- MODULE TimeEvents -----------------------------
(***************************************************************************)
(* The time events of ae.c: the list of timers, processTimeEvents and how  *)
(* long aeProcessEvents may sleep.  Callbacks create and delete timers in  *)
(* any way while the list is walked, the clock runs on meanwhile, and      *)
(* somebody may set it back.  A deleted timer's finalizer is a callback    *)
(* too: it runs after the timer was unlinked, which is where the code can  *)
(* lose a timer that the finalizer creates.                                *)
(*                                                                         *)
(* The clock counts ticks; SECOND of them are what time() calls a second.  *)
(* A timer is known by the number it was created as, which stays when      *)
(* deletion overwrites its id.                                             *)
(***************************************************************************)
EXTENDS Integers, Sequences, SequencesExt

CONSTANTS
    SECOND,         \* ticks in a second
    INT_MAX,        \* of an int, which epoll_wait takes the time to sleep as
    Delays,         \* delays that timers are created or repeated with
    MaxTimers,      \* bound: timers that are created
    MaxClock        \* bound: the clock

ASSUME TimeAssumption ==
    /\ SECOND \in Nat \ {0} /\ INT_MAX \in Nat /\ MaxTimers \in Nat /\ MaxClock \in Nat
    /\ Delays \subseteq Nat

VARIABLES
    timers,         \* timeEventHead and its successors
    nextId,         \* timeEventNextId
    lastTime,
    clock,
    sleeping,       \* what is left of the timeout of aeApiPoll, or one of those below
    walk,           \* the locals of processTimeEvents
    live,           \* history: timers that nobody has deleted
    exposed,        \* history: timers that a finalizer created in front of a walk
                    \* that has passed no timer yet
    far             \* history: the first timer was more than INT_MAX ticks away when
                    \* the loop fell asleep

timeVars == <<timers, nextId, lastTime, clock, sleeping, walk, live, exposed, far>>

AE_DELETED_EVENT_ID == -1
AWAKE == -1
FOREVER == -2

\* te and prev are the numbers of timers, NULL is -1; due and called are history.
NoWalk == [on |-> FALSE, te |-> -1, prev |-> -1, maxId |-> -1, calling |-> FALSE,
           finalizing |-> FALSE, due |-> {}, called |-> {}]

Nodes == {timers[i].n : i \in DOMAIN timers}
Timer(n) == CHOOSE t \in ToSet(timers) : t.n = n
Next_(n) ==
    LET i == CHOOSE i \in DOMAIN timers : timers[i].n = n
    IN  IF i = Len(timers) THEN -1 ELSE timers[i + 1].n
HeadTimer(s) == IF s = << >> THEN -1 ELSE Head(s).n

TimeInit ==
    /\ timers = << >> /\ nextId = 0
    /\ clock = SECOND /\ lastTime = 1
    /\ sleeping = AWAKE /\ walk = NoWalk
    /\ live = {} /\ exposed = {} /\ far = FALSE

-----------------------------------------------------------------------------
(***************************************************************************)
(* What handlers, callbacks and finalizers do                              *)
(***************************************************************************)
InCode == sleeping = AWAKE /\ (~ walk.on \/ walk.calling \/ walk.finalizing)

aeCreateTimeEvent(ms) ==
    /\ InCode /\ nextId < MaxTimers
    /\ timers' = <<[n |-> nextId, id |-> nextId, when |-> clock + ms]>> \o timers
    /\ nextId' = nextId + 1
    /\ live' = live \cup {nextId}
    /\ exposed' = IF walk.finalizing /\ walk.prev = -1 THEN exposed \cup {nextId} ELSE exposed
    /\ UNCHANGED <<lastTime, clock, sleeping, walk, far>>

WithId(n, id) == [i \in DOMAIN timers |->
    IF timers[i].n = n THEN [timers[i] EXCEPT !.id = id] ELSE timers[i]]

aeDeleteTimeEvent(id) ==
    /\ InCode
    /\ \E t \in ToSet(timers) : t.id = id
    /\ timers' = WithId(id, AE_DELETED_EVENT_ID)
    /\ live' = live \ {id}
    /\ UNCHANGED <<nextId, lastTime, clock, sleeping, walk, exposed, far>>

-----------------------------------------------------------------------------
(***************************************************************************)
(* The clock                                                               *)
(***************************************************************************)
Tick ==
    /\ clock < MaxClock /\ sleeping # 0
    /\ clock' = clock + 1
    /\ sleeping' = IF sleeping > 0 THEN sleeping - 1 ELSE sleeping
    /\ UNCHANGED <<timers, nextId, lastTime, walk, live, exposed, far>>

\* What was due by the clock of before need not be due any more.
SetBack ==
    /\ clock >= 2 * SECOND
    /\ clock' = clock - SECOND
    /\ walk' = [walk EXCEPT !.due = {}]
    /\ UNCHANGED <<timers, nextId, lastTime, sleeping, live, exposed, far>>

-----------------------------------------------------------------------------
(***************************************************************************)
(* Sleeping                                                                *)
(***************************************************************************)
\* aeSearchNearestTimer looks at the deleted timers too.
aeSearchNearestTimer ==
    CHOOSE t \in ToSet(timers) : \A u \in ToSet(timers) : t.when <= u.when

\* The long that aeApiPoll computes becomes the int that epoll_wait takes, for
\* which any negative number is "without end".
AsInt(ms) == ((ms + INT_MAX + 1) % (2 * (INT_MAX + 1))) - (INT_MAX + 1)

Timeout ==
    LET ms == aeSearchNearestTimer.when - clock
        timeout == AsInt(IF ms > 0 THEN ms ELSE 0)
    IN  IF timeout < 0 THEN FOREVER ELSE timeout

Sleep ==
    /\ sleeping = AWAKE /\ ~ walk.on
    /\ sleeping' = IF timers = << >> THEN FOREVER ELSE Timeout
    /\ far' = (timers # << >> /\ aeSearchNearestTimer.when - clock > INT_MAX)
    /\ UNCHANGED <<timers, nextId, lastTime, clock, walk, live, exposed>>

-----------------------------------------------------------------------------
(***************************************************************************)
(* processTimeEvents                                                       *)
(***************************************************************************)
\* Mutant: that the clock was set back goes unnoticed.
Unforced == timers

\* when_sec = 0 leaves when_ms.
Forced == [i \in DOMAIN timers |-> [timers[i] EXCEPT !.when = @ % SECOND]]

\* The time is over, or a file event woke the loop up.
StartWalk ==
    /\ sleeping # AWAKE
    /\ LET now == clock \div SECOND
           skewed == now < lastTime
       IN  /\ timers' = IF skewed THEN Forced ELSE timers
           /\ lastTime' = now
           /\ walk' = [NoWalk EXCEPT
                !.on = TRUE, !.te = HeadTimer(timers), !.maxId = nextId - 1,
                !.due = {t.n : t \in {t \in ToSet(timers) : skewed \/ clock >= t.when}}]
    /\ sleeping' = AWAKE /\ far' = FALSE
    /\ UNCHANGED <<nextId, clock, live, exposed>>

Walking == walk.on /\ ~ walk.calling /\ ~ walk.finalizing /\ walk.te # -1
Te == Timer(walk.te)

\* Mutant: what is in front of the timer goes too.
UnlinkedAsHead(n) ==
    LET i == CHOOSE i \in DOMAIN timers : timers[i].n = n
    IN  SubSeq(timers, i + 1, Len(timers))

\* prev->next or the head is set to te->next.  The head need not have been te: what
\* the finalizer of a timer before it has put in front goes with it.
Unlinked(n) ==
    LET i == CHOOSE i \in DOMAIN timers : timers[i].n = n
    IN  IF walk.prev = -1 THEN SubSeq(timers, i + 1, Len(timers))
        ELSE LET p == CHOOSE p \in DOMAIN timers : timers[p].n = walk.prev
             IN  SubSeq(timers, 1, p) \o SubSeq(timers, i + 1, Len(timers))

\* The finalizer is called after the unlink, with next already taken and prev as it
\* was; it may create and delete timers.  (A timer without one is one that returns.)
RemoveDeleted ==
    /\ Walking /\ Te.id = AE_DELETED_EVENT_ID
    /\ timers' = Unlinked(walk.te)
    /\ walk' = [walk EXCEPT !.te = Next_(walk.te), !.finalizing = TRUE]
    /\ UNCHANGED <<nextId, lastTime, clock, sleeping, live, exposed, far>>

FinalizerReturns ==
    /\ walk.finalizing
    /\ walk' = [walk EXCEPT !.finalizing = FALSE]
    /\ UNCHANGED <<timers, nextId, lastTime, clock, sleeping, live, exposed, far>>

NotNow ==
    /\ Walking /\ Te.id # AE_DELETED_EVENT_ID /\ clock < Te.when
    /\ walk' = [walk EXCEPT !.prev = walk.te, !.te = Next_(walk.te)]
    /\ UNCHANGED <<timers, nextId, lastTime, clock, sleeping, live, exposed, far>>

\* Timers that were created meanwhile are in front of the walk: id > maxId, for
\* which the code looks too, never holds.
CallTimer ==
    /\ Walking /\ Te.id # AE_DELETED_EVENT_ID /\ Te.id <= walk.maxId /\ clock >= Te.when
    /\ walk' = [walk EXCEPT !.calling = TRUE, !.called = @ \cup {walk.te}]
    /\ UNCHANGED <<timers, nextId, lastTime, clock, sleeping, live, exposed, far>>

\* The callback says, by an int, when it wants to be called again, or AE_NOMORE.
Repeat(ms) ==
    /\ walk.calling /\ ms <= INT_MAX
    /\ timers' = [i \in DOMAIN timers |->
           IF timers[i].n = walk.te THEN [timers[i] EXCEPT !.when = clock + ms] ELSE timers[i]]
    /\ walk' = [walk EXCEPT !.calling = FALSE, !.prev = walk.te, !.te = Next_(walk.te)]
    /\ UNCHANGED <<nextId, lastTime, clock, sleeping, live, exposed, far>>

NoMore ==
    /\ walk.calling
    /\ timers' = WithId(walk.te, AE_DELETED_EVENT_ID)
    /\ live' = live \ {walk.te}
    /\ walk' = [walk EXCEPT !.calling = FALSE, !.prev = walk.te, !.te = Next_(walk.te)]
    /\ UNCHANGED <<nextId, lastTime, clock, sleeping, exposed, far>>

EndWalk ==
    /\ walk.on /\ walk.te = -1 /\ ~ walk.finalizing
    /\ walk' = NoWalk
    /\ UNCHANGED <<timers, nextId, lastTime, clock, sleeping, live, exposed, far>>

TimeNext ==
    \/ \E ms \in Delays : aeCreateTimeEvent(ms) \/ Repeat(ms)
    \/ \E id \in 0..(nextId - 1) : aeDeleteTimeEvent(id)
    \/ Tick \/ SetBack \/ Sleep
    \/ StartWalk \/ RemoveDeleted \/ FinalizerReturns \/ NotNow \/ CallTimer \/ NoMore \/ EndWalk

TimeSpec == TimeInit /\ [][TimeNext]_timeVars

-----------------------------------------------------------------------------
(***************************************************************************)
(* Properties                                                              *)
(***************************************************************************)

ListedIds == {t.id : t \in ToSet(timers)} \ {AE_DELETED_EVENT_ID}

\* A timer is in the list, under its own id, from its creation until somebody
\* deletes it, whatever callbacks and finalizers do to the list while it is walked,
\* except one that a finalizer creates while the walk has passed no timer yet; what
\* the walk points to has not been freed.
NoTimerLost ==
    /\ ListedIds \subseteq live /\ live \ exposed \subseteq ListedIds
    /\ \A t \in ToSet(timers) : t.id \in {t.n, AE_DELETED_EVENT_ID}
    /\ IsInjective(timers)
    /\ walk.te = -1 \/ walk.te \in Nodes
    /\ walk.prev = -1 \/ walk.prev \in Nodes

\* The processing of deleted timers takes those out of the list ("Remove events
\* scheduled for deletion", ae.c:295) and no others.  It does not hold.
OnlyDeletedRemoved == live \subseteq ListedIds

\* The loop does not sleep beyond the first timer, and without end only when there
\* is no timer, except when the first one is more than INT_MAX ticks away.
NeverOversleeps ==
    /\ sleeping > 0 => \A t \in ToSet(timers) : clock + sleeping <= t.when
    /\ sleeping = FOREVER /\ ~ far => timers = << >>

\* "Sleep until the next time event is ready to fire" (ae.c:361): as long as there is
\* a timer, the loop wakes up without a file event.  It does not hold.
WakesForTimers == sleeping = FOREVER => timers = << >>

\* The loop wakes up in time, but for a first timer that far away, and its walk calls
\* every timer that was due when it began, all of them if the clock had been set back
\* by a second ("force all the time events to be processed ASAP"), unless it is
\* deleted before its turn; none of them twice, none that was created meanwhile, none
\* that is deleted.
DueIsCalled ==
    /\ NeverOversleeps
    /\ (walk.on /\ walk.te = -1) => walk.due \cap live \subseteq walk.called
    /\ walk.called \subseteq 0..walk.maxId
    /\ Walking => walk.te \notin walk.called
=============================================================================
