------------------------------ MODULE EventLoop ------------------------------
(***************************************************************************)
(* ae.c with ae_epoll.c: which descriptors are watched for what, and the   *)
(* handlers of those that fire.  The kernel is external: the descriptors   *)
(* that are open, and the set that epoll watches, from which a descriptor  *)
(* disappears when it is closed.                                           *)
(*                                                                         *)
(* In AnySpec any code uses the loop: it registers, changes and removes    *)
(* handlers in any order.  Server uses the same operators the way db.c     *)
(* does, and there the events of a turn are handled.                       *)
(***************************************************************************)
EXTENDS Integers, FiniteSets, Sequences

CONSTANTS
    Fd,             \* descriptor numbers the process may use, from 0 on
    Proc,           \* handlers
    Data,           \* their client data
    SetSize,        \* sizes the loop is created with or resized to
    CLOSED, NULL

ASSUME EventLoopAssumption ==
    /\ Fd \subseteq Nat /\ IsFiniteSet(Fd) /\ SetSize \subseteq Nat

VARIABLES
    loop,           \* aeEventLoop, with what epoll watches
    file,           \* what a descriptor stands for
    fired           \* the events of this turn that are still to be handled

eventVars == <<loop, file, fired>>

AE_READABLE == "r"
AE_WRITABLE == "w"
Mask == SUBSET {AE_READABLE, AE_WRITABLE}

Open == {fd \in Fd : file[fd] # CLOSED}
Free == Fd \ Open
Least(S) == CHOOSE i \in S : \A j \in S : i <= j
Greatest(S) == CHOOSE i \in S : \A j \in S : j <= i

Unset == [mask |-> {}, rfileProc |-> NULL, wfileProc |-> NULL, clientData |-> NULL]

aeCreateEventLoop(setsize) ==
    [events |-> [fd \in 0..(setsize - 1) |-> Unset], setsize |-> setsize,
     maxfd |-> -1, stop |-> FALSE, watched |-> [fd \in Fd |-> {}]]

-----------------------------------------------------------------------------
(***************************************************************************)
(* Registration                                                            *)
(***************************************************************************)
MaskOf(l, fd) == l.events[fd].mask

\* epoll_ctl: EPOLL_CTL_ADD fails for a descriptor that is watched, EPOLL_CTL_MOD
\* for one that is not, and both for one that is not open.
EpollAccepts(l, fd) == fd \in Open /\ (MaskOf(l, fd) = {} <=> l.watched[fd] = {})

\* Whether aeCreateFileEvent can succeed; epoll_ctl may fail all the same.
Registrable(l, fd) == fd < l.setsize /\ EpollAccepts(l, fd)

aeCreateFileEvent(l, fd, mask, proc, data) ==
    LET merged == MaskOf(l, fd) \cup mask
    IN  [l EXCEPT
            !.watched[fd] = merged,
            !.events[fd] = [
                mask |-> merged,
                rfileProc |-> IF AE_READABLE \in mask THEN proc ELSE @.rfileProc,
                wfileProc |-> IF AE_WRITABLE \in mask THEN proc ELSE @.wfileProc,
                clientData |-> data],
            !.maxfd = IF fd > @ THEN fd ELSE @]

\* Mutant: the largest descriptor stays what it was.
MaxKept(l, fd) == l.maxfd

\* The descriptor that is left when fd loses its last event.
MaxAfter(l, fd) ==
    LET below == {i \in 0..(l.maxfd - 1) : MaskOf(l, i) # {}}
    IN  IF fd # l.maxfd \/ MaskOf(l, fd) # {} THEN l.maxfd
        ELSE IF below = {} THEN -1 ELSE Greatest(below)

aeDeleteFileEvent(l, fd, mask) ==
    IF fd >= l.setsize \/ (fd < l.setsize /\ MaskOf(l, fd) = {}) THEN l
    ELSE LET left == MaskOf(l, fd) \ mask
             d == [l EXCEPT !.events[fd].mask = left,
                            !.watched[fd] = IF EpollAccepts(l, fd) THEN left ELSE @]
         IN  [d EXCEPT !.maxfd = MaxAfter(d, fd)]

aeResizeSetSize(l, setsize) ==
    IF setsize = l.setsize \/ l.maxfd >= setsize THEN l
    ELSE [l EXCEPT
            !.setsize = setsize,
            !.events = [fd \in 0..(setsize - 1) |-> IF fd <= l.maxfd THEN @[fd] ELSE Unset]]

Closed(l, fd) == [l EXCEPT !.watched[fd] = {}]

-----------------------------------------------------------------------------
(***************************************************************************)
(* A turn: aeApiPoll collects what is ready, and each event finds its      *)
(* handlers by the mask its descriptor has by then.                        *)
(***************************************************************************)
Event(fd, mask) == [fd |-> fd, mask |-> mask, rfired |-> FALSE]

Orders(S) == {s \in [1..Cardinality(S) -> S] : \A i, j \in DOMAIN s : s[i] = s[j] => i = j}

aeApiPoll(ready) == fired = << >> /\ ready # {} /\ fired' \in Orders(ready)

ReadDue(e) ==
    ~ e.rfired /\ e.fd < loop.setsize /\ AE_READABLE \in MaskOf(loop, e.fd) \cap e.mask
WriteDue(e) ==
    /\ ~ ReadDue(e) /\ e.fd < loop.setsize
    /\ AE_WRITABLE \in MaskOf(loop, e.fd) \cap e.mask
    /\ ~ e.rfired \/ loop.events[e.fd].wfileProc # loop.events[e.fd].rfileProc

AfterRead == fired' = <<[Head(fired) EXCEPT !.rfired = TRUE]>> \o Tail(fired)
AfterEvent == fired' = Tail(fired)

-----------------------------------------------------------------------------
(***************************************************************************)
(* Code that uses the loop in any way                                      *)
(***************************************************************************)
AnyInit ==
    /\ \E n \in SetSize : loop = aeCreateEventLoop(n)
    /\ file = [fd \in Fd |-> CLOSED]
    /\ fired = << >>

AnyOpen ==
    /\ Free # {}
    /\ file' = [file EXCEPT ![Least(Free)] = "open"]
    /\ UNCHANGED <<loop, fired>>

AnyCreate ==
    /\ \E fd \in Open, mask \in Mask \ {{}}, p \in Proc, d \in Data :
        /\ Registrable(loop, fd)
        /\ loop' = aeCreateFileEvent(loop, fd, mask, p, d)
    /\ UNCHANGED <<file, fired>>

AnyDelete ==
    /\ \E fd \in Fd, mask \in Mask \ {{}} : loop' = aeDeleteFileEvent(loop, fd, mask)
    /\ UNCHANGED <<file, fired>>

\* A descriptor is closed after its events were removed.
AnyClose ==
    /\ \E fd \in Open :
        /\ fd < loop.setsize => MaskOf(loop, fd) = {}
        /\ file' = [file EXCEPT ![fd] = CLOSED] /\ loop' = Closed(loop, fd)
    /\ UNCHANGED fired

AnyResize ==
    /\ \E n \in SetSize : loop' = aeResizeSetSize(loop, n)
    /\ UNCHANGED <<file, fired>>

AnyNext == AnyOpen \/ AnyCreate \/ AnyDelete \/ AnyClose \/ AnyResize

AnySpec == AnyInit /\ [][AnyNext]_eventVars

-----------------------------------------------------------------------------
(***************************************************************************)
(* Properties                                                              *)
(***************************************************************************)

\* The masks of the loop are what the kernel watches, no descriptor outside of
\* the array is watched, and maxfd is the largest one with a handler: it decides
\* whether the loop polls at all and how far the array may shrink.
LoopAgrees ==
    /\ \A fd \in Fd : loop.watched[fd] = IF fd < loop.setsize THEN MaskOf(loop, fd) ELSE {}
    /\ LET used == {fd \in DOMAIN loop.events : MaskOf(loop, fd) # {}}
       IN  loop.maxfd = IF used = {} THEN -1 ELSE Greatest(used)
=============================================================================
