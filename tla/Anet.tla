-------------------------------- MODULE Anet --------------------------------
(***************************************************************************)
(* anet.c: how a socket comes to be connected or to listen, one system     *)
(* call at a time, each of which may fail: what is closed then, by whom,   *)
(* what is tried next and what the caller gets.  Also accepting, and       *)
(* reading and writing a whole buffer.  Addresses and options are left out *)
(* as far as no decision depends on them.                                  *)
(***************************************************************************)
EXTENDS Integers, Sequences, FiniteSets

CONSTANTS
    Descriptor,     \* numbers the kernel may give out
    ERR,
    MaxAddresses,   \* bound: addresses that a name resolves to
    MaxCount        \* bound: bytes that anetRead and anetWrite are asked for

ASSUME AnetAssumption == ERR \notin Descriptor /\ MaxCount \in Nat

VARIABLES
    opened,         \* descriptors that the kernel has given out
    held,           \* those that a caller was given and has not closed
    leaked,         \* those that nobody knows of any more
    request,        \* the function that runs, its arguments and locals
    answer          \* what the last one returned

anetVars == <<opened, held, leaked, request, answer>>

\* at is the place in Program below, s the socket, left the addresses to try;
\* count and total are those of anetRead and anetWrite.
Nothing == [fn |-> "none", nonblock |-> FALSE, source |-> FALSE, best |-> FALSE, v6 |-> FALSE,
            at |-> "none", s |-> ERR, left |-> 0, count |-> 0, total |-> 0]

AnetInit ==
    opened = {} /\ held = {} /\ leaked = {} /\ request = Nothing /\ answer = <<"none">>

Idle == request = Nothing
Fn(set) == request.fn \in set
TcpFn == {"anetTcpGenericConnect", "_anetTcpServer"}
UnixFn == {"anetUnixGenericConnect", "anetUnixServer"}
TransferFn == {"anetRead", "anetWrite"}

\* The calls that each function makes for a socket, in their order.
Program(r) ==
    LET Chosen(condition, step) == IF condition THEN <<step>> ELSE << >>
    IN  CASE r.fn = "anetTcpGenericConnect" ->
                <<"reuse">> \o Chosen(r.nonblock, "nonblock") \o Chosen(r.source, "source")
                            \o <<"connect">>
          [] r.fn = "anetUnixGenericConnect" ->
                <<"reuse">> \o Chosen(r.nonblock, "nonblock") \o <<"connect">>
          [] r.fn = "_anetTcpServer" -> Chosen(r.v6, "v6only") \o <<"reuse", "bind", "listen">>
          [] r.fn = "anetUnixServer" -> <<"reuse", "bind", "listen">>

StepAfter(r, step) ==
    LET p == Program(r)
        i == CHOOSE i \in DOMAIN p : p[i] = step
    IN  IF i = Len(p) THEN "done" ELSE p[i + 1]

-----------------------------------------------------------------------------
(***************************************************************************)
(* Calling                                                                 *)
(***************************************************************************)
Call ==
    /\ Idle
    /\ \E nb, src, best, v6 \in BOOLEAN, fn \in TcpFn \cup UnixFn :
        /\ src => fn = "anetTcpGenericConnect" /\ nb
        /\ best => src
        /\ nb => fn \in {"anetTcpGenericConnect", "anetUnixGenericConnect"}
        /\ v6 => fn = "_anetTcpServer"
        /\ request' = [Nothing EXCEPT !.fn = fn, !.nonblock = nb, !.source = src, !.best = best,
                        !.v6 = v6, !.at = IF fn \in TcpFn THEN "resolve" ELSE "socket"]
    /\ UNCHANGED <<opened, held, leaked, answer>>

Returns(result) == request' = Nothing /\ answer' = result

anetResolve ==
    /\ request.at = "resolve"
    /\ \/ \E n \in 1..MaxAddresses :
            request' = [request EXCEPT !.at = "socket", !.left = n] /\ UNCHANGED answer
       \/ Returns(<<"error">>)
    /\ UNCHANGED <<opened, held, leaked>>

-----------------------------------------------------------------------------
(***************************************************************************)
(* A socket and what is done to it                                         *)
(***************************************************************************)
AddressLeft == request.left > 0 \/ Fn(UnixFn)

Socket ==
    /\ request.at = "socket" /\ AddressLeft
    /\ \E fd \in Descriptor \ opened :
        /\ opened' = opened \cup {fd}
        /\ request' = [request EXCEPT !.s = fd, !.at = Head(Program(request))]
    /\ UNCHANGED <<held, leaked, answer>>

\* With several addresses the next one is tried.
SocketFails ==
    /\ request.at = "socket" /\ AddressLeft
    /\ IF Fn(TcpFn)
       THEN request' = [request EXCEPT !.left = @ - 1] /\ UNCHANGED answer
       ELSE Returns(<<"error">>)
    /\ UNCHANGED <<opened, held, leaked>>

\* connect() may also be under way on a socket that does not block.
Succeeds ==
    /\ Fn(TcpFn \cup UnixFn) /\ request.s # ERR /\ request.at # "done"
    /\ request' = [request EXCEPT !.at = StepAfter(request, @)]
    /\ UNCHANGED <<opened, held, leaked, answer>>

Done ==
    /\ request.at = "done"
    /\ held' = held \cup {request.s}
    /\ Returns(<<"socket", request.s>>)
    /\ UNCHANGED <<opened, leaked>>

Step(names) == request.s # ERR /\ request.at \in names

\* Mutant: the error path does not close.
ErrorLeaves ==
    /\ request' = [request EXCEPT !.s = ERR, !.at = "error"]
    /\ UNCHANGED opened

\* The error label of anetTcpGenericConnect.
ErrorCloses ==
    /\ request' = [request EXCEPT !.s = ERR, !.at = "error"]
    /\ opened' = opened \ {request.s}

ConnectStepFails ==
    /\ Fn({"anetTcpGenericConnect"}) /\ Step({"reuse", "nonblock", "source"})
    /\ ErrorCloses
    /\ UNCHANGED <<held, leaked, answer>>

\* The socket is closed where the call fails.
ClosesAndReturns ==
    /\ \/ Fn({"_anetTcpServer"}) /\ Step({"v6only", "bind", "listen"})
       \/ Fn({"anetUnixGenericConnect"}) /\ Step({"reuse", "connect"})
       \/ Fn({"anetUnixServer"}) /\ Step({"reuse", "bind", "listen"})
    /\ opened' = opened \ {request.s}
    /\ Returns(<<"error">>)
    /\ UNCHANGED <<held, leaked>>

\* Nobody closes it.
ReturnsWithoutClosing ==
    /\ \/ Fn({"_anetTcpServer"}) /\ Step({"reuse"})
       \/ Fn({"anetUnixGenericConnect"}) /\ Step({"nonblock"})
    /\ leaked' = leaked \cup {request.s}
    /\ Returns(<<"error">>)
    /\ UNCHANGED <<opened, held>>

ConnectFails ==
    /\ Fn({"anetTcpGenericConnect"}) /\ Step({"connect"})
    /\ opened' = opened \ {request.s}
    /\ request' = [request EXCEPT !.s = ERR, !.left = @ - 1, !.at = "socket"]
    /\ UNCHANGED <<held, leaked, answer>>

NoAddressLeft ==
    /\ request.at = "socket" /\ ~ AddressLeft
    /\ request' = [request EXCEPT !.at = "error"]
    /\ UNCHANGED <<opened, held, leaked, answer>>

\* Best effort binding: once more, without a source address.
FailsOrRetries ==
    /\ request.at = "error"
    /\ IF request.source /\ request.best
       THEN /\ request' = [request EXCEPT !.source = FALSE, !.at = "resolve", !.left = 0]
            /\ UNCHANGED answer
       ELSE Returns(<<"error">>)
    /\ UNCHANGED <<opened, held, leaked>>

-----------------------------------------------------------------------------
(***************************************************************************)
(* Accepting, reading, writing, and the end of a socket                    *)
(***************************************************************************)
\* accept() is repeated when a signal interrupted it, which changes nothing.
anetGenericAccept ==
    /\ Idle /\ held # {}
    /\ \/ \E fd \in Descriptor \ opened :
            opened' = opened \cup {fd} /\ held' = held \cup {fd} /\ answer' = <<"socket", fd>>
       \/ answer' = <<"error">> /\ UNCHANGED <<opened, held>>
    /\ UNCHANGED <<leaked, request>>

StartTransfer ==
    /\ Idle
    /\ \E fd \in held, fn \in TransferFn, n \in 0..MaxCount :
        request' = [Nothing EXCEPT !.fn = fn, !.s = fd, !.count = n, !.at = "transfer"]
    /\ UNCHANGED <<opened, held, leaked, answer>>

TransferSome ==
    /\ request.at = "transfer" /\ request.total # request.count
    /\ \E n \in 1..(request.count - request.total) :
        request' = [request EXCEPT !.total = @ + n]
    /\ UNCHANGED <<opened, held, leaked, answer>>

\* Everything was moved, or the peer has no more, or there was an error.
TransferEnds ==
    /\ request.at = "transfer"
    /\ \/ Returns(<<"moved", request.total>>)
       \/ request.total # request.count /\ Returns(<<"error">>)
    /\ UNCHANGED <<opened, held, leaked>>

CloseHeld ==
    /\ Idle
    /\ \E fd \in held : held' = held \ {fd} /\ opened' = opened \ {fd}
    /\ UNCHANGED <<leaked, request, answer>>

AnetNext ==
    \/ Call \/ anetResolve \/ Socket \/ SocketFails
    \/ Succeeds \/ Done
    \/ ConnectStepFails \/ ClosesAndReturns \/ ReturnsWithoutClosing \/ ConnectFails
    \/ NoAddressLeft \/ FailsOrRetries
    \/ anetGenericAccept \/ StartTransfer \/ TransferSome \/ TransferEnds \/ CloseHeld

AnetSpec == AnetInit /\ [][AnetNext]_anetVars

-----------------------------------------------------------------------------
(***************************************************************************)
(* Properties                                                              *)
(***************************************************************************)

\* Whichever system call fails, for whichever of several addresses, also in the
\* second attempt: a descriptor that is open belongs to a caller, or is the one
\* being worked on, or was left behind at one of the two places in
\* ReturnsWithoutClosing; no caller is given one that was closed, and none is
\* closed under its owner.
SocketsAccounted ==
    LET working == IF Fn(TcpFn \cup UnixFn) /\ request.s # ERR THEN {request.s} ELSE {}
    IN  /\ opened = (held \cup leaked) \cup working
        /\ held \cap leaked = {} /\ working \cap (held \cup leaked) = {}
        /\ Fn(TransferFn) => request.s \in held
=============================================================================
