------------------------------- MODULE Server -------------------------------
(***************************************************************************)
(* The life of connections: acceptTcpHandler, createClient, the read       *)
(* handler as far as descriptors are concerned, freeClient, and addReply   *)
(* with a socket that takes only a part of what is written.                *)
(*                                                                         *)
(* One thread: a handler runs to its end before the next event, and nobody *)
(* is served while addReply repeats its write().  What requests do is in   *)
(* Client and Commands; here a read ends with some reply, or without, or   *)
(* frees the client.                                                       *)
(***************************************************************************)
EXTENDS EventLoop

CONSTANTS
    Conn,           \* connections that clients open, each one once
    EPOLL, LISTEN,  \* what the first two descriptors are
    LOG,            \* the log file, open while a line is written
    Inherited,      \* sets of descriptors that can be open from the start, and stay so
    MAX_EVENT_SIZE,
    Room,           \* bound: what a socket buffer takes
    MaxReply        \* bound: the longest reply

ASSUME ServerAssumption ==
    /\ Conn \cap {EPOLL, LISTEN, LOG, CLOSED, "inherited"} = {}
    /\ MAX_EVENT_SIZE \in Nat /\ MAX_EVENT_SIZE > 1 /\ 1 \in Fd
    /\ Room \in Nat /\ MaxReply \in Nat

VARIABLES
    net,            \* connections: their state, what they have sent, room to send
    client,         \* the client struct of a connection
    orphans,        \* clients that have no descriptor
    reply           \* the reply that addReply is writing, or NoReply

vars == <<loop, file, fired, net, client, orphans, reply>>

readQueryFromClient == "readQueryFromClient"
acceptTcpHandler == "acceptTcpHandler"

NoClient == [state |-> "none", fd |-> -1]
NoReply == [to |-> NULL, total |-> 0, pos |-> 0, delivered |-> 0, length |-> 0]

Backlog == {c \in Conn : net[c].state = "backlog"}
Alive == {c \in Conn : client[c].state = "alive"}

\* initDb, after the data was loaded.
Init ==
    /\ \E inherited \in Inherited :
        file = [fd \in Fd |-> CASE fd = 0 -> EPOLL
                               [] fd = 1 -> LISTEN
                               [] fd \in inherited -> "inherited"
                               [] OTHER -> CLOSED]
    /\ loop = aeCreateFileEvent(aeCreateEventLoop(MAX_EVENT_SIZE), 1, {AE_READABLE},
                                acceptTcpHandler, NULL)
    /\ fired = << >>
    /\ net = [c \in Conn |-> [state |-> "new", input |-> FALSE, room |-> Room]]
    /\ client = [c \in Conn |-> NoClient]
    /\ orphans = 0
    /\ reply = NoReply

-----------------------------------------------------------------------------
(***************************************************************************)
(* The clients                                                             *)
(***************************************************************************)
Set(c, field, value) == net' = [net EXCEPT ![c][field] = value]

OnlyNet == UNCHANGED <<loop, file, fired, client, orphans, reply>>

Connect(c) == net[c].state = "new" /\ Set(c, "state", "backlog") /\ OnlyNet

\* A connection that was given up before it was accepted: the kernel drops it.
GiveUp(c) == net[c].state = "backlog" /\ Set(c, "state", "gone") /\ OnlyNet

Send(c) == net[c].state = "open" /\ Set(c, "input", TRUE) /\ OnlyNet

\* The client closes its side, or is gone altogether.
Finish(c) == net[c].state = "open" /\ Set(c, "state", "finished") /\ OnlyNet
Reset(c) ==
    /\ net[c].state \in {"open", "finished"}
    /\ net' = [net EXCEPT ![c].state = "reset", ![c].input = FALSE]
    /\ OnlyNet

ReadReply(c) ==
    /\ net[c].state = "open" /\ net[c].room < Room
    /\ Set(c, "room", Room) /\ OnlyNet

-----------------------------------------------------------------------------
(***************************************************************************)
(* epoll_wait: everything that is ready, in any order; a connection that   *)
(* was reset is reported as writable too.                                  *)
(***************************************************************************)
ReadableNow(fd) ==
    \/ file[fd] = LISTEN /\ Backlog # {}
    \/ file[fd] \in Conn /\ (net[file[fd]].input \/ net[file[fd]].state # "open")
HangsUp(fd) == file[fd] \in Conn /\ net[file[fd]].state = "reset"

\* Mutant: one event at a time.
PollOne ==
    \E fd \in Fd : loop.watched[fd] # {} /\ ReadableNow(fd)
        /\ aeApiPoll({Event(fd, {AE_READABLE})})

PollAll ==
    LET ready == {fd \in Fd : loop.watched[fd] # {} /\ ReadableNow(fd)}
        mask(fd) == {AE_READABLE} \cup IF HangsUp(fd) THEN {AE_WRITABLE} ELSE {}
    IN  aeApiPoll({Event(fd, mask(fd)) : fd \in ready})

Poll ==
    /\ reply = NoReply
    /\ PollAll
    /\ UNCHANGED <<loop, file, net, client, orphans, reply>>

-----------------------------------------------------------------------------
(***************************************************************************)
(* Accepting                                                               *)
(***************************************************************************)
At == Head(fired).fd

Handling(proc) ==
    /\ reply = NoReply /\ fired # << >> /\ ReadDue(Head(fired))
    /\ loop.events[At].rfileProc = proc
    /\ AfterRead

\* The masks and procedures do not ask for the rest of the event.
EventDone ==
    /\ reply = NoReply /\ fired # << >> /\ ~ ReadDue(Head(fired))
    /\ AfterEvent
    /\ UNCHANGED <<loop, file, net, client, orphans, reply>>

AcceptAndRegister ==
    /\ Handling(acceptTcpHandler)
    /\ \E c \in Backlog :
        LET fd == Least(Free)
            opened == [file EXCEPT ![fd] = c]
        IN  /\ Free # {} /\ fd < loop.setsize /\ MaskOf(loop, fd) = {}
            /\ file' = opened
            /\ loop' = aeCreateFileEvent(loop, fd, {AE_READABLE}, readQueryFromClient, c)
            /\ client' = [client EXCEPT ![c] = [state |-> "alive", fd |-> fd]]
            /\ Set(c, "state", "open")
    /\ UNCHANGED <<orphans, reply>>

\* server_log opens the log file where there is a number left, and closes it.
Logged(f) ==
    LET left == {fd \in Fd : f[fd] = CLOSED}
        opened == [f EXCEPT ![Least(left)] = LOG]
    IN  IF left = {} THEN f ELSE [opened EXCEPT ![Least(left)] = CLOSED]

\* Mutant: the listening socket is not watched any more after a refusal.
RefuseAndStop ==
    /\ Handling(acceptTcpHandler) /\ Free # {}
    /\ \E c \in Backlog : Set(c, "state", "gone")
    /\ loop' = aeDeleteFileEvent(loop, At, {AE_READABLE})
    /\ UNCHANGED <<file, client, orphans, reply>>

\* The number is beyond the array, or epoll_ctl fails: createClient closes the
\* descriptor, acceptCommonHandler logs and closes the same number once more.
AcceptAndRefuse ==
    /\ Handling(acceptTcpHandler) /\ Free # {}
    /\ \E c \in Backlog :
        LET fd == Least(Free)
            once == [[file EXCEPT ![fd] = c] EXCEPT ![fd] = CLOSED]
        IN  /\ file' = [Logged(once) EXCEPT ![fd] = CLOSED]
            /\ loop' = Closed(loop, fd)
            /\ Set(c, "state", "gone")
    /\ UNCHANGED <<client, orphans, reply>>

\* EWOULDBLOCK does not end acceptTcpHandler: createClient(-1).
AcceptNobody ==
    /\ Handling(acceptTcpHandler) /\ Backlog = {}
    /\ orphans' = orphans + 1
    /\ UNCHANGED <<loop, file, net, client, reply>>

\* Any other error does: there is no descriptor left, or ECONNABORTED for a
\* connection that was given up.
AcceptFails ==
    /\ Handling(acceptTcpHandler) /\ (Free = {} \/ Backlog = {})
    /\ UNCHANGED <<loop, file, net, client, orphans, reply>>

-----------------------------------------------------------------------------
(***************************************************************************)
(* readQueryFromClient                                                     *)
(***************************************************************************)
Sender == file[At]

\* What was read is answered by addReply, or by addReplyString, which writes
\* once and leaves it at that, or not at all.
ReadRequest ==
    /\ Handling(readQueryFromClient) /\ Sender \in Conn /\ net[Sender].input
    /\ \/ \E n \in 1..MaxReply :
            /\ reply' = [to |-> loop.events[At].clientData, total |-> n, pos |-> 0,
                         delivered |-> 0, length |-> n]
            /\ Set(Sender, "input", FALSE)
       \/ \E n \in 0..net[Sender].room :
            /\ net' = [net EXCEPT ![Sender].input = FALSE, ![Sender].room = @ - n]
            /\ UNCHANGED reply
    /\ UNCHANGED <<loop, file, client, orphans>>

WithoutEvents(l, fd) ==
    aeDeleteFileEvent(aeDeleteFileEvent(l, fd, {AE_READABLE}), fd, {AE_WRITABLE})

\* Mutant: the descriptor is not closed.
FreeUnclosed(c) ==
    /\ loop' = WithoutEvents(loop, client[c].fd)
    /\ client' = [client EXCEPT ![c] = [state |-> "freed", fd |-> -1]]
    /\ UNCHANGED file

freeClient(c) ==
    LET fd == client[c].fd
    IN  /\ loop' = Closed(WithoutEvents(loop, fd), fd)
        /\ file' = [file EXCEPT ![fd] = CLOSED]
        /\ client' = [client EXCEPT ![c] = [state |-> "freed", fd |-> -1]]

\* read() returns 0 or an error.
ReadEnds ==
    /\ Handling(readQueryFromClient) /\ Sender \in Conn /\ ~ net[Sender].input
    /\ net[Sender].state \in {"finished", "reset"}
    /\ freeClient(loop.events[At].clientData)
    /\ UNCHANGED <<net, orphans, reply>>

-----------------------------------------------------------------------------
(***************************************************************************)
(* addReply.  A write() that fails with EAGAIN is repeated: nothing        *)
(* changes until the client has read.                                      *)
(***************************************************************************)
Replying == reply # NoReply
Peer == net[reply.to]

\* Mutant: what was to be written is taken for written.
WrittenAll(n) ==
    reply' = [reply EXCEPT !.total = 0, !.pos = reply.length, !.delivered = @ + n]

Written(n) ==
    reply' = [reply EXCEPT !.total = @ - n, !.pos = @ + n, !.delivered = @ + n]

WriteSome ==
    /\ Replying /\ reply.total > 0
    /\ \/ \E n \in 1..reply.total :
            /\ Peer.state = "open" /\ n <= Peer.room
            /\ Set(reply.to, "room", Peer.room - n)
            /\ Written(n)
       \/ \E n \in 1..reply.total :
            /\ Peer.state = "finished" /\ Written(n) /\ UNCHANGED net
    /\ UNCHANGED <<loop, file, fired, client, orphans>>

\* Any other error: total -= -1.  The bound on total is that of the model.
WriteFails ==
    /\ Replying /\ reply.total > 0 /\ Peer.state = "reset"
    /\ reply.total <= MaxReply
    /\ reply' = [reply EXCEPT !.total = @ + 1, !.pos = @ - 1]
    /\ UNCHANGED <<loop, file, fired, net, client, orphans>>

ReplyDone ==
    /\ Replying /\ reply.total <= 0
    /\ reply' = NoReply
    /\ UNCHANGED <<loop, file, fired, net, client, orphans>>

-----------------------------------------------------------------------------
Accept == AcceptAndRegister \/ AcceptAndRefuse \/ AcceptNobody \/ AcceptFails
Read == ReadRequest \/ ReadEnds
Write == WriteSome \/ WriteFails \/ ReplyDone

\* The one thread of the server.
Run == Poll \/ Accept \/ Read \/ EventDone \/ Write

ClientSide(c) ==
    Connect(c) \/ GiveUp(c) \/ Send(c) \/ Finish(c) \/ Reset(c) \/ ReadReply(c)

Next == Run \/ \E c \in Conn : ClientSide(c)

\* The thread goes on, and clients read what they are sent.
Spec == Init /\ [][Next]_vars /\ WF_vars(Run) /\ \A c \in Conn : WF_vars(ReadReply(c))

-----------------------------------------------------------------------------
(***************************************************************************)
(* Properties                                                              *)
(***************************************************************************)

\* The descriptor of a client is its connection, watched for input with that
\* client as its data, and no open connection is without a client: neither the
\* double close of a refused connection nor the reuse of a number by a connection
\* that is accepted later in the same turn mixes clients up or leaks a descriptor.
OneClientPerDescriptor ==
    /\ \A c \in Alive :
        LET fd == client[c].fd
        IN  /\ file[fd] = c
            /\ loop.events[fd] = [mask |-> {AE_READABLE}, rfileProc |-> readQueryFromClient,
                                  wfileProc |-> NULL, clientData |-> c]
    /\ \A fd \in Fd :
        file[fd] \in Conn => file[fd] \in Alive /\ client[file[fd]].fd = fd

\* addReply ends only when the whole reply was handed to the socket, however it
\* was cut by short writes.
ReplyWhole == [][Replying /\ reply' = NoReply => reply.delivered = reply.length]_vars

\* The server hangs: addReply repeats a write() that can never succeed.
Hangs == Replying /\ Peer.state = "reset"

\* Whatever one client has sent is read, however much the others send, as long as
\* clients read their replies and none goes away in the middle of one.
ServedEventually ==
    \A c \in Conn :
        (c \in Alive /\ net[c].input) ~> (Hangs \/ ~ net[c].input)

\* Whoever connects is accepted or refused, in the same circumstances, unless all
\* descriptors are taken.
AcceptedEventually ==
    \A c \in Conn : (c \in Backlog) ~> (c \notin Backlog \/ Hangs \/ Free = {})
=============================================================================
