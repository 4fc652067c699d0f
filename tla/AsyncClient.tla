----------------------------- MODULE AsyncClient -----------------------------
(***************************************************************************)
(* hiredis/async.c on the event loop of adapters/ae.h: a context that      *)
(* sends commands, and the callbacks that must hear the replies.  The      *)
(* program's callbacks may send commands, disconnect and free the context  *)
(* while the library is in the middle of it.  The server at the other end  *)
(* answers in order, publishes, and may close at any time.                 *)
(*                                                                         *)
(* A command is its place in `issued', and so is the callback it was given *)
(* with, in the lists of the context too; FN_NULL stands for a NULL one.   *)
(* `of' tells which command a reply answers, if it answers any.  Channels  *)
(* stand for patterns too.  A read takes whole replies: one that takes     *)
(* none is also one that meets part of a reply.                            *)
(***************************************************************************)
EXTENDS Integers, Sequences

CONSTANTS
    Channel,
    MaxIssued,      \* bound: commands that the program issues
    MaxSpontaneous  \* bound: messages of the server that answer no command

VARIABLES
    ac,             \* the context
    ctl,            \* where the library is, and the locals it holds there
    peer,           \* the connection and the server
    issued,         \* the commands accepted
    calls,          \* the callbacks called, each with its reply
    odd             \* what happened that the library is not written for

asyncVars == <<ac, ctl, peer, issued, calls, odd>>

FN_NULL == 0
NIL == [type |-> "nil"]

\* then is what follows onConnect, cb the callback redisProcessCallbacks has in
\* its hands, back what follows a callback; nested: the context is freed under
\* library code that goes on with it.
InLoop == [at |-> "loop", then |-> "loop", cb |-> FN_NULL, back |-> "loop", nested |-> FALSE]

AsyncInit ==
    /\ \E hasOnConnect \in BOOLEAN :
        ac = [flags |-> {}, err |-> FALSE, replies |-> << >>, invalid |-> << >>,
              channels |-> [ch \in Channel |-> FN_NULL], obuf |-> << >>, inbuf |-> << >>,
              onConnect |-> hasOnConnect, reading |-> FALSE, writing |-> hasOnConnect]
    /\ ctl = InLoop
    /\ peer = [link |-> "connecting", toServer |-> << >>, subs |-> {}, feeds |-> FALSE,
               toClient |-> << >>, spontaneous |-> 0]
    /\ issued = << >> /\ calls = << >> /\ odd = {}

Has(flag) == flag \in ac.flags
Pushed(list, fn) == Append(list, fn)
Shifted(list) == Tail(list)
\* The hooks of adapters/ae.h, which register the events of the connection.
AddRead(context) == [context EXCEPT !.reading = TRUE]
AddWrite(context) == [context EXCEPT !.writing = TRUE]
DelWrite(context) == [context EXCEPT !.writing = FALSE]
Cleanup(context) == [context EXCEPT !.reading = FALSE, !.writing = FALSE]
\* The program's own code runs.
UserRuns == ctl.at \in {"loop", "onConnect", "callback", "onDisconnect"}
LibraryAt(where) == ctl' = [ctl EXCEPT !.at = where]

-----------------------------------------------------------------------------
(***************************************************************************)
(* What the program calls                                                  *)
(***************************************************************************)
Unsubscribing ==
    \/ \E i \in DOMAIN ac.obuf : issued[ac.obuf[i]].kind = "unsubscribe"
    \/ \E i \in DOMAIN peer.toServer : issued[peer.toServer[i]].kind = "unsubscribe"
    \/ \E i \in DOMAIN peer.toClient : peer.toClient[i].type = "unsubscribe"
    \/ \E i \in DOMAIN ac.inbuf : ac.inbuf[i].type = "unsubscribe"

\* A command is put behind the others in the output buffer.  (Bound: the last
\* one is the first that the library is not written for.)
AppendCommand(command, context, oddity) ==
    /\ UserRuns /\ Len(issued) < MaxIssued /\ odd = {}
    /\ ac.flags \cap {"disconnecting", "freeing"} = {}
    /\ issued' = Append(issued, command)
    /\ ac' = AddWrite([context EXCEPT !.obuf = Append(@, Len(issued) + 1)])
    /\ odd' = odd \cup oddity \cup (IF Unsubscribing THEN {"issued while unsubscribing"} ELSE {})
    /\ UNCHANGED <<ctl, peer, calls>>

Get ==
    \E hasFn \in BOOLEAN :
        AppendCommand([kind |-> "get", hasFn |-> hasFn],
                IF Has("subscribed") THEN [ac EXCEPT !.invalid = Pushed(@, Len(issued) + 1)]
                ELSE [ac EXCEPT !.replies = Pushed(@, Len(issued) + 1)],
                {})

Subscribe ==
    \E ch \in Channel :
        AppendCommand([kind |-> "subscribe", channel |-> ch],
                [ac EXCEPT !.flags = @ \cup {"subscribed"}, !.channels[ch] = Len(issued) + 1], {})

Unsubscribe ==
    \E ch \in Channel :
        /\ Has("subscribed")
        /\ AppendCommand([kind |-> "unsubscribe", channel |-> ch], ac,
                   IF ac.channels[ch] = FN_NULL THEN {"not subscribed"} ELSE {})

Monitor ==
    AppendCommand([kind |-> "monitor"],
            [ac EXCEPT !.flags = @ \cup {"monitoring"}, !.replies = Pushed(@, Len(issued) + 1)],
            {"monitor"})

\* __redisAsyncFree begins.  When code that the library calls starts it, the
\* library goes on afterwards with a context that is gone.
StartFree(context) ==
    /\ ac' = context
    /\ ctl' = [ctl EXCEPT !.at = "free",
                         !.nested = @ \/ ctl.at \in {"onConnect", "callback", "onDisconnect"}]

\* __redisAsyncDisconnect: after an error the context is freed, else no callback
\* may be due, or the assertion fails.
EndContext(context) ==
    IF context.err THEN StartFree([context EXCEPT !.flags = @ \cup {"disconnecting"}])
    ELSE IF context.replies = << >> THEN StartFree(context)
    ELSE ac' = context /\ LibraryAt("aborted")

\* onConnect and onDisconnect are called without REDIS_IN_CALLBACK.
EndedBy ==
    IF ctl.at = "onConnect" THEN {"ended by onConnect"}
    ELSE IF ctl.at = "onDisconnect" THEN {"ended by onDisconnect"} ELSE {}

redisAsyncDisconnect ==
    /\ UserRuns
    /\ LET marked == [ac EXCEPT !.flags = @ \cup {"disconnecting"}]
       IN  IF ~Has("in callback") /\ ac.replies = << >>
           THEN EndContext(marked) /\ odd' = odd \cup EndedBy
           ELSE ac' = marked /\ UNCHANGED <<ctl, odd>>
    /\ UNCHANGED <<peer, issued, calls>>

redisAsyncFree ==
    /\ UserRuns
    /\ LET marked == [ac EXCEPT !.flags = @ \cup {"freeing"}]
       IN  IF Has("in callback") THEN ac' = marked /\ UNCHANGED <<ctl, odd>>
           ELSE StartFree(marked) /\ odd' = odd \cup EndedBy
    /\ UNCHANGED <<peer, issued, calls>>

-----------------------------------------------------------------------------
(***************************************************************************)
(* Callbacks                                                               *)
(***************************************************************************)
\* What the callback of a command is.
FnOf(i) == IF i = FN_NULL \/ (issued[i].kind = "get" /\ ~ issued[i].hasFn) THEN FN_NULL ELSE i

\* Mutant: the callback runs without REDIS_IN_CALLBACK.
RunCallbackUnmarked(fn, reply, context, back) ==
    IF fn = FN_NULL
    THEN /\ ac' = context /\ ctl' = [ctl EXCEPT !.at = back, !.cb = fn]
         /\ UNCHANGED calls
    ELSE /\ ac' = context
         /\ ctl' = [ctl EXCEPT !.at = "callback", !.cb = fn, !.back = back]
         /\ calls' = Append(calls, [fn |-> fn, reply |-> reply])

\* fn is called with the reply, unless it is NULL; then the library goes on.
RunCallback(fn, reply, context, back) ==
    IF fn = FN_NULL
    THEN /\ ac' = context /\ ctl' = [ctl EXCEPT !.at = back, !.cb = fn]
         /\ UNCHANGED calls
    ELSE /\ ac' = [context EXCEPT !.flags = @ \cup {"in callback"}]
         /\ ctl' = [ctl EXCEPT !.at = "callback", !.cb = fn, !.back = back]
         /\ calls' = Append(calls, [fn |-> fn, reply |-> reply])

CallbackReturns ==
    /\ ctl.at = "callback"
    /\ ac' = [ac EXCEPT !.flags = @ \ {"in callback"}]
    /\ LibraryAt(IF Has("freeing") THEN "free" ELSE ctl.back)
    /\ UNCHANGED <<peer, issued, calls, odd>>

\* __redisAsyncFree: every callback that is still due hears NULL.
FreeNext ==
    /\ ctl.at = "free"
    /\ \/ /\ ac.replies # << >>
          /\ RunCallback(FnOf(Head(ac.replies)), NIL, [ac EXCEPT !.replies = Shifted(@)], "free")
       \/ /\ ac.replies = << >> /\ ac.invalid # << >>
          /\ RunCallback(FnOf(Head(ac.invalid)), NIL, [ac EXCEPT !.invalid = Shifted(@)], "free")
       \/ /\ ac.replies = << >> /\ ac.invalid = << >>
          /\ \E ch \in Channel :
              /\ ac.channels[ch] # FN_NULL
              /\ RunCallback(ac.channels[ch], NIL, [ac EXCEPT !.channels[ch] = FN_NULL], "free")
    /\ UNCHANGED <<peer, issued, odd>>

Freed == IF ctl.nested THEN "misused" ELSE "freed"

\* The loop forgets the connection, and the program hears of its end from
\* onDisconnect, if it heard of its beginning.  (A NULL one is one that returns.)
FreeEnds ==
    /\ ctl.at = "free" /\ ac.replies = << >> /\ ac.invalid = << >>
    /\ \A ch \in Channel : ac.channels[ch] = FN_NULL
    /\ ac' = Cleanup(ac)
    /\ LibraryAt(IF Has("connected") THEN "onDisconnect" ELSE Freed)
    /\ UNCHANGED <<peer, issued, calls, odd>>

OnDisconnectReturns ==
    /\ ctl.at = "onDisconnect"
    /\ LibraryAt(Freed)
    /\ UNCHANGED <<ac, peer, issued, calls, odd>>

-----------------------------------------------------------------------------
(***************************************************************************)
(* Events of the loop                                                      *)
(***************************************************************************)
\* An event, with __redisAsyncHandleConnect at the first one.  While connect(2)
\* is in progress an event changes nothing.
HandleEvent ==
    /\ ctl.at = "loop" /\ peer.link # "connecting"
    /\ \E event \in {"read", "write"} :
        /\ event = "read" => ac.reading
        /\ event = "write" => ac.writing
        /\ LET then == IF peer.link = "refused" THEN "failed" ELSE event
           IN  IF Has("connected") THEN LibraryAt(event) /\ UNCHANGED ac
               ELSE /\ ac' = IF then = "failed" THEN [ac EXCEPT !.err = TRUE]
                             ELSE [ac EXCEPT !.flags = @ \cup {"connected"}]
                    /\ ctl' = [ctl EXCEPT !.at = IF ac.onConnect THEN "onConnect" ELSE then,
                                           !.then = then]
    /\ UNCHANGED <<peer, issued, calls, odd>>

OnConnectReturns ==
    /\ ctl.at = "onConnect"
    /\ LibraryAt(ctl.then)
    /\ UNCHANGED <<ac, peer, issued, calls, odd>>

\* Connecting failed, or reading or writing does: the context ends in error.
Fails ==
    /\ \/ ctl.at = "failed"
       \/ ctl.at = "read" /\ peer.link = "closed" /\ peer.toClient = << >>
       \/ ctl.at = "write" /\ peer.link = "closed" /\ ac.obuf # << >>
    /\ EndContext([ac EXCEPT !.err = TRUE])
    /\ UNCHANGED <<peer, issued, calls, odd>>

\* redisAsyncHandleRead, as far as something or nothing can be read.
redisBufferRead ==
    /\ ctl.at = "read" /\ (peer.link = "up" \/ peer.toClient # << >>)
    /\ \E n \in 0..Len(peer.toClient) :
        /\ ac' = AddRead([ac EXCEPT !.inbuf = @ \o SubSeq(peer.toClient, 1, n)])
        /\ peer' = [peer EXCEPT !.toClient = SubSeq(@, n + 1, Len(@))]
    /\ ctl' = [ctl EXCEPT !.at = "process", !.cb = FN_NULL]
    /\ UNCHANGED <<issued, calls, odd>>

\* redisAsyncHandleWrite: what a closed connection takes is lost.
redisBufferWrite ==
    /\ ctl.at = "write"
    /\ \E n \in 0..Len(ac.obuf) :
        LET left == SubSeq(ac.obuf, n + 1, Len(ac.obuf))
               wrote == [ac EXCEPT !.obuf = left]
        IN  /\ ac' = AddRead(IF left = << >> THEN DelWrite(wrote) ELSE AddWrite(wrote))
            /\ peer' = IF peer.link = "up"
                       THEN [peer EXCEPT !.toServer = @ \o SubSeq(ac.obuf, 1, n)] ELSE peer
    /\ ctl' = InLoop
    /\ UNCHANGED <<issued, calls, odd>>

-----------------------------------------------------------------------------
(***************************************************************************)
(* redisProcessCallbacks, one reply per step                               *)
(***************************************************************************)
NoReply ==
    /\ ctl.at = "process" /\ ac.inbuf = << >>
    /\ IF Has("disconnecting") /\ ac.obuf = << >>
       THEN /\ EndContext(ac)
            /\ odd' = odd \cup (IF ac.replies # << >>
                               THEN {"disconnecting with replies due"} ELSE {})
       ELSE \* bound: reads that bring nothing
            /\ Has("monitoring") => Len(ac.replies) < MaxIssued
            /\ ac' = IF Has("monitoring") THEN [ac EXCEPT !.replies = Pushed(@, ctl.cb)] ELSE ac
            /\ ctl' = InLoop
            /\ UNCHANGED odd
    /\ UNCHANGED <<peer, issued, calls>>

\* __redisGetSubscribeCallback: cb stays what it was when there is none.
SubscribeCallback(reply, context) ==
    IF reply.type \in {"subscribe", "unsubscribe", "message"}
    THEN LET found == context.channels[reply.channel] # FN_NULL
             ends == found /\ reply.type = "unsubscribe"
         IN  RunCallback(
                IF found THEN context.channels[reply.channel] ELSE ctl.cb, reply,
                [context EXCEPT
                    !.channels[reply.channel] = IF ends THEN FN_NULL ELSE @,
                    !.flags = IF ends /\ reply.count = 0 THEN @ \ {"subscribed"} ELSE @],
                "process")
    ELSE IF context.invalid # << >>
         THEN RunCallback(FnOf(Head(context.invalid)), reply,
                          [context EXCEPT !.invalid = Shifted(@)], "process")
         ELSE RunCallback(ctl.cb, reply, context, "process")

ProcessReply ==
    /\ ctl.at = "process" /\ ac.inbuf # << >>
    /\ LET reply == Head(ac.inbuf)
           rest == [ac EXCEPT !.inbuf = Tail(@)]
       IN  \/ /\ ac.replies # << >>
              /\ RunCallback(FnOf(Head(ac.replies)), reply,
                             [rest EXCEPT !.replies = Shifted(@)], "process")
           \/ /\ ac.replies = << >> /\ reply.type = "error"
              /\ EndContext([rest EXCEPT !.err = TRUE]) /\ UNCHANGED calls
           \/ /\ ac.replies = << >> /\ reply.type # "error"
              /\ IF Has("subscribed") THEN SubscribeCallback(reply, rest)
                 ELSE IF Has("monitoring") THEN RunCallback(ctl.cb, reply, rest, "process")
                 ELSE ac' = rest /\ LibraryAt("aborted") /\ UNCHANGED calls
    /\ UNCHANGED <<peer, issued, odd>>

-----------------------------------------------------------------------------
(***************************************************************************)
(* The server and the connection.  They are heard of by events only, so    *)
(* that it is enough to let them act between two.                          *)
(***************************************************************************)
Connects ==
    /\ ctl.at = "loop" /\ peer.link = "connecting"
    /\ \E link \in {"up", "refused"} : peer' = [peer EXCEPT !.link = link]
    /\ UNCHANGED <<ac, ctl, issued, calls, odd>>

Sends(server, reply) == peer' = [server EXCEPT !.toClient = Append(@, reply)]

\* A subscribed client may send subscriptions only.
Answers ==
    /\ ctl.at = "loop" /\ peer.link = "up" /\ peer.toServer # << >>
    /\ LET i == Head(peer.toServer)
           command == issued[i]
           server == [peer EXCEPT !.toServer = Tail(@)]
           subs == CASE command.kind = "subscribe" -> peer.subs \cup {command.channel}
                     [] command.kind = "unsubscribe" -> peer.subs \ {command.channel}
                     [] OTHER -> peer.subs
       IN  IF command.kind \in {"subscribe", "unsubscribe"}
           THEN Sends([server EXCEPT !.subs = subs],
                      [type |-> command.kind, channel |-> command.channel,
                       count |-> IF subs = {} THEN 0 ELSE 1, of |-> i])
           ELSE Sends([server EXCEPT !.feeds = @ \/ (command.kind = "monitor" /\ peer.subs = {})],
                      [type |-> IF peer.subs = {} THEN "string" ELSE "error", of |-> i])
    /\ UNCHANGED <<ac, ctl, issued, calls, odd>>

\* A message that somebody published, a line for the monitor, or the refusal of
\* a server with too many clients, which closes the connection.
Spontaneous ==
    /\ ctl.at = "loop" /\ peer.link = "up" /\ peer.spontaneous < MaxSpontaneous
    /\ LET server == [peer EXCEPT !.spontaneous = @ + 1]
       IN  \/ \E ch \in peer.subs : Sends(server, [type |-> "message", channel |-> ch, of |-> 0])
           \/ peer.feeds /\ Sends(server, [type |-> "line", of |-> 0])
           \/ /\ peer.toClient = << >> /\ ~peer.feeds /\ peer.subs = {}
              /\ Sends([server EXCEPT !.link = "closed", !.toServer = << >>],
                       [type |-> "error", of |-> 0])
    /\ UNCHANGED <<ac, ctl, issued, calls, odd>>

\* What is on its way to the client may be lost with the connection.
Closes_ ==
    /\ ctl.at = "loop" /\ peer.link = "up"
    /\ \E n \in 0..Len(peer.toClient) :
        peer' = [peer EXCEPT !.link = "closed", !.toServer = << >>, !.toClient = SubSeq(@, 1, n)]
    /\ UNCHANGED <<ac, ctl, issued, calls, odd>>

AsyncNext ==
    \/ Get \/ Subscribe \/ Unsubscribe \/ Monitor \/ redisAsyncDisconnect \/ redisAsyncFree
    \/ CallbackReturns \/ FreeNext \/ FreeEnds \/ OnDisconnectReturns
    \/ HandleEvent \/ OnConnectReturns \/ Fails
    \/ redisBufferRead \/ redisBufferWrite \/ NoReply \/ ProcessReply
    \/ Connects \/ Answers \/ Spontaneous \/ Closes_

AsyncSpec == AsyncInit /\ [][AsyncNext]_asyncVars

-----------------------------------------------------------------------------
(***************************************************************************)
(* Properties                                                              *)
(***************************************************************************)
CallsOf(i) == {k \in DOMAIN calls : calls[k].fn = i}

\* A command's callback is called at most once, with the reply to that command,
\* an error of the server, or NULL; the callbacks of commands are called in the
\* order of the commands; and when onDisconnect tells of the end, or the context is
\* gone, all have been called.
CommandsAnswered ==
    /\ \A i \in DOMAIN issued : issued[i].kind = "get" =>
        \A k \in CallsOf(i) :
            /\ CallsOf(i) = {k}
            /\ calls[k].reply.type \in {"string", "error"} => calls[k].reply.of \in {0, i}
            /\ calls[k].reply.type \in {"string", "error", "nil"}
    /\ \A k, l \in DOMAIN calls :
        (k < l /\ issued[calls[k].fn].kind = "get" /\ issued[calls[l].fn].kind = "get")
            => calls[k].fn < calls[l].fn
    /\ ctl.at \in {"onDisconnect", "freed"} => \A i \in DOMAIN issued :
        (issued[i].kind = "get" /\ FnOf(i) # FN_NULL) => CallsOf(i) # {}

\* A subscription's callback hears of its own channel only, and NULL is the
\* last that it hears.
SubscriptionsHeard ==
    \A k \in DOMAIN calls : issued[calls[k].fn].kind = "subscribe" =>
        IF calls[k].reply = NIL THEN ctl.at # "loop" /\ \A l \in CallsOf(calls[k].fn) : l <= k
        ELSE calls[k].reply.type \in {"subscribe", "unsubscribe", "message"}
             /\ calls[k].reply.channel = issued[calls[k].fn].channel

\* Between events, what is to be written has its event, and so has whatever is
\* awaited of a connection that is up; a context that is ending or gone has none.
EventsAsked ==
    /\ ctl.at = "loop" => /\ ac.obuf # << >> => ac.writing
                          /\ ac.replies # << >> => ac.reading \/ ac.writing
    /\ ctl.at \in {"onDisconnect", "freed"} => ~ac.reading /\ ~ac.writing

\* hiredis/async.c: whatever the program's callbacks do, each is told what is
\* its own, the library never goes on with a context that is gone and no
\* assertion fails, unless one of the things in `odd' happened.
RepliesReachTheirCallbacks ==
    odd = {} => /\ ctl.at \notin {"aborted", "misused"}
                /\ CommandsAnswered /\ SubscriptionsHeard /\ EventsAsked
=============================================================================
