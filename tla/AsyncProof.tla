----------------------------- MODULE AsyncProof -----------------------------
(***************************************************************************)
(* hiredis/async.c: every callback hears what is its own.  The invariant   *)
(* says how three things fit: the lists of callbacks that are due, the     *)
(* commands that are written or pending, and the replies that arrive.      *)
(***************************************************************************)
EXTENDS AsyncClient, SequenceTheorems, WellFoundedInduction, TLAPS

Flag == {"subscribed", "disconnecting", "freeing", "in callback", "connected"}
ChannelReply == {"subscribe", "unsubscribe", "message"}
Reply ==
    [type : {"string", "error"}, of : Nat]
    \cup [type : ChannelReply \ {"message"}, channel : Channel, count : {0, 1}, of : Nat]
    \cup [type : {"message"}, channel : Channel, of : {0}]
Command ==
    [kind : {"get"}, hasFn : BOOLEAN]
    \cup [kind : {"subscribe", "unsubscribe"}, channel : Channel]
Call == [fn : Nat, reply : Reply \cup {NIL}]
Place ==
    {"loop", "onConnect", "failed", "read", "write", "process", "callback", "free", "onDisconnect",
     "freed"}

Context ==
    [flags : SUBSET Flag, err : BOOLEAN, replies : Seq(Nat), invalid : Seq(Nat),
     channels : [Channel -> Nat], obuf : Seq(Nat), inbuf : Seq(Reply),
     onConnect : BOOLEAN, reading : BOOLEAN, writing : BOOLEAN]
ContextShape == ac \in Context
PeerShape ==
    peer \in [link : {"connecting", "up", "refused", "closed"}, toServer : Seq(Nat),
              subs : SUBSET Channel, feeds : {FALSE}, toClient : Seq(Reply),
              spontaneous : Nat]
ControlShape ==
    ctl \in [at : Place, then : Place, cb : Nat, back : Place, nested : {FALSE}]
Shape ==
    /\ ContextShape /\ PeerShape /\ ControlShape /\ issued \in Seq(Command)
    /\ calls \in Seq(Call)

\* The members of a list, and a list in the order of the commands.
In(s) == {s[x] : x \in 1..Len(s)}
Ascending(s) == \A x, y \in 1..Len(s) : x < y => s[x] < s[y]

\* R and V are the commands in the two lists of callbacks that are due.
Owed(R, V, cs) ==
    /\ \A i \in R \cup V : i \in 1..Len(cs) /\ cs[i].kind = "get"
    /\ \A i \in R, j \in V : i < j

(***************************************************************************)
(* What arrives, w, and what is pending, p, of the commands cs: the first  *)
(* k are answered, the answers to the next up to m arrive, and those after *)
(* m are pending.                                                          *)
(***************************************************************************)
Answering(k, m, w) ==
    /\ \A x \in 1..Len(w) : w[x].of \in {0} \cup (k + 1)..m
    /\ \A x, y \in 1..Len(w) : x < y /\ w[x].of # 0 /\ w[y].of # 0 => w[x].of < w[y].of
    /\ \A j \in (k + 1)..m : \E x \in 1..Len(w) : w[x].of = j
Matching(w, V, cs) ==
    \A x \in 1..Len(w) :
        IF w[x].of = 0 THEN w[x].type \in {"message", "error"}
        ELSE IF cs[w[x].of].kind = "get"
             THEN w[x].type \in {"string", "error"} /\ (w[x].of \in V => w[x].type = "error")
             ELSE w[x].type = cs[w[x].of].kind /\ w[x].channel = cs[w[x].of].channel
RefusalLast(w, up) ==
    \A x \in 1..Len(w) : w[x].of = 0 /\ w[x].type = "error" => x = Len(w) /\ ~ up
DueAfter(k, R, V, cs) ==
    /\ \A i \in R \cup V : i > k
    /\ \A i \in (k + 1)..Len(cs) : cs[i].kind = "get" => i \in R \cup V
    /\ \A i \in R : \A j \in (k + 1)..i : j \in R
Waiting(m, p, cs, up) ==
    up => Len(p) = Len(cs) - m /\ \A x \in 1..Len(p) : p[x] = m + x
Channelled(w, ch, sub) ==
    /\ \A x \in 1..Len(w) : w[x].type \in ChannelReply => ch[w[x].channel] # FN_NULL
    /\ sub <=> \E c \in Channel : ch[c] # FN_NULL
Leaving(w, ch, cs, subs, up) ==
    \A x \in 1..Len(w) : w[x].type = "unsubscribe" =>
        /\ w[x].of = Len(cs)
        /\ up => w[x].channel \notin subs
        /\ \A y \in 1..Len(w) : y > x /\ w[y].type = "message" => w[y].channel # w[x].channel
        /\ w[x].count = 0 <=> \A c \in Channel : ch[c] # FN_NULL => c = w[x].channel
Unanswered(k, ch, cs, up) ==
    \A j \in (k + 1)..Len(cs) : cs[j].kind # "get" =>
        /\ ch[cs[j].channel] # FN_NULL
        /\ cs[j].kind = "unsubscribe" /\ up => j = Len(cs)
Synced(m, w, ch, cs, subs, up) ==
    up => /\ \A c \in subs : ch[c] # FN_NULL
          /\ \A c \in Channel : ch[c] # FN_NULL =>
                \/ c \in subs
                \/ \E j \in (m + 1)..Len(cs) : cs[j].kind = "subscribe" /\ cs[j].channel = c
                \/ \E x \in 1..Len(w) : w[x].type = "unsubscribe" /\ w[x].channel = c
Refusable(m, w, R, V, cs, subs, up, sub) ==
    /\ up => \A i \in V : i > m =>
                subs # {} \/ \E j \in (m + 1)..i : cs[j].kind = "subscribe"
    /\ \A x \in 1..Len(w), i \in R : w[x].type = "message" =>
            \E y \in 1..(x - 1) : w[y].of = i
    /\ up /\ subs # {} => \A i \in R : i <= m
    /\ ~ sub => V = {}

Flow(k, m, w, p, R, V, ch, sub, up, subs, cs) ==
    /\ k \in Nat /\ m \in Nat /\ k <= m /\ m <= Len(cs)
    /\ Answering(k, m, w) /\ Matching(w, V, cs) /\ RefusalLast(w, up) /\ DueAfter(k, R, V, cs)
    /\ Waiting(m, p, cs, up) /\ Channelled(w, ch, sub) /\ Leaving(w, ch, cs, subs, up)
    /\ Unanswered(k, ch, cs, up) /\ Synced(m, w, ch, cs, subs, up)
    /\ Refusable(m, w, R, V, cs, subs, up, sub)
Flows(w, p, R, V, ch, sub, up, subs, cs) ==
    \E k, m \in 0..Len(cs) : Flow(k, m, w, p, R, V, ch, sub, up, subs, cs)

(***************************************************************************)
(* The calls made, cl: of commands, of which those in D are due, and of    *)
(* subscriptions.                                                          *)
(***************************************************************************)
Heard(D, cs, cl) ==
    /\ \A c \in 1..Len(cl) :
        cl[c].fn \in 1..Len(cs) /\ cs[cl[c].fn].kind \in {"get", "subscribe"}
    /\ \A c \in 1..Len(cl) : cs[cl[c].fn].kind = "get" =>
        /\ cl[c].reply.type \in {"string", "error"} => cl[c].reply.of \in {0, cl[c].fn}
        /\ cl[c].reply.type \in {"string", "error", "nil"}
        /\ \A i \in D : cl[c].fn < i
    /\ \A c, d \in 1..Len(cl) :
        c < d /\ cs[cl[c].fn].kind = "get" /\ cs[cl[d].fn].kind = "get" => cl[c].fn < cl[d].fn
    /\ \A i \in 1..Len(cs) : cs[i].kind = "get" /\ cs[i].hasFn =>
        i \in D \/ \E c \in 1..Len(cl) : cl[c].fn = i
Told(ch, cs, alive, cl) ==
    /\ \A c \in Channel : ch[c] # FN_NULL =>
        ch[c] \in 1..Len(cs) /\ cs[ch[c]].kind = "subscribe" /\ cs[ch[c]].channel = c
    /\ \A c \in 1..Len(cl) : cs[cl[c].fn].kind = "subscribe" =>
        IF cl[c].reply = NIL
        THEN /\ ~ alive /\ \A x \in Channel : ch[x] # cl[c].fn
             /\ \A d \in 1..Len(cl) : cl[d].fn = cl[c].fn => d <= c
        ELSE cl[c].reply.type \in ChannelReply /\ cl[c].reply.channel = cs[cl[c].fn].channel

Alive == ctl.at \in {"loop", "onConnect", "failed", "read", "write", "process"}
         \/ (ctl.at = "callback" /\ ctl.back = "process")
Up == peer.link \in {"connecting", "up"}

Control ==
    /\ ctl.at = "callback" => "in callback" \in ac.flags
    /\ ctl.at = "callback" => ctl.back \in {"process", "free"}
    /\ ctl.at = "onConnect" => ctl.then \in {"failed", "read", "write"}
    /\ ctl.at \in {"onConnect", "write"} => peer.link # "connecting"
    /\ ~ Alive => ac.flags \cap {"disconnecting", "freeing"} # {}
    /\ ctl.at \in {"onDisconnect", "freed"} =>
          ac.replies = << >> /\ ac.invalid = << >> /\ ~ ac.reading /\ ~ ac.writing
    /\ Alive => /\ ac.obuf # << >> => ac.writing
                /\ ac.replies # << >> => ac.reading \/ ac.writing
FlowNow ==
    Flows(ac.inbuf \o peer.toClient, peer.toServer \o ac.obuf, In(ac.replies), In(ac.invalid),
          ac.channels, "subscribed" \in ac.flags, Up, peer.subs, issued)

\* rs and vs are the two lists of callbacks.
Dues(rs, vs, ch, cs, cl, alive) ==
    /\ Ascending(rs) /\ Ascending(vs) /\ Owed(In(rs), In(vs), cs)
    /\ Heard(In(rs) \cup In(vs), cs, cl)
    /\ Told(ch, cs, alive, cl)
World(w, p, rs, vs, ch, sub, up, subs, cs, cl, alive) ==
    /\ Dues(rs, vs, ch, cs, cl, alive)
    /\ alive => Flows(w, p, In(rs), In(vs), ch, sub, up, subs, cs)
WorldNow ==
    World(ac.inbuf \o peer.toClient, peer.toServer \o ac.obuf, ac.replies, ac.invalid,
          ac.channels, "subscribed" \in ac.flags, Up, peer.subs, issued, calls, Alive)

Good == Shape /\ Control /\ WorldNow
AInv == odd = {} => Good

-----------------------------------------------------------------------------
(***************************************************************************)
(* Lists of commands                                                       *)
(***************************************************************************)
\* What Append makes, as facts about places.
LEMMA Appended ==
  ASSUME NEW S, NEW s \in Seq(S), NEW e \in S
  PROVE  /\ Append(s, e) \in Seq(S) /\ Len(Append(s, e)) = Len(s) + 1
         /\ \A x \in 1..Len(s) : Append(s, e)[x] = s[x]
         /\ Append(s, e)[Len(s) + 1] = e
  OBVIOUS

\* ... and what Tail leaves.
LEMMA Tailed ==
  ASSUME NEW S, NEW s \in Seq(S), s # << >>
  PROVE  /\ Tail(s) \in Seq(S) /\ Len(Tail(s)) = Len(s) - 1 /\ Head(s) \in S
         /\ \A x \in 1..Len(Tail(s)) : Tail(s)[x] = s[x + 1]
         /\ Head(s) = s[1] /\ Len(s) >= 1
  OBVIOUS

\* The members of a list that grows, in order.
LEMMA ListGrows ==
  ASSUME NEW s \in Seq(Nat), NEW e \in Nat, Ascending(s), \A i \in In(s) : i < e
  PROVE  /\ Append(s, e) \in Seq(Nat) /\ Ascending(Append(s, e))
         /\ In(Append(s, e)) = In(s) \cup {e}
<1> DEFINE t == Append(s, e)
<1>1. /\ t \in Seq(Nat) /\ Len(t) = Len(s) + 1
      /\ \A x \in 1..Len(s) : t[x] = s[x]
      /\ t[Len(s) + 1] = e
  BY Appended
<1>0. /\ Len(s) \in Nat
      /\ \A x \in 1..Len(s) : s[x] \in Nat /\ s[x] \in In(s)
  BY DEF In
<1> HIDE DEF t
<1>2. Ascending(t)
  <2> SUFFICES ASSUME NEW x \in 1..Len(t), NEW y \in 1..Len(t), x < y
               PROVE  t[x] < t[y]
    BY DEF Ascending
  <2>0. x \in 1..(Len(s) + 1) /\ y \in 1..(Len(s) + 1) /\ x < y
    BY <1>1
  <2>1. x \in 1..Len(s) /\ (y \in 1..Len(s) \/ y = Len(s) + 1)
    BY ONLY <2>0, <1>0
  <2> QED BY <2>1, <1>0, <1>1 DEF Ascending
<1>3. In(t) = In(s) \cup {e}
  <2>1. ASSUME NEW i \in In(t) PROVE i \in In(s) \cup {e}
    <3> PICK x \in 1..Len(t) : i = t[x]
      BY DEF In
    <3>1. x \in 1..Len(s) \/ x = Len(s) + 1
      BY <1>1
    <3> QED BY <3>1, <1>0, <1>1
  <2>2. e \in In(t)
    BY <1>1 DEF In
  <2>3. ASSUME NEW i \in In(s) PROVE i \in In(t)
    <3> PICK x \in 1..Len(s) : i = s[x]
      BY DEF In
    <3>1. x \in 1..Len(t) /\ t[x] = i
      BY <1>1
    <3> QED BY <3>1 DEF In
  <2> QED BY <2>1, <2>2, <2>3
<1> QED BY <1>1, <1>2, <1>3 DEF t

\* The first of a list in order is the least, and the rest are the others.
LEMMA ListShrinks ==
  ASSUME NEW s \in Seq(Nat), Ascending(s), s # << >>
  PROVE  /\ Tail(s) \in Seq(Nat) /\ Ascending(Tail(s))
         /\ Head(s) \in Nat /\ Head(s) \in In(s)
         /\ \A i \in In(s) : Head(s) <= i
         /\ In(Tail(s)) = In(s) \ {Head(s)}
<1> DEFINE t == Tail(s)
<1>1. /\ t \in Seq(Nat) /\ Len(t) = Len(s) - 1 /\ Head(s) \in Nat
      /\ \A x \in 1..Len(t) : t[x] = s[x + 1]
      /\ Head(s) = s[1] /\ Len(s) >= 1
  BY Tailed
<1>0. \A x \in 1..Len(s) : s[x] \in Nat
  OBVIOUS
<1> HIDE DEF t
<1>2. Ascending(t)
  <2> SUFFICES ASSUME NEW x \in 1..Len(t), NEW y \in 1..Len(t), x < y
               PROVE  t[x] < t[y]
    BY DEF Ascending
  <2>1. x + 1 \in 1..Len(s) /\ y + 1 \in 1..Len(s) /\ x + 1 < y + 1
    BY <1>1
  <2>2. s[x + 1] < s[y + 1]
    BY <2>1 DEF Ascending
  <2> QED BY <2>2, <1>1
<1>3. Head(s) \in In(s)
  BY <1>1 DEF In
<1>4. ASSUME NEW i \in In(s) PROVE Head(s) <= i
  <2> PICK x \in 1..Len(s) : i = s[x]
    BY DEF In
  <2> QED BY <1>0, <1>1 DEF Ascending
<1>5. In(t) = In(s) \ {Head(s)}
  <2>1. ASSUME NEW i \in In(t) PROVE i \in In(s) /\ i # Head(s)
    <3> PICK x \in 1..Len(t) : i = t[x]
      BY DEF In
    <3>1. x + 1 \in 1..Len(s) /\ 1 \in 1..Len(s) /\ 1 < x + 1
      BY <1>1
    <3>2. s[x + 1] = i /\ s[1] < s[x + 1]
      BY <3>1, <1>1 DEF Ascending
    <3>3. i # Head(s)
      BY <3>1, <3>2, <1>0, <1>1
    <3> QED BY <3>1, <3>2, <3>3 DEF In
  <2>2. ASSUME NEW i \in In(s), i # Head(s) PROVE i \in In(t)
    <3> PICK x \in 1..Len(s) : i = s[x]
      BY DEF In
    <3>1. x - 1 \in 1..Len(t) /\ t[x - 1] = i
      BY <1>1, <2>2
    <3> QED BY <3>1 DEF In
  <2> QED BY <2>1, <2>2
<1> QED BY <1>1, <1>2, <1>3, <1>4, <1>5 DEF t

\* A list is empty when it has no members.
LEMMA ListEmpty ==
  ASSUME NEW s \in Seq(Nat)
  PROVE  /\ In(s) \subseteq Nat
         /\ s = << >> <=> In(s) = {}
<1>1. In(s) \subseteq Nat
  BY DEF In
<1>2. s # << >> => s[1] \in In(s)
  BY DEF In
<1>3. s = << >> => In(s) = {}
  BY DEF In
<1> QED BY <1>1, <1>2, <1>3

\* What a reply has.
LEMMA ReplyFields ==
  ASSUME NEW w \in Seq(Reply)
  PROVE  \A x \in 1..Len(w) :
            /\ w[x].of \in Nat
            /\ w[x].type \in {"string", "error", "subscribe", "unsubscribe", "message"}
            /\ w[x].type \in ChannelReply => w[x].channel \in Channel
            /\ w[x].type = "message" => w[x].of = 0
<1> TAKE x \in 1..Len(w)
<1>1. w[x] \in Reply
  OBVIOUS
<1> QED BY <1>1 DEF Reply, ChannelReply

\* ... and a command.
LEMMA CommandFields ==
  ASSUME NEW cs \in Seq(Command)
  PROVE  \A j \in 1..Len(cs) :
            /\ cs[j].kind \in {"get", "subscribe", "unsubscribe"}
            /\ cs[j].kind # "get" => cs[j].channel \in Channel
            /\ cs[j].kind = "get" => cs[j].hasFn \in BOOLEAN
<1> TAKE j \in 1..Len(cs)
<1>1. cs[j] \in Command
  OBVIOUS
<1> QED BY <1>1 DEF Command

\* The list t is s with e behind it, ...
Grown(t, s, e) ==
    /\ Len(t) = Len(s) + 1 /\ t[Len(s) + 1] = e
    /\ \A x \in 1..Len(s) : t[x] = s[x]
\* ... or s without its first.
Dropped(t, s) ==
    /\ Len(s) >= 1 /\ Len(t) = Len(s) - 1
    /\ \A x \in 1..Len(t) : t[x] = s[x + 1]

-----------------------------------------------------------------------------
(***************************************************************************)
(* Commands issued                                                         *)
(***************************************************************************)
\* Nothing that waits or arrives has to do with an unsubscription.
Steady(w, p, cs) ==
    /\ \A x \in 1..Len(w) : w[x].type # "unsubscribe"
    /\ \A x \in 1..Len(p) : p[x] \in 1..Len(cs) => cs[p[x]].kind # "unsubscribe"

\* What the parts of a flow are.
Typed(w, p, R, V, sub, up, subs, cs, k, m) ==
    /\ w \in Seq(Reply) /\ p \in Seq(Nat) /\ R \subseteq Nat /\ V \subseteq Nat
    /\ sub \in BOOLEAN /\ up \in BOOLEAN /\ subs \subseteq Channel /\ cs \in Seq(Command)
    /\ k \in Nat /\ m \in Nat
\* The commands cs become ds with one more, which q has behind p.
Queued(q, p, ds, cs, command) ==
    /\ q \in Seq(Nat) /\ ds \in Seq(Command) /\ command \in Command
    /\ Grown(ds, cs, command) /\ Grown(q, p, Len(cs) + 1)
\* What a command i about a channel makes of the callbacks ch, ...
Renamed(ch, dh, command, i) ==
    \A c \in Channel :
        dh[c] = ch[c] \/ (dh[c] = i /\ command.kind = "subscribe" /\ command.channel = c)
Linked(ch, dh, command, i) ==
    /\ \A c \in Channel : dh[c] # FN_NULL <=> ch[c] # FN_NULL \/ c = command.channel
    /\ command.kind = "unsubscribe" => ch[command.channel] # FN_NULL
    /\ Renamed(ch, dh, command, i)
\* ... and the end of a subscription.
Cleared(ch, dh) == \A c \in Channel : dh[c] = ch[c] \/ dh[c] = FN_NULL
Unlinked(ch, dh, channel) == \A c \in Channel : dh[c] # FN_NULL <=> ch[c] # FN_NULL /\ c # channel
Forgot(ch, dh, channel) ==
    dh[channel] = FN_NULL /\ \A c \in Channel : c # channel => dh[c] = ch[c]
\* The commands that are due, D, are E with the command i, ...
Joins(D, E, command, i) ==
    /\ D \subseteq Nat /\ D \subseteq E /\ E \subseteq D \cup {i}
    /\ command.kind = "get" => i \in E
\* ... which goes into one of the lists R and V.
Goes(R, V, S, W, command, i) ==
    /\ S \subseteq R \cup {i} /\ W \subseteq V \cup {i}
    /\ command.kind = "get" \/ (S \subseteq R /\ W \subseteq V)
    /\ S \subseteq R \/ W = {}
\* One more callback is called, ...
Called(cs, D, cl, dl, call) ==
    /\ cs \in Seq(Command) /\ D \subseteq Nat /\ cl \in Seq(Call) /\ dl \in Seq(Call)
    /\ Grown(dl, cl, call)
\* ... that of the get e.
Answered(call, e, cs) ==
    /\ e \in 1..Len(cs) /\ cs[e].kind = "get" /\ call.fn = e
    /\ call.reply.type \in {"string", "error", "nil"}
    /\ call.reply.type \in {"string", "error"} => call.reply.of \in {0, e}

\* None of the commands that are not answered is then an unsubscription.
LEMMA NoneLeaves ==
  ASSUME NEW w \in Seq(Reply), NEW p \in Seq(Nat), NEW R, NEW V, NEW ch, NEW sub,
         NEW up, up \in BOOLEAN, NEW subs, NEW cs \in Seq(Command),
         NEW k \in Nat, NEW m \in Nat,
         Flow(k, m, w, p, R, V, ch, sub, up, subs, cs), Steady(w, p, cs), up
  PROVE  \A j \in (k + 1)..Len(cs) : cs[j].kind # "unsubscribe"
<1> TAKE j \in (k + 1)..Len(cs)
<1>1. /\ k <= m /\ m <= Len(cs) /\ Answering(k, m, w) /\ Matching(w, V, cs)
      /\ Waiting(m, p, cs, up)
  BY DEF Flow
<1>2. CASE j <= m
  <2> PICK x \in 1..Len(w) : w[x].of = j
    BY <1>1, <1>2 DEF Answering
  <2>1. j # 0 /\ w[x].type # "unsubscribe"
    BY DEF Steady
  <2> QED BY <1>1, <2>1 DEF Matching
<1>3. CASE j > m
  <2>1. Len(p) = Len(cs) - m /\ \A x \in 1..Len(p) : p[x] = m + x
    BY <1>1 DEF Waiting
  <2>2. j - m \in 1..Len(p) /\ j \in 1..Len(cs)
    BY <1>1, <1>3, <2>1
  <2>3. p[j - m] = j
    BY <2>1, <2>2, <1>3
  <2> QED BY <2>2, <2>3 DEF Steady
<1> QED BY <1>2, <1>3

\* A command that is issued leaves alone what matches, ...
LEMMA IssueMatching ==
  ASSUME NEW w \in Seq(Reply), NEW V, NEW W, NEW cs \in Seq(Command), NEW ds \in Seq(Command),
         NEW command, Grown(ds, cs, command), W \subseteq V \cup {Len(cs) + 1},
         NEW k \in Nat, NEW m \in Nat, m <= Len(cs), Answering(k, m, w), Matching(w, V, cs)
  PROVE  Matching(w, W, ds)
<1>1. /\ Len(ds) = Len(cs) + 1 /\ Len(cs) \in Nat
      /\ \A j \in 1..Len(cs) : ds[j] = cs[j]
  BY DEF Grown
<1> SUFFICES ASSUME NEW x \in 1..Len(w)
             PROVE  IF w[x].of = 0 THEN w[x].type \in {"message", "error"}
                    ELSE IF ds[w[x].of].kind = "get"
                    THEN /\ w[x].type \in {"string", "error"}
                         /\ w[x].of \in W => w[x].type = "error"
                    ELSE w[x].type = ds[w[x].of].kind /\ w[x].channel = ds[w[x].of].channel
  BY DEF Matching
<1>2. CASE w[x].of = 0
  BY <1>2 DEF Matching
<1>3. CASE w[x].of # 0
  <2>1. w[x].of \in 1..Len(cs) /\ w[x].of # Len(cs) + 1
    BY <1>1, <1>3 DEF Answering
  <2>2. ds[w[x].of] = cs[w[x].of] /\ (w[x].of \in W => w[x].of \in V)
    BY <1>1, <2>1
  <2> QED BY <1>3, <2>2 DEF Matching
<1> QED BY <1>2, <1>3

\* ... waits behind the others, ...
LEMMA IssueWaiting ==
  ASSUME NEW p \in Seq(Nat), NEW q \in Seq(Nat), NEW cs \in Seq(Command), NEW ds \in Seq(Command),
         NEW command, Grown(ds, cs, command), Grown(q, p, Len(cs) + 1),
         NEW m \in Nat, m <= Len(cs), NEW up, up \in BOOLEAN, Waiting(m, p, cs, up)
  PROVE  Waiting(m, q, ds, up)
<1>1. Len(ds) = Len(cs) + 1
  BY DEF Grown
<1>2. /\ Len(q) = Len(p) + 1 /\ \A x \in 1..Len(p) : q[x] = p[x]
      /\ q[Len(p) + 1] = Len(cs) + 1
  BY DEF Grown
<1>3. Len(cs) \in Nat /\ Len(p) \in Nat
  OBVIOUS
<1> SUFFICES ASSUME up PROVE Len(q) = Len(ds) - m /\ \A x \in 1..Len(q) : q[x] = m + x
  BY DEF Waiting
<1>4. Len(p) = Len(cs) - m /\ \A x \in 1..Len(p) : p[x] = m + x
  BY DEF Waiting
<1>5. Len(q) = Len(ds) - m
  BY <1>1, <1>2, <1>3, <1>4
<1>6. ASSUME NEW x \in 1..Len(q) PROVE q[x] = m + x
  <2>1. x \in 1..(Len(p) + 1)
    BY <1>2
  <2>2. CASE x \in 1..Len(p)
    BY <1>2, <1>4, <2>2
  <2>3. CASE x = Len(p) + 1
    BY <1>2, <1>3, <1>4, <2>3
  <2> QED BY ONLY <2>1, <2>2, <2>3, <1>3
<1> QED BY <1>5, <1>6

\* ... and is not answered yet.
LEMMA IssueUnanswered ==
  ASSUME NEW cs \in Seq(Command), NEW ds \in Seq(Command), NEW k \in Nat,
         NEW command, Grown(ds, cs, command), NEW ch, NEW dh, NEW up, up \in BOOLEAN,
         \A c \in Channel : ch[c] # FN_NULL => dh[c] # FN_NULL,
         command.kind # "get" => dh[command.channel] # FN_NULL,
         Unanswered(k, ch, cs, up), up => \A j \in (k + 1)..Len(cs) : cs[j].kind # "unsubscribe"
  PROVE  Unanswered(k, dh, ds, up)
<1>1. /\ Len(ds) = Len(cs) + 1 /\ Len(cs) \in Nat /\ ds[Len(cs) + 1] = command
      /\ \A j \in 1..Len(cs) : ds[j] = cs[j]
  BY DEF Grown
<1> SUFFICES ASSUME NEW j \in (k + 1)..Len(ds), ds[j].kind # "get"
             PROVE  /\ dh[ds[j].channel] # FN_NULL
                    /\ ds[j].kind = "unsubscribe" /\ up => j = Len(ds)
  BY DEF Unanswered
<1>2. j \in (k + 1)..Len(cs) \/ j = Len(cs) + 1
  BY <1>1
<1>3. CASE j \in (k + 1)..Len(cs)
  <2>1. ds[j] = cs[j] /\ j \in 1..Len(cs)
    BY <1>1, <1>3
  <2>2. ch[cs[j].channel] # FN_NULL /\ cs[j].channel \in Channel
    BY <1>3, <2>1, CommandFields DEF Unanswered
  <2> QED BY <1>3, <2>1, <2>2
<1>4. CASE j = Len(cs) + 1
  BY <1>1, <1>4
<1> QED BY <1>2, <1>3, <1>4

\* A `get' sent before any subscription.
LEMMA GetFlows ==
  ASSUME NEW w, NEW p, NEW R, NEW V, NEW ch, NEW sub, NEW up, NEW subs, NEW cs, NEW k, NEW m,
         NEW command, NEW ds, NEW q, Typed(w, p, R, V, sub, up, subs, cs, k, m),
         Queued(q, p, ds, cs, command), command.kind = "get", ~ sub,
         Flow(k, m, w, p, R, V, ch, sub, up, subs, cs), Steady(w, p, cs), Owed(R, V, cs)
  PROVE  Flow(k, m, w, q, R \cup {Len(cs) + 1}, V, ch, sub, up, subs, ds)
<1> SUFFICES ASSUME w \in Seq(Reply), p \in Seq(Nat), R \subseteq Nat, V \subseteq Nat,
                    sub \in BOOLEAN, up \in BOOLEAN, subs \subseteq Channel,
                    cs \in Seq(Command), k \in Nat, m \in Nat,
                    q \in Seq(Nat), ds \in Seq(Command), command \in Command,
                    Grown(ds, cs, command),
                    Grown(q, p, Len(cs) + 1)
             PROVE  Flow(k, m, w, q, R \cup {Len(cs) + 1}, V, ch, sub, up, subs, ds)
  BY DEF Typed, Queued
<1> DEFINE n == Len(cs) + 1
           S == R \cup {n}
<1>0. /\ k <= m /\ m <= Len(ds)
      /\ Matching(w, V, ds) /\ Waiting(m, q, ds, up)
      /\ Leaving(w, ch, ds, subs, up) /\ Unanswered(k, ch, ds, up)
  <2>1. /\ k <= m /\ m <= Len(cs) /\ Answering(k, m, w) /\ Matching(w, V, cs)
        /\ Waiting(m, p, cs, up) /\ Unanswered(k, ch, cs, up)
    BY DEF Flow
  <2>2. Matching(w, V, ds)
    BY <2>1, IssueMatching
  <2>3. Waiting(m, q, ds, up)
    BY <2>1, IssueWaiting
  <2>4. Leaving(w, ch, ds, subs, up)
    BY DEF Leaving, Steady
  <2>5. up => \A j \in (k + 1)..Len(cs) : cs[j].kind # "unsubscribe"
    BY NoneLeaves
  <2>6. Unanswered(k, ch, ds, up)
    BY <2>1, <2>5, IssueUnanswered
  <2> QED BY <2>1, <2>2, <2>3, <2>4, <2>6 DEF Grown
<1>1. /\ Len(ds) = n
      /\ \A j \in 1..Len(cs) : ds[j] = cs[j]
      /\ ds[n] = command
  BY DEF Grown
<1>2. Len(cs) \in Nat /\ n \in Nat /\ n = Len(cs) + 1
  OBVIOUS
<1> HIDE DEF n
<1>3. /\ k <= m /\ m <= Len(cs) /\ Answering(k, m, w) /\ RefusalLast(w, up)
      /\ DueAfter(k, R, V, cs) /\ Channelled(w, ch, sub)
      /\ Synced(m, w, ch, cs, subs, up) /\ Refusable(m, w, R, V, cs, subs, up, sub)
  BY DEF Flow
<1>4. /\ V = {} /\ \A c \in Channel : ch[c] = FN_NULL
      /\ \A x \in 1..Len(w) : w[x].type # "message"
      /\ up => subs = {}
  <2>1. V = {} /\ \A c \in Channel : ch[c] = FN_NULL
    BY <1>3 DEF Refusable, Channelled
  <2>2. up => subs = {}
    BY <1>3, <2>1 DEF Synced
  <2>3. ASSUME NEW x \in 1..Len(w), w[x].type = "message" PROVE FALSE
    <3>1. w[x].type \in ChannelReply /\ w[x].channel \in Channel
      BY <2>3, ReplyFields DEF ChannelReply
    <3> QED BY <1>3, <2>1, <3>1 DEF Channelled
  <2> QED BY <2>1, <2>2, <2>3
<1>5. \A i \in R : i \in 1..Len(cs)
  BY DEF Owed
<1>6. DueAfter(k, S, V, ds)
  <2>1. \A i \in S \cup V : i > k
    BY <1>2, <1>3, <1>4 DEF DueAfter
  <2>2. ASSUME NEW i \in (k + 1)..Len(ds), ds[i].kind = "get" PROVE i \in S \cup V
    <3>1. CASE i = n
      BY <3>1
    <3>2. CASE i # n
      <4>1. i \in (k + 1)..Len(cs) /\ ds[i] = cs[i]
        BY <1>1, <1>2, <3>2
      <4> QED BY <1>3, <2>2, <4>1 DEF DueAfter
    <3> QED BY <3>1, <3>2
  <2>3. ASSUME NEW i \in S, NEW j \in (k + 1)..i PROVE j \in S
    <3>1. CASE i \in R
      BY <1>3, <3>1 DEF DueAfter
    <3>2. CASE i = n /\ j # n
      <4>1. j \in (k + 1)..Len(cs) /\ j \in 1..Len(cs)
        BY ONLY j \in (k + 1)..i, k \in Nat, <1>2, <3>2
      <4>2. cs[j].kind = "get"
        <5> SUFFICES ASSUME cs[j].kind # "get" PROVE FALSE
          OBVIOUS
        <5>1. Unanswered(k, ch, cs, up)
          BY DEF Flow
        <5>2. ch[cs[j].channel] # FN_NULL /\ cs[j].channel \in Channel
          BY <5>1, <4>1, CommandFields DEF Unanswered
        <5> QED BY <5>2, <1>4
      <4> QED BY <1>3, <1>4, <4>1, <4>2 DEF DueAfter
    <3> QED BY <3>1, <3>2
  <2> QED BY <2>1, <2>2, <2>3 DEF DueAfter
<1>7. Synced(m, w, ch, ds, subs, up)
  BY <1>4 DEF Synced
<1>8. Refusable(m, w, S, V, ds, subs, up, sub)
  BY <1>4 DEF Refusable
<1>9. Flow(k, m, w, q, S, V, ch, sub, up, subs, ds)
  BY <1>0, <1>3, <1>6, <1>7, <1>8 DEF Flow
<1> QED BY <1>9 DEF n

\* A `get' sent to a server that will refuse it.
LEMMA RefusedGetFlows ==
  ASSUME NEW w, NEW p, NEW R, NEW V, NEW ch, NEW sub, NEW up, NEW subs, NEW cs, NEW k, NEW m,
         NEW command, NEW ds, NEW q, Typed(w, p, R, V, sub, up, subs, cs, k, m),
         Queued(q, p, ds, cs, command), command.kind = "get", sub,
         Flow(k, m, w, p, R, V, ch, sub, up, subs, cs), Steady(w, p, cs), Owed(R, V, cs)
  PROVE  Flow(k, m, w, q, R, V \cup {Len(cs) + 1}, ch, sub, up, subs, ds)
<1> SUFFICES ASSUME w \in Seq(Reply), p \in Seq(Nat), R \subseteq Nat, V \subseteq Nat,
                    sub \in BOOLEAN, up \in BOOLEAN, subs \subseteq Channel,
                    cs \in Seq(Command), k \in Nat, m \in Nat,
                    q \in Seq(Nat), ds \in Seq(Command), command \in Command,
                    Grown(ds, cs, command),
                    Grown(q, p, Len(cs) + 1)
             PROVE  Flow(k, m, w, q, R, V \cup {Len(cs) + 1}, ch, sub, up, subs, ds)
  BY DEF Typed, Queued
<1> DEFINE n == Len(cs) + 1
           W == V \cup {n}
<1>0. /\ k <= m /\ m <= Len(ds)
      /\ Matching(w, W, ds) /\ Waiting(m, q, ds, up)
      /\ Leaving(w, ch, ds, subs, up) /\ Unanswered(k, ch, ds, up)
  <2>1. /\ k <= m /\ m <= Len(cs) /\ Answering(k, m, w) /\ Matching(w, V, cs)
        /\ Waiting(m, p, cs, up) /\ Unanswered(k, ch, cs, up)
    BY DEF Flow
  <2>2. Matching(w, W, ds)
    BY <2>1, IssueMatching
  <2>3. Waiting(m, q, ds, up)
    BY <2>1, IssueWaiting
  <2>4. Leaving(w, ch, ds, subs, up)
    BY DEF Leaving, Steady
  <2>5. up => \A j \in (k + 1)..Len(cs) : cs[j].kind # "unsubscribe"
    BY NoneLeaves
  <2>6. Unanswered(k, ch, ds, up)
    BY <2>1, <2>5, IssueUnanswered
  <2> QED BY <2>1, <2>2, <2>3, <2>4, <2>6 DEF Grown
<1>1. /\ Len(ds) = n
      /\ \A j \in 1..Len(cs) : ds[j] = cs[j]
      /\ ds[n] = command
  BY DEF Grown
<1>2. Len(cs) \in Nat /\ n \in Nat /\ n = Len(cs) + 1
  OBVIOUS
<1> HIDE DEF n
<1>3. /\ k <= m /\ m <= Len(cs) /\ Answering(k, m, w) /\ RefusalLast(w, up)
      /\ DueAfter(k, R, V, cs) /\ Channelled(w, ch, sub)
      /\ Synced(m, w, ch, cs, subs, up) /\ Refusable(m, w, R, V, cs, subs, up, sub)
  BY DEF Flow
<1>5. \A i \in R \cup V : i \in 1..Len(cs) /\ cs[i].kind = "get"
  BY DEF Owed
<1>6. DueAfter(k, R, W, ds)
  <2>1. \A i \in R \cup W : i > k
    BY <1>2, <1>3 DEF DueAfter
  <2>2. ASSUME NEW i \in (k + 1)..Len(ds), ds[i].kind = "get" PROVE i \in R \cup W
    <3>1. CASE i = n
      BY <3>1
    <3>2. CASE i # n
      <4>1. i \in (k + 1)..Len(cs) /\ ds[i] = cs[i]
        BY <1>1, <1>2, <3>2
      <4> QED BY <1>3, <2>2, <4>1 DEF DueAfter
    <3> QED BY <3>1, <3>2
  <2>3. ASSUME NEW i \in R, NEW j \in (k + 1)..i PROVE j \in R
    BY <1>3 DEF DueAfter
  <2> QED BY <2>1, <2>2, <2>3 DEF DueAfter
<1>7. Synced(m, w, ch, ds, subs, up)
  <2> SUFFICES ASSUME up, NEW c \in Channel, ch[c] # FN_NULL
               PROVE  \/ c \in subs
                      \/ \E j \in (m + 1)..Len(ds) : ds[j].kind = "subscribe" /\ ds[j].channel = c
                      \/ \E x \in 1..Len(w) : w[x].type = "unsubscribe" /\ w[x].channel = c
    BY <1>3 DEF Synced
  <2>1. CASE \E j \in (m + 1)..Len(cs) : cs[j].kind = "subscribe" /\ cs[j].channel = c
    <3> PICK j \in (m + 1)..Len(cs) : cs[j].kind = "subscribe" /\ cs[j].channel = c
      BY <2>1
    <3>1. j \in (m + 1)..Len(ds) /\ ds[j] = cs[j]
      BY <1>1, <1>2
    <3> QED BY <3>1
  <2> QED BY <1>3, <2>1 DEF Synced
<1>8. Refusable(m, w, R, W, ds, subs, up, sub)
  <2>1. ASSUME up, NEW i \in W, i > m
        PROVE  subs # {} \/ \E j \in (m + 1)..i : ds[j].kind = "subscribe"
    <3>1. CASE i \in V
      <4>1. CASE subs # {}
        BY <4>1
      <4>2. CASE \E j \in (m + 1)..i : cs[j].kind = "subscribe"
        <5> PICK j \in (m + 1)..i : cs[j].kind = "subscribe"
          BY <4>2
        <5>1. j \in 1..Len(cs)
          BY <3>1, <1>5
        <5> QED BY <5>1, <1>1
      <4> QED BY <2>1, <3>1, <4>1, <4>2, <1>3 DEF Refusable
    <3>2. CASE i = n
      <4> PICK c \in Channel : ch[c] # FN_NULL
        BY <1>3 DEF Channelled
      <4>1. CASE c \in subs
        BY <4>1
      <4>2. CASE \E j \in (m + 1)..Len(cs) : cs[j].kind = "subscribe" /\ cs[j].channel = c
        <5> PICK j \in (m + 1)..Len(cs) : cs[j].kind = "subscribe" /\ cs[j].channel = c
          BY <4>2
        <5>1. j \in (m + 1)..i /\ ds[j] = cs[j]
          BY <1>1, <1>2, <3>2
        <5> QED BY <5>1
      <4>3. CASE \E x \in 1..Len(w) : w[x].type = "unsubscribe" /\ w[x].channel = c
        BY <4>3 DEF Steady
      <4> QED BY <2>1, <4>1, <4>2, <4>3, <1>3 DEF Synced
    <3> QED BY <3>1, <3>2
  <2> QED BY <1>3, <2>1 DEF Refusable
<1>9. Flow(k, m, w, q, R, W, ch, sub, up, subs, ds)
  BY <1>0, <1>3, <1>6, <1>7, <1>8 DEF Flow
<1> QED BY <1>9 DEF n

\* A subscription, or the end of one.
LEMMA ChannelFlows ==
  ASSUME NEW w, NEW p, NEW R, NEW V, NEW ch, NEW sub, NEW up, NEW subs, NEW cs, NEW k, NEW m,
         NEW dh, NEW dsub, NEW command, NEW ds, NEW q,
         Typed(w, p, R, V, sub, up, subs, cs, k, m), Queued(q, p, ds, cs, command),
         command.kind # "get", Linked(ch, dh, command, Len(cs) + 1), dsub \in BOOLEAN, dsub,
         Flow(k, m, w, p, R, V, ch, sub, up, subs, cs), Steady(w, p, cs), Owed(R, V, cs)
  PROVE  Flow(k, m, w, q, R, V, dh, dsub, up, subs, ds)
<1> SUFFICES ASSUME w \in Seq(Reply), p \in Seq(Nat), R \subseteq Nat, V \subseteq Nat,
                    sub \in BOOLEAN, up \in BOOLEAN, subs \subseteq Channel,
                    cs \in Seq(Command), k \in Nat, m \in Nat,
                    q \in Seq(Nat), ds \in Seq(Command), command \in Command,
                    Grown(ds, cs, command),
                    Grown(q, p, Len(cs) + 1),
                    \A c \in Channel : dh[c] # FN_NULL <=> ch[c] # FN_NULL \/ c = command.channel,
                    command.kind = "unsubscribe" => ch[command.channel] # FN_NULL
             PROVE  Flow(k, m, w, q, R, V, dh, dsub, up, subs, ds)
  BY DEF Typed, Queued, Linked
<1> DEFINE n == Len(cs) + 1
<1>0. command.channel \in Channel /\ command.kind \in {"subscribe", "unsubscribe"}
  BY DEF Command
<1>1. /\ Len(ds) = n
      /\ \A j \in 1..Len(cs) : ds[j] = cs[j]
      /\ ds[n] = command
  BY DEF Grown
<1>2. Len(cs) \in Nat /\ n \in Nat /\ n = Len(cs) + 1
  OBVIOUS
<1> HIDE DEF n
<1>3. /\ k <= m /\ m <= Len(cs) /\ Answering(k, m, w) /\ RefusalLast(w, up)
      /\ DueAfter(k, R, V, cs) /\ Channelled(w, ch, sub) /\ Matching(w, V, cs)
      /\ Waiting(m, p, cs, up) /\ Unanswered(k, ch, cs, up)
      /\ Synced(m, w, ch, cs, subs, up) /\ Refusable(m, w, R, V, cs, subs, up, sub)
  BY DEF Flow
<1>4. Matching(w, V, ds)
  BY <1>3, IssueMatching
<1>5. Waiting(m, q, ds, up)
  BY <1>3, IssueWaiting
<1>6. Leaving(w, dh, ds, subs, up)
  BY DEF Leaving, Steady
<1>7. Unanswered(k, dh, ds, up)
  <2>1. up => \A j \in (k + 1)..Len(cs) : cs[j].kind # "unsubscribe"
    BY NoneLeaves
  <2>2. /\ \A c \in Channel : ch[c] # FN_NULL => dh[c] # FN_NULL
        /\ dh[command.channel] # FN_NULL
    BY <1>0
  <2> QED BY <1>3, <2>1, <2>2, IssueUnanswered
<1>8. \A i \in R \cup V : i \in 1..Len(cs) /\ cs[i].kind = "get"
  BY DEF Owed
<1>9. DueAfter(k, R, V, ds)
  <2>1. ASSUME NEW i \in (k + 1)..Len(ds), ds[i].kind = "get" PROVE i \in R \cup V
    <3>1. i # n
      BY <1>1, <2>1
    <3>2. i \in (k + 1)..Len(cs) /\ ds[i] = cs[i]
      BY <1>1, <1>2, <3>1
    <3> QED BY <1>3, <2>1, <3>2 DEF DueAfter
  <2> QED BY <1>3, <2>1 DEF DueAfter
<1>10. Channelled(w, dh, dsub)
  <2>1. ASSUME NEW x \in 1..Len(w), w[x].type \in ChannelReply PROVE dh[w[x].channel] # FN_NULL
    <3>1. w[x].channel \in Channel
      BY <2>1, ReplyFields
    <3> QED BY <1>3, <2>1, <3>1 DEF Channelled
  <2> QED BY <1>0, <2>1 DEF Channelled
<1>11. Synced(m, w, dh, ds, subs, up)
  <2> SUFFICES ASSUME up
               PROVE  /\ \A c \in subs : dh[c] # FN_NULL
                      /\ \A c \in Channel : dh[c] # FN_NULL =>
                          \/ c \in subs
                          \/ \E j \in (m + 1)..Len(ds) :
                                ds[j].kind = "subscribe" /\ ds[j].channel = c
                          \/ \E x \in 1..Len(w) : w[x].type = "unsubscribe" /\ w[x].channel = c
    BY DEF Synced
  <2>1. \A c \in subs : dh[c] # FN_NULL
    BY <1>3 DEF Synced
  <2>2. ASSUME NEW c \in Channel, dh[c] # FN_NULL
        PROVE  \/ c \in subs
               \/ \E j \in (m + 1)..Len(ds) : ds[j].kind = "subscribe" /\ ds[j].channel = c
               \/ \E x \in 1..Len(w) : w[x].type = "unsubscribe" /\ w[x].channel = c
    <3>1. CASE ch[c] = FN_NULL
      <4>1. c = command.channel /\ command.kind = "subscribe"
        BY <1>0, <2>2, <3>1
      <4>2. n \in (m + 1)..Len(ds)
        BY <1>1, <1>2, <1>3
      <4> QED BY <1>1, <4>1, <4>2
    <3>2. CASE \E j \in (m + 1)..Len(cs) : cs[j].kind = "subscribe" /\ cs[j].channel = c
      <4> PICK j \in (m + 1)..Len(cs) : cs[j].kind = "subscribe" /\ cs[j].channel = c
        BY <3>2
      <4>1. j \in (m + 1)..Len(ds) /\ ds[j] = cs[j]
        BY <1>1, <1>2
      <4> QED BY <4>1
    <3> QED BY <1>3, <3>1, <3>2 DEF Synced
  <2> QED BY <2>1, <2>2
<1>12. Refusable(m, w, R, V, ds, subs, up, dsub)
  <2>1. ASSUME up, NEW i \in V, i > m
        PROVE  subs # {} \/ \E j \in (m + 1)..i : ds[j].kind = "subscribe"
    <3>1. CASE subs # {}
      BY <3>1
    <3>2. CASE \E j \in (m + 1)..i : cs[j].kind = "subscribe"
      <4> PICK j \in (m + 1)..i : cs[j].kind = "subscribe"
        BY <3>2
      <4>1. j \in 1..Len(cs)
        BY <1>8
      <4> QED BY <4>1, <1>1
    <3> QED BY <2>1, <3>1, <3>2, <1>3 DEF Refusable
  <2> QED BY <1>3, <2>1 DEF Refusable
<1> m <= Len(ds)
  BY <1>1, <1>2, <1>3
<1> QED BY <1>3, <1>4, <1>5, <1>6, <1>7, <1>9, <1>10, <1>11, <1>12 DEF Flow

-----------------------------------------------------------------------------
(***************************************************************************)
(* The server answers, publishes, refuses and closes                       *)
(***************************************************************************)
\* The answer to the first command that waits, as the server that has the
\* subscriptions subs gives it; its subscriptions are tubs then.
AnswerTo(i, command, reply, subs, tubs) ==
    /\ reply.of = i
    /\ IF command.kind = "get"
       THEN /\ reply.type = (IF subs = {} THEN "string" ELSE "error")
            /\ tubs = subs
       ELSE /\ reply.type = command.kind /\ reply.channel = command.channel
            /\ tubs = IF command.kind = "subscribe" THEN subs \cup {command.channel}
                      ELSE subs \ {command.channel}
            /\ reply.count = 0 <=> tubs = {}

\* The server answers the first of what is pending: it is now on its way.
LEMMA AnswerFlows ==
  ASSUME NEW w, NEW p, NEW R, NEW V, NEW ch, NEW sub, NEW up, NEW subs, NEW cs, NEW k, NEW m,
         NEW tubs, NEW reply, NEW v, NEW q, Typed(w, p, R, V, sub, up, subs, cs, k, m), up,
         tubs \subseteq Channel, reply \in Reply, v \in Seq(Reply), Grown(v, w, reply),
         q \in Seq(Nat), Dropped(q, p), AnswerTo(p[1], cs[p[1]], reply, subs, tubs),
         Flow(k, m, w, p, R, V, ch, sub, up, subs, cs), Owed(R, V, cs)
  PROVE  Flow(k, m + 1, v, q, R, V, ch, sub, up, tubs, cs)
<1> SUFFICES ASSUME w \in Seq(Reply), p \in Seq(Nat), R \subseteq Nat, V \subseteq Nat,
                    sub \in BOOLEAN, up \in BOOLEAN, subs \subseteq Channel,
                    cs \in Seq(Command), k \in Nat, m \in Nat
             PROVE  Flow(k, m + 1, v, q, R, V, ch, sub, up, tubs, cs)
  BY DEF Typed
<1> DEFINE n == m + 1
           l == Len(w) + 1
<1>1. Len(cs) \in Nat /\ n \in Nat /\ n = m + 1 /\ Len(w) \in Nat /\ l = Len(w) + 1
  OBVIOUS
<1>2. Len(v) = l /\ v[l] = reply /\ \A x \in 1..Len(w) : v[x] = w[x]
  BY DEF Grown
<1> HIDE DEF n, l
<1>3. /\ k <= m /\ m <= Len(cs) /\ Answering(k, m, w) /\ RefusalLast(w, up)
      /\ DueAfter(k, R, V, cs) /\ Channelled(w, ch, sub) /\ Matching(w, V, cs)
      /\ Waiting(m, p, cs, up) /\ Unanswered(k, ch, cs, up) /\ Leaving(w, ch, cs, subs, up)
      /\ Synced(m, w, ch, cs, subs, up) /\ Refusable(m, w, R, V, cs, subs, up, sub)
  BY DEF Flow
<1>4. Len(p) = Len(cs) - m /\ \A x \in 1..Len(p) : p[x] = m + x
  BY <1>3 DEF Waiting
<1>5. /\ Len(q) = Len(p) - 1 /\ Len(p) >= 1
      /\ \A x \in 1..Len(q) : q[x] = p[x + 1]
  BY DEF Dropped
<1>6. p[1] = n /\ n \in 1..Len(cs) /\ n \in (k + 1)..Len(cs) /\ n <= Len(cs)
  BY <1>1, <1>3, <1>4, <1>5
<1> DEFINE command == cs[n]
<1>7. /\ reply.of = n
      /\ command.kind = "get" => /\ reply.type = (IF subs = {} THEN "string" ELSE "error")
                                 /\ tubs = subs
      /\ command.kind # "get" =>
            /\ reply.type = command.kind /\ reply.channel = command.channel
            /\ tubs = IF command.kind = "subscribe" THEN subs \cup {command.channel}
                      ELSE subs \ {command.channel}
            /\ reply.count = 0 <=> tubs = {}
  BY <1>6 DEF AnswerTo
<1>8. /\ command.kind \in {"get", "subscribe", "unsubscribe"}
      /\ command.kind # "get" => command.channel \in Channel
  BY <1>6, CommandFields
<1> HIDE DEF command
<1>9. \A i \in R \cup V : i \in 1..Len(cs) /\ cs[i].kind = "get"
  BY DEF Owed
<1>10. command.kind # "get" => ch[command.channel] # FN_NULL
  BY <1>3, <1>6 DEF Unanswered, command
<1>11. command.kind = "unsubscribe" => n = Len(cs)
  BY <1>3, <1>6 DEF Unanswered, command
<1>12. \A x \in 1..l : x \in 1..Len(w) \/ x = l
  BY <1>1
<1>13. \A x \in 1..Len(w) : w[x].of \in Nat /\ w[x].of < n /\ (w[x].of # 0 => w[x].of > k)
  <2> TAKE x \in 1..Len(w)
  <2>1. w[x].of \in {0} \cup (k + 1)..m
    BY <1>3 DEF Answering
  <2>2. k \in Nat /\ m \in Nat /\ n = m + 1
    BY <1>1
  <2> QED BY ONLY <2>1, <2>2
<1>14. \A x \in 1..Len(w) : w[x].type # "unsubscribe"
  <2> SUFFICES ASSUME NEW x \in 1..Len(w), w[x].type = "unsubscribe" PROVE FALSE
    OBVIOUS
  <2>1. w[x].of = Len(cs)
    BY <1>3 DEF Leaving
  <2>2. w[x].of < n
    BY <1>13
  <2>3. Len(cs) \in Nat /\ n \in Nat
    BY <1>1
  <2> QED BY ONLY <1>6, <2>1, <2>2, <2>3
<1>15. Answering(k, n, v)
  <2>1. ASSUME NEW x \in 1..Len(v) PROVE v[x].of \in {0} \cup (k + 1)..n
    <3>1. CASE x \in 1..Len(w)
      <4>1. w[x].of \in {0} \cup (k + 1)..m
        BY <1>3, <3>1 DEF Answering
      <4> QED BY <1>1, <1>2, <3>1, <4>1
    <3>2. CASE x = l
      <4>1. n \in (k + 1)..n
        BY <1>1, <1>6
      <4> QED BY <1>2, <1>7, <3>2, <4>1
    <3> QED BY <1>2, <1>12, <3>1, <3>2
  <2>2. ASSUME NEW x \in 1..Len(v), NEW y \in 1..Len(v), x < y, v[x].of # 0, v[y].of # 0
        PROVE  v[x].of < v[y].of
    <3>1. x \in 1..Len(w)
      BY <1>1, <1>2, <2>2
    <3>2. CASE y \in 1..Len(w)
      <4>1. v[x] = w[x] /\ v[y] = w[y]
        BY <1>2, <3>1, <3>2
      <4> QED BY <1>3, <2>2, <3>1, <3>2, <4>1 DEF Answering
    <3>3. CASE y = l
      BY <1>2, <1>7, <1>13, <3>1, <3>3
    <3> QED BY <1>2, <1>12, <3>2, <3>3
  <2>3. ASSUME NEW j \in (k + 1)..n PROVE \E x \in 1..Len(v) : v[x].of = j
    <3>1. CASE j = n
      <4>1. l \in 1..Len(v)
        BY <1>1, <1>2
      <4> QED BY <1>2, <1>7, <3>1, <4>1
    <3>2. CASE j # n
      <4>1. j \in (k + 1)..m
        BY <1>1, <3>2
      <4> PICK x \in 1..Len(w) : w[x].of = j
        BY <1>3, <4>1 DEF Answering
      <4>2. x \in 1..Len(v)
        BY <1>1, <1>2
      <4> QED BY <1>2, <4>2
    <3> QED BY <3>1, <3>2
  <2> QED BY <2>1, <2>2, <2>3 DEF Answering
<1>16. Matching(v, V, cs)
  <2> SUFFICES ASSUME NEW x \in 1..Len(v)
               PROVE  IF v[x].of = 0 THEN v[x].type \in {"message", "error"}
                      ELSE IF cs[v[x].of].kind = "get"
                      THEN /\ v[x].type \in {"string", "error"}
                           /\ v[x].of \in V => v[x].type = "error"
                      ELSE v[x].type = cs[v[x].of].kind /\ v[x].channel = cs[v[x].of].channel
    BY DEF Matching
  <2>1. CASE x \in 1..Len(w)
    <3>1. v[x] = w[x]
      BY <1>2, <2>1
    <3> QED BY <1>3, <2>1, <3>1 DEF Matching
  <2>2. CASE x = l
    <3>1. v[x].of = n /\ v[x] = reply /\ n # 0 /\ cs[v[x].of] = command
      BY <1>1, <1>2, <1>7, <2>2 DEF command
    <3>2. command.kind = "get" /\ n \in V => subs # {}
      <4> SUFFICES ASSUME command.kind = "get", n \in V, subs = {} PROVE FALSE
        OBVIOUS
      <4> PICK j \in (m + 1)..n : cs[j].kind = "subscribe"
        BY <1>1, <1>3 DEF Refusable
      <4>1. j = n
        BY <1>1
      <4> QED BY <4>1 DEF command
    <3>3. CASE command.kind = "get"
      BY <1>7, <3>1, <3>2, <3>3
    <3>4. CASE command.kind # "get"
      BY <1>7, <3>1, <3>4
    <3> QED BY <3>3, <3>4
  <2> QED BY <1>2, <1>12, <2>1, <2>2
<1>17. RefusalLast(v, up)
  <2> SUFFICES ASSUME NEW x \in 1..Len(v), v[x].of = 0, v[x].type = "error" PROVE FALSE
    BY DEF RefusalLast
  <2>1. x \in 1..Len(w)
    BY <1>1, <1>2, <1>7, <1>12
  <2>2. v[x] = w[x]
    BY <1>2, <2>1
  <2> QED BY <1>3, <2>1, <2>2 DEF RefusalLast
<1>18. Waiting(n, q, cs, up)
  <2>1. Len(q) = Len(cs) - n
    BY <1>1, <1>4, <1>5
  <2>2. ASSUME NEW x \in 1..Len(q) PROVE q[x] = n + x
    <3>1. x + 1 \in 1..Len(p)
      BY <1>5
    <3>2. q[x] = p[x + 1] /\ p[x + 1] = m + (x + 1)
      BY <1>4, <1>5, <3>1
    <3> QED BY <1>1, <3>2
  <2> QED BY <2>1, <2>2 DEF Waiting
<1>19. Channelled(v, ch, sub)
  <2> SUFFICES ASSUME NEW x \in 1..Len(v), v[x].type \in ChannelReply
               PROVE  ch[v[x].channel] # FN_NULL
    BY <1>3 DEF Channelled
  <2>1. CASE x \in 1..Len(w)
    <3>1. v[x] = w[x]
      BY <1>2, <2>1
    <3> QED BY <1>3, <2>1, <3>1 DEF Channelled
  <2>2. CASE x = l
    <3>1. v[x] = reply /\ command.kind # "get"
      BY <1>2, <1>7, <1>8, <2>2 DEF ChannelReply
    <3> QED BY <1>7, <1>10, <3>1
  <2> QED BY <1>2, <1>12, <2>1, <2>2
<1>20. Leaving(v, ch, cs, tubs, up)
  <2> SUFFICES ASSUME NEW x \in 1..Len(v), v[x].type = "unsubscribe"
               PROVE  /\ v[x].of = Len(cs)
                      /\ v[x].channel \notin tubs
                      /\ \A y \in 1..Len(v) : y > x /\ v[y].type = "message" =>
                            v[y].channel # v[x].channel
                      /\ v[x].count = 0 <=>
                            \A c \in Channel : ch[c] # FN_NULL => c = v[x].channel
    BY DEF Leaving
  <2>1. x = l
    BY <1>2, <1>12, <1>14
  <2>2. v[x] = reply /\ command.kind = "unsubscribe"
    BY <1>2, <1>7, <1>8, <2>1
  <2>3. v[x].of = Len(cs) /\ v[x].channel = command.channel
    BY <1>7, <1>11, <2>2
  <2>4. tubs = subs \ {command.channel}
    BY <1>7, <2>2
  <2>5. \A y \in 1..Len(v) : ~ (y > x)
    BY <1>1, <1>2, <2>1
  <2>6. \A c \in Channel : ch[c] # FN_NULL <=> c \in subs
    <3> SUFFICES ASSUME NEW c \in Channel, ch[c] # FN_NULL, c \notin subs PROVE FALSE
      BY <1>3 DEF Synced
    <3>1. CASE \E j \in (m + 1)..Len(cs) : cs[j].kind = "subscribe" /\ cs[j].channel = c
      <4> PICK j \in (m + 1)..Len(cs) : cs[j].kind = "subscribe"
        BY <3>1
      <4>1. j = n
        BY <1>1, <1>11, <2>2
      <4> QED BY <4>1, <2>2 DEF command
    <3> QED BY <1>3, <1>14, <3>1 DEF Synced
  <2>7. tubs = {} <=> \A c \in Channel : ch[c] # FN_NULL => c = command.channel
    BY <2>4, <2>6
  <2> QED BY <1>7, <2>2, <2>3, <2>4, <2>5, <2>7
<1>21. Synced(n, v, ch, cs, tubs, up)
  <2>1. ASSUME NEW c \in tubs PROVE ch[c] # FN_NULL
    <3>1. c \in subs \/ (command.kind = "subscribe" /\ c = command.channel)
      BY <1>7, <1>8
    <3> QED BY <1>3, <1>10, <3>1 DEF Synced
  <2>2. ASSUME NEW c \in Channel, ch[c] # FN_NULL
        PROVE  \/ c \in tubs
               \/ \E j \in (n + 1)..Len(cs) : cs[j].kind = "subscribe" /\ cs[j].channel = c
               \/ \E x \in 1..Len(v) : v[x].type = "unsubscribe" /\ v[x].channel = c
    <3>0. l \in 1..Len(v) /\ v[l] = reply
      BY <1>1, <1>2
    <3>1. CASE c \in subs
      <4>1. c \in tubs \/ (command.kind = "unsubscribe" /\ c = command.channel)
        BY <1>7, <1>8, <3>1
      <4> QED BY <1>7, <3>0, <4>1
    <3>2. CASE \E j \in (m + 1)..Len(cs) : cs[j].kind = "subscribe" /\ cs[j].channel = c
      <4> PICK j \in (m + 1)..Len(cs) : cs[j].kind = "subscribe" /\ cs[j].channel = c
        BY <3>2
      <4>1. CASE j = n
        BY <1>7, <4>1 DEF command
      <4>2. CASE j # n
        <5>1. j \in (n + 1)..Len(cs)
          BY <1>1, <4>2
        <5> QED BY <5>1
      <4> QED BY <4>1, <4>2
    <3> QED BY <1>3, <1>14, <2>2, <3>1, <3>2 DEF Synced
  <2> QED BY <2>1, <2>2 DEF Synced
<1>22. Refusable(n, v, R, V, cs, tubs, up, sub)
  <2>1. ASSUME NEW i \in V, i > n
        PROVE  tubs # {} \/ \E j \in (n + 1)..i : cs[j].kind = "subscribe"
    <3>0. i \in 1..Len(cs) /\ i > m
      <4>1. i \in 1..Len(cs) /\ i \in Nat /\ m \in Nat /\ n = m + 1
        BY <1>1, <1>9
      <4> QED BY ONLY <2>1, <4>1
    <3>1. CASE command.kind = "unsubscribe"
      BY <1>11, <2>1, <3>0, <3>1
    <3>2. CASE command.kind = "subscribe"
      BY <1>7, <3>2
    <3>3. CASE command.kind = "get"
      <4>1. CASE subs # {}
        BY <1>7, <3>3, <4>1
      <4>2. CASE \E j \in (m + 1)..i : cs[j].kind = "subscribe"
        <5> PICK j \in (m + 1)..i : cs[j].kind = "subscribe"
          BY <4>2
        <5>1. j # n
          BY <3>3 DEF command
        <5>2. j \in (n + 1)..i
          BY <1>1, <5>1
        <5> QED BY <5>2
      <4> QED BY <1>3, <3>0, <4>1, <4>2 DEF Refusable
    <3> QED BY <1>8, <3>1, <3>2, <3>3
  <2>2. ASSUME NEW x \in 1..Len(v), NEW i \in R, v[x].type = "message"
        PROVE  \E y \in 1..(x - 1) : v[y].of = i
    <3>1. x \in 1..Len(w)
      <4> SUFFICES ASSUME x = l PROVE FALSE
        BY <1>2, <1>12
      <4> QED BY <1>2, <1>7, <1>8, <2>2
    <3>2. w[x].type = "message"
      BY <1>2, <2>2, <3>1
    <3> PICK y \in 1..(x - 1) : w[y].of = i
      BY <1>3, <3>1, <3>2 DEF Refusable
    <3>3. y \in 1..Len(w)
      BY <3>1
    <3> QED BY <1>2, <3>3
  <2>3. ASSUME tubs # {}, NEW i \in R PROVE i <= n
    <3>0. i \in Nat
      OBVIOUS
    <3>1. CASE subs # {}
      <4>1. i <= m
        BY <1>3, <3>1 DEF Refusable
      <4> QED BY <1>1, <3>0, <4>1
    <3>2. CASE subs = {}
      <4>1. command.kind = "subscribe"
        BY <1>7, <1>8, <2>3, <3>2
      <4> SUFFICES ASSUME i > n PROVE FALSE
        BY <1>1, <3>0
      <4>2. n \in (k + 1)..i
        BY <1>1, <1>3, <3>0
      <4>3. n \in R
        BY <1>3, <4>2 DEF DueAfter
      <4> QED BY <1>9, <4>1, <4>3 DEF command
    <3> QED BY <3>1, <3>2
  <2> QED BY <1>3, <2>1, <2>2, <2>3 DEF Refusable
<1>23. k <= n
  BY <1>1, <1>3
<1>24. Flow(k, n, v, q, R, V, ch, sub, up, tubs, cs)
  BY <1>1, <1>3, <1>6, <1>15, <1>16, <1>17, <1>18, <1>19, <1>20, <1>21, <1>22, <1>23 DEF Flow
<1> QED BY <1>24 DEF n

\* A message to a channel that the server has a subscription of.
LEMMA MessageFlows ==
  ASSUME NEW w, NEW p, NEW R, NEW V, NEW ch, NEW sub, NEW up, NEW subs, NEW cs, NEW k, NEW m,
         NEW reply, NEW v, Typed(w, p, R, V, sub, up, subs, cs, k, m), up, reply \in Reply,
         v \in Seq(Reply), Grown(v, w, reply), reply.type = "message", reply.channel \in subs,
         Flow(k, m, w, p, R, V, ch, sub, up, subs, cs)
  PROVE  Flow(k, m, v, p, R, V, ch, sub, up, subs, cs)
<1> SUFFICES ASSUME w \in Seq(Reply), p \in Seq(Nat), R \subseteq Nat, V \subseteq Nat,
                    sub \in BOOLEAN, up \in BOOLEAN, subs \subseteq Channel,
                    cs \in Seq(Command), k \in Nat, m \in Nat
             PROVE  Flow(k, m, v, p, R, V, ch, sub, up, subs, cs)
  BY DEF Typed
<1> DEFINE l == Len(w) + 1
<1>1. Len(w) \in Nat /\ l = Len(w) + 1
  OBVIOUS
<1>2. Len(v) = l /\ v[l] = reply /\ \A x \in 1..Len(w) : v[x] = w[x]
  BY DEF Grown
<1> HIDE DEF l
<1>3. \A x \in 1..l : x \in 1..Len(w) \/ x = l
  BY <1>1
<1>4. /\ Answering(k, m, w) /\ RefusalLast(w, up) /\ DueAfter(k, R, V, cs)
      /\ Channelled(w, ch, sub) /\ Matching(w, V, cs) /\ Leaving(w, ch, cs, subs, up)
      /\ Synced(m, w, ch, cs, subs, up) /\ Refusable(m, w, R, V, cs, subs, up, sub)
  BY DEF Flow
<1>5. reply.of = 0
  BY DEF Reply, ChannelReply
<1>6. Answering(k, m, v)
  <2>1. ASSUME NEW x \in 1..Len(v) PROVE v[x].of \in {0} \cup (k + 1)..m
    <3>1. CASE x \in 1..Len(w)
      BY <1>2, <1>4, <3>1 DEF Answering
    <3>2. CASE x = l
      BY <1>2, <1>5, <3>2
    <3> QED BY <1>2, <1>3, <3>1, <3>2
  <2>2. ASSUME NEW x \in 1..Len(v), NEW y \in 1..Len(v), x < y, v[x].of # 0, v[y].of # 0
        PROVE  v[x].of < v[y].of
    <3>1. x \in 1..Len(w) /\ y \in 1..Len(w)
      BY <1>2, <1>3, <1>5, <2>2
    <3>2. v[x] = w[x] /\ v[y] = w[y]
      BY <1>2, <3>1
    <3> QED BY <1>4, <2>2, <3>1, <3>2 DEF Answering
  <2>3. ASSUME NEW j \in (k + 1)..m PROVE \E x \in 1..Len(v) : v[x].of = j
    <3> PICK x \in 1..Len(w) : w[x].of = j
      BY <1>4 DEF Answering
    <3>1. x \in 1..Len(v)
      BY <1>1, <1>2
    <3> QED BY <1>2, <3>1
  <2> QED BY <2>1, <2>2, <2>3 DEF Answering
<1>7. Matching(v, V, cs)
  <2> SUFFICES ASSUME NEW x \in 1..Len(v)
               PROVE  IF v[x].of = 0 THEN v[x].type \in {"message", "error"}
                      ELSE IF cs[v[x].of].kind = "get"
                      THEN /\ v[x].type \in {"string", "error"}
                           /\ v[x].of \in V => v[x].type = "error"
                      ELSE v[x].type = cs[v[x].of].kind /\ v[x].channel = cs[v[x].of].channel
    BY DEF Matching
  <2>1. CASE x \in 1..Len(w)
    <3>1. v[x] = w[x]
      BY <1>2, <2>1
    <3> QED BY <1>4, <2>1, <3>1 DEF Matching
  <2>2. CASE x = l
    BY <1>2, <1>5, <2>2
  <2> QED BY <1>2, <1>3, <2>1, <2>2
<1>8. RefusalLast(v, up)
  <2> SUFFICES ASSUME NEW x \in 1..Len(v), v[x].of = 0, v[x].type = "error" PROVE FALSE
    BY DEF RefusalLast
  <2>1. x \in 1..Len(w)
    BY <1>2, <1>3
  <2> QED BY <1>2, <1>4, <2>1 DEF RefusalLast
<1>9. Channelled(v, ch, sub)
  <2> SUFFICES ASSUME NEW x \in 1..Len(v), v[x].type \in ChannelReply
               PROVE  ch[v[x].channel] # FN_NULL
    BY <1>4 DEF Channelled
  <2>1. CASE x \in 1..Len(w)
    <3>1. v[x] = w[x]
      BY <1>2, <2>1
    <3> QED BY <1>4, <2>1, <3>1 DEF Channelled
  <2>2. CASE x = l
    BY <1>2, <1>4, <2>2 DEF Synced
  <2> QED BY <1>2, <1>3, <2>1, <2>2
<1>10. Leaving(v, ch, cs, subs, up)
  <2> SUFFICES ASSUME NEW x \in 1..Len(v), v[x].type = "unsubscribe"
               PROVE  /\ v[x].of = Len(cs)
                      /\ v[x].channel \notin subs
                      /\ \A y \in 1..Len(v) : y > x /\ v[y].type = "message" =>
                            v[y].channel # v[x].channel
                      /\ v[x].count = 0 <=>
                            \A c \in Channel : ch[c] # FN_NULL => c = v[x].channel
    BY DEF Leaving
  <2>1. x \in 1..Len(w) /\ v[x] = w[x]
    BY <1>2, <1>3
  <2>2. v[x].channel \notin subs
    BY <1>4, <2>1 DEF Leaving
  <2>3. ASSUME NEW y \in 1..Len(v), y > x, v[y].type = "message"
        PROVE  v[y].channel # v[x].channel
    <3>1. CASE y \in 1..Len(w)
      <4>1. v[y] = w[y]
        BY <1>2, <3>1
      <4> QED BY <1>4, <2>1, <2>3, <3>1, <4>1 DEF Leaving
    <3>2. CASE y = l
      BY <1>2, <2>2, <3>2
    <3> QED BY <1>2, <1>3, <3>1, <3>2
  <2> QED BY <1>4, <2>1, <2>2, <2>3 DEF Leaving
<1>11. Synced(m, v, ch, cs, subs, up)
  <2>1. ASSUME NEW c, \E x \in 1..Len(w) : w[x].type = "unsubscribe" /\ w[x].channel = c
        PROVE  \E x \in 1..Len(v) : v[x].type = "unsubscribe" /\ v[x].channel = c
    <3> PICK x \in 1..Len(w) : w[x].type = "unsubscribe" /\ w[x].channel = c
      BY <2>1
    <3>1. x \in 1..Len(v) /\ v[x] = w[x]
      BY <1>1, <1>2
    <3> QED BY <3>1
  <2> QED BY <1>4, <2>1 DEF Synced
<1>12. Refusable(m, v, R, V, cs, subs, up, sub)
  <2>1. ASSUME NEW x \in 1..Len(v), NEW i \in R, v[x].type = "message"
        PROVE  \E y \in 1..(x - 1) : v[y].of = i
    <3>1. CASE x \in 1..Len(w)
      <4>1. w[x].type = "message"
        BY <1>2, <2>1, <3>1
      <4> PICK y \in 1..(x - 1) : w[y].of = i
        BY <1>4, <3>1, <4>1 DEF Refusable
      <4>2. y \in 1..Len(w)
        BY <3>1
      <4> QED BY <1>2, <4>2
    <3>2. CASE x = l
      <4>1. i <= m
        BY <1>4 DEF Refusable
      <4>2. i > k
        BY <1>4 DEF DueAfter
      <4>3. i \in (k + 1)..m
        BY <4>1, <4>2
      <4> PICK y \in 1..Len(w) : w[y].of = i
        BY <1>4, <4>3 DEF Answering
      <4>4. y \in 1..(x - 1)
        BY <1>1, <3>2
      <4> QED BY <1>2, <4>4
    <3> QED BY <1>2, <1>3, <3>1, <3>2
  <2> QED BY <1>4, <2>1 DEF Refusable
<1> QED BY <1>6, <1>7, <1>8, <1>9, <1>10, <1>11, <1>12 DEF Flow

\* The connection ends: what waits is of no account then.
LEMMA DownFlows ==
  ASSUME NEW w, NEW p, NEW q, NEW R, NEW V, NEW ch, NEW sub, NEW up, up \in BOOLEAN,
         NEW down, down \in BOOLEAN, ~ down, NEW subs, NEW tubs, NEW cs, NEW k, NEW m,
         Flow(k, m, w, p, R, V, ch, sub, up, subs, cs)
  PROVE  Flow(k, m, w, q, R, V, ch, sub, down, tubs, cs)
<1>1. RefusalLast(w, down)
  BY DEF Flow, RefusalLast
<1>2. Waiting(m, q, cs, down) /\ Leaving(w, ch, cs, tubs, down) /\ Unanswered(k, ch, cs, down)
  BY DEF Flow, Waiting, Leaving, Unanswered
<1>3. Synced(m, w, ch, cs, tubs, down) /\ Refusable(m, w, R, V, cs, tubs, down, sub)
  BY DEF Flow, Synced, Refusable
<1> QED BY <1>1, <1>2, <1>3 DEF Flow

\* The refusal of the server, which nothing follows.
LEMMA RefusalFlows ==
  ASSUME NEW w, NEW p, NEW R, NEW V, NEW ch, NEW sub, NEW up, NEW subs, NEW cs, NEW k, NEW m,
         NEW down, NEW reply, NEW v, NEW q, Typed(w, p, R, V, sub, up, subs, cs, k, m), up,
         down \in BOOLEAN, ~ down, reply \in Reply, v \in Seq(Reply), Grown(v, w, reply),
         reply.type = "error", reply.of = 0, Flow(k, m, w, p, R, V, ch, sub, up, subs, cs)
  PROVE  Flow(k, m, v, q, R, V, ch, sub, down, subs, cs)
<1> SUFFICES ASSUME w \in Seq(Reply), p \in Seq(Nat), R \subseteq Nat, V \subseteq Nat,
                    sub \in BOOLEAN, up \in BOOLEAN, subs \subseteq Channel,
                    cs \in Seq(Command), k \in Nat, m \in Nat
             PROVE  Flow(k, m, v, q, R, V, ch, sub, down, subs, cs)
  BY DEF Typed
<1> DEFINE l == Len(w) + 1
<1>1. Len(w) \in Nat /\ l = Len(w) + 1
  OBVIOUS
<1>2. Len(v) = l /\ v[l] = reply /\ \A x \in 1..Len(w) : v[x] = w[x]
  BY DEF Grown
<1> HIDE DEF l
<1>3. \A x \in 1..l : x \in 1..Len(w) \/ x = l
  BY <1>1
<1>4. /\ Answering(k, m, w) /\ RefusalLast(w, up) /\ DueAfter(k, R, V, cs)
      /\ Channelled(w, ch, sub) /\ Matching(w, V, cs) /\ Leaving(w, ch, cs, subs, up)
      /\ Unanswered(k, ch, cs, up) /\ Refusable(m, w, R, V, cs, subs, up, sub)
  BY DEF Flow
<1>6. Answering(k, m, v)
  <2>1. ASSUME NEW x \in 1..Len(v) PROVE v[x].of \in {0} \cup (k + 1)..m
    <3>1. CASE x \in 1..Len(w)
      BY <1>2, <1>4, <3>1 DEF Answering
    <3>2. CASE x = l
      BY <1>2, <3>2
    <3> QED BY <1>2, <1>3, <3>1, <3>2
  <2>2. ASSUME NEW x \in 1..Len(v), NEW y \in 1..Len(v), x < y, v[x].of # 0, v[y].of # 0
        PROVE  v[x].of < v[y].of
    <3>1. x \in 1..Len(w) /\ y \in 1..Len(w)
      BY <1>2, <1>3, <2>2
    <3>2. v[x] = w[x] /\ v[y] = w[y]
      BY <1>2, <3>1
    <3> QED BY <1>4, <2>2, <3>1, <3>2 DEF Answering
  <2>3. ASSUME NEW j \in (k + 1)..m PROVE \E x \in 1..Len(v) : v[x].of = j
    <3> PICK x \in 1..Len(w) : w[x].of = j
      BY <1>4 DEF Answering
    <3>1. x \in 1..Len(v)
      BY <1>1, <1>2
    <3> QED BY <1>2, <3>1
  <2> QED BY <2>1, <2>2, <2>3 DEF Answering
<1>7. Matching(v, V, cs)
  <2> SUFFICES ASSUME NEW x \in 1..Len(v)
               PROVE  IF v[x].of = 0 THEN v[x].type \in {"message", "error"}
                      ELSE IF cs[v[x].of].kind = "get"
                      THEN /\ v[x].type \in {"string", "error"}
                           /\ v[x].of \in V => v[x].type = "error"
                      ELSE v[x].type = cs[v[x].of].kind /\ v[x].channel = cs[v[x].of].channel
    BY DEF Matching
  <2>1. CASE x \in 1..Len(w)
    <3>1. v[x] = w[x]
      BY <1>2, <2>1
    <3> QED BY <1>4, <2>1, <3>1 DEF Matching
  <2>2. CASE x = l
    BY <1>2, <2>2
  <2> QED BY <1>2, <1>3, <2>1, <2>2
<1>8. RefusalLast(v, down)
  <2> SUFFICES ASSUME NEW x \in 1..Len(v), v[x].of = 0, v[x].type = "error" PROVE x = Len(v)
    BY DEF RefusalLast
  <2> SUFFICES ASSUME x \in 1..Len(w) PROVE FALSE
    BY <1>2, <1>3
  <2> QED BY <1>2, <1>4 DEF RefusalLast
<1>9. Channelled(v, ch, sub)
  <2> SUFFICES ASSUME NEW x \in 1..Len(v), v[x].type \in ChannelReply
               PROVE  ch[v[x].channel] # FN_NULL
    BY <1>4 DEF Channelled
  <2>1. x \in 1..Len(w)
    BY <1>2, <1>3 DEF ChannelReply
  <2>2. v[x] = w[x]
    BY <1>2, <2>1
  <2> QED BY <1>4, <2>1, <2>2 DEF Channelled
<1>10. Leaving(v, ch, cs, subs, down)
  <2> SUFFICES ASSUME NEW x \in 1..Len(v), v[x].type = "unsubscribe"
               PROVE  /\ v[x].of = Len(cs)
                      /\ \A y \in 1..Len(v) : y > x /\ v[y].type = "message" =>
                            v[y].channel # v[x].channel
                      /\ v[x].count = 0 <=>
                            \A c \in Channel : ch[c] # FN_NULL => c = v[x].channel
    BY DEF Leaving
  <2>1. x \in 1..Len(w) /\ v[x] = w[x]
    BY <1>2, <1>3
  <2>3. ASSUME NEW y \in 1..Len(v), y > x, v[y].type = "message"
        PROVE  v[y].channel # v[x].channel
    <3>1. y \in 1..Len(w)
      BY <1>2, <1>3, <2>3
    <3>2. v[y] = w[y]
      BY <1>2, <3>1
    <3> QED BY <1>4, <2>1, <2>3, <3>1, <3>2 DEF Leaving
  <2> QED BY <1>4, <2>1, <2>3 DEF Leaving
<1>11. Synced(m, v, ch, cs, subs, down) /\ Unanswered(k, ch, cs, down) /\ Waiting(m, q, cs, down)
  BY <1>4 DEF Synced, Unanswered, Waiting
<1>12. Refusable(m, v, R, V, cs, subs, down, sub)
  <2>1. ASSUME NEW x \in 1..Len(v), NEW i \in R, v[x].type = "message"
        PROVE  \E y \in 1..(x - 1) : v[y].of = i
    <3>1. x \in 1..Len(w)
      BY <1>2, <1>3, <2>1
    <3>2. w[x].type = "message"
      BY <1>2, <2>1, <3>1
    <3> PICK y \in 1..(x - 1) : w[y].of = i
      BY <1>4, <3>1, <3>2 DEF Refusable
    <3>3. y \in 1..Len(w)
      BY <3>1
    <3> QED BY <1>2, <3>3
  <2> QED BY <1>4, <2>1 DEF Refusable
<1> QED BY <1>4, <1>6, <1>7, <1>8, <1>9, <1>10, <1>11, <1>12 DEF Flow

\* A nonempty set of naturals has a least element.
LEMMA LeastOfNaturals ==
  ASSUME NEW T, T \subseteq Nat, T # {}
  PROVE  \E m \in T : \A n \in T : m <= n
<1>1. PICK m \in T : \A y \in T : ~ (<<y, m>> \in OpToRel(<, Nat))
  BY NatLessThanWellFounded, WFMin, Zenon
<1>2. ASSUME NEW n \in T PROVE m <= n
  <2>1. ~ (n < m)
    BY <1>1 DEF OpToRel
  <2>2. m \in Nat /\ n \in Nat
    OBVIOUS
  <2> QED BY <2>1, <2>2
<1> QED BY <1>2

\* The list t begins as s does.
Begun(t, s) ==
    /\ Len(t) <= Len(s)
    /\ \A x \in 1..Len(t) : t[x] = s[x]

\* The connection is gone, and what the server sent last is lost with it.
LEMMA CutFlows ==
  ASSUME NEW w, NEW p, NEW R, NEW V, NEW ch, NEW sub, NEW up, NEW subs, NEW cs, NEW k, NEW m,
         NEW v, Typed(w, p, R, V, sub, up, subs, cs, k, m), ~ up, v \in Seq(Reply), Begun(v, w),
         Flow(k, m, w, p, R, V, ch, sub, up, subs, cs)
  PROVE  \E n \in 0..Len(cs) : Flow(k, n, v, p, R, V, ch, sub, up, subs, cs)
<1> SUFFICES ASSUME w \in Seq(Reply), p \in Seq(Nat), R \subseteq Nat, V \subseteq Nat,
                    sub \in BOOLEAN, up \in BOOLEAN, subs \subseteq Channel,
                    cs \in Seq(Command), k \in Nat, m \in Nat
             PROVE  \E n \in 0..Len(cs) : Flow(k, n, v, p, R, V, ch, sub, up, subs, cs)
  BY DEF Typed
<1>1. /\ Answering(k, m, w) /\ RefusalLast(w, up) /\ DueAfter(k, R, V, cs)
      /\ Channelled(w, ch, sub) /\ Matching(w, V, cs) /\ Leaving(w, ch, cs, subs, up)
      /\ Unanswered(k, ch, cs, up) /\ Refusable(m, w, R, V, cs, subs, up, sub)
      /\ k <= m /\ m <= Len(cs)
  BY DEF Flow
<1>2. /\ Len(v) \in Nat /\ Len(w) \in Nat /\ Len(cs) \in Nat
      /\ \A x \in 1..Len(v) : x \in 1..Len(w) /\ v[x] = w[x]
  BY DEF Begun
<1> DEFINE Bounds == {b \in k..m : \A x \in 1..Len(v) : v[x].of <= b}
<1>3. \A x \in 1..Len(w) : w[x].of \in Nat /\ w[x].of <= m /\ (w[x].of # 0 => w[x].of > k)
  <2> TAKE x \in 1..Len(w)
  <2>1. w[x].of \in {0} \cup (k + 1)..m
    BY <1>1 DEF Answering
  <2> QED BY <2>1
<1>4. PICK n \in Bounds : \A b \in Bounds : n <= b
  <2>1. m \in Bounds
    BY <1>1, <1>2, <1>3
  <2>2. Bounds # {} /\ Bounds \subseteq Nat
    <3>1. k \in Nat /\ m \in Nat
      OBVIOUS
    <3>2. k..m \subseteq Nat
      BY ONLY <3>1
    <3> QED BY <2>1, <3>2
  <2> HIDE DEF Bounds
  <2> QED BY <2>2, LeastOfNaturals
<1>5. n \in k..m /\ n \in Nat /\ \A x \in 1..Len(v) : v[x].of <= n
  OBVIOUS
<1>6. \A j \in (k + 1)..n : \E x \in 1..Len(v) : v[x].of = j
  <2> SUFFICES ASSUME NEW j \in (k + 1)..n PROVE \E x \in 1..Len(v) : v[x].of = j
    OBVIOUS
  <2>1. PICK y \in 1..Len(v) : v[y].of = n
    <3> SUFFICES ASSUME \A y \in 1..Len(v) : v[y].of # n PROVE FALSE
      OBVIOUS
    <3>1. \A y \in 1..Len(v) : v[y].of <= n - 1
      BY <1>2, <1>3, <1>5
    <3>2. n - 1 \in k..m
      BY <1>5
    <3>3. n - 1 \in Bounds
      BY <3>1, <3>2
    <3> QED BY <1>4, <1>5, <3>3
  <2>2. j \in (k + 1)..m
    BY <1>5
  <2> PICK x \in 1..Len(w) : w[x].of = j
    BY <1>1, <2>2 DEF Answering
  <2>3. x <= y
    <3> SUFFICES ASSUME y < x PROVE FALSE
      OBVIOUS
    <3>1. w[y].of = n /\ y \in 1..Len(w) /\ n # 0 /\ j # 0
      BY <1>2, <1>5, <2>1
    <3>2. n < j
      BY <1>1, <3>1 DEF Answering
    <3> QED BY <1>5, <3>2
  <2>4. x \in 1..Len(v)
    BY <1>2, <2>3
  <2> QED BY <1>2, <2>4
<1>7. Answering(k, n, v)
  <2>1. ASSUME NEW x \in 1..Len(v) PROVE v[x].of \in {0} \cup (k + 1)..n
    BY <1>2, <1>3, <1>5
  <2>2. ASSUME NEW x \in 1..Len(v), NEW y \in 1..Len(v), x < y, v[x].of # 0, v[y].of # 0
        PROVE  v[x].of < v[y].of
    BY <1>1, <1>2, <2>2 DEF Answering
  <2> QED BY <1>6, <2>1, <2>2 DEF Answering
<1>8. Matching(v, V, cs) /\ Channelled(v, ch, sub)
  BY <1>1, <1>2 DEF Matching, Channelled
<1>9. RefusalLast(v, up)
  <2> SUFFICES ASSUME NEW x \in 1..Len(v), v[x].of = 0, v[x].type = "error" PROVE x = Len(v)
    BY DEF RefusalLast
  <2>1. x = Len(w)
    BY <1>1, <1>2 DEF RefusalLast
  <2> QED BY <1>2, <2>1 DEF Begun
<1>10. Leaving(v, ch, cs, subs, up)
  <2> SUFFICES ASSUME NEW x \in 1..Len(v), v[x].type = "unsubscribe"
               PROVE  /\ v[x].of = Len(cs)
                      /\ \A y \in 1..Len(v) : y > x /\ v[y].type = "message" =>
                            v[y].channel # v[x].channel
                      /\ v[x].count = 0 <=>
                            \A c \in Channel : ch[c] # FN_NULL => c = v[x].channel
    BY DEF Leaving
  <2>1. x \in 1..Len(w) /\ v[x] = w[x]
    BY <1>2
  <2>2. ASSUME NEW y \in 1..Len(v), y > x, v[y].type = "message"
        PROVE  v[y].channel # v[x].channel
    BY <1>1, <1>2, <2>1, <2>2 DEF Leaving
  <2> QED BY <1>1, <2>1, <2>2 DEF Leaving
<1>11. Refusable(n, v, R, V, cs, subs, up, sub)
  <2>1. ASSUME NEW x \in 1..Len(v), NEW i \in R, v[x].type = "message"
        PROVE  \E y \in 1..(x - 1) : v[y].of = i
    <3>1. x \in 1..Len(w) /\ w[x].type = "message"
      BY <1>2, <2>1
    <3> PICK y \in 1..(x - 1) : w[y].of = i
      BY <1>1, <3>1 DEF Refusable
    <3>2. y \in 1..Len(v)
      BY <1>2
    <3> QED BY <1>2, <3>2
  <2> QED BY <1>1, <2>1 DEF Refusable
<1>12. Waiting(n, p, cs, up) /\ Synced(n, v, ch, cs, subs, up)
  BY DEF Waiting, Synced
<1>13. k <= n /\ n <= Len(cs) /\ n \in 0..Len(cs)
  BY <1>1, <1>2, <1>5
<1> QED BY <1>1, <1>5, <1>7, <1>8, <1>9, <1>10, <1>11, <1>12, <1>13 DEF Flow

-----------------------------------------------------------------------------
(***************************************************************************)
(* Replies processed                                                       *)
(***************************************************************************)
\* The first reply answers the first command that is not answered, or none.
LEMMA FirstReply ==
  ASSUME NEW w \in Seq(Reply), NEW k \in Nat, NEW m \in Nat, Len(w) >= 1, Answering(k, m, w)
  PROVE  /\ w[1].of = 0 \/ (w[1].of = k + 1 /\ k + 1 <= m)
         /\ \A x \in 2..Len(w) : w[1].of = k + 1 => w[x].of = 0 \/ w[x].of > k + 1
<1>1. 1 \in 1..Len(w)
  OBVIOUS
<1>2. w[1].of \in {0} \cup (k + 1)..m
  BY <1>1 DEF Answering
<1>3. \A x \in 2..Len(w) : x \in 1..Len(w) /\ 1 < x
  OBVIOUS
<1>4. CASE w[1].of # 0
  <2>1. k + 1 \in (k + 1)..m
    BY <1>2, <1>4
  <2> PICK y \in 1..Len(w) : w[y].of = k + 1
    BY <2>1 DEF Answering
  <2>2. y = 1
    <3> SUFFICES ASSUME y # 1 PROVE FALSE
      OBVIOUS
    <3>1. 1 < y /\ w[y].of # 0
      OBVIOUS
    <3>2. w[1].of < w[y].of
      BY <1>1, <1>4, <3>1 DEF Answering
    <3> QED BY <1>2, <1>4, <3>2
  <2>3. ASSUME NEW x \in 2..Len(w), w[x].of # 0 PROVE w[x].of > k + 1
    <3>1. w[1].of < w[x].of /\ w[x].of \in {0} \cup (k + 1)..m
      BY <1>1, <1>3, <1>4, <2>3 DEF Answering
    <3> QED BY <2>2, <2>3, <3>1
  <2> QED BY <1>2, <2>1, <2>2, <2>3
<1>5. CASE w[1].of = 0
  BY <1>5
<1> QED BY <1>4, <1>5

\* What the replies behind the first keep.
LEMMA RestKeeps ==
  ASSUME NEW w \in Seq(Reply), NEW v \in Seq(Reply), Dropped(v, w), NEW V, NEW ch, NEW subs,
         NEW up, up \in BOOLEAN, NEW cs \in Seq(Command),
         NEW k \in Nat, NEW m \in Nat, NEW l, l = IF w[1].of = 0 THEN k ELSE k + 1,
         Answering(k, m, w), Matching(w, V, cs), RefusalLast(w, up), Leaving(w, ch, cs, subs, up)
  PROVE  /\ Answering(l, m, v) /\ Matching(v, V, cs) /\ RefusalLast(v, up)
         /\ Leaving(v, ch, cs, subs, up)
<1>1. /\ Len(w) >= 1 /\ Len(v) = Len(w) - 1 /\ Len(w) \in Nat /\ Len(v) \in Nat
      /\ \A x \in 1..Len(v) : v[x] = w[x + 1]
  BY DEF Dropped
<1>2. \A x \in 1..Len(v) : x + 1 \in 1..Len(w) /\ x + 1 \in 2..Len(w)
  BY <1>1
<1>3. /\ w[1].of = 0 \/ (w[1].of = k + 1 /\ k + 1 <= m)
      /\ \A x \in 2..Len(w) : w[1].of = k + 1 => w[x].of = 0 \/ w[x].of > k + 1
  BY <1>1, FirstReply
<1>4. l \in Nat
  OBVIOUS
<1>5. Answering(l, m, v)
  <2>1. ASSUME NEW x \in 1..Len(v) PROVE v[x].of \in {0} \cup (l + 1)..m
    <3>1. w[x + 1].of \in {0} \cup (k + 1)..m
      BY <1>2 DEF Answering
    <3>2. w[1].of = k + 1 => w[x + 1].of = 0 \/ w[x + 1].of > k + 1
      BY <1>2, <1>3
    <3> QED BY <1>1, <1>3, <3>1, <3>2
  <2>2. ASSUME NEW x \in 1..Len(v), NEW y \in 1..Len(v), x < y, v[x].of # 0, v[y].of # 0
        PROVE  v[x].of < v[y].of
    <3>1. x + 1 < y + 1 /\ v[x] = w[x + 1] /\ v[y] = w[y + 1]
      BY <1>1, <2>2
    <3>2. w[x + 1].of < w[y + 1].of
      BY <1>2, <2>2, <3>1 DEF Answering
    <3> QED BY <3>1, <3>2
  <2>3. ASSUME NEW j \in (l + 1)..m PROVE \E x \in 1..Len(v) : v[x].of = j
    <3>1. j \in (k + 1)..m /\ (w[1].of = k + 1 => j # k + 1) /\ j # 0
      BY <1>3
    <3> PICK y \in 1..Len(w) : w[y].of = j
      BY <3>1 DEF Answering
    <3>2. y # 1
      BY <1>3, <3>1
    <3>3. y - 1 \in 1..Len(v) /\ v[y - 1] = w[(y - 1) + 1] /\ (y - 1) + 1 = y
      BY <1>1, <3>2
    <3> QED BY <3>3
  <2> QED BY <2>1, <2>2, <2>3 DEF Answering
<1>6. Matching(v, V, cs)
  <2> SUFFICES ASSUME NEW x \in 1..Len(v)
               PROVE  IF v[x].of = 0 THEN v[x].type \in {"message", "error"}
                      ELSE IF cs[v[x].of].kind = "get"
                      THEN /\ v[x].type \in {"string", "error"}
                           /\ v[x].of \in V => v[x].type = "error"
                      ELSE v[x].type = cs[v[x].of].kind /\ v[x].channel = cs[v[x].of].channel
    BY DEF Matching
  <2>1. v[x] = w[x + 1] /\ x + 1 \in 1..Len(w)
    BY <1>1, <1>2
  <2> QED BY <2>1 DEF Matching
<1>7. RefusalLast(v, up)
  <2> SUFFICES ASSUME NEW x \in 1..Len(v), v[x].of = 0, v[x].type = "error"
               PROVE  x = Len(v) /\ ~ up
    BY DEF RefusalLast
  <2>1. v[x] = w[x + 1] /\ x + 1 \in 1..Len(w)
    BY <1>1, <1>2
  <2>2. x + 1 = Len(w) /\ ~ up
    BY <2>1 DEF RefusalLast
  <2> QED BY <1>1, <2>2
<1>8. Leaving(v, ch, cs, subs, up)
  <2> SUFFICES ASSUME NEW x \in 1..Len(v), v[x].type = "unsubscribe"
               PROVE  /\ v[x].of = Len(cs)
                      /\ up => v[x].channel \notin subs
                      /\ \A y \in 1..Len(v) : y > x /\ v[y].type = "message" =>
                            v[y].channel # v[x].channel
                      /\ v[x].count = 0 <=>
                            \A c \in Channel : ch[c] # FN_NULL => c = v[x].channel
    BY DEF Leaving
  <2>1. v[x] = w[x + 1] /\ x + 1 \in 1..Len(w) /\ w[x + 1].type = "unsubscribe"
    BY <1>1, <1>2
  <2>2. ASSUME NEW y \in 1..Len(v), y > x, v[y].type = "message"
        PROVE  v[y].channel # v[x].channel
    <3>1. v[y] = w[y + 1] /\ y + 1 \in 1..Len(w) /\ y + 1 > x + 1
      BY <1>1, <1>2, <2>2
    <3>2. w[y + 1].channel # w[x + 1].channel
      BY <2>1, <2>2, <3>1 DEF Leaving
    <3> QED BY <2>1, <3>1, <3>2
  <2>3. w[x + 1].of = Len(cs) /\ (up => w[x + 1].channel \notin subs)
    BY <2>1 DEF Leaving
  <2>4. w[x + 1].count = 0 <=> \A c \in Channel : ch[c] # FN_NULL => c = w[x + 1].channel
    BY <2>1 DEF Leaving
  <2> QED BY <2>1, <2>2, <2>3, <2>4
<1> QED BY <1>5, <1>6, <1>7, <1>8

\* The least of the commands in R.
Least(e, R) == e \in R /\ \A i \in R : e <= i

\* The command e is the first that is not answered, and the first of w is for it.
ForFirst(k, m, w, e, up, cs) ==
    /\ e = k + 1 /\ e \in 1..Len(cs) /\ cs[e].kind = "get"
    /\ w[1].of \in {0, e} /\ w[1].type \in {"string", "error"}
    /\ w[1].of = 0 => Len(w) = 1 /\ ~ up /\ m = k

\* The first callback that is due before any subscription is that of the first
\* command that is not answered, and the first reply is for it.
LEMMA FirstDue ==
  ASSUME NEW w, NEW p, NEW R, NEW V, NEW ch, NEW sub, NEW up, NEW subs, NEW cs, NEW k, NEW m,
         NEW e, Typed(w, p, R, V, sub, up, subs, cs, k, m), Len(w) >= 1,
         Flow(k, m, w, p, R, V, ch, sub, up, subs, cs), Owed(R, V, cs), Least(e, R)
  PROVE  ForFirst(k, m, w, e, up, cs)
<1> SUFFICES ASSUME w \in Seq(Reply), p \in Seq(Nat), R \subseteq Nat, V \subseteq Nat,
                    sub \in BOOLEAN, up \in BOOLEAN, subs \subseteq Channel,
                    cs \in Seq(Command), k \in Nat, m \in Nat
             PROVE  ForFirst(k, m, w, e, up, cs)
  BY DEF Typed
<1>1. /\ Answering(k, m, w) /\ RefusalLast(w, up) /\ DueAfter(k, R, V, cs)
      /\ Matching(w, V, cs) /\ Refusable(m, w, R, V, cs, subs, up, sub) /\ k <= m
  BY DEF Flow
<1>0. e \in R /\ \A i \in R : e <= i
  BY DEF Least
<1>2. e \in 1..Len(cs) /\ cs[e].kind = "get" /\ e \in Nat
  BY <1>0 DEF Owed
<1>3. e = k + 1
  <2>1. e > k
    BY <1>0, <1>1 DEF DueAfter
  <2>2. k + 1 \in (k + 1)..e
    BY <1>2, <2>1
  <2>3. k + 1 \in R
    BY <1>0, <1>1, <2>2 DEF DueAfter
  <2> QED BY <1>0, <1>2, <2>1, <2>3
<1>4. w[1].of = 0 \/ w[1].of = e
  BY <1>1, <1>3, FirstReply
<1>5. 1 \in 1..Len(w)
  OBVIOUS
<1>6. ASSUME w[1].of = e PROVE w[1].type \in {"string", "error"}
  BY <1>1, <1>2, <1>3, <1>5, <1>6 DEF Matching
<1>7. ASSUME w[1].of = 0 PROVE w[1].type = "error" /\ Len(w) = 1 /\ ~ up /\ m = k
  <2>1. w[1].type # "message"
    <3> SUFFICES ASSUME w[1].type = "message" PROVE FALSE
      OBVIOUS
    <3> PICK y \in 1..(1 - 1) : w[y].of = e
      BY <1>0, <1>1, <1>5 DEF Refusable
    <3> QED OBVIOUS
  <2>2. w[1].type = "error"
    BY <1>1, <1>5, <1>7, <2>1 DEF Matching
  <2>3. Len(w) = 1 /\ ~ up
    BY <1>1, <1>5, <1>7, <2>2 DEF RefusalLast
  <2>4. m = k
    <3> SUFFICES ASSUME m # k PROVE FALSE
      OBVIOUS
    <3>1. k + 1 \in (k + 1)..m
      BY <1>1
    <3> PICK y \in 1..Len(w) : w[y].of = k + 1
      BY <1>1, <3>1 DEF Answering
    <3>2. y = 1
      BY <2>3
    <3> QED BY <1>7, <3>2
  <2> QED BY <2>2, <2>3, <2>4
<1> QED BY <1>2, <1>3, <1>4, <1>6, <1>7 DEF ForFirst

\* The reply goes to the first callback that is due.
LEMMA AnsweredFlows ==
  ASSUME NEW w, NEW p, NEW R, NEW V, NEW ch, NEW sub, NEW up, NEW subs, NEW cs, NEW k, NEW m,
         NEW v, NEW e, Typed(w, p, R, V, sub, up, subs, cs, k, m), v \in Seq(Reply),
         Dropped(v, w), Flow(k, m, w, p, R, V, ch, sub, up, subs, cs), Owed(R, V, cs),
         Least(e, R)
  PROVE  \E l, n \in 0..Len(cs) : Flow(l, n, v, p, R \ {e}, V, ch, sub, up, subs, cs)
<1> SUFFICES ASSUME w \in Seq(Reply), p \in Seq(Nat), R \subseteq Nat, V \subseteq Nat,
                    sub \in BOOLEAN, up \in BOOLEAN, subs \subseteq Channel,
                    cs \in Seq(Command), k \in Nat, m \in Nat
             PROVE  \E l, n \in 0..Len(cs) : Flow(l, n, v, p, R \ {e}, V, ch, sub, up, subs, cs)
  BY DEF Typed
<1> DEFINE S == R \ {e}
           n == IF w[1].of = 0 THEN e ELSE m
<1>1. /\ Len(w) >= 1 /\ Len(v) = Len(w) - 1 /\ Len(w) \in Nat /\ Len(v) \in Nat
      /\ \A x \in 1..Len(v) : v[x] = w[x + 1]
  BY DEF Dropped
<1>2. /\ Answering(k, m, w) /\ RefusalLast(w, up) /\ DueAfter(k, R, V, cs)
      /\ Channelled(w, ch, sub) /\ Matching(w, V, cs) /\ Leaving(w, ch, cs, subs, up)
      /\ Waiting(m, p, cs, up) /\ Unanswered(k, ch, cs, up) /\ Synced(m, w, ch, cs, subs, up)
      /\ Refusable(m, w, R, V, cs, subs, up, sub) /\ k <= m /\ m <= Len(cs)
  BY DEF Flow
<1>3. /\ e = k + 1 /\ e \in 1..Len(cs) /\ cs[e].kind = "get" /\ e \in Nat
      /\ w[1].of \in {0, e} /\ w[1].type \in {"string", "error"}
      /\ w[1].of = 0 => Len(w) = 1 /\ ~ up /\ m = k
  <2>1. Len(w) >= 1
    BY <1>1
  <2>2. ForFirst(k, m, w, e, up, cs)
    BY <2>1, FirstDue
  <2> QED BY <2>2 DEF ForFirst
<1>4. /\ w[1].of = 0 \/ (w[1].of = k + 1 /\ k + 1 <= m)
      /\ \A x \in 2..Len(w) : w[1].of = k + 1 => w[x].of = 0 \/ w[x].of > k + 1
  BY <1>1, <1>2, FirstReply
<1>5. /\ n \in Nat /\ e <= n /\ n <= Len(cs) /\ (up => n = m) /\ (w[1].of # 0 => n = m)
      /\ n \in 0..Len(cs) /\ e \in 0..Len(cs)
  BY <1>2, <1>3, <1>4
<1>6. /\ Answering(IF w[1].of = 0 THEN k ELSE k + 1, m, v) /\ Matching(v, V, cs)
      /\ RefusalLast(v, up) /\ Leaving(v, ch, cs, subs, up)
  BY <1>2, RestKeeps
<1>7. Answering(e, n, v)
  <2>1. CASE w[1].of = 0
    <3>1. Len(v) = 0 /\ n = e
      BY <1>1, <1>3, <2>1
    <3> QED BY <1>3, <3>1 DEF Answering
  <2>2. CASE w[1].of # 0
    BY <1>3, <1>6, <2>2
  <2> QED BY <2>1, <2>2
<1>8. DueAfter(e, S, V, cs)
  <2>1. ASSUME NEW i \in S \cup V PROVE i > e
    <3>1. CASE i \in S
      BY <1>3, <3>1 DEF Least
    <3>2. CASE i \in V
      BY <3>2 DEF Owed, Least
    <3> QED BY <3>1, <3>2
  <2>2. ASSUME NEW i \in (e + 1)..Len(cs), cs[i].kind = "get" PROVE i \in S \cup V
    <3>1. i \in (k + 1)..Len(cs) /\ i # e
      BY <1>3
    <3> QED BY <1>2, <2>2, <3>1 DEF DueAfter
  <2>3. ASSUME NEW i \in S, NEW j \in (e + 1)..i PROVE j \in S
    <3>1. j \in (k + 1)..i /\ j # e
      BY <1>3
    <3> QED BY <1>2, <3>1 DEF DueAfter
  <2> QED BY <2>1, <2>2, <2>3 DEF DueAfter
<1>9. Waiting(n, p, cs, up)
  BY <1>2, <1>5 DEF Waiting
<1>10. Channelled(v, ch, sub)
  <2>1. ASSUME NEW x \in 1..Len(v), v[x].type \in ChannelReply PROVE ch[v[x].channel] # FN_NULL
    <3>1. x + 1 \in 1..Len(w) /\ v[x] = w[x + 1]
      BY <1>1
    <3> QED BY <1>2, <2>1, <3>1 DEF Channelled
  <2> QED BY <1>2, <2>1 DEF Channelled
<1>11. Unanswered(e, ch, cs, up)
  <2>1. \A j \in (e + 1)..Len(cs) : j \in (k + 1)..Len(cs)
    BY <1>3
  <2> QED BY <1>2, <2>1 DEF Unanswered
<1>12. Synced(n, v, ch, cs, subs, up)
  <2> SUFFICES ASSUME up PROVE Synced(m, v, ch, cs, subs, up)
    BY <1>5 DEF Synced
  <2>1. ASSUME NEW c, \E x \in 1..Len(w) : w[x].type = "unsubscribe" /\ w[x].channel = c
        PROVE  \E x \in 1..Len(v) : v[x].type = "unsubscribe" /\ v[x].channel = c
    <3> PICK x \in 1..Len(w) : w[x].type = "unsubscribe" /\ w[x].channel = c
      BY <2>1
    <3>1. x # 1
      BY <1>3
    <3>2. x - 1 \in 1..Len(v) /\ v[x - 1] = w[(x - 1) + 1] /\ (x - 1) + 1 = x
      BY <1>1, <3>1
    <3> QED BY <3>2
  <2> QED BY <1>2, <2>1 DEF Synced
<1>13. Refusable(n, v, S, V, cs, subs, up, sub)
  <2>1. ASSUME NEW x \in 1..Len(v), NEW i \in S, v[x].type = "message"
        PROVE  \E y \in 1..(x - 1) : v[y].of = i
    <3>1. x + 1 \in 1..Len(w) /\ w[x + 1].type = "message"
      BY <1>1, <2>1
    <3> PICK y \in 1..((x + 1) - 1) : w[y].of = i
      BY <1>2, <3>1 DEF Refusable
    <3>2. y # 1
      BY <1>2, <1>3, <1>4 DEF DueAfter
    <3>3. y - 1 \in 1..(x - 1) /\ y - 1 \in 1..Len(v) /\ (y - 1) + 1 = y
      BY <1>1, <3>2
    <3>4. v[y - 1].of = i
      BY <1>1, <3>3
    <3> QED BY <3>3, <3>4
  <2> QED BY <1>2, <1>5, <2>1 DEF Refusable
<1> HIDE DEF n, S
<1>14. Flow(e, n, v, p, S, V, ch, sub, up, subs, cs)
  BY <1>3, <1>5, <1>6, <1>7, <1>8, <1>9, <1>10, <1>11, <1>12, <1>13 DEF Flow
<1> QED BY <1>5, <1>14 DEF S

\* The first of w is for a channel that has a callback.
ForChannel(k, m, w, ch, sub, cs) ==
    /\ w[1].type \in ChannelReply /\ w[1].channel \in Channel
    /\ ch[w[1].channel] # FN_NULL /\ sub
    /\ w[1].type = "message" <=> w[1].of = 0
    /\ w[1].of # 0 => /\ w[1].of = k + 1 /\ k + 1 <= m /\ k + 1 \in 1..Len(cs)
                      /\ cs[k + 1].kind = w[1].type

\* Once no callback of before the subscription is due, the first reply is an
\* error or for a channel that has a callback; and it is no get's string.
LEMMA FirstOfChannel ==
  ASSUME NEW w, NEW p, NEW V, NEW ch, NEW sub, NEW up, NEW subs, NEW cs, NEW k, NEW m,
         Typed(w, p, {}, V, sub, up, subs, cs, k, m), Len(w) >= 1,
         Flow(k, m, w, p, {}, V, ch, sub, up, subs, cs), w[1].type # "error"
  PROVE  ForChannel(k, m, w, ch, sub, cs)
<1> SUFFICES ASSUME w \in Seq(Reply), p \in Seq(Nat), V \subseteq Nat,
                    sub \in BOOLEAN, up \in BOOLEAN, subs \subseteq Channel,
                    cs \in Seq(Command), k \in Nat, m \in Nat
             PROVE  ForChannel(k, m, w, ch, sub, cs)
  BY DEF Typed
<1>1. /\ Answering(k, m, w) /\ DueAfter(k, {}, V, cs) /\ Channelled(w, ch, sub)
      /\ Matching(w, V, cs) /\ k <= m /\ m <= Len(cs)
  BY DEF Flow
<1>2. w[1].of = 0 \/ (w[1].of = k + 1 /\ k + 1 <= m)
  BY <1>1, FirstReply
<1>3. 1 \in 1..Len(w)
  OBVIOUS
<1>4. ASSUME w[1].of # 0
      PROVE  /\ w[1].of = k + 1 /\ k + 1 <= m /\ k + 1 \in 1..Len(cs)
             /\ cs[k + 1].kind = w[1].type /\ cs[k + 1].kind # "get"
  <2>1. w[1].of = k + 1 /\ k + 1 <= m /\ k + 1 \in 1..Len(cs) /\ k + 1 \in (k + 1)..Len(cs)
    BY <1>1, <1>2, <1>4
  <2>2. cs[k + 1].kind # "get"
    <3> SUFFICES ASSUME cs[k + 1].kind = "get" PROVE FALSE
      OBVIOUS
    <3>1. k + 1 \in V
      BY <1>1, <2>1 DEF DueAfter
    <3> QED BY <1>1, <1>3, <1>4, <2>1, <3>1 DEF Matching
  <2> QED BY <1>1, <1>3, <1>4, <2>1, <2>2 DEF Matching
<1>5. w[1].of = 0 => w[1].type = "message"
  BY <1>1, <1>3 DEF Matching
<1>6. w[1].of # 0 => w[1].type \in {"subscribe", "unsubscribe"}
  BY <1>4, CommandFields
<1>7. w[1].type \in ChannelReply
  BY <1>5, <1>6 DEF ChannelReply
<1>8. w[1].channel \in Channel /\ ch[w[1].channel] # FN_NULL
  BY <1>1, <1>3, <1>7, ReplyFields DEF Channelled
<1>9. sub
  BY <1>1, <1>8 DEF Channelled
<1> QED BY <1>4, <1>5, <1>6, <1>7, <1>8, <1>9 DEF ForChannel

\* A message, or the answer to a subscription.
LEMMA HeardFlows ==
  ASSUME NEW w, NEW p, NEW V, NEW ch, NEW sub, NEW up, NEW subs, NEW cs, NEW k, NEW m, NEW v,
         Typed(w, p, {}, V, sub, up, subs, cs, k, m), v \in Seq(Reply), Dropped(v, w),
         Flow(k, m, w, p, {}, V, ch, sub, up, subs, cs), w[1].type \in {"message", "subscribe"},
         Owed({}, V, cs)
  PROVE  \E l, n \in 0..Len(cs) : Flow(l, n, v, p, {}, V, ch, sub, up, subs, cs)
<1> SUFFICES ASSUME w \in Seq(Reply), p \in Seq(Nat), V \subseteq Nat,
                    sub \in BOOLEAN, up \in BOOLEAN, subs \subseteq Channel,
                    cs \in Seq(Command), k \in Nat, m \in Nat
             PROVE  \E l, n \in 0..Len(cs) : Flow(l, n, v, p, {}, V, ch, sub, up, subs, cs)
  BY DEF Typed
<1> DEFINE l == IF w[1].of = 0 THEN k ELSE k + 1
<1>1. /\ Len(w) >= 1 /\ Len(v) = Len(w) - 1 /\ Len(w) \in Nat /\ Len(v) \in Nat
      /\ \A x \in 1..Len(v) : v[x] = w[x + 1]
  BY DEF Dropped
<1>2. /\ Answering(k, m, w) /\ RefusalLast(w, up) /\ DueAfter(k, {}, V, cs)
      /\ Channelled(w, ch, sub) /\ Matching(w, V, cs) /\ Leaving(w, ch, cs, subs, up)
      /\ Waiting(m, p, cs, up) /\ Unanswered(k, ch, cs, up) /\ Synced(m, w, ch, cs, subs, up)
      /\ Refusable(m, w, {}, V, cs, subs, up, sub) /\ k <= m /\ m <= Len(cs)
  BY DEF Flow
<1>3. w[1].of # 0 => /\ w[1].of = k + 1 /\ k + 1 <= m /\ k + 1 \in 1..Len(cs)
                     /\ cs[k + 1].kind = "subscribe"
  <2>1. Len(w) >= 1 /\ w[1].type # "error"
    BY <1>1
  <2>2. ForChannel(k, m, w, ch, sub, cs)
    BY <2>1, FirstOfChannel
  <2> QED BY <2>2 DEF ForChannel
<1>4. l \in Nat /\ k <= l /\ l <= m /\ l \in 0..Len(cs) /\ m \in 0..Len(cs)
  BY <1>2, <1>3
<1>5. /\ Answering(l, m, v) /\ Matching(v, V, cs)
      /\ RefusalLast(v, up) /\ Leaving(v, ch, cs, subs, up)
  BY <1>2, RestKeeps
<1>6. \A j \in (l + 1)..Len(cs) : j \in (k + 1)..Len(cs)
  BY <1>4
<1>7. DueAfter(l, {}, V, cs)
  <2>1. ASSUME NEW i \in V PROVE i > l
    <3>1. i > k
      BY <1>2 DEF DueAfter
    <3>2. w[1].of # 0 => i # k + 1
      BY <1>3 DEF Owed
    <3>3. i \in Nat /\ k \in Nat
      OBVIOUS
    <3> QED BY ONLY <3>1, <3>2, <3>3 DEF l
  <2> QED BY <1>2, <1>6, <2>1 DEF DueAfter
<1>10. Channelled(v, ch, sub)
  <2>1. ASSUME NEW x \in 1..Len(v), v[x].type \in ChannelReply PROVE ch[v[x].channel] # FN_NULL
    <3>1. x + 1 \in 1..Len(w) /\ v[x] = w[x + 1]
      BY <1>1
    <3> QED BY <1>2, <2>1, <3>1 DEF Channelled
  <2> QED BY <1>2, <2>1 DEF Channelled
<1>11. Unanswered(l, ch, cs, up)
  BY <1>2, <1>6 DEF Unanswered
<1>12. Synced(m, v, ch, cs, subs, up)
  <2>1. ASSUME NEW c, \E x \in 1..Len(w) : w[x].type = "unsubscribe" /\ w[x].channel = c
        PROVE  \E x \in 1..Len(v) : v[x].type = "unsubscribe" /\ v[x].channel = c
    <3> PICK x \in 1..Len(w) : w[x].type = "unsubscribe" /\ w[x].channel = c
      BY <2>1
    <3>1. x # 1
      OBVIOUS
    <3>2. x - 1 \in 1..Len(v) /\ v[x - 1] = w[(x - 1) + 1] /\ (x - 1) + 1 = x
      BY <1>1, <3>1
    <3> QED BY <3>2
  <2> QED BY <1>2, <2>1 DEF Synced
<1>13. Refusable(m, v, {}, V, cs, subs, up, sub)
  BY <1>2 DEF Refusable
<1> HIDE DEF l
<1>14. Flow(l, m, v, p, {}, V, ch, sub, up, subs, cs)
  BY <1>2, <1>4, <1>5, <1>7, <1>10, <1>11, <1>12, <1>13 DEF Flow
<1> QED BY <1>4, <1>14

\* The answer to an unsubscription, which takes the callback of its channel.
LEMMA LeavingFlows ==
  ASSUME NEW w, NEW p, NEW V, NEW ch, NEW sub, NEW up, NEW subs, NEW cs, NEW k, NEW m, NEW v,
         NEW dh, NEW dsub, Typed(w, p, {}, V, sub, up, subs, cs, k, m), v \in Seq(Reply),
         Dropped(v, w), Flow(k, m, w, p, {}, V, ch, sub, up, subs, cs),
         w[1].type = "unsubscribe", Owed({}, V, cs), Unlinked(ch, dh, w[1].channel),
         dsub \in BOOLEAN, dsub <=> w[1].count # 0
  PROVE  \E l, n \in 0..Len(cs) : Flow(l, n, v, p, {}, V, dh, dsub, up, subs, cs)
<1> SUFFICES ASSUME w \in Seq(Reply), p \in Seq(Nat), V \subseteq Nat,
                    sub \in BOOLEAN, up \in BOOLEAN, subs \subseteq Channel,
                    cs \in Seq(Command), k \in Nat, m \in Nat,
                    \A c \in Channel : dh[c] # FN_NULL <=> ch[c] # FN_NULL /\ c # w[1].channel
             PROVE  \E l, n \in 0..Len(cs) : Flow(l, n, v, p, {}, V, dh, dsub, up, subs, cs)
  BY DEF Typed, Unlinked
<1> DEFINE n == Len(cs)
<1>1. /\ Len(w) >= 1 /\ Len(v) = Len(w) - 1 /\ Len(w) \in Nat /\ Len(v) \in Nat
      /\ \A x \in 1..Len(v) : v[x] = w[x + 1]
  BY DEF Dropped
<1>2. /\ Answering(k, m, w) /\ RefusalLast(w, up) /\ DueAfter(k, {}, V, cs)
      /\ Channelled(w, ch, sub) /\ Matching(w, V, cs) /\ Leaving(w, ch, cs, subs, up)
      /\ Waiting(m, p, cs, up) /\ Unanswered(k, ch, cs, up) /\ Synced(m, w, ch, cs, subs, up)
      /\ Refusable(m, w, {}, V, cs, subs, up, sub) /\ k <= m /\ m <= Len(cs)
  BY DEF Flow
<1>3. /\ w[1].of # 0 => /\ w[1].of = k + 1 /\ k + 1 <= m /\ k + 1 \in 1..Len(cs)
                        /\ cs[k + 1].kind = "unsubscribe"
      /\ w[1].of # 0 /\ w[1].channel \in Channel /\ ch[w[1].channel] # FN_NULL /\ sub
  <2>1. Len(w) >= 1 /\ w[1].type # "error"
    BY <1>1
  <2>2. ForChannel(k, m, w, ch, sub, cs)
    BY <2>1, FirstOfChannel
  <2> QED BY <2>2 DEF ForChannel
<1>4. 1 \in 1..Len(w)
  BY <1>1
<1>5. /\ w[1].of = Len(cs)
      /\ up => w[1].channel \notin subs
      /\ \A y \in 1..Len(w) : y > 1 /\ w[y].type = "message" => w[y].channel # w[1].channel
      /\ w[1].count = 0 <=> \A c \in Channel : ch[c] # FN_NULL => c = w[1].channel
  BY <1>2, <1>4 DEF Leaving
<1>6. n \in Nat /\ n = k + 1 /\ m = n /\ n \in 0..Len(cs) /\ n = Len(cs)
  BY <1>2, <1>3, <1>5
<1>7. /\ Answering(IF w[1].of = 0 THEN k ELSE k + 1, m, v) /\ Matching(v, V, cs)
      /\ RefusalLast(v, up)
  BY <1>2, RestKeeps
<1>8. Answering(n, n, v)
  BY <1>3, <1>6, <1>7
<1> HIDE DEF n
<1>9. \A x \in 1..Len(v) : v[x].of = 0
  <2> TAKE x \in 1..Len(v)
  <2>1. v[x].of \in {0} \cup (n + 1)..n
    BY <1>8 DEF Answering
  <2> QED BY <1>6, <2>1
<1>10. \A x \in 1..Len(v) : v[x].type \in {"message", "error"}
  BY <1>7, <1>9 DEF Matching
<1>11. V = {}
  <2> SUFFICES ASSUME NEW i \in V PROVE FALSE
    OBVIOUS
  <2>1. i > k /\ i \in 1..Len(cs) /\ cs[i].kind = "get"
    BY <1>2 DEF DueAfter, Owed
  <2>2. i = n
    BY <1>6, <2>1 DEF n
  <2> QED BY <1>3, <1>6, <2>1, <2>2
<1>12. DueAfter(n, {}, V, cs)
  <2>1. \A i \in (n + 1)..Len(cs) : FALSE
    BY <1>6
  <2> QED BY <1>11, <2>1 DEF DueAfter
<1>13. Waiting(n, p, cs, up)
  BY <1>2, <1>6
<1>14. Channelled(v, dh, dsub)
  <2>1. ASSUME NEW x \in 1..Len(v), v[x].type \in ChannelReply PROVE dh[v[x].channel] # FN_NULL
    <3>1. x + 1 \in 1..Len(w) /\ v[x] = w[x + 1] /\ x + 1 > 1 /\ v[x].type = "message"
      BY <1>1, <1>10, <2>1 DEF ChannelReply
    <3>2. v[x].channel # w[1].channel /\ v[x].channel \in Channel
      BY <1>5, <2>1, <3>1, ReplyFields
    <3>3. ch[v[x].channel] # FN_NULL
      BY <1>2, <2>1, <3>1 DEF Channelled
    <3> QED BY <3>2, <3>3
  <2>2. dsub <=> \E c \in Channel : dh[c] # FN_NULL
    BY <1>5
  <2> QED BY <2>1, <2>2 DEF Channelled
<1>15. Leaving(v, dh, cs, subs, up)
  BY <1>10 DEF Leaving
<1>16. Unanswered(n, dh, cs, up)
  BY <1>6 DEF Unanswered
<1>17. Synced(n, v, dh, cs, subs, up)
  <2> SUFFICES ASSUME up
               PROVE  /\ \A c \in subs : dh[c] # FN_NULL
                      /\ \A c \in Channel : dh[c] # FN_NULL =>
                            \/ c \in subs
                            \/ \E j \in (n + 1)..Len(cs) :
                                  cs[j].kind = "subscribe" /\ cs[j].channel = c
                            \/ \E x \in 1..Len(v) : v[x].type = "unsubscribe" /\ v[x].channel = c
    BY DEF Synced
  <2>1. ASSUME NEW c \in subs PROVE dh[c] # FN_NULL
    BY <1>2, <1>5 DEF Synced
  <2>2. ASSUME NEW c \in Channel, dh[c] # FN_NULL PROVE c \in subs
    <3>1. ch[c] # FN_NULL /\ c # w[1].channel
      BY <2>2
    <3>2. \A j \in (m + 1)..Len(cs) : FALSE
      BY <1>6 DEF n
    <3>3. ASSUME NEW x \in 1..Len(w), w[x].type = "unsubscribe", w[x].channel = c PROVE FALSE
      <4>1. x # 1
        BY <3>1, <3>3
      <4>2. x - 1 \in 1..Len(v) /\ v[x - 1] = w[(x - 1) + 1] /\ (x - 1) + 1 = x
        BY <1>1, <4>1
      <4> QED BY <1>10, <3>3, <4>2
    <3> QED BY <1>2, <3>1, <3>2, <3>3 DEF Synced
  <2> QED BY <2>1, <2>2
<1>18. Refusable(n, v, {}, V, cs, subs, up, dsub)
  BY <1>11 DEF Refusable
<1>19. RefusalLast(v, up) /\ Matching(v, V, cs)
  BY <1>7
<1>20. Flow(n, n, v, p, {}, V, dh, dsub, up, subs, cs)
  BY <1>6, <1>8, <1>12, <1>13, <1>14, <1>15, <1>16, <1>17, <1>18, <1>19 DEF Flow
<1> QED BY <1>6, <1>20

-----------------------------------------------------------------------------
(***************************************************************************)
(* Callbacks called                                                        *)
(***************************************************************************)
\* A command is issued: if it is a get, it is due.
LEMMA HeardIssue ==
  ASSUME NEW cs, NEW ds, NEW command, NEW D, NEW E, NEW cl, cs \in Seq(Command),
         ds \in Seq(Command), Grown(ds, cs, command), Joins(D, E, command, Len(cs) + 1),
         cl \in Seq(Call), Heard(D, cs, cl)
  PROVE  Heard(E, ds, cl)
<1> SUFFICES ASSUME D \subseteq Nat, D \subseteq E, E \subseteq D \cup {Len(cs) + 1},
                    command.kind = "get" => Len(cs) + 1 \in E
             PROVE  Heard(E, ds, cl)
  BY DEF Joins
<1>1. /\ Len(ds) = Len(cs) + 1 /\ Len(cs) \in Nat /\ ds[Len(cs) + 1] = command
      /\ \A j \in 1..Len(cs) : ds[j] = cs[j]
  BY DEF Grown
<1>2. \A c \in 1..Len(cl) :
        /\ cl[c].fn \in 1..Len(cs) /\ cl[c].fn \in 1..Len(ds) /\ ds[cl[c].fn] = cs[cl[c].fn]
        /\ cs[cl[c].fn].kind \in {"get", "subscribe"}
  BY <1>1 DEF Heard
<1>3. ASSUME NEW c \in 1..Len(cl), ds[cl[c].fn].kind = "get"
      PROVE  /\ cl[c].reply.type \in {"string", "error"} => cl[c].reply.of \in {0, cl[c].fn}
             /\ cl[c].reply.type \in {"string", "error", "nil"}
             /\ \A i \in E : cl[c].fn < i
  <2>1. cs[cl[c].fn].kind = "get"
    BY <1>2, <1>3
  <2>2. ASSUME NEW i \in E PROVE cl[c].fn < i
    <3>1. CASE i \in D
      BY <2>1, <3>1 DEF Heard
    <3>2. CASE i = Len(cs) + 1
      BY <1>1, <1>2, <3>2
    <3> QED BY <3>1, <3>2
  <2> QED BY <2>1, <2>2 DEF Heard
<1>4. ASSUME NEW c \in 1..Len(cl), NEW d \in 1..Len(cl), c < d,
             ds[cl[c].fn].kind = "get", ds[cl[d].fn].kind = "get"
      PROVE  cl[c].fn < cl[d].fn
  BY <1>2, <1>4 DEF Heard
<1>5. ASSUME NEW i \in 1..Len(ds), ds[i].kind = "get", ds[i].hasFn
      PROVE  i \in E \/ \E c \in 1..Len(cl) : cl[c].fn = i
  <2>1. CASE i = Len(cs) + 1
    BY <1>1, <1>5, <2>1
  <2>2. CASE i # Len(cs) + 1
    <3>1. i \in 1..Len(cs) /\ ds[i] = cs[i]
      BY <1>1, <2>2
    <3> QED BY <1>5, <3>1 DEF Heard
  <2> QED BY <2>1, <2>2
<1> QED BY <1>2, <1>3, <1>4, <1>5 DEF Heard

\* The callback of the first command that is due is called.
LEMMA HeardCall ==
  ASSUME NEW cs, NEW D, NEW e, NEW cl, NEW dl, NEW call, Called(cs, D, cl, dl, call),
         Least(e, D), Answered(call, e, cs), Heard(D, cs, cl)
  PROVE  Heard(D \ {e}, cs, dl)
<1> SUFFICES ASSUME cs \in Seq(Command), D \subseteq Nat, cl \in Seq(Call), dl \in Seq(Call),
                    Grown(dl, cl, call), e \in 1..Len(cs), cs[e].kind = "get", call.fn = e,
                    call.reply.type \in {"string", "error", "nil"},
                    call.reply.type \in {"string", "error"} => call.reply.of \in {0, e}
             PROVE  Heard(D \ {e}, cs, dl)
  BY DEF Called, Answered
<1> DEFINE l == Len(cl) + 1
<1>0. Len(cl) \in Nat /\ l = Len(cl) + 1
  OBVIOUS
<1>1. Len(dl) = l /\ dl[l] = call /\ \A c \in 1..Len(cl) : dl[c] = cl[c]
  BY DEF Grown
<1> HIDE DEF l
<1>2. \A c \in 1..l : c \in 1..Len(cl) \/ c = l
  BY <1>0
<1>3. e \in D /\ e \in Nat /\ \A i \in D : i \in Nat /\ e <= i
  BY DEF Least
<1>4. ASSUME NEW c \in 1..Len(dl)
      PROVE  dl[c].fn \in 1..Len(cs) /\ cs[dl[c].fn].kind \in {"get", "subscribe"}
  <2>1. CASE c \in 1..Len(cl)
    BY <1>1, <2>1 DEF Heard
  <2>2. CASE c = l
    BY <1>1, <2>2
  <2> QED BY <1>1, <1>2, <2>1, <2>2
<1>5. ASSUME NEW c \in 1..Len(dl), cs[dl[c].fn].kind = "get"
      PROVE  /\ dl[c].reply.type \in {"string", "error"} => dl[c].reply.of \in {0, dl[c].fn}
             /\ dl[c].reply.type \in {"string", "error", "nil"}
             /\ \A i \in D \ {e} : dl[c].fn < i
  <2>1. CASE c \in 1..Len(cl)
    <3>1. dl[c] = cl[c]
      BY <1>1, <2>1
    <3> QED BY <1>5, <2>1, <3>1 DEF Heard
  <2>2. CASE c = l
    <3>1. \A i \in D \ {e} : e < i
      BY <1>3
    <3> QED BY <1>1, <2>2, <3>1
  <2> QED BY <1>1, <1>2, <2>1, <2>2
<1>6. ASSUME NEW c \in 1..Len(dl), NEW d \in 1..Len(dl), c < d,
             cs[dl[c].fn].kind = "get", cs[dl[d].fn].kind = "get"
      PROVE  dl[c].fn < dl[d].fn
  <2>0. c \in 1..Len(cl) /\ dl[c] = cl[c]
    BY <1>0, <1>1, <1>6
  <2>1. CASE d \in 1..Len(cl)
    <3>1. dl[d] = cl[d]
      BY <1>1, <2>1
    <3> QED BY <1>6, <2>0, <2>1, <3>1 DEF Heard
  <2>2. CASE d = l
    <3>1. cl[c].fn < e
      BY <1>3, <1>6, <2>0 DEF Heard
    <3> QED BY <1>1, <2>0, <2>2, <3>1
  <2> QED BY <1>1, <1>2, <2>1, <2>2
<1>7. ASSUME NEW i \in 1..Len(cs), cs[i].kind = "get", cs[i].hasFn
      PROVE  i \in D \ {e} \/ \E c \in 1..Len(dl) : dl[c].fn = i
  <2>0. l \in 1..Len(dl)
    BY <1>0, <1>1
  <2>1. CASE \E c \in 1..Len(cl) : cl[c].fn = i
    <3> PICK c \in 1..Len(cl) : cl[c].fn = i
      BY <2>1
    <3>1. c \in 1..Len(dl) /\ dl[c] = cl[c]
      BY <1>0, <1>1
    <3> QED BY <3>1
  <2> QED BY <1>1, <1>7, <2>0, <2>1 DEF Heard
<1> QED BY <1>4, <1>5, <1>6, <1>7 DEF Heard

\* It has no callback.
LEMMA HeardNone ==
  ASSUME NEW cs \in Seq(Command), NEW D, D \subseteq Nat, NEW e,
         ~ cs[e].hasFn, NEW cl \in Seq(Call), Heard(D, cs, cl)
  PROVE  Heard(D \ {e}, cs, cl)
BY DEF Heard

\* The callback of a subscription is called.
LEMMA HeardChannel ==
  ASSUME NEW cs, NEW D, NEW cl, NEW dl, NEW call, Called(cs, D, cl, dl, call),
         call.fn \in 1..Len(cs), cs[call.fn].kind = "subscribe", Heard(D, cs, cl)
  PROVE  Heard(D, cs, dl)
<1> SUFFICES ASSUME cs \in Seq(Command), D \subseteq Nat, cl \in Seq(Call), dl \in Seq(Call),
                    Grown(dl, cl, call)
             PROVE  Heard(D, cs, dl)
  BY DEF Called
<1> DEFINE l == Len(cl) + 1
<1>0. Len(cl) \in Nat /\ l = Len(cl) + 1
  OBVIOUS
<1>1. Len(dl) = l /\ dl[l] = call /\ \A c \in 1..Len(cl) : dl[c] = cl[c]
  BY DEF Grown
<1> HIDE DEF l
<1>2. \A c \in 1..l : c \in 1..Len(cl) \/ c = l
  BY <1>0
<1>3. ASSUME NEW c \in 1..Len(dl)
      PROVE  dl[c].fn \in 1..Len(cs) /\ cs[dl[c].fn].kind \in {"get", "subscribe"}
  <2>1. CASE c \in 1..Len(cl)
    BY <1>1, <2>1 DEF Heard
  <2>2. CASE c = l
    BY <1>1, <2>2
  <2> QED BY <1>1, <1>2, <2>1, <2>2
<1>4. \A c \in 1..Len(dl) : cs[dl[c].fn].kind = "get" => c \in 1..Len(cl) /\ dl[c] = cl[c]
  BY <1>1, <1>2
<1>5. ASSUME NEW c \in 1..Len(dl), cs[dl[c].fn].kind = "get"
      PROVE  /\ dl[c].reply.type \in {"string", "error"} => dl[c].reply.of \in {0, dl[c].fn}
             /\ dl[c].reply.type \in {"string", "error", "nil"}
             /\ \A i \in D : dl[c].fn < i
  <2>1. c \in 1..Len(cl) /\ dl[c] = cl[c]
    BY <1>4, <1>5
  <2> QED BY <1>5, <2>1 DEF Heard
<1>6. ASSUME NEW c \in 1..Len(dl), NEW d \in 1..Len(dl), c < d,
             cs[dl[c].fn].kind = "get", cs[dl[d].fn].kind = "get"
      PROVE  dl[c].fn < dl[d].fn
  <2>1. c \in 1..Len(cl) /\ dl[c] = cl[c] /\ d \in 1..Len(cl) /\ dl[d] = cl[d]
    BY <1>4, <1>6
  <2> QED BY <1>6, <2>1 DEF Heard
<1>7. ASSUME NEW i \in 1..Len(cs), cs[i].kind = "get", cs[i].hasFn
      PROVE  i \in D \/ \E c \in 1..Len(dl) : dl[c].fn = i
  <2>1. CASE \E c \in 1..Len(cl) : cl[c].fn = i
    <3> PICK c \in 1..Len(cl) : cl[c].fn = i
      BY <2>1
    <3>1. c \in 1..Len(dl) /\ dl[c] = cl[c]
      BY <1>0, <1>1
    <3> QED BY <3>1
  <2> QED BY <1>7, <2>1 DEF Heard
<1> QED BY <1>3, <1>5, <1>6, <1>7 DEF Heard

\* A command is issued: if it is a subscription, its channel has its callback.
LEMMA ToldIssue ==
  ASSUME NEW cs, NEW ds, NEW command, NEW ch, NEW dh, NEW alive, NEW D, NEW cl,
         cs \in Seq(Command), ds \in Seq(Command), Grown(ds, cs, command),
         Renamed(ch, dh, command, Len(cs) + 1), alive \in BOOLEAN, alive, cl \in Seq(Call),
         Heard(D, cs, cl), Told(ch, cs, alive, cl)
  PROVE  Told(dh, ds, alive, cl)
<1> SUFFICES ASSUME \A c \in Channel :
                        \/ dh[c] = ch[c]
                        \/ /\ dh[c] = Len(cs) + 1 /\ command.kind = "subscribe"
                           /\ command.channel = c
             PROVE  Told(dh, ds, alive, cl)
  BY DEF Renamed
<1>1. /\ Len(ds) = Len(cs) + 1 /\ Len(cs) \in Nat /\ ds[Len(cs) + 1] = command
      /\ \A j \in 1..Len(cs) : ds[j] = cs[j]
  BY DEF Grown
<1>2. ASSUME NEW c \in Channel, dh[c] # FN_NULL
      PROVE  dh[c] \in 1..Len(ds) /\ ds[dh[c]].kind = "subscribe" /\ ds[dh[c]].channel = c
  <2>1. CASE dh[c] = ch[c]
    <3>1. ch[c] \in 1..Len(cs) /\ cs[ch[c]].kind = "subscribe" /\ cs[ch[c]].channel = c
      BY <1>2, <2>1 DEF Told
    <3> QED BY <1>1, <2>1, <3>1
  <2>2. CASE dh[c] # ch[c]
    BY <1>1, <2>2
  <2> QED BY <2>1, <2>2
<1>3. ASSUME NEW c \in 1..Len(cl), ds[cl[c].fn].kind = "subscribe"
      PROVE  /\ cl[c].reply # NIL /\ cl[c].reply.type \in ChannelReply
             /\ cl[c].reply.channel = ds[cl[c].fn].channel
  <2>1. ds[cl[c].fn] = cs[cl[c].fn]
    BY <1>1 DEF Heard
  <2> QED BY <1>3, <2>1 DEF Told
<1> QED BY <1>2, <1>3 DEF Told

\* The callback of a get is called.
LEMMA ToldGet ==
  ASSUME NEW cs, NEW D, NEW ch, NEW alive, NEW cl, NEW dl, NEW call, Called(cs, D, cl, dl, call),
         alive \in BOOLEAN, cs[call.fn].kind = "get", Told(ch, cs, alive, cl)
  PROVE  Told(ch, cs, alive, dl)
<1> SUFFICES ASSUME cs \in Seq(Command), D \subseteq Nat, cl \in Seq(Call), dl \in Seq(Call),
                    Grown(dl, cl, call)
             PROVE  Told(ch, cs, alive, dl)
  BY DEF Called
<1>1. /\ Len(dl) = Len(cl) + 1 /\ Len(cl) \in Nat /\ dl[Len(cl) + 1] = call
      /\ \A c \in 1..Len(cl) : dl[c] = cl[c]
  BY DEF Grown
<1>2. \A c \in 1..Len(dl) : c \in 1..Len(cl) \/ c = Len(cl) + 1
  BY <1>1
<1>3. ASSUME NEW c \in 1..Len(dl), cs[dl[c].fn].kind = "subscribe"
      PROVE  IF dl[c].reply = NIL
             THEN /\ ~ alive /\ \A x \in Channel : ch[x] # dl[c].fn
                  /\ \A d \in 1..Len(dl) : dl[d].fn = dl[c].fn => d <= c
             ELSE /\ dl[c].reply.type \in ChannelReply
                  /\ dl[c].reply.channel = cs[dl[c].fn].channel
  <2>1. c \in 1..Len(cl) /\ dl[c] = cl[c]
    BY <1>1, <1>2, <1>3
  <2>2. ASSUME NEW d \in 1..Len(dl), dl[d].fn = dl[c].fn PROVE d \in 1..Len(cl) /\ dl[d] = cl[d]
    BY <1>1, <1>2, <1>3, <2>2
  <2>3. CASE cl[c].reply = NIL
    <3>1. /\ ~ alive /\ \A x \in Channel : ch[x] # cl[c].fn
          /\ \A d \in 1..Len(cl) : cl[d].fn = cl[c].fn => d <= c
      BY <1>3, <2>1, <2>3 DEF Told
    <3>2. ASSUME NEW d \in 1..Len(dl), dl[d].fn = dl[c].fn PROVE d <= c
      BY <2>1, <2>2, <3>1, <3>2
    <3> QED BY <2>1, <2>3, <3>1, <3>2
  <2>4. CASE cl[c].reply # NIL
    BY <1>3, <2>1, <2>4 DEF Told
  <2> QED BY <2>3, <2>4
<1> QED BY <1>3 DEF Told

\* The callback of a subscription hears of its channel, and may be the last time.
LEMMA ToldChannel ==
  ASSUME NEW cs, NEW D, NEW ch, NEW dh, NEW alive, NEW cl, NEW dl, NEW call,
         Called(cs, D, cl, dl, call), Cleared(ch, dh), alive \in BOOLEAN, alive,
         call.reply.type \in ChannelReply, call.reply.channel \in Channel,
         call.fn = ch[call.reply.channel], call.fn # FN_NULL, Told(ch, cs, alive, cl)
  PROVE  Told(dh, cs, alive, dl)
<1> SUFFICES ASSUME cs \in Seq(Command), D \subseteq Nat, cl \in Seq(Call), dl \in Seq(Call),
                    Grown(dl, cl, call), \A c \in Channel : dh[c] = ch[c] \/ dh[c] = FN_NULL
             PROVE  Told(dh, cs, alive, dl)
  BY DEF Called, Cleared
<1>1. /\ Len(dl) = Len(cl) + 1 /\ Len(cl) \in Nat /\ dl[Len(cl) + 1] = call
      /\ \A c \in 1..Len(cl) : dl[c] = cl[c]
  BY DEF Grown
<1>2. \A c \in 1..Len(dl) : c \in 1..Len(cl) \/ c = Len(cl) + 1
  BY ONLY <1>1
<1>3. ASSUME NEW c \in 1..Len(dl), cs[dl[c].fn].kind = "subscribe"
      PROVE  /\ dl[c].reply # NIL /\ dl[c].reply.type \in ChannelReply
             /\ dl[c].reply.channel = cs[dl[c].fn].channel
  <2>1. CASE c \in 1..Len(cl)
    BY <1>1, <1>3, <2>1 DEF Told
  <2>2. CASE c = Len(cl) + 1
    <3>1. dl[c] = call /\ cs[call.fn].channel = call.reply.channel
      BY <1>1, <2>2 DEF Told
    <3>2. call.reply # NIL
      BY DEF NIL, ChannelReply
    <3> QED BY <3>1, <3>2
  <2> QED BY <1>2, <2>1, <2>2
<1>4. ASSUME NEW c \in Channel, dh[c] # FN_NULL
      PROVE  dh[c] \in 1..Len(cs) /\ cs[dh[c]].kind = "subscribe" /\ cs[dh[c]].channel = c
  BY <1>4 DEF Told
<1> QED BY <1>3, <1>4 DEF Told

\* It hears NULL, for the last time.
LEMMA ToldNil ==
  ASSUME NEW cs, NEW D, NEW c, NEW ch, NEW dh, NEW alive, NEW cl, NEW dl, NEW call,
         Called(cs, D, cl, dl, call), c \in Channel, ch[c] # FN_NULL, Forgot(ch, dh, c),
         alive \in BOOLEAN, ~ alive, call.reply = NIL, call.fn = ch[c], Heard(D, cs, cl),
         Told(ch, cs, alive, cl)
  PROVE  Told(dh, cs, alive, dl)
<1> SUFFICES ASSUME cs \in Seq(Command), D \subseteq Nat, cl \in Seq(Call), dl \in Seq(Call),
                    Grown(dl, cl, call), dh[c] = FN_NULL, \A x \in Channel : x # c => dh[x] = ch[x]
             PROVE  Told(dh, cs, alive, dl)
  BY DEF Called, Forgot
<1>1. /\ Len(dl) = Len(cl) + 1 /\ Len(cl) \in Nat /\ dl[Len(cl) + 1] = call
      /\ \A b \in 1..Len(cl) : dl[b] = cl[b]
  BY DEF Grown
<1>2. \A b \in 1..Len(dl) : b \in 1..Len(cl) \/ b = Len(cl) + 1
  BY ONLY <1>1
<1>3. ASSUME NEW x \in Channel, dh[x] # FN_NULL
      PROVE  /\ dh[x] = ch[x] /\ x # c
             /\ dh[x] \in 1..Len(cs) /\ cs[dh[x]].kind = "subscribe" /\ cs[dh[x]].channel = x
  BY <1>3 DEF Told
<1>4. ch[c] \in 1..Len(cs) /\ cs[ch[c]].kind = "subscribe" /\ cs[ch[c]].channel = c
  BY DEF Told
<1>5. ASSUME NEW b \in 1..Len(dl), cs[dl[b].fn].kind = "subscribe"
      PROVE  IF dl[b].reply = NIL
             THEN /\ ~ alive /\ \A x \in Channel : dh[x] # dl[b].fn
                  /\ \A d \in 1..Len(dl) : dl[d].fn = dl[b].fn => d <= b
             ELSE /\ dl[b].reply.type \in ChannelReply
                  /\ dl[b].reply.channel = cs[dl[b].fn].channel
  <2>1. CASE b \in 1..Len(cl) /\ cl[b].reply = NIL
    <3>1. dl[b] = cl[b]
      BY <1>1, <2>1
    <3>2. /\ \A x \in Channel : ch[x] # cl[b].fn
          /\ \A d \in 1..Len(cl) : cl[d].fn = cl[b].fn => d <= b
      BY <1>5, <2>1, <3>1 DEF Told
    <3>3. ASSUME NEW x \in Channel PROVE dh[x] # dl[b].fn
      <4>1. CASE dh[x] # FN_NULL
        BY <1>3, <3>1, <3>2, <4>1
      <4>2. CASE dh[x] = FN_NULL
        <5> SUFFICES ASSUME cl[b].fn = FN_NULL PROVE FALSE
          BY <3>1, <4>2
        <5>1. cl[b].fn \in 1..Len(cs)
          BY <2>1 DEF Heard
        <5> QED BY <5>1 DEF FN_NULL
      <4> QED BY <4>1, <4>2
    <3>4. ASSUME NEW d \in 1..Len(dl), dl[d].fn = dl[b].fn PROVE d <= b
      <4>1. d \in 1..Len(cl)
        BY <1>1, <1>2, <3>1, <3>2, <3>4
      <4> QED BY <1>1, <3>1, <3>2, <3>4, <4>1
    <3> QED BY <2>1, <3>1, <3>3, <3>4
  <2>2. CASE b \in 1..Len(cl) /\ cl[b].reply # NIL
    <3>1. dl[b] = cl[b]
      BY <1>1, <2>2
    <3> QED BY <1>5, <2>2, <3>1 DEF Told
  <2>3. CASE b = Len(cl) + 1
    <3>1. dl[b].reply = NIL /\ dl[b].fn = ch[c]
      BY <1>1, <2>3
    <3>2. ASSUME NEW x \in Channel PROVE dh[x] # ch[c]
      BY <1>3, <1>4
    <3>3. ASSUME NEW d \in 1..Len(dl) PROVE d <= b
      BY <1>1, <1>2, <2>3
    <3> QED BY <3>1, <3>2, <3>3
  <2> QED BY <1>2, <2>1, <2>2, <2>3
<1> QED BY <1>3, <1>5 DEF Told

\* The context ends.
LEMMA ToldEnds ==
  ASSUME NEW cs, NEW ch, NEW alive, alive \in BOOLEAN, NEW dead, dead \in BOOLEAN, ~ dead, NEW cl,
         Told(ch, cs, alive, cl)
  PROVE  Told(ch, cs, dead, cl)
BY DEF Told

-----------------------------------------------------------------------------
(***************************************************************************)
(* The two queues                                                          *)
(***************************************************************************)
\* What is put behind the second half is behind the whole.
LEMMA JoinedGrows ==
  ASSUME NEW S, NEW a \in Seq(S), NEW b \in Seq(S), NEW e \in S
  PROVE  /\ Append(b, e) \in Seq(S) /\ a \o b \in Seq(S) /\ a \o Append(b, e) \in Seq(S)
         /\ Grown(a \o Append(b, e), a \o b, e)
BY DEF Grown

\* What is taken from the first half is the first.
LEMMA JoinedDropped ==
  ASSUME NEW S, NEW a \in Seq(S), NEW b \in Seq(S), a # << >>
  PROVE  /\ Tail(a) \in Seq(S) /\ a \o b \in Seq(S) /\ Tail(a) \o b \in Seq(S)
         /\ Dropped(Tail(a) \o b, a \o b)
         /\ (a \o b)[1] = Head(a) /\ Head(a) \in S
BY DEF Dropped

\* The first n of b go behind a, which makes e, and leave d.
Moves(e, d, a, b, n, S) ==
    /\ a \in Seq(S) /\ b \in Seq(S) /\ n \in 0..Len(b)
    /\ e = a \o SubSeq(b, 1, n) /\ d = SubSeq(b, n + 1, Len(b))
Moved(e, d, a, b, S) == e \in Seq(S) /\ d \in Seq(S) /\ e \o d = a \o b

\* What goes from the second half to the first leaves the whole.
LEMMA MovesJoined ==
  ASSUME NEW e, NEW f, NEW a, NEW b, NEW n, NEW S, Moves(e, f, a, b, n, S)
  PROVE  Moved(e, f, a, b, S)
<1> SUFFICES ASSUME a \in Seq(S), b \in Seq(S), n \in 0..Len(b)
             PROVE  Moved(a \o SubSeq(b, 1, n), SubSeq(b, n + 1, Len(b)), a, b, S)
  BY Zenon DEF Moves
<1> DEFINE c == SubSeq(b, 1, n)
           d == SubSeq(b, n + 1, Len(b))
<1>1. /\ c \in Seq(S) /\ Len(c) = n /\ \A x \in 1..n : c[x] = b[x]
      /\ Len(b) \in Nat /\ n <= Len(b)
  OBVIOUS
<1>2. /\ d \in Seq(S) /\ Len(d) = Len(b) - n
      /\ \A x \in 1..(Len(b) - n) : d[x] = b[n + x]
  OBVIOUS
<1> HIDE DEF c, d
<1>3. c \o d \in Seq(S) /\ Len(c \o d) = Len(b)
  <2>1. c \o d \in Seq(S) /\ Len(c \o d) = Len(c) + Len(d)
    BY <1>1, <1>2, ConcatProperties
  <2>2. Len(c) + Len(d) = Len(b)
    BY ONLY <1>1, <1>2, n \in 0..Len(b)
  <2> QED BY <2>1, <2>2
<1>4. \A x \in 1..Len(b) : (c \o d)[x] = b[x]
  <2> TAKE x \in 1..Len(b)
  <2>1. CASE x <= n
    BY <1>1, <1>2, <2>1
  <2>2. CASE x > n
    <3>1. x - n \in 1..Len(d) /\ n + (x - n) = x
      BY <1>1, <1>2, <2>2
    <3>2. (c \o d)[x] = d[x - n]
      BY <1>1, <1>2, <2>2
    <3> QED BY <1>2, <3>1, <3>2
  <2>3. n \in Int /\ x \in Int
    OBVIOUS
  <2>4. x <= n \/ x > n
    BY ONLY <2>3
  <2> QED BY <2>1, <2>2, <2>4, Zenon
<1>5. c \o d = b
  BY <1>3, <1>4, SeqEqual
<1>6. (a \o c) \o d = a \o (c \o d)
  BY <1>1, <1>2, ConcatAssociative
<1>7. (a \o c) \o d = a \o b
  BY <1>5, <1>6, Zenon
<1>8. a \o c \in Seq(S)
  BY <1>1
<1>9. Moved(a \o c, d, a, b, S)
  BY <1>2, <1>7, <1>8 DEF Moved
<1> QED BY <1>9 DEF c, d

\* Without the end of the second half, the whole has lost its end.
LEMMA JoinedCut ==
  ASSUME NEW S, NEW a \in Seq(S), NEW b \in Seq(S), NEW n \in 0..Len(b)
  PROVE  /\ SubSeq(b, 1, n) \in Seq(S) /\ a \o SubSeq(b, 1, n) \in Seq(S)
         /\ Begun(a \o SubSeq(b, 1, n), a \o b)
BY DEF Begun

-----------------------------------------------------------------------------
(***************************************************************************)
(* Steps                                                                   *)
(***************************************************************************)
\* A step that neither issues nor calls, nor takes from the lists.
LEMMA Kept ==
  ASSUME Good, Shape', Control', calls' = calls, issued' = issued,
         ac'.replies = ac.replies, ac'.invalid = ac.invalid, ac'.channels = ac.channels,
         Alive' => Alive /\ FlowNow'
  PROVE  Good'
<1> DEFINE D == In(ac.replies) \cup In(ac.invalid)
<1>1. /\ (Ascending(ac.replies) /\ Ascending(ac.invalid))'
      /\ Owed(In(ac.replies), In(ac.invalid), issued)' /\ Heard(D, issued, calls)'
  BY DEF Good, WorldNow, World, Dues
<1>2. Told(ac.channels, issued, Alive, calls)
  BY DEF Good, WorldNow, World, Dues
<1>3. Told(ac.channels, issued, Alive, calls)'
  <2>2. CASE Alive'
    <3>1. Alive = Alive'
      BY <2>2 DEF Alive
    <3> QED BY <1>2, <3>1
  <2>3. CASE ~ Alive'
    <3>1. Told(ac.channels, issued, Alive', calls)
      BY <1>2, <2>3, ToldEnds DEF Alive
    <3> QED BY <3>1
  <2> QED BY <2>2, <2>3
<1>4. WorldNow'
  BY <1>1, <1>3 DEF WorldNow, World, Dues, FlowNow
<1> QED BY <1>4 DEF Good

\* A step that leaves the flow alone.
LEMMA FlowKept ==
  ASSUME FlowNow, (ac.inbuf \o peer.toClient)' = ac.inbuf \o peer.toClient,
         (peer.toServer \o ac.obuf)' = peer.toServer \o ac.obuf,
         ac'.replies = ac.replies, ac'.invalid = ac.invalid, ac'.channels = ac.channels,
         ("subscribed" \in ac'.flags) = ("subscribed" \in ac.flags),
         Up' = Up, peer'.subs = peer.subs, issued' = issued
  PROVE  FlowNow'
BY DEF FlowNow

\* A list with no members but those of T.
Within(a, T) == \A x \in 1..Len(a) : a[x] \in T

\* The whole has none when neither half has.
LEMMA JoinedWithin ==
  ASSUME NEW S, NEW a \in Seq(S), NEW b \in Seq(S), NEW T, Within(a, T), Within(b, T)
  PROVE  Within(a \o b, T)
<1> SUFFICES ASSUME NEW x \in 1..Len(a \o b) PROVE (a \o b)[x] \in T
  BY DEF Within
<1>1. /\ Len(a \o b) = Len(a) + Len(b) /\ Len(a) \in Nat /\ Len(b) \in Nat
      /\ \A i \in 1..(Len(a) + Len(b)) :
            (a \o b)[i] = IF i <= Len(a) THEN a[i] ELSE b[i - Len(a)]
  BY ConcatProperties
<1>2. x \in 1..(Len(a) + Len(b))
  BY <1>1
<1>3. CASE x <= Len(a)
  BY <1>1, <1>2, <1>3 DEF Within
<1>4. CASE x > Len(a)
  <2>1. x - Len(a) \in 1..Len(b) /\ ~ (x <= Len(a))
    BY ONLY <1>1, <1>2, <1>4
  <2> QED BY <1>1, <1>2, <2>1 DEF Within
<1> QED BY ONLY <1>1, <1>2, <1>3, <1>4

\* Nothing of an unsubscription is under way.
LEMMA SteadyNow ==
  ASSUME issued \in Seq(Command), peer.toServer \in Seq(Nat), ac.obuf \in Seq(Nat),
         ac.inbuf \in Seq(Reply), peer.toClient \in Seq(Reply), ~ Unsubscribing
  PROVE  Steady(ac.inbuf \o peer.toClient, peer.toServer \o ac.obuf, issued)
<1> DEFINE Kept_ == {i \in Nat : issued[i].kind # "unsubscribe"}
           Heard_ == {r \in Reply : r.type # "unsubscribe"}
<1>1. /\ Within(ac.obuf, Kept_) /\ Within(peer.toServer, Kept_)
      /\ Within(peer.toClient, Heard_) /\ Within(ac.inbuf, Heard_)
  BY DEF Unsubscribing, Within
<1>2. Within(ac.inbuf \o peer.toClient, Heard_)
  BY <1>1, JoinedWithin
<1>3. Within(peer.toServer \o ac.obuf, Kept_)
  BY <1>1, JoinedWithin
<1> QED BY <1>2, <1>3 DEF Steady, Within

\* What an issued command does, whichever it is.
LEMMA Issues ==
  ASSUME Good, NEW command \in Command, UserRuns,
         ac.flags \cap {"disconnecting", "freeing"} = {}, ~ Unsubscribing,
         issued' = Append(issued, command), UNCHANGED <<ctl, peer, calls>>, ContextShape',
         ac'.obuf = Append(ac.obuf, Len(issued) + 1), ac'.writing, ac'.inbuf = ac.inbuf,
         ac.flags \subseteq ac'.flags
  PROVE  /\ Alive /\ Alive' /\ Shape' /\ Control'
         /\ Steady(ac.inbuf \o peer.toClient, peer.toServer \o ac.obuf, issued)
         /\ Grown(issued', issued, command) /\ issued \in Seq(Command) /\ issued' \in Seq(Command)
         /\ Grown((peer.toServer \o ac.obuf)', peer.toServer \o ac.obuf, Len(issued) + 1)
         /\ (peer.toServer \o ac.obuf)' \in Seq(Nat) /\ peer.toServer \o ac.obuf \in Seq(Nat)
         /\ ac.inbuf \o peer.toClient \in Seq(Reply)
         /\ (ac.inbuf \o peer.toClient)' = ac.inbuf \o peer.toClient
<1>1. /\ issued \in Seq(Command) /\ peer.toServer \in Seq(Nat) /\ ac.obuf \in Seq(Nat)
      /\ ac.inbuf \in Seq(Reply) /\ peer.toClient \in Seq(Reply) /\ Len(issued) + 1 \in Nat
  BY DEF Good, Shape, ContextShape, Context, PeerShape
<1>2. Alive /\ Alive'
  BY DEF Good, Control, UserRuns, Alive
<1>3. Grown(issued', issued, command) /\ issued' \in Seq(Command)
  BY <1>1, Appended DEF Grown
<1>4. Shape'
  <2>1. PeerShape' /\ ControlShape' /\ (calls \in Seq(Call))'
    BY DEF Good, Shape, PeerShape, ControlShape
  <2> QED BY <1>3, <2>1 DEF Shape
<1>5. Control'
  BY <1>2 DEF Good, Control, UserRuns, Alive
<1>6. Steady(ac.inbuf \o peer.toClient, peer.toServer \o ac.obuf, issued)
  BY <1>1, SteadyNow
<1>7. /\ Grown((peer.toServer \o ac.obuf)', peer.toServer \o ac.obuf, Len(issued) + 1)
      /\ (peer.toServer \o ac.obuf)' \in Seq(Nat) /\ peer.toServer \o ac.obuf \in Seq(Nat)
  <2>1. /\ Grown(peer.toServer \o Append(ac.obuf, Len(issued) + 1), peer.toServer \o ac.obuf,
                Len(issued) + 1)
        /\ peer.toServer \o Append(ac.obuf, Len(issued) + 1) \in Seq(Nat)
        /\ peer.toServer \o ac.obuf \in Seq(Nat)
    BY <1>1, JoinedGrows
  <2>2. (peer.toServer \o ac.obuf)' = peer.toServer \o Append(ac.obuf, Len(issued) + 1)
    OBVIOUS
  <2> QED BY <2>1, <2>2, Zenon
<1>8. ac.inbuf \o peer.toClient \in Seq(Reply)
  BY <1>1
<1>9. (ac.inbuf \o peer.toClient)' = ac.inbuf \o peer.toClient
  OBVIOUS
<1> QED BY <1>1, <1>2, <1>3, <1>4, <1>5, <1>6, <1>7, <1>8, <1>9

-----------------------------------------------------------------------------
(***************************************************************************)
(* The lists, the flow and the calls together                              *)
(***************************************************************************)
\* What a command that is issued does to the commands owed.
LEMMA OwedIssue ==
  ASSUME NEW cs, NEW ds, NEW command, NEW R, NEW V, NEW S, NEW W,
         cs \in Seq(Command), ds \in Seq(Command), Grown(ds, cs, command),
         R \subseteq Nat, V \subseteq Nat, Owed(R, V, cs),
         Goes(R, V, S, W, command, Len(cs) + 1)
  PROVE  Owed(S, W, ds)
<1> SUFFICES ASSUME S \subseteq R \cup {Len(cs) + 1}, W \subseteq V \cup {Len(cs) + 1},
                    command.kind = "get" \/ (S \subseteq R /\ W \subseteq V),
                    S \subseteq R \/ W = {}
             PROVE  Owed(S, W, ds)
  BY DEF Goes
<1>1. /\ Len(ds) = Len(cs) + 1 /\ Len(cs) \in Nat /\ ds[Len(cs) + 1] = command
      /\ \A j \in 1..Len(cs) : ds[j] = cs[j]
  BY DEF Grown
<1>2. \A i \in R \cup V : i \in 1..Len(cs) /\ cs[i].kind = "get"
  BY DEF Owed
<1>3. ASSUME NEW i \in S \cup W PROVE i \in 1..Len(ds) /\ ds[i].kind = "get"
  <2>1. i \in R \cup V \/ (i = Len(cs) + 1 /\ command.kind = "get")
    OBVIOUS
  <2> QED BY <1>1, <1>2, <2>1
<1>4. ASSUME NEW i \in S, NEW j \in W PROVE i < j
  <2>1. i \in R /\ (j \in V \/ j = Len(cs) + 1)
    OBVIOUS
  <2>2. CASE j \in V
    BY <2>1, <2>2 DEF Owed
  <2>3. CASE j = Len(cs) + 1
    BY <1>1, <1>2, <2>1, <2>3
  <2> QED BY <2>1, <2>2, <2>3
<1> QED BY <1>3, <1>4 DEF Owed

\* What is owed comes before what is issued next.
LEMMA OwedBefore ==
  ASSUME NEW cs \in Seq(Command), NEW R, NEW V, Owed(R, V, cs)
  PROVE  \A i \in R \cup V : i < Len(cs) + 1
BY DEF Owed

\* A flow is one from some command to some other.
LEMMA FlowsFrom ==
  ASSUME NEW cs, NEW k, NEW m, NEW w, NEW p, NEW R, NEW V, NEW ch,
         NEW sub, NEW up, NEW subs, cs \in Seq(Command),
         Flow(k, m, w, p, R, V, ch, sub, up, subs, cs)
  PROVE  Flows(w, p, R, V, ch, sub, up, subs, cs)
<1>1. k \in 0..Len(cs) /\ m \in 0..Len(cs)
  BY DEF Flow
<1> QED BY <1>1, Zenon DEF Flows

WorldTyped(w, p, rs, vs, sub, up, subs, cs, cl, alive) ==
    /\ w \in Seq(Reply) /\ p \in Seq(Nat) /\ rs \in Seq(Nat) /\ vs \in Seq(Nat)
    /\ sub \in BOOLEAN /\ up \in BOOLEAN /\ subs \subseteq Channel
    /\ cs \in Seq(Command) /\ cl \in Seq(Call) /\ alive \in BOOLEAN

\* A world where the context is alive has a flow.
LEMMA WorldFlow ==
  ASSUME NEW w, NEW p, NEW rs, NEW vs, NEW ch, NEW sub, NEW up, NEW subs, NEW cs, NEW cl, NEW alive,
         WorldTyped(w, p, rs, vs, sub, up, subs, cs, cl, alive), alive,
         World(w, p, rs, vs, ch, sub, up, subs, cs, cl, alive)
  PROVE  /\ \E k, m \in 0..Len(cs) : Flow(k, m, w, p, In(rs), In(vs), ch, sub, up, subs, cs)
         /\ \A k, m \in 0..Len(cs) : Typed(w, p, In(rs), In(vs), sub, up, subs, cs, k, m)
<1>1. Flows(w, p, In(rs), In(vs), ch, sub, up, subs, cs)
  BY DEF World, Dues
<1>2. rs \in Seq(Nat) /\ vs \in Seq(Nat)
  BY DEF WorldTyped
<1>3. In(rs) \subseteq Nat /\ In(vs) \subseteq Nat
  BY <1>2, ListEmpty
<1>4. ASSUME NEW k \in 0..Len(cs), NEW m \in 0..Len(cs)
      PROVE  Typed(w, p, In(rs), In(vs), sub, up, subs, cs, k, m)
  BY <1>3 DEF Typed, WorldTyped
<1> QED BY <1>1, <1>4 DEF Flows

\* A `get' of a context without subscriptions.
LEMMA GetWorld ==
  ASSUME NEW w, NEW p, NEW rs, NEW vs, NEW ch, NEW sub, NEW up, NEW subs, NEW cs, NEW cl, NEW alive,
         NEW command, NEW ds, NEW q,
         WorldTyped(w, p, rs, vs, sub, up, subs, cs, cl, alive), alive, ~ sub,
         World(w, p, rs, vs, ch, sub, up, subs, cs, cl, alive),
         Steady(w, p, cs), command.kind = "get", Queued(q, p, ds, cs, command)
  PROVE  World(w, q, Append(rs, Len(cs) + 1), vs, ch, sub, up, subs, ds, cl, alive)
<1> DEFINE n == Len(cs) + 1
           R == In(rs)
           V == In(vs)
<1>1. /\ Ascending(rs) /\ Ascending(vs) /\ Owed(R, V, cs) /\ Heard(R \cup V, cs, cl)
      /\ Told(ch, cs, alive, cl)
  BY DEF World, Dues
<1>2. /\ rs \in Seq(Nat) /\ cs \in Seq(Command) /\ vs \in Seq(Nat) /\ cl \in Seq(Call)
      /\ alive \in BOOLEAN /\ ds \in Seq(Command) /\ Grown(ds, cs, command)
  BY DEF WorldTyped, Queued
<1>3. R \subseteq Nat /\ V \subseteq Nat /\ n \in Nat
  BY <1>2, ListEmpty
<1>4. \A i \in R : i < n
  BY <1>1, <1>2, OwedBefore
<1>5. Ascending(Append(rs, n)) /\ In(Append(rs, n)) = R \cup {n}
  BY <1>1, <1>2, <1>3, <1>4, ListGrows
<1>6. /\ \E k, m \in 0..Len(cs) : Flow(k, m, w, p, R, V, ch, sub, up, subs, cs)
      /\ \A k, m \in 0..Len(cs) : Typed(w, p, R, V, sub, up, subs, cs, k, m)
  BY WorldFlow
<1> DEFINE S == R \cup {n}
           D == R \cup V
<1> HIDE DEF R, V
<1>7. PICK k \in 0..Len(cs), m \in 0..Len(cs) : Flow(k, m, w, p, R, V, ch, sub, up, subs, cs)
  BY <1>6
<1>8. Flow(k, m, w, q, S, V, ch, sub, up, subs, ds)
  BY <1>1, <1>6, <1>7, GetFlows
<1>9. V = {}
  BY <1>7 DEF Flow, Refusable
<1>10. Owed(S, V, ds)
  <2>1. Goes(R, V, S, V, command, Len(cs) + 1)
    BY <1>9 DEF Goes
  <2> HIDE DEF S
  <2> QED BY <1>1, <1>2, <1>3, <2>1, OwedIssue
<1>11. Heard(S \cup V, ds, cl)
  <2>1. Joins(D, S \cup V, command, Len(cs) + 1)
    BY <1>3 DEF Joins
  <2> QED BY <1>1, <1>2, <2>1, HeardIssue
<1>12. Told(ch, ds, alive, cl)
  <2>1. Renamed(ch, ch, command, Len(cs) + 1)
    BY DEF Renamed
  <2> QED BY <1>1, <1>2, <2>1, ToldIssue
<1>13. Flows(w, q, S, V, ch, sub, up, subs, ds)
  BY <1>2, <1>8, FlowsFrom
<1> QED BY <1>1, <1>5, <1>10, <1>11, <1>12, <1>13, Zenon DEF World, Dues, R, V

\* ... and of one that has some: it will be refused.
LEMMA RefusedGetWorld ==
  ASSUME NEW w, NEW p, NEW rs, NEW vs, NEW ch, NEW sub, NEW up, NEW subs, NEW cs, NEW cl, NEW alive,
         NEW command, NEW ds, NEW q,
         WorldTyped(w, p, rs, vs, sub, up, subs, cs, cl, alive), alive, sub,
         World(w, p, rs, vs, ch, sub, up, subs, cs, cl, alive),
         Steady(w, p, cs), command.kind = "get", Queued(q, p, ds, cs, command)
  PROVE  World(w, q, rs, Append(vs, Len(cs) + 1), ch, sub, up, subs, ds, cl, alive)
<1> DEFINE n == Len(cs) + 1
           R == In(rs)
           V == In(vs)
<1>1. /\ Ascending(rs) /\ Ascending(vs) /\ Owed(R, V, cs) /\ Heard(R \cup V, cs, cl)
      /\ Told(ch, cs, alive, cl)
  BY DEF World, Dues
<1>2. /\ rs \in Seq(Nat) /\ cs \in Seq(Command) /\ vs \in Seq(Nat) /\ cl \in Seq(Call)
      /\ alive \in BOOLEAN /\ ds \in Seq(Command) /\ Grown(ds, cs, command)
  BY DEF WorldTyped, Queued
<1>3. R \subseteq Nat /\ V \subseteq Nat /\ n \in Nat
  BY <1>2, ListEmpty
<1>4. \A i \in V : i < n
  BY <1>1, <1>2, OwedBefore
<1>5. Ascending(Append(vs, n)) /\ In(Append(vs, n)) = V \cup {n}
  BY <1>1, <1>2, <1>3, <1>4, ListGrows
<1>6. /\ \E k, m \in 0..Len(cs) : Flow(k, m, w, p, R, V, ch, sub, up, subs, cs)
      /\ \A k, m \in 0..Len(cs) : Typed(w, p, R, V, sub, up, subs, cs, k, m)
  BY WorldFlow
<1> DEFINE W == V \cup {n}
           D == R \cup V
<1> HIDE DEF R, V
<1>7. PICK k \in 0..Len(cs), m \in 0..Len(cs) : Flow(k, m, w, p, R, V, ch, sub, up, subs, cs)
  BY <1>6
<1>8. Flow(k, m, w, q, R, W, ch, sub, up, subs, ds)
  BY <1>1, <1>6, <1>7, RefusedGetFlows
<1>10. Owed(R, W, ds)
  <2>1. Goes(R, V, R, W, command, Len(cs) + 1)
    BY DEF Goes
  <2> HIDE DEF W
  <2> QED BY <1>1, <1>2, <1>3, <2>1, OwedIssue
<1>11. Heard(R \cup W, ds, cl)
  <2>1. Joins(D, R \cup W, command, Len(cs) + 1)
    BY <1>3 DEF Joins
  <2> QED BY <1>1, <1>2, <2>1, HeardIssue
<1>12. Told(ch, ds, alive, cl)
  <2>1. Renamed(ch, ch, command, Len(cs) + 1)
    BY DEF Renamed
  <2> QED BY <1>1, <1>2, <2>1, ToldIssue
<1>13. Flows(w, q, R, W, ch, sub, up, subs, ds)
  BY <1>2, <1>8, FlowsFrom
<1> QED BY <1>1, <1>5, <1>10, <1>11, <1>12, <1>13, Zenon DEF World, Dues, R, V

\* A subscription, or the end of one.
LEMMA ChannelWorld ==
  ASSUME NEW w, NEW p, NEW rs, NEW vs, NEW ch, NEW sub, NEW up, NEW subs, NEW cs, NEW cl, NEW alive,
         NEW command, NEW ds, NEW q, NEW dh, NEW dsub,
         WorldTyped(w, p, rs, vs, sub, up, subs, cs, cl, alive), alive, dsub \in BOOLEAN, dsub,
         World(w, p, rs, vs, ch, sub, up, subs, cs, cl, alive),
         Steady(w, p, cs), command.kind # "get", Queued(q, p, ds, cs, command),
         Linked(ch, dh, command, Len(cs) + 1)
  PROVE  World(w, q, rs, vs, dh, dsub, up, subs, ds, cl, alive)
<1> DEFINE R == In(rs)
           V == In(vs)
           D == R \cup V
<1>1. /\ Ascending(rs) /\ Ascending(vs) /\ Owed(R, V, cs) /\ Heard(D, cs, cl)
      /\ Told(ch, cs, alive, cl)
  BY DEF World, Dues
<1>2. /\ rs \in Seq(Nat) /\ cs \in Seq(Command) /\ vs \in Seq(Nat) /\ cl \in Seq(Call)
      /\ alive \in BOOLEAN /\ ds \in Seq(Command) /\ Grown(ds, cs, command)
  BY DEF WorldTyped, Queued
<1>3. R \subseteq Nat /\ V \subseteq Nat
  BY <1>2, ListEmpty
<1>6. /\ \E k, m \in 0..Len(cs) : Flow(k, m, w, p, R, V, ch, sub, up, subs, cs)
      /\ \A k, m \in 0..Len(cs) : Typed(w, p, R, V, sub, up, subs, cs, k, m)
  BY WorldFlow
<1> HIDE DEF R, V
<1>7. PICK k \in 0..Len(cs), m \in 0..Len(cs) : Flow(k, m, w, p, R, V, ch, sub, up, subs, cs)
  BY <1>6
<1>8. Flow(k, m, w, q, R, V, dh, dsub, up, subs, ds)
  BY <1>1, <1>6, <1>7, ChannelFlows
<1>10. Owed(R, V, ds)
  <2>1. Goes(R, V, R, V, command, Len(cs) + 1)
    BY DEF Goes
  <2> QED BY <1>1, <1>2, <1>3, <2>1, OwedIssue
<1>11. Heard(D, ds, cl)
  <2>1. Joins(D, D, command, Len(cs) + 1)
    BY <1>3 DEF Joins
  <2> QED BY <1>1, <1>2, <2>1, HeardIssue
<1>12. Told(dh, ds, alive, cl)
  <2>1. Renamed(ch, dh, command, Len(cs) + 1)
    BY DEF Linked
  <2> QED BY <1>1, <1>2, <2>1, ToldIssue
<1>13. Flows(w, q, R, V, dh, dsub, up, subs, ds)
  BY <1>2, <1>8, FlowsFrom
<1> QED BY <1>1, <1>10, <1>11, <1>12, <1>13, Zenon DEF World, Dues, R, V, D

\* The callback of command i, if it has one, is called with the reply.
Tells(dl, cl, cs, i, reply) ==
    IF cs[i].kind = "get" /\ ~ cs[i].hasFn THEN dl = cl
    ELSE dl \in Seq(Call) /\ Grown(dl, cl, [fn |-> i, reply |-> reply])
\* The reply may be one to the get e.
Fits(reply, e) ==
    /\ reply.type \in {"string", "error", "nil"}
    /\ reply.type \in {"string", "error"} => reply.of \in {0, e}

\* The first of the commands that are due is told.
LEMMA DuesTold ==
  ASSUME NEW rs, NEW vs, NEW ch, NEW cs, NEW cl, NEW alive, NEW dl, NEW reply,
         rs \in Seq(Nat), vs \in Seq(Nat), cs \in Seq(Command), cl \in Seq(Call), alive \in BOOLEAN,
         rs # << >>, Dues(rs, vs, ch, cs, cl, alive), Tells(dl, cl, cs, Head(rs), reply),
         Fits(reply, Head(rs))
  PROVE  Dues(Tail(rs), vs, ch, cs, dl, alive)
<1> DEFINE e == Head(rs)
           R == In(rs)
           V == In(vs)
           D == R \cup V
           call == [fn |-> e, reply |-> reply]
<1>1. /\ Ascending(rs) /\ Ascending(vs) /\ Owed(R, V, cs) /\ Heard(D, cs, cl)
      /\ Told(ch, cs, alive, cl)
  BY DEF Dues
<1>2. R \subseteq Nat /\ V \subseteq Nat
  BY ListEmpty
<1>3. /\ Ascending(Tail(rs)) /\ e \in R /\ \A i \in R : e <= i
      /\ In(Tail(rs)) = R \ {e}
  BY <1>1, ListShrinks
<1>4. Tells(dl, cl, cs, e, reply) /\ Fits(reply, e)
  OBVIOUS
<1>5. call.fn = e /\ call.reply = reply
  OBVIOUS
<1> HIDE DEF e, R, V
<1>6. \A j \in V : e < j
  BY <1>1, <1>3 DEF Owed
<1>7. e \in 1..Len(cs) /\ cs[e].kind = "get"
  BY <1>1, <1>3 DEF Owed
<1>8. Least(e, D) /\ D \subseteq Nat
  BY <1>2, <1>3, <1>6 DEF Least
<1>9. (R \ {e}) \cup V = D \ {e}
  BY <1>2, <1>3, <1>6
<1>10. Owed(R \ {e}, V, cs)
  BY <1>1 DEF Owed
<1>11. Heard(D \ {e}, cs, dl) /\ Told(ch, cs, alive, dl)
  <2>1. CASE ~ cs[e].hasFn
    <3>1. dl = cl
      BY <1>4, <1>7, <2>1 DEF Tells
    <3>2. Heard(D \ {e}, cs, cl)
      BY <1>1, <1>8, <2>1, HeardNone
    <3> QED BY <1>1, <3>1, <3>2
  <2>2. CASE cs[e].hasFn
    <3>1. dl \in Seq(Call) /\ Grown(dl, cl, call)
      BY <1>4, <2>2 DEF Tells
    <3> HIDE DEF call, D
    <3>2. Called(cs, D, cl, dl, call)
      BY <1>8, <3>1 DEF Called
    <3>3. Answered(call, e, cs)
      BY <1>4, <1>5, <1>7 DEF Answered, Fits
    <3>4. Heard(D \ {e}, cs, dl)
      BY <1>1, <1>8, <3>2, <3>3, HeardCall
    <3>5. cs[call.fn].kind = "get"
      BY <1>5, <1>7
    <3>6. Told(ch, cs, alive, dl)
      BY <1>1, <3>2, <3>5, ToldGet
    <3> QED BY <3>4, <3>6
  <2> QED BY <2>1, <2>2
<1> QED BY <1>1, <1>3, <1>9, <1>10, <1>11 DEF Dues, R, V

\* One list that is due is as good as the other, when that one is empty.
LEMMA DuesSwap ==
  ASSUME NEW rs, NEW ch, NEW cs, NEW cl, NEW alive
  PROVE  Dues(rs, << >>, ch, cs, cl, alive) <=> Dues(<< >>, rs, ch, cs, cl, alive)
<1>1. In(<< >>) = {} /\ Ascending(<< >>)
  BY DEF In, Ascending
<1>2. In(rs) \cup In(<< >>) = In(<< >>) \cup In(rs)
  OBVIOUS
<1>3. Owed(In(rs), {}, cs) <=> Owed({}, In(rs), cs)
  BY DEF Owed
<1> QED BY <1>1, <1>2, <1>3 DEF Dues

\* The callback of a channel is told that the context ends.
LEMMA DuesNil ==
  ASSUME NEW rs, NEW vs, NEW ch, NEW cs, NEW cl, NEW alive, NEW dl, NEW dh, NEW c,
         rs \in Seq(Nat), vs \in Seq(Nat), cs \in Seq(Command), cl \in Seq(Call), alive \in BOOLEAN,
         ~ alive, Dues(rs, vs, ch, cs, cl, alive), c \in Channel, ch[c] # FN_NULL,
         Forgot(ch, dh, c), Tells(dl, cl, cs, ch[c], NIL)
  PROVE  Dues(rs, vs, dh, cs, dl, alive)
<1> DEFINE D == In(rs) \cup In(vs)
           call == [fn |-> ch[c], reply |-> NIL]
<1>1. /\ Heard(D, cs, cl) /\ Told(ch, cs, alive, cl) /\ D \subseteq Nat
  BY ListEmpty DEF Dues
<1>2. ch[c] \in 1..Len(cs) /\ cs[ch[c]].kind = "subscribe"
  BY <1>1 DEF Told
<1>3. dl \in Seq(Call) /\ Grown(dl, cl, call)
  BY <1>2 DEF Tells
<1>4. call.fn = ch[c] /\ call.reply = NIL
  OBVIOUS
<1> HIDE DEF call, D
<1>5. Called(cs, D, cl, dl, call)
  BY <1>1, <1>3 DEF Called
<1>6. call.fn \in 1..Len(cs) /\ cs[call.fn].kind = "subscribe"
  BY <1>2, <1>4
<1>7. Heard(D, cs, dl)
  BY <1>1, <1>5, <1>6, HeardChannel
<1>8. Told(dh, cs, alive, dl)
  BY <1>1, <1>4, <1>5, ToldNil
<1> QED BY <1>7, <1>8 DEF Dues, D

\* A reply to the command that is due next.
LEMMA AnsweredWorld ==
  ASSUME NEW w, NEW p, NEW rs, NEW vs, NEW ch, NEW sub, NEW up, NEW subs, NEW cs, NEW cl, NEW alive,
         NEW v, NEW dl,
         WorldTyped(w, p, rs, vs, sub, up, subs, cs, cl, alive), alive, rs # << >>,
         World(w, p, rs, vs, ch, sub, up, subs, cs, cl, alive),
         v \in Seq(Reply), Dropped(v, w), Tells(dl, cl, cs, Head(rs), w[1])
  PROVE  /\ World(v, p, Tail(rs), vs, ch, sub, up, subs, cs, dl, alive)
         /\ Head(rs) \in 1..Len(cs)
<1> DEFINE e == Head(rs)
           R == In(rs)
           V == In(vs)
<1>1. /\ Ascending(rs) /\ Owed(R, V, cs) /\ Dues(rs, vs, ch, cs, cl, alive)
  BY DEF World, Dues
<1>2. /\ rs \in Seq(Nat) /\ cs \in Seq(Command) /\ vs \in Seq(Nat) /\ cl \in Seq(Call)
      /\ alive \in BOOLEAN
  BY DEF WorldTyped
<1>3. Least(e, R) /\ In(Tail(rs)) = R \ {e}
  BY <1>1, <1>2, ListShrinks DEF Least
<1>4. /\ \E k, m \in 0..Len(cs) : Flow(k, m, w, p, R, V, ch, sub, up, subs, cs)
      /\ \A k, m \in 0..Len(cs) : Typed(w, p, R, V, sub, up, subs, cs, k, m)
  BY WorldFlow
<1>5. Len(w) >= 1
  BY DEF Dropped
<1> HIDE DEF e, R, V
<1>6. PICK k \in 0..Len(cs), m \in 0..Len(cs) : Flow(k, m, w, p, R, V, ch, sub, up, subs, cs)
  BY <1>4
<1>7. Typed(w, p, R, V, sub, up, subs, cs, k, m)
  BY <1>4
<1>8. ForFirst(k, m, w, e, up, cs)
  BY <1>1, <1>3, <1>5, <1>6, <1>7, FirstDue
<1>9. Fits(w[1], e)
  BY <1>8 DEF ForFirst, Fits
<1>10. \E l, n \in 0..Len(cs) : Flow(l, n, v, p, R \ {e}, V, ch, sub, up, subs, cs)
  BY <1>1, <1>3, <1>6, <1>7, AnsweredFlows
<1>11. Flows(v, p, R \ {e}, V, ch, sub, up, subs, cs)
  BY <1>10, Zenon DEF Flows
<1>12. Dues(Tail(rs), vs, ch, cs, dl, alive)
  <2>1. Tells(dl, cl, cs, Head(rs), w[1]) /\ Fits(w[1], Head(rs))
    BY <1>9 DEF e
  <2> QED BY <1>1, <1>2, <2>1, DuesTold
<1>13. World(v, p, Tail(rs), vs, ch, sub, up, subs, cs, dl, alive)
  BY <1>3, <1>11, <1>12, Zenon DEF World, V
<1> QED BY <1>8, <1>13 DEF ForFirst, e

AboutChannel(reply, ch, sub) ==
    reply.type \in ChannelReply /\ reply.channel \in Channel /\ ch[reply.channel] # FN_NULL /\ sub

\* What comes when no command is due, if it is no error, is about a channel.
LEMMA FirstWorld ==
  ASSUME NEW w, NEW p, NEW vs, NEW ch, NEW sub, NEW up, NEW subs, NEW cs, NEW cl, NEW alive,
         WorldTyped(w, p, << >>, vs, sub, up, subs, cs, cl, alive), alive, Len(w) >= 1,
         World(w, p, << >>, vs, ch, sub, up, subs, cs, cl, alive), w[1].type # "error"
  PROVE  AboutChannel(w[1], ch, sub)
<1> DEFINE V == In(vs)
<1>1. In(<< >>) = {}
  BY DEF In
<1>2. /\ \E k, m \in 0..Len(cs) : Flow(k, m, w, p, {}, V, ch, sub, up, subs, cs)
      /\ \A k, m \in 0..Len(cs) : Typed(w, p, {}, V, sub, up, subs, cs, k, m)
  <2>1. /\ \E k, m \in 0..Len(cs) : Flow(k, m, w, p, In(<< >>), V, ch, sub, up, subs, cs)
        /\ \A k, m \in 0..Len(cs) : Typed(w, p, In(<< >>), V, sub, up, subs, cs, k, m)
    BY WorldFlow
  <2> QED BY <1>1, <2>1, Zenon
<1> HIDE DEF V
<1>3. PICK k \in 0..Len(cs), m \in 0..Len(cs) : Flow(k, m, w, p, {}, V, ch, sub, up, subs, cs)
  BY <1>2
<1>4. Typed(w, p, {}, V, sub, up, subs, cs, k, m)
  BY <1>2
<1>5. ForChannel(k, m, w, ch, sub, cs)
  BY <1>3, <1>4, FirstOfChannel
<1> QED BY <1>5 DEF ForChannel, AboutChannel

\* What the end of the channel's subscription, if the reply is one, makes of the callbacks.
Turned(ch, dh, dsub, reply) ==
    /\ reply.type # "unsubscribe" => dh = ch /\ dsub
    /\ reply.type = "unsubscribe" =>
        Unlinked(ch, dh, reply.channel) /\ (dsub <=> reply.count # 0)
    /\ Cleared(ch, dh) /\ dsub \in BOOLEAN

\* Its callback is called.
LEMMA HeardWorld ==
  ASSUME NEW w, NEW p, NEW vs, NEW ch, NEW sub, NEW up, NEW subs, NEW cs, NEW cl, NEW alive,
         NEW v, NEW dl, NEW dh, NEW dsub,
         WorldTyped(w, p, << >>, vs, sub, up, subs, cs, cl, alive), alive,
         World(w, p, << >>, vs, ch, sub, up, subs, cs, cl, alive), w[1].type # "error",
         v \in Seq(Reply), Dropped(v, w), Tells(dl, cl, cs, ch[w[1].channel], w[1]),
         Turned(ch, dh, dsub, w[1])
  PROVE  World(v, p, << >>, vs, dh, dsub, up, subs, cs, dl, alive)
<1> DEFINE V == In(vs)
           D == In(<< >>) \cup V
           call == [fn |-> ch[w[1].channel], reply |-> w[1]]
<1>1. In(<< >>) = {} /\ << >> \in Seq(Nat)
  BY DEF In
<1>2. /\ cs \in Seq(Command) /\ vs \in Seq(Nat) /\ cl \in Seq(Call) /\ alive \in BOOLEAN
      /\ sub \in BOOLEAN /\ up \in BOOLEAN
  BY DEF WorldTyped
<1>3. /\ Ascending(<< >>) /\ Ascending(vs) /\ Owed(In(<< >>), V, cs) /\ Heard(D, cs, cl)
      /\ Told(ch, cs, alive, cl)
  BY DEF World, Dues
<1>4. Len(w) >= 1
  BY DEF Dropped
<1>5. /\ w[1].type \in ChannelReply /\ w[1].channel \in Channel
      /\ ch[w[1].channel] # FN_NULL /\ sub
  <2>1. AboutChannel(w[1], ch, sub)
    BY <1>4, FirstWorld
  <2> QED BY <2>1 DEF AboutChannel
<1>6. ch[w[1].channel] \in 1..Len(cs) /\ cs[ch[w[1].channel]].kind = "subscribe"
  BY <1>3, <1>5 DEF Told
<1>7. dl \in Seq(Call) /\ Grown(dl, cl, call)
  BY <1>6 DEF Tells
<1>8. call.fn = ch[w[1].channel] /\ call.reply = w[1]
  OBVIOUS
<1>9. D \subseteq Nat
  BY <1>1, <1>2, ListEmpty
<1> HIDE DEF V, D, call
<1>10. Called(cs, D, cl, dl, call)
  BY <1>2, <1>7, <1>9 DEF Called
<1>11. Heard(D, cs, dl)
  BY <1>3, <1>6, <1>8, <1>10, HeardChannel
<1>12. Told(dh, cs, alive, dl)
  <2>1. Cleared(ch, dh)
    BY DEF Turned
  <2>2. /\ call.reply.type \in ChannelReply /\ call.reply.channel \in Channel
        /\ call.fn = ch[call.reply.channel] /\ call.fn # FN_NULL
    BY <1>5, <1>8
  <2> QED BY <1>2, <1>3, <1>10, <2>1, <2>2, ToldChannel
<1>13. /\ \E k, m \in 0..Len(cs) : Flow(k, m, w, p, {}, V, ch, sub, up, subs, cs)
       /\ \A k, m \in 0..Len(cs) : Typed(w, p, {}, V, sub, up, subs, cs, k, m)
  <2>1. /\ \E k, m \in 0..Len(cs) : Flow(k, m, w, p, In(<< >>), V, ch, sub, up, subs, cs)
        /\ \A k, m \in 0..Len(cs) : Typed(w, p, In(<< >>), V, sub, up, subs, cs, k, m)
    BY WorldFlow DEF V
  <2> QED BY <1>1, <2>1, Zenon
<1>14. PICK k \in 0..Len(cs), m \in 0..Len(cs) : Flow(k, m, w, p, {}, V, ch, sub, up, subs, cs)
  BY <1>13
<1>15. Typed(w, p, {}, V, sub, up, subs, cs, k, m)
  BY <1>13
<1>16. Owed({}, V, cs)
  BY <1>1, <1>3, Zenon
<1>17. \E l, n \in 0..Len(cs) : Flow(l, n, v, p, {}, V, dh, dsub, up, subs, cs)
  <2>1. CASE w[1].type = "unsubscribe"
    <3>1. Unlinked(ch, dh, w[1].channel) /\ dsub \in BOOLEAN /\ (dsub <=> w[1].count # 0)
      BY <2>1 DEF Turned
    <3> QED BY <1>14, <1>15, <1>16, <2>1, <3>1, LeavingFlows
  <2>2. CASE w[1].type # "unsubscribe"
    <3>1. w[1].type \in {"message", "subscribe"}
      BY <1>5, <2>2 DEF ChannelReply
    <3>2. \E l, n \in 0..Len(cs) : Flow(l, n, v, p, {}, V, ch, sub, up, subs, cs)
      BY <1>14, <1>15, <1>16, <3>1, HeardFlows
    <3>3. dh = ch /\ dsub = sub
      BY <1>2, <1>5, <2>2 DEF Turned
    <3> QED BY <3>2, <3>3, Zenon
  <2> QED BY <2>1, <2>2
<1>18. Flows(v, p, In(<< >>), V, dh, dsub, up, subs, cs)
  BY <1>1, <1>17, Zenon DEF Flows
<1> QED BY <1>3, <1>11, <1>12, <1>18, Zenon DEF World, Dues, D, V

-----------------------------------------------------------------------------
(***************************************************************************)
(* What the program calls                                                  *)
(***************************************************************************)
\* The world now is one.
LEMMA TypedNow ==
  ASSUME Good
  PROVE  /\ WorldTyped(ac.inbuf \o peer.toClient, peer.toServer \o ac.obuf, ac.replies,
                       ac.invalid, "subscribed" \in ac.flags, Up, peer.subs, issued, calls, Alive)
         /\ WorldNow
<1>1. /\ ac.inbuf \in Seq(Reply) /\ peer.toClient \in Seq(Reply) /\ peer.toServer \in Seq(Nat)
      /\ ac.obuf \in Seq(Nat) /\ ac.replies \in Seq(Nat) /\ ac.invalid \in Seq(Nat)
      /\ peer.subs \subseteq Channel /\ issued \in Seq(Command) /\ calls \in Seq(Call)
  BY DEF Good, Shape, ContextShape, Context, PeerShape
<1>2. ac.inbuf \o peer.toClient \in Seq(Reply) /\ peer.toServer \o ac.obuf \in Seq(Nat)
  BY <1>1
<1>3. Up \in BOOLEAN /\ Alive \in BOOLEAN
  BY DEF Up, Alive
<1> QED BY <1>1, <1>2, <1>3 DEF WorldTyped, Good

\* A command: its callback goes to the list that is in use.
LEMMA GetStep ==
  ASSUME Good, odd' = {}, Get
  PROVE  Good'
<1> DEFINE n == Len(issued) + 1
           w == ac.inbuf \o peer.toClient
           p == peer.toServer \o ac.obuf
           sub == "subscribed" \in ac.flags
<1>1. PICK hasFn \in BOOLEAN :
        AppendCommand([kind |-> "get", hasFn |-> hasFn],
                IF Has("subscribed") THEN [ac EXCEPT !.invalid = Pushed(@, n)]
                ELSE [ac EXCEPT !.replies = Pushed(@, n)],
                {})
  BY DEF Get
<1> DEFINE command == [kind |-> "get", hasFn |-> hasFn]
<1>2. command \in Command /\ command.kind = "get"
  BY DEF Command
<1>3. /\ ac.flags \in SUBSET Flag /\ ac.replies \in Seq(Nat) /\ ac.invalid \in Seq(Nat)
      /\ ac.obuf \in Seq(Nat) /\ n \in Nat /\ ContextShape
  BY DEF Good, Shape, ContextShape, Context
<1> DEFINE context == IF Has("subscribed") THEN [ac EXCEPT !.invalid = Pushed(@, n)]
                      ELSE [ac EXCEPT !.replies = Pushed(@, n)]
<1>4. /\ UserRuns /\ ac.flags \cap {"disconnecting", "freeing"} = {} /\ ~ Unsubscribing
      /\ issued' = Append(issued, command) /\ UNCHANGED <<ctl, peer, calls>>
      /\ ac' = AddWrite([context EXCEPT !.obuf = Append(@, n)])
  <2>1. AppendCommand(command, context, {})
    BY <1>1
  <2> HIDE DEF command, context
  <2> QED BY <2>1 DEF AppendCommand
<1>5. /\ ContextShape' /\ ac'.obuf = Append(ac.obuf, n) /\ ac'.writing = TRUE
      /\ ac'.inbuf = ac.inbuf /\ ac'.flags = ac.flags /\ ac'.channels = ac.channels
      /\ sub => ac'.invalid = Append(ac.invalid, n) /\ ac'.replies = ac.replies
      /\ ~ sub => ac'.invalid = ac.invalid /\ ac'.replies = Append(ac.replies, n)
  <2>1. CASE sub
    <3>1. ac' = [ac EXCEPT !.invalid = Append(@, n), !.obuf = Append(@, n), !.writing = TRUE]
      BY <1>3, <1>4, <2>1 DEF AddWrite, Pushed, Has, ContextShape, Context
    <3>2. Append(ac.invalid, n) \in Seq(Nat) /\ Append(ac.obuf, n) \in Seq(Nat)
      BY <1>3
    <3> QED BY <1>3, <2>1, <3>1, <3>2 DEF ContextShape, Context
  <2>2. CASE ~ sub
    <3>1. ac' = [ac EXCEPT !.replies = Append(@, n), !.obuf = Append(@, n), !.writing = TRUE]
      BY <1>3, <1>4, <2>2 DEF AddWrite, Pushed, Has, ContextShape, Context
    <3>2. Append(ac.replies, n) \in Seq(Nat) /\ Append(ac.obuf, n) \in Seq(Nat)
      BY <1>3
    <3> QED BY <1>3, <2>2, <3>1, <3>2 DEF ContextShape, Context
  <2> QED BY <2>1, <2>2
<1>6. /\ Alive /\ Alive' /\ Shape' /\ Control' /\ Steady(w, p, issued)
      /\ Grown(issued', issued, command) /\ issued' \in Seq(Command)
      /\ Grown(p', p, n) /\ p' \in Seq(Nat) /\ w' = w
  BY <1>2, <1>4, <1>5, Issues
<1>7. Queued(p', p, issued', issued, command)
  BY <1>2, <1>6 DEF Queued
<1>8. Up' = Up /\ peer'.subs = peer.subs /\ calls' = calls /\ sub' = sub /\ Alive' = Alive
  BY <1>4, <1>5, <1>6 DEF Up, Alive
<1>9. /\ WorldTyped(w, p, ac.replies, ac.invalid, sub, Up, peer.subs, issued, calls, Alive)
      /\ World(w, p, ac.replies, ac.invalid, ac.channels, sub, Up, peer.subs, issued, calls, Alive)
  BY TypedNow DEF WorldNow
<1> DEFINE cs == issued
           ds == issued'
           q == p'
           cl == calls
<1>10. CASE ~ sub
  <2>1. World(w, q, Append(ac.replies, n), ac.invalid, ac.channels, sub, Up, peer.subs, ds, cl,
              Alive)
    <3> HIDE DEF w, p, q, sub, cs, ds, cl, command
    <3> QED BY <1>2, <1>6, <1>7, <1>9, <1>10, GetWorld DEF cs, ds, cl, q
  <2>2. World(w', p', ac'.replies, ac'.invalid, ac'.channels, sub', Up', peer'.subs, issued',
              calls', Alive')
    BY <1>5, <1>6, <1>8, <1>10, <2>1, Zenon
  <2> QED BY <1>6, <2>2 DEF Good, WorldNow
<1>11. CASE sub
  <2>1. World(w, q, ac.replies, Append(ac.invalid, n), ac.channels, sub, Up, peer.subs, ds, cl,
              Alive)
    <3> HIDE DEF w, p, q, sub, cs, ds, cl, command
    <3> QED BY <1>2, <1>6, <1>7, <1>9, <1>11, RefusedGetWorld DEF cs, ds, cl, q
  <2>2. World(w', p', ac'.replies, ac'.invalid, ac'.channels, sub', Up', peer'.subs, issued',
              calls', Alive')
    BY <1>5, <1>6, <1>8, <1>11, <2>1, Zenon
  <2> QED BY <1>6, <2>2 DEF Good, WorldNow
<1> QED BY <1>10, <1>11

\* What is left to say of a command about a channel.
LEMMA ChannelStep ==
  ASSUME Good, NEW command \in Command, command.kind # "get", UserRuns,
         ac.flags \cap {"disconnecting", "freeing"} = {}, ~ Unsubscribing,
         issued' = Append(issued, command), UNCHANGED <<ctl, peer, calls>>, ContextShape',
         ac'.obuf = Append(ac.obuf, Len(issued) + 1), ac'.writing, ac'.inbuf = ac.inbuf,
         ac.flags \subseteq ac'.flags, "subscribed" \in ac'.flags,
         ac'.replies = ac.replies, ac'.invalid = ac.invalid,
         Linked(ac.channels, ac'.channels, command, Len(issued) + 1)
  PROVE  Good'
<1> DEFINE n == Len(issued) + 1
           w == ac.inbuf \o peer.toClient
           p == peer.toServer \o ac.obuf
           sub == "subscribed" \in ac.flags
<1>1. /\ Alive /\ Alive' /\ Shape' /\ Control' /\ Steady(w, p, issued)
      /\ Grown(issued', issued, command) /\ issued' \in Seq(Command)
      /\ Grown(p', p, n) /\ p' \in Seq(Nat) /\ w' = w
  BY Issues
<1>2. Queued(p', p, issued', issued, command)
  BY <1>1 DEF Queued
<1>3. Up' = Up /\ peer'.subs = peer.subs /\ calls' = calls /\ Alive' = Alive
  BY <1>1 DEF Up, Alive
<1>4. /\ WorldTyped(w, p, ac.replies, ac.invalid, sub, Up, peer.subs, issued, calls, Alive)
      /\ World(w, p, ac.replies, ac.invalid, ac.channels, sub, Up, peer.subs, issued, calls, Alive)
  BY TypedNow DEF WorldNow
<1> DEFINE cs == issued
           ds == issued'
           q == p'
           cl == calls
           dh == ac'.channels
           dsub == "subscribed" \in ac'.flags
<1>5. /\ dsub \in BOOLEAN /\ dsub /\ Linked(ac.channels, dh, command, Len(cs) + 1)
      /\ command.kind # "get"
  OBVIOUS
<1>6. World(w, q, ac.replies, ac.invalid, dh, dsub, Up, peer.subs, ds, cl, Alive)
  <2> HIDE DEF w, p, q, sub, cs, ds, cl, dh, dsub
  <2> QED BY ONLY <1>1, <1>2, <1>4, <1>5, ChannelWorld DEF cs, ds, cl, q
<1>7. World(w', p', ac'.replies, ac'.invalid, ac'.channels, sub', Up', peer'.subs, issued',
            calls', Alive')
  BY <1>1, <1>3, <1>6, Zenon
<1> QED BY <1>1, <1>7 DEF Good, WorldNow

\* A subscription, whose callback replaces that of the channel.
LEMMA SubscribeStep ==
  ASSUME Good, odd' = {}, Subscribe
  PROVE  Good'
<1> DEFINE n == Len(issued) + 1
<1>1. PICK ch \in Channel :
        AppendCommand([kind |-> "subscribe", channel |-> ch],
                [ac EXCEPT !.flags = @ \cup {"subscribed"}, !.channels[ch] = n], {})
  BY DEF Subscribe
<1> DEFINE command == [kind |-> "subscribe", channel |-> ch]
           context == [ac EXCEPT !.flags = @ \cup {"subscribed"}, !.channels[ch] = n]
<1>2. command \in Command /\ command.kind # "get"
  BY DEF Command
<1>3. /\ ac.flags \in SUBSET Flag /\ ac.channels \in [Channel -> Nat]
      /\ ac.obuf \in Seq(Nat) /\ n \in Nat /\ n # 0 /\ ContextShape
  BY DEF Good, Shape, ContextShape, Context
<1>4. /\ UserRuns /\ ac.flags \cap {"disconnecting", "freeing"} = {} /\ ~ Unsubscribing
      /\ issued' = Append(issued, command) /\ UNCHANGED <<ctl, peer, calls>>
      /\ ac' = AddWrite([context EXCEPT !.obuf = Append(@, n)])
  <2>1. AppendCommand(command, context, {})
    BY <1>1
  <2> HIDE DEF command, context
  <2> QED BY <2>1 DEF AppendCommand
<1>5. /\ ContextShape' /\ ac'.obuf = Append(ac.obuf, n) /\ ac'.writing = TRUE
      /\ ac'.inbuf = ac.inbuf /\ ac'.flags = ac.flags \cup {"subscribed"}
      /\ ac'.channels = [ac.channels EXCEPT ![ch] = n]
      /\ ac'.replies = ac.replies /\ ac'.invalid = ac.invalid
  <2>1. ac' = [ac EXCEPT !.flags = @ \cup {"subscribed"}, !.obuf = Append(@, n),
                         !.channels = [ac.channels EXCEPT ![ch] = n], !.writing = TRUE]
    BY <1>3, <1>4 DEF AddWrite, ContextShape, Context
  <2>2. /\ Append(ac.obuf, n) \in Seq(Nat) /\ ac.flags \cup {"subscribed"} \in SUBSET Flag
        /\ [ac.channels EXCEPT ![ch] = n] \in [Channel -> Nat]
    <3>1. Append(ac.obuf, n) \in Seq(Nat)
      BY <1>3
    <3>2. ac.flags \cup {"subscribed"} \in SUBSET Flag
      BY <1>3 DEF Flag
    <3>3. [ac.channels EXCEPT ![ch] = n] \in [Channel -> Nat]
      BY <1>3
    <3> QED BY <3>1, <3>2, <3>3
  <2> QED BY <1>3, <2>1, <2>2 DEF ContextShape, Context
<1>6. Linked(ac.channels, ac'.channels, command, n)
  BY <1>3, <1>5 DEF Linked, Renamed, FN_NULL
<1>7. ac.flags \subseteq ac'.flags /\ "subscribed" \in ac'.flags
  BY <1>5
<1> HIDE DEF command, context
<1> QED BY <1>2, <1>4, <1>5, <1>6, <1>7, ChannelStep

\* Its end, for a channel that has a callback and when no other is under way.
LEMMA UnsubscribeStep ==
  ASSUME Good, odd' = {}, Unsubscribe
  PROVE  Good'
<1> DEFINE n == Len(issued) + 1
<1>1. PICK ch \in Channel :
        AppendCommand([kind |-> "unsubscribe", channel |-> ch], ac,
                      IF ac.channels[ch] = FN_NULL THEN {"not subscribed"} ELSE {})
  BY DEF Unsubscribe
<1> DEFINE command == [kind |-> "unsubscribe", channel |-> ch]
<1>2. command \in Command /\ command.kind # "get"
  BY DEF Command
<1>3. ac.channels \in [Channel -> Nat] /\ ac.obuf \in Seq(Nat) /\ n \in Nat /\ ContextShape
  BY DEF Good, Shape, ContextShape, Context
<1>4. /\ UserRuns /\ ac.flags \cap {"disconnecting", "freeing"} = {} /\ ~ Unsubscribing
      /\ issued' = Append(issued, command) /\ UNCHANGED <<ctl, peer, calls>>
      /\ ac' = AddWrite([ac EXCEPT !.obuf = Append(@, n)]) /\ ac.channels[ch] # FN_NULL
  <2>1. AppendCommand(command, ac, IF ac.channels[ch] = FN_NULL THEN {"not subscribed"} ELSE {})
    BY <1>1
  <2> HIDE DEF command
  <2> QED BY <2>1 DEF AppendCommand
<1>5. /\ ContextShape' /\ ac'.obuf = Append(ac.obuf, n) /\ ac'.writing = TRUE
      /\ ac'.inbuf = ac.inbuf /\ ac'.flags = ac.flags /\ ac'.channels = ac.channels
      /\ ac'.replies = ac.replies /\ ac'.invalid = ac.invalid
  <2>1. ac' = [ac EXCEPT !.obuf = Append(@, n), !.writing = TRUE]
    BY <1>3, <1>4 DEF AddWrite, ContextShape, Context
  <2>2. Append(ac.obuf, n) \in Seq(Nat)
    BY <1>3
  <2> QED BY <1>3, <2>1, <2>2 DEF ContextShape, Context
<1>6. Linked(ac.channels, ac'.channels, command, n)
  BY <1>4, <1>5 DEF Linked, Renamed
<1>7. ac.flags \subseteq ac'.flags /\ "subscribed" \in ac'.flags
  BY <1>5 DEF Unsubscribe, Has
<1> HIDE DEF command
<1> QED BY <1>2, <1>4, <1>5, <1>6, <1>7, ChannelStep

Outside == {"onConnect", "callback", "onDisconnect"}

\* What comes to an end.
LEMMA Frees ==
  ASSUME Good, ContextShape', ctl.at \notin Outside,
         ctl' = [ctl EXCEPT !.at = "free", !.nested = @ \/ ctl.at \in Outside],
         ac'.replies = ac.replies, ac'.invalid = ac.invalid, ac'.channels = ac.channels,
         ac'.flags \cap {"disconnecting", "freeing"} # {}, UNCHANGED <<peer, issued, calls>>
  PROVE  Good'
<1>1. /\ ControlShape' /\ ctl'.at = "free"
  BY DEF Good, Shape, ControlShape, Place
<1>2. Shape'
  BY <1>1 DEF Good, Shape, PeerShape
<1>3. Control' /\ ~ Alive'
  BY <1>1 DEF Control, Alive
<1> QED BY <1>2, <1>3, Kept

\* While the context is alive there is a flow.
LEMMA AliveFlow ==
  ASSUME Good, Alive
  PROVE  FlowNow
BY DEF Good, WorldNow, World, FlowNow

\* A step of the library that leaves lists and queues alone.
LEMMA Passes ==
  ASSUME Good, ContextShape', ControlShape', Control', Alive' => Alive,
         ac'.replies = ac.replies, ac'.invalid = ac.invalid, ac'.channels = ac.channels,
         ac'.inbuf = ac.inbuf, ac'.obuf = ac.obuf,
         "subscribed" \in ac'.flags <=> "subscribed" \in ac.flags,
         UNCHANGED <<peer, issued, calls>>
  PROVE  Good'
<1>1. Shape'
  BY DEF Good, Shape, PeerShape
<1>2. ASSUME Alive' PROVE FlowNow'
  <2>1. FlowNow
    BY <1>2, AliveFlow
  <2>2. /\ (ac.inbuf \o peer.toClient)' = ac.inbuf \o peer.toClient
        /\ (peer.toServer \o ac.obuf)' = peer.toServer \o ac.obuf
        /\ Up' = Up /\ peer'.subs = peer.subs
        /\ ("subscribed" \in ac'.flags) = ("subscribed" \in ac.flags)
    BY DEF Up
  <2> QED BY <2>1, <2>2, FlowKept
<1> QED BY <1>1, <1>2, Kept

\* The program disconnects: at once, if no command is due and no callback runs.
LEMMA DisconnectStep ==
  ASSUME Good, odd' = {}, redisAsyncDisconnect
  PROVE  Good'
<1> DEFINE marked == [ac EXCEPT !.flags = @ \cup {"disconnecting"}]
<1>1. ContextShape /\ ac.flags \in SUBSET Flag /\ Control /\ ControlShape
  BY DEF Good, Shape, ContextShape, Context
<1>2. ASSUME ac' = marked
      PROVE  /\ ContextShape' /\ ac'.flags = ac.flags \cup {"disconnecting"}
             /\ ac'.replies = ac.replies /\ ac'.invalid = ac.invalid
             /\ ac'.channels = ac.channels /\ ac'.inbuf = ac.inbuf /\ ac'.obuf = ac.obuf
             /\ ac'.reading = ac.reading /\ ac'.writing = ac.writing
  <2>1. ac.flags \cup {"disconnecting"} \in SUBSET Flag
    BY <1>1 DEF Flag
  <2> QED BY <1>1, <1>2, <2>1 DEF ContextShape, Context
<1>3. CASE ~ Has("in callback") /\ ac.replies = << >>
  <2>1. EndContext(marked) /\ odd' = odd \cup EndedBy /\ UNCHANGED <<peer, issued, calls>>
    BY <1>3 DEF redisAsyncDisconnect
  <2>2. ctl.at \notin Outside
    BY <1>1, <1>3, <2>1 DEF EndedBy, Outside, Control, Has
  <2>3. /\ ac' = marked
        /\ ctl' = [ctl EXCEPT !.at = "free",
                              !.nested = @ \/ ctl.at \in Outside]
    <3>1. marked.replies = << >> /\ [marked EXCEPT !.flags = @ \cup {"disconnecting"}] = marked
      BY <1>1, <1>3 DEF ContextShape, Context
    <3> HIDE DEF marked
    <3> QED BY <2>1, <3>1 DEF EndContext, StartFree, Outside
  <2>4. ac'.flags \cap {"disconnecting", "freeing"} # {}
    BY <1>2, <2>3
  <2> QED BY <1>2, <2>1, <2>2, <2>3, <2>4, Frees
<1>4. CASE ~ (~ Has("in callback") /\ ac.replies = << >>)
  <2>1. ac' = marked /\ UNCHANGED <<ctl, peer, issued, calls>>
    BY <1>4 DEF redisAsyncDisconnect
  <2>2. Control' /\ ControlShape' /\ Alive' = Alive
    BY <1>1, <1>2, <2>1 DEF Control, ControlShape, Alive
  <2> QED BY <1>2, <2>1, <2>2, Passes
<1> QED BY <1>3, <1>4

\* The program frees the context: at once, if no callback runs.
LEMMA FreeStep ==
  ASSUME Good, odd' = {}, redisAsyncFree
  PROVE  Good'
<1> DEFINE marked == [ac EXCEPT !.flags = @ \cup {"freeing"}]
<1>1. ContextShape /\ ac.flags \in SUBSET Flag /\ Control /\ ControlShape
  BY DEF Good, Shape, ContextShape, Context
<1>2. ASSUME ac' = marked
      PROVE  /\ ContextShape' /\ ac'.flags = ac.flags \cup {"freeing"}
             /\ ac'.replies = ac.replies /\ ac'.invalid = ac.invalid
             /\ ac'.channels = ac.channels /\ ac'.inbuf = ac.inbuf /\ ac'.obuf = ac.obuf
             /\ ac'.reading = ac.reading /\ ac'.writing = ac.writing
  <2>1. ac.flags \cup {"freeing"} \in SUBSET Flag
    BY <1>1 DEF Flag
  <2> QED BY <1>1, <1>2, <2>1 DEF ContextShape, Context
<1>3. CASE ~ Has("in callback")
  <2>1. StartFree(marked) /\ odd' = odd \cup EndedBy /\ UNCHANGED <<peer, issued, calls>>
    BY <1>3 DEF redisAsyncFree
  <2>2. ctl.at \notin Outside
    BY <1>1, <1>3, <2>1 DEF EndedBy, Outside, Control, Has
  <2>3. /\ ac' = marked
        /\ ctl' = [ctl EXCEPT !.at = "free",
                              !.nested = @ \/ ctl.at \in Outside]
    BY <2>1 DEF StartFree, Outside
  <2>4. ac'.flags \cap {"disconnecting", "freeing"} # {}
    BY <1>2, <2>3
  <2> QED BY <1>2, <2>1, <2>2, <2>3, <2>4, Frees
<1>4. CASE Has("in callback")
  <2>1. ac' = marked /\ UNCHANGED <<ctl, peer, issued, calls>>
    BY <1>4 DEF redisAsyncFree
  <2>2. Control' /\ ControlShape' /\ Alive' = Alive
    BY <1>1, <1>2, <2>1 DEF Control, ControlShape, Alive
  <2> QED BY <1>2, <2>1, <2>2, Passes
<1> QED BY <1>3, <1>4

-----------------------------------------------------------------------------
(***************************************************************************)
(* What the library does                                                   *)
(***************************************************************************)
LEMMA ReturnsStep ==
  ASSUME Good, CallbackReturns
  PROVE  Good'
<1>1. ContextShape /\ ac.flags \in SUBSET Flag /\ Control /\ ControlShape
  BY DEF Good, Shape, ContextShape, Context
<1>2. /\ ctl.at = "callback" /\ UNCHANGED <<peer, issued, calls>>
      /\ ac' = [ac EXCEPT !.flags = @ \ {"in callback"}]
      /\ ctl' = [ctl EXCEPT !.at = IF "freeing" \in ac.flags THEN "free" ELSE ctl.back]
  BY DEF CallbackReturns, LibraryAt, Has
<1>3. /\ ContextShape' /\ ac'.flags = ac.flags \ {"in callback"}
      /\ ac'.replies = ac.replies /\ ac'.invalid = ac.invalid
      /\ ac'.channels = ac.channels /\ ac'.inbuf = ac.inbuf /\ ac'.obuf = ac.obuf
      /\ ac'.reading = ac.reading /\ ac'.writing = ac.writing
  <2>1. ac.flags \ {"in callback"} \in SUBSET Flag
    BY <1>1
  <2> QED BY <1>1, <1>2, <2>1 DEF ContextShape, Context
<1>4. /\ ctl.back \in {"process", "free"}
      /\ ctl'.at = IF "freeing" \in ac.flags THEN "free" ELSE ctl.back
      /\ ctl'.back = ctl.back /\ ControlShape'
  BY <1>1, <1>2 DEF Control, ControlShape, Place
<1>5. Control' /\ (Alive' => Alive)
  <2>1. CASE "freeing" \in ac.flags
    <3>1. ctl'.at = "free" /\ "freeing" \in ac'.flags
      BY <1>3, <1>4, <2>1
    <3> QED BY <3>1 DEF Control, Alive
  <2>2. CASE "freeing" \notin ac.flags /\ ctl.back = "process"
    <3>1. ctl'.at = "process" /\ Alive /\ Alive'
      BY <1>2, <1>4, <2>2 DEF Alive
    <3> QED BY <1>1, <1>3, <3>1 DEF Control
  <2>3. CASE "freeing" \notin ac.flags /\ ctl.back = "free"
    <3>1. ctl'.at = "free" /\ ~ Alive /\ ~ Alive'
      BY <1>2, <1>4, <2>3 DEF Alive
    <3>2. ac.flags \cap {"disconnecting", "freeing"} # {}
      BY <1>1, <3>1 DEF Control
    <3>3. ac'.flags \cap {"disconnecting", "freeing"} # {}
      BY <1>3, <3>2
    <3> QED BY <3>1, <3>3 DEF Control
  <2> QED BY <1>4, <2>1, <2>2, <2>3
<1> QED BY <1>2, <1>3, <1>5, <1>4, Passes

\* The end of a context that has told all its callbacks.
LEMMA EndsStep ==
  ASSUME Good, FreeEnds
  PROVE  Good'
<1>1. ContextShape /\ Control /\ ControlShape
  BY DEF Good, Shape
<1>2. /\ ctl.at = "free" /\ ac.replies = << >> /\ ac.invalid = << >>
      /\ UNCHANGED <<peer, issued, calls>>
      /\ ac' = [ac EXCEPT !.reading = FALSE, !.writing = FALSE]
      /\ ctl' = [ctl EXCEPT !.at = "freed"] \/ ctl' = [ctl EXCEPT !.at = "onDisconnect"]
  BY <1>1 DEF FreeEnds, LibraryAt, Cleanup, ControlShape, Freed
<1>3. /\ ContextShape' /\ ac'.flags = ac.flags
      /\ ac'.replies = ac.replies /\ ac'.invalid = ac.invalid
      /\ ac'.channels = ac.channels /\ ac'.inbuf = ac.inbuf /\ ac'.obuf = ac.obuf
      /\ ~ ac'.reading /\ ~ ac'.writing
  BY <1>1, <1>2 DEF ContextShape, Context
<1>4. ctl'.at \in {"onDisconnect", "freed"} /\ ControlShape'
  BY <1>1, <1>2 DEF ControlShape, Place
<1>5. Control' /\ ~ Alive'
  BY <1>1, <1>2, <1>3, <1>4 DEF Control, Alive
<1> QED BY <1>2, <1>3, <1>5, <1>4, Passes

\* Back from onDisconnect, which did not end the context once more.
LEMMA OnDisconnectStep ==
  ASSUME Good, OnDisconnectReturns
  PROVE  Good'
<1>1. ContextShape /\ Control /\ ControlShape
  BY DEF Good, Shape
<1>2. /\ ctl.at = "onDisconnect" /\ UNCHANGED <<ac, peer, issued, calls>>
      /\ ctl' = [ctl EXCEPT !.at = "freed"]
  BY <1>1 DEF OnDisconnectReturns, LibraryAt, ControlShape, Freed
<1>3. ctl'.at = "freed" /\ ControlShape' /\ ContextShape'
  BY <1>1, <1>2 DEF ControlShape, Place, ContextShape, Context
<1>4. Control' /\ ~ Alive'
  BY <1>1, <1>2, <1>3 DEF Control, Alive
<1> QED BY <1>2, <1>3, <1>4, Passes

\* An event, the first of which says whether the connection is up.
LEMMA EventStep ==
  ASSUME Good, HandleEvent
  PROVE  Good'
<1>1. ContextShape /\ ac.flags \in SUBSET Flag /\ Control /\ ControlShape
  BY DEF Good, Shape, ContextShape, Context
<1>2. ctl.at = "loop" /\ peer.link # "connecting" /\ UNCHANGED <<peer, issued, calls, odd>>
  BY DEF HandleEvent
<1>3. PICK event \in {"read", "write"} :
        LET then == IF peer.link = "refused" THEN "failed" ELSE event
        IN  IF Has("connected") THEN LibraryAt(event) /\ UNCHANGED ac
            ELSE /\ ac' = IF then = "failed" THEN [ac EXCEPT !.err = TRUE]
                          ELSE [ac EXCEPT !.flags = @ \cup {"connected"}]
                 /\ ctl' = [ctl EXCEPT !.at = IF ac.onConnect THEN "onConnect" ELSE then,
                                       !.then = then]
  BY DEF HandleEvent
<1>4. /\ ContextShape' /\ ac.flags \subseteq ac'.flags
      /\ ac'.flags \subseteq ac.flags \cup {"connected"}
      /\ ac'.replies = ac.replies /\ ac'.invalid = ac.invalid
      /\ ac'.channels = ac.channels /\ ac'.inbuf = ac.inbuf /\ ac'.obuf = ac.obuf
      /\ ac'.reading = ac.reading /\ ac'.writing = ac.writing
  <2>1. ac.flags \cup {"connected"} \in SUBSET Flag
    BY <1>1 DEF Flag
  <2>2. \/ ac' = ac \/ ac' = [ac EXCEPT !.err = TRUE]
        \/ ac' = [ac EXCEPT !.flags = @ \cup {"connected"}]
    BY <1>3
  <2> QED BY <1>1, <2>1, <2>2 DEF ContextShape, Context
<1>5. /\ ctl'.at \in {"onConnect", "failed", "read", "write"} /\ ControlShape'
      /\ ctl'.at = "onConnect" => ctl'.then \in {"failed", "read", "write"}
  BY <1>1, <1>2, <1>3 DEF ControlShape, Place, LibraryAt
<1>6. Alive /\ Alive'
  BY <1>2, <1>5 DEF Alive
<1>7. Control'
  BY <1>1, <1>2, <1>4, <1>5, <1>6 DEF Control
<1>8. "subscribed" \in ac'.flags <=> "subscribed" \in ac.flags
  BY <1>4
<1> QED BY <1>2, <1>4, <1>5, <1>6, <1>7, <1>8, Passes

\* Back from onConnect, which did not end the context.
LEMMA OnConnectStep ==
  ASSUME Good, OnConnectReturns
  PROVE  Good'
<1>1. ContextShape /\ Control /\ ControlShape
  BY DEF Good, Shape
<1>2. /\ ctl.at = "onConnect" /\ ctl' = [ctl EXCEPT !.at = ctl.then]
      /\ UNCHANGED <<ac, peer, issued, calls>>
  BY DEF OnConnectReturns, LibraryAt
<1>3. ctl'.at = ctl.then /\ ctl.then \in {"failed", "read", "write"} /\ ControlShape'
  BY <1>1, <1>2 DEF ControlShape, Control
<1>4. Alive /\ Alive' /\ Control'
  BY <1>1, <1>2, <1>3 DEF Alive, Control
<1>5. ContextShape'
  BY <1>1, <1>2 DEF ContextShape, Context
<1> QED BY <1>2, <1>3, <1>4, <1>5, Passes

\* An error of the connection ends the context.
LEMMA FailsStep ==
  ASSUME Good, Fails
  PROVE  Good'
<1> DEFINE failed == [ac EXCEPT !.err = TRUE]
           context == [failed EXCEPT !.flags = @ \cup {"disconnecting"}]
<1>1. ContextShape /\ ac.flags \in SUBSET Flag
  BY DEF Good, Shape, ContextShape, Context
<1>2. /\ ctl.at \notin Outside /\ UNCHANGED <<peer, issued, calls>>
      /\ EndContext(failed)
  BY DEF Fails, Outside
<1>3. failed.err
  BY <1>1 DEF ContextShape, Context
<1>4. StartFree(context)
  <2> HIDE DEF failed
  <2> QED BY <1>2, <1>3 DEF EndContext
<1>5. /\ ac' = context
      /\ ctl' = [ctl EXCEPT !.at = "free", !.nested = @ \/ ctl.at \in Outside]
  BY <1>4 DEF StartFree, Outside
<1>6. /\ ContextShape' /\ ac'.flags = ac.flags \cup {"disconnecting"}
      /\ ac'.replies = ac.replies /\ ac'.invalid = ac.invalid /\ ac'.channels = ac.channels
  <2>1. ac.flags \cup {"disconnecting"} \in SUBSET Flag
    BY <1>1 DEF Flag
  <2> QED BY <1>1, <1>5, <2>1 DEF ContextShape, Context
<1>7. ac'.flags \cap {"disconnecting", "freeing"} # {}
  BY <1>6
<1> QED BY <1>2, <1>5, <1>6, <1>7, Frees

\* No whole reply is left, and a context that disconnects may end.
LEMMA NoReplyStep ==
  ASSUME Good, odd' = {}, NoReply
  PROVE  Good'
<1>1. ContextShape /\ ac.flags \in SUBSET Flag /\ Control /\ ControlShape
  BY DEF Good, Shape, ContextShape, Context
<1>2. ctl.at = "process" /\ UNCHANGED <<peer, issued, calls>>
  BY DEF NoReply
<1>3. CASE Has("disconnecting") /\ ac.obuf = << >>
  <2>1. EndContext(ac) /\ ac.replies = << >>
    BY <1>3 DEF NoReply
  <2>2. /\ ac' = [ac EXCEPT !.flags = @ \cup {"disconnecting"}] \/ ac' = ac
        /\ ctl' = [ctl EXCEPT !.at = "free",
                              !.nested = @ \/ ctl.at \in Outside]
    BY <2>1 DEF EndContext, StartFree, Outside
  <2>3. ac' = ac
    <3>1. ac.flags \cup {"disconnecting"} = ac.flags
      BY <1>1, <1>3 DEF Has
    <3>2. [ac EXCEPT !.flags = @ \cup {"disconnecting"}] = [ac EXCEPT !.flags = ac.flags]
      BY <3>1
    <3>3. [ac EXCEPT !.flags = ac.flags] = ac
      BY <1>1 DEF ContextShape, Context
    <3> QED BY <2>2, <3>2, <3>3
  <2>4. ContextShape' /\ ac'.flags \cap {"disconnecting", "freeing"} # {}
    BY <1>1, <1>3, <2>3 DEF ContextShape, Context, Has
  <2>5. ctl.at \notin Outside
    BY <1>2 DEF Outside
  <2> QED BY <1>2, <2>2, <2>3, <2>4, <2>5, Frees
<1>4. CASE ~ (Has("disconnecting") /\ ac.obuf = << >>)
  <2>1. ~ Has("monitoring")
    BY <1>1 DEF Has, Flag
  <2>2. ac' = ac /\ ctl' = InLoop
    BY <1>4, <2>1 DEF NoReply
  <2>3. ContextShape' /\ ControlShape' /\ Control' /\ Alive
    BY <1>1, <1>2, <2>2
       DEF ContextShape, Context, ControlShape, Control, Alive, InLoop, Place, FN_NULL
  <2> QED BY <1>2, <2>2, <2>3, Passes
<1> QED BY <1>3, <1>4

\* While the context is alive its flow is one.
LEMMA FlowIs ==
  ASSUME Good, Alive
  PROVE  /\ \E k, m \in 0..Len(issued) :
                Flow(k, m, ac.inbuf \o peer.toClient, peer.toServer \o ac.obuf, In(ac.replies),
                     In(ac.invalid), ac.channels, "subscribed" \in ac.flags, Up, peer.subs, issued)
         /\ \A k, m \in 0..Len(issued) :
                Typed(ac.inbuf \o peer.toClient, peer.toServer \o ac.obuf, In(ac.replies),
                      In(ac.invalid), "subscribed" \in ac.flags, Up, peer.subs, issued, k, m)
<1>1. /\ WorldTyped(ac.inbuf \o peer.toClient, peer.toServer \o ac.obuf, ac.replies,
                    ac.invalid, "subscribed" \in ac.flags, Up, peer.subs, issued, calls, Alive)
      /\ WorldNow
  BY TypedNow
<1> DEFINE w == ac.inbuf \o peer.toClient
           p == peer.toServer \o ac.obuf
           sub == "subscribed" \in ac.flags
<1>2. /\ WorldTyped(w, p, ac.replies, ac.invalid, sub, Up, peer.subs, issued, calls, Alive)
      /\ World(w, p, ac.replies, ac.invalid, ac.channels, sub, Up, peer.subs, issued, calls, Alive)
  BY <1>1 DEF WorldNow
<1> HIDE DEF w, p, sub
<1>3. /\ \E k, m \in 0..Len(issued) : Flow(k, m, w, p, In(ac.replies), In(ac.invalid), ac.channels,
                                           sub, Up, peer.subs, issued)
      /\ \A k, m \in 0..Len(issued) : Typed(w, p, In(ac.replies), In(ac.invalid), sub, Up,
                                            peer.subs, issued, k, m)
  BY ONLY <1>2, Alive, WorldFlow
<1> QED BY <1>3, Zenon DEF w, p, sub

\* What is read moves from the connection to the buffer.
LEMMA ReadStep ==
  ASSUME Good, redisBufferRead
  PROVE  Good'
<1>1. /\ ContextShape /\ PeerShape /\ Control /\ ControlShape
      /\ ac.inbuf \in Seq(Reply) /\ peer.toClient \in Seq(Reply)
  BY DEF Good, Shape, ContextShape, Context, PeerShape
<1>2. PICK n \in 0..Len(peer.toClient) :
        /\ ac' = AddRead([ac EXCEPT !.inbuf = @ \o SubSeq(peer.toClient, 1, n)])
        /\ peer' = [peer EXCEPT !.toClient = SubSeq(@, n + 1, Len(@))]
  BY DEF redisBufferRead
<1>3. /\ ctl.at = "read" /\ ctl' = [ctl EXCEPT !.at = "process", !.cb = FN_NULL]
      /\ UNCHANGED <<issued, calls>>
  BY DEF redisBufferRead
<1> DEFINE a == ac.inbuf \o SubSeq(peer.toClient, 1, n)
           b == SubSeq(peer.toClient, n + 1, Len(peer.toClient))
<1>5. a \in Seq(Reply) /\ b \in Seq(Reply) /\ a \o b = ac.inbuf \o peer.toClient
  <2>1. Moves(a, b, ac.inbuf, peer.toClient, n, Reply)
    BY <1>1 DEF Moves
  <2> HIDE DEF a, b
  <2>2. Moved(a, b, ac.inbuf, peer.toClient, Reply)
    BY ONLY <2>1, MovesJoined
  <2> QED BY ONLY <2>2 DEF Moved
<1>6. ac' = [ac EXCEPT !.inbuf = a, !.reading = TRUE] /\ peer' = [peer EXCEPT !.toClient = b]
  BY <1>1, <1>2 DEF AddRead, ContextShape, Context
<1> HIDE DEF a, b
<1>7. /\ ContextShape' /\ ac'.flags = ac.flags /\ ac'.inbuf = a /\ ac'.obuf = ac.obuf
      /\ ac'.replies = ac.replies /\ ac'.invalid = ac.invalid /\ ac'.channels = ac.channels
      /\ ac'.reading = TRUE /\ ac'.writing = ac.writing
  BY <1>1, <1>5, <1>6 DEF ContextShape, Context
<1>8. /\ PeerShape' /\ peer'.toClient = b /\ peer'.toServer = peer.toServer
      /\ peer'.link = peer.link /\ peer'.subs = peer.subs
  BY <1>1, <1>5, <1>6 DEF PeerShape
<1>9. ctl'.at = "process" /\ ControlShape' /\ Alive /\ Alive'
  BY <1>1, <1>3 DEF ControlShape, Place, Alive, FN_NULL
<1>10. Shape' /\ Control'
  BY <1>1, <1>3, <1>7, <1>8, <1>9 DEF Good, Shape, Control
<1>11. FlowNow'
  <2>1. FlowNow
    BY <1>9, AliveFlow
  <2>2. /\ (ac.inbuf \o peer.toClient)' = ac.inbuf \o peer.toClient
        /\ (peer.toServer \o ac.obuf)' = peer.toServer \o ac.obuf
    BY <1>5, <1>7, <1>8, Zenon
  <2>3. /\ Up' = Up /\ ("subscribed" \in ac'.flags) = ("subscribed" \in ac.flags)
        /\ issued' = issued
    BY <1>3, <1>7, <1>8 DEF Up
  <2> QED BY <1>7, <1>8, <2>1, <2>2, <2>3, FlowKept
<1> QED BY <1>3, <1>7, <1>9, <1>10, <1>11, Kept

\* What is written moves from the buffer to the connection, or is lost.
LEMMA WriteStep ==
  ASSUME Good, redisBufferWrite
  PROVE  Good'
<1>1. /\ ContextShape /\ PeerShape /\ Control /\ ControlShape
      /\ ac.obuf \in Seq(Nat) /\ peer.toServer \in Seq(Nat)
  BY DEF Good, Shape, ContextShape, Context, PeerShape
<1>2. PICK n \in 0..Len(ac.obuf) :
        LET left == SubSeq(ac.obuf, n + 1, Len(ac.obuf))
            wrote == [ac EXCEPT !.obuf = left]
        IN  /\ ac' = AddRead(IF left = << >> THEN DelWrite(wrote) ELSE AddWrite(wrote))
            /\ peer' = IF peer.link = "up"
                       THEN [peer EXCEPT !.toServer = @ \o SubSeq(ac.obuf, 1, n)] ELSE peer
  BY DEF redisBufferWrite
<1>3. ctl.at = "write" /\ ctl' = InLoop /\ UNCHANGED <<issued, calls>>
  BY DEF redisBufferWrite
<1> DEFINE a == peer.toServer \o SubSeq(ac.obuf, 1, n)
           left == SubSeq(ac.obuf, n + 1, Len(ac.obuf))
           p == peer.toServer \o ac.obuf
<1>5. a \in Seq(Nat) /\ left \in Seq(Nat) /\ a \o left = p
  <2>1. Moves(a, left, peer.toServer, ac.obuf, n, Nat)
    BY <1>1 DEF Moves
  <2> HIDE DEF a, left
  <2>2. Moved(a, left, peer.toServer, ac.obuf, Nat)
    BY ONLY <2>1, MovesJoined
  <2> QED BY ONLY <2>2 DEF Moved, p
<1>6. /\ ac' = [ac EXCEPT !.obuf = left, !.reading = TRUE, !.writing = left # << >>]
      /\ peer' = IF peer.link = "up" THEN [peer EXCEPT !.toServer = a] ELSE peer
  <2>1. CASE left = << >>
    BY <1>1, <1>2, <2>1 DEF AddRead, DelWrite, ContextShape, Context
  <2>2. CASE left # << >>
    BY <1>1, <1>2, <2>2 DEF AddRead, AddWrite, ContextShape, Context
  <2> QED BY <2>1, <2>2
<1> HIDE DEF a, left
<1>7. /\ ContextShape' /\ ac'.flags = ac.flags /\ ac'.inbuf = ac.inbuf /\ ac'.obuf = left
      /\ ac'.replies = ac.replies /\ ac'.invalid = ac.invalid /\ ac'.channels = ac.channels
      /\ ac'.reading = TRUE /\ ac'.writing = (left # << >>)
  BY <1>1, <1>5, <1>6 DEF ContextShape, Context
<1>8. /\ PeerShape' /\ peer'.toClient = peer.toClient
      /\ peer'.toServer = IF peer.link = "up" THEN a ELSE peer.toServer
      /\ peer'.link = peer.link /\ peer'.subs = peer.subs
  BY <1>1, <1>5, <1>6 DEF PeerShape
<1>9. ctl'.at = "loop" /\ ControlShape' /\ Alive /\ Alive'
  BY <1>1, <1>3 DEF ControlShape, Place, Alive, FN_NULL, InLoop
<1>10. Shape' /\ Control'
  BY <1>1, <1>3, <1>7, <1>8, <1>9 DEF Good, Shape, Control
<1>11. FlowNow'
  <2>1. CASE peer.link = "up"
    <3>1. FlowNow
      BY <1>9, AliveFlow
    <3>2. /\ (ac.inbuf \o peer.toClient)' = ac.inbuf \o peer.toClient
          /\ (peer.toServer \o ac.obuf)' = peer.toServer \o ac.obuf
      BY <1>5, <1>7, <1>8, <2>1, Zenon DEF p
    <3>3. /\ Up' = Up /\ ("subscribed" \in ac'.flags) = ("subscribed" \in ac.flags)
          /\ issued' = issued
      BY <1>3, <1>7, <1>8 DEF Up
    <3> QED BY <1>7, <1>8, <3>1, <3>2, <3>3, FlowKept
  <2>2. CASE peer.link # "up"
    <3> DEFINE w == ac.inbuf \o peer.toClient
               q == p'
               R == In(ac.replies)
               V == In(ac.invalid)
               sub == "subscribed" \in ac.flags
               ch == ac.channels
    <3>1. PICK k \in 0..Len(issued), m \in 0..Len(issued) :
            Flow(k, m, w, p, R, V, ch, sub, Up, peer.subs, issued)
      BY <1>9, FlowIs
    <3>2. ~ Up /\ Up \in BOOLEAN /\ Up' = Up
      BY <1>1, <1>3, <1>8, <2>2 DEF Up, Control
    <3>3. /\ w' = w /\ sub' = sub /\ R' = R /\ V' = V /\ ch' = ch /\ peer'.subs = peer.subs
          /\ issued' = issued
      BY <1>3, <1>7, <1>8
    <3>4. Flow(k, m, w, q, R, V, ch, sub, Up, peer.subs, issued)
      <4> HIDE DEF w, p, q, R, V, sub, ch
      <4> QED BY ONLY <3>1, <3>2, DownFlows
    <3>5. Flows(w, q, R, V, ch, sub, Up, peer.subs, issued)
      <4> HIDE DEF w, p, q, R, V, sub, ch
      <4> QED BY <3>4, Zenon DEF Flows
    <3>6. Flows(w', p', R', V', ch', sub', Up', peer'.subs, issued')
      BY <3>2, <3>3, <3>5, Zenon
    <3> QED BY <3>6 DEF FlowNow
  <2> QED BY <2>1, <2>2
<1> QED BY <1>3, <1>7, <1>9, <1>10, <1>11, Kept

-----------------------------------------------------------------------------
(***************************************************************************)
(* What the server does                                                    *)
(***************************************************************************)
\* The queue q is p without its first, e, ...
Shortened(q, p, e, S) ==
    q \in Seq(S) /\ p \in Seq(S) /\ Dropped(q, p) /\ p[1] = e /\ e \in S
\* ... or p with e behind it.
Lengthened(q, p, e, S) == q \in Seq(S) /\ p \in Seq(S) /\ Grown(q, p, e)

\* The whole loses its first, ...
LEMMA ShortenedWhole ==
  ASSUME NEW S, NEW a, NEW b, a \in Seq(S), b \in Seq(S), a # << >>
  PROVE  Shortened(Tail(a) \o b, a \o b, Head(a), S)
BY JoinedDropped DEF Shortened

\* ... or gets one more.
LEMMA LengthenedWhole ==
  ASSUME NEW S, NEW a, NEW b, NEW e, a \in Seq(S), b \in Seq(S), e \in S
  PROVE  Lengthened(a \o Append(b, e), a \o b, e, S)
BY JoinedGrows DEF Lengthened

\* A step of the server makes another flow.
LEMMA PeerStep ==
  ASSUME Good, ctl.at = "loop", UNCHANGED <<ac, ctl, issued, calls>>, PeerShape', FlowNow'
  PROVE  Good'
<1>1. /\ ContextShape /\ Control /\ ControlShape /\ issued \in Seq(Command) /\ calls \in Seq(Call)
  BY DEF Good, Shape
<1>2. Shape'
  BY <1>1 DEF Shape, ContextShape, Context, ControlShape
<1>3. Alive /\ Alive' = Alive
  BY DEF Alive
<1>4. Control'
  BY <1>1, <1>3 DEF Control
<1> QED BY <1>2, <1>3, <1>4, Kept

\* The connection comes up, or not.
LEMMA ConnectsStep ==
  ASSUME Good, Connects
  PROVE  Good'
<1>1. PeerShape /\ Alive
  BY DEF Good, Shape, Connects, Alive
<1>2. PICK link \in {"up", "refused"} : peer' = [peer EXCEPT !.link = link]
  BY DEF Connects
<1>3. ctl.at = "loop" /\ UNCHANGED <<ac, ctl, issued, calls>> /\ peer.link = "connecting"
  BY DEF Connects
<1>4. /\ PeerShape' /\ peer'.link = link /\ peer'.subs = peer.subs
      /\ peer'.toServer = peer.toServer /\ peer'.toClient = peer.toClient
  BY <1>1, <1>2 DEF PeerShape
<1> DEFINE w == ac.inbuf \o peer.toClient
           p == peer.toServer \o ac.obuf
           R == In(ac.replies)
           V == In(ac.invalid)
           sub == "subscribed" \in ac.flags
           ch == ac.channels
<1>5. /\ w' = w /\ p' = p /\ sub' = sub /\ R' = R /\ V' = V /\ ch' = ch
      /\ peer'.subs = peer.subs /\ issued' = issued
  BY <1>3, <1>4
<1>6. FlowNow'
  <2>1. CASE link = "up"
    <3>1. FlowNow /\ Up' = Up
      BY <1>1, <1>3, <1>4, <2>1, AliveFlow DEF Up
    <3> QED BY <1>3, <1>5, <3>1, FlowKept
  <2>2. CASE link = "refused"
    <3>1. PICK k \in 0..Len(issued), m \in 0..Len(issued) :
            Flow(k, m, w, p, R, V, ch, sub, Up, peer.subs, issued)
      BY <1>1, FlowIs
    <3> DEFINE down == Up'
    <3>2. ~ down /\ Up \in BOOLEAN /\ down \in BOOLEAN
      BY <1>4, <2>2 DEF Up
    <3>3. Flow(k, m, w, p, R, V, ch, sub, down, peer.subs, issued)
      <4> HIDE DEF w, p, R, V, sub, ch, down
      <4> QED BY ONLY <3>1, <3>2, DownFlows
    <3>4. Flows(w, p, R, V, ch, sub, down, peer.subs, issued)
      <4> HIDE DEF w, p, R, V, sub, ch, down
      <4> QED BY <3>3, Zenon DEF Flows
    <3>5. Flows(w', p', R', V', ch', sub', down, peer'.subs, issued')
      BY <1>5, <3>4, Zenon
    <3> QED BY <3>5 DEF FlowNow
  <2> QED BY <2>1, <2>2
<1> QED BY <1>3, <1>4, <1>6, PeerStep

\* The server answers the command that is next.
LEMMA AnswersStep ==
  ASSUME Good, Answers
  PROVE  Good'
<1>1. /\ PeerShape /\ Alive /\ issued \in Seq(Command) /\ peer.toServer \in Seq(Nat)
      /\ ac.obuf \in Seq(Nat) /\ ac.inbuf \in Seq(Reply) /\ peer.toClient \in Seq(Reply)
      /\ peer.subs \subseteq Channel /\ peer.feeds = FALSE
  BY DEF Good, Shape, ContextShape, Context, PeerShape, Answers, Alive
<1>2. /\ ctl.at = "loop" /\ UNCHANGED <<ac, ctl, issued, calls>> /\ peer.link = "up"
      /\ peer.toServer # << >>
  BY DEF Answers
<1>3. /\ Shortened(Tail(peer.toServer) \o ac.obuf, peer.toServer \o ac.obuf,
                   Head(peer.toServer), Nat)
      /\ Tail(peer.toServer) \in Seq(Nat)
  <2>1. Tail(peer.toServer) \in Seq(Nat)
    BY <1>1, <1>2
  <2>2. peer.toServer \in Seq(Nat) /\ ac.obuf \in Seq(Nat)
    BY <1>1
  <2> QED BY ONLY <1>2, <2>1, <2>2, ShortenedWhole
<1> DEFINE w == ac.inbuf \o peer.toClient
           p == peer.toServer \o ac.obuf
           R == In(ac.replies)
           V == In(ac.invalid)
           sub == "subscribed" \in ac.flags
           ch == ac.channels
           i == Head(peer.toServer)
           command == issued[i]
           subs == CASE command.kind = "subscribe" -> peer.subs \cup {command.channel}
                     [] command.kind = "unsubscribe" -> peer.subs \ {command.channel}
                     [] OTHER -> peer.subs
           reply == IF command.kind \in {"subscribe", "unsubscribe"}
                    THEN [type |-> command.kind, channel |-> command.channel,
                          count |-> IF subs = {} THEN 0 ELSE 1, of |-> i]
                    ELSE [type |-> IF peer.subs = {} THEN "string" ELSE "error", of |-> i]
           q == Tail(peer.toServer) \o ac.obuf
<1>4. PICK k \in 0..Len(issued), m \in 0..Len(issued) :
        Flow(k, m, w, p, R, V, ch, sub, Up, peer.subs, issued)
  BY <1>1, FlowIs
<1>5. Typed(w, p, R, V, sub, Up, peer.subs, issued, k, m)
  BY <1>1, FlowIs
<1>6. Up
  BY <1>2 DEF Up
<1>7. i \in 1..Len(issued) /\ p[1] = i /\ i \in Nat /\ q \in Seq(Nat) /\ p \in Seq(Nat)
      /\ Dropped(q, p)
  <2>1. Waiting(m, p, issued, Up)
    BY <1>4 DEF Flow
  <2>2. /\ p[1] = i /\ i \in Nat /\ q \in Seq(Nat) /\ p \in Seq(Nat) /\ Dropped(q, p)
    BY <1>3, Zenon DEF Shortened
  <2> HIDE DEF p, q, i
  <2>3. Len(p) = Len(issued) - m /\ \A x \in 1..Len(p) : p[x] = m + x
    BY <1>6, <2>1 DEF Waiting
  <2>4. Len(p) >= 1 /\ Len(p) \in Nat
    BY <2>2 DEF Dropped
  <2>5. p[1] = m + 1 /\ m \in Nat /\ Len(issued) \in Nat
    BY <1>1, <2>3, <2>4
  <2>6. i \in 1..Len(issued)
    BY ONLY <2>2, <2>3, <2>4, <2>5
  <2> QED BY <2>2, <2>6
<1>8. /\ command.kind \in {"get", "subscribe", "unsubscribe"}
      /\ command.kind # "get" => command.channel \in Channel
  BY <1>1, <1>7, CommandFields
<1> HIDE DEF i
<1>9. reply \in Reply /\ subs \subseteq Channel /\ AnswerTo(i, command, reply, peer.subs, subs)
  BY <1>1, <1>7, <1>8 DEF Reply, ChannelReply, AnswerTo
<1>10. peer' = [peer EXCEPT !.toServer = Tail(@), !.toClient = Append(@, reply), !.subs = subs]
  <2>1. CASE command.kind = "get"
    BY <1>1, <2>1 DEF Answers, Sends, PeerShape, i
  <2>2. CASE command.kind # "get"
    BY <1>1, <1>8, <2>2 DEF Answers, Sends, PeerShape, i
  <2> QED BY <2>1, <2>2
<1> HIDE DEF command, subs, reply
<1>11. /\ PeerShape' /\ peer'.link = peer.link /\ peer'.subs = subs
       /\ peer'.toServer = Tail(peer.toServer) /\ peer'.toClient = Append(peer.toClient, reply)
  <2>1. Append(peer.toClient, reply) \in Seq(Reply)
    BY <1>1, <1>9
  <2> QED BY <1>1, <1>3, <1>9, <1>10, <2>1 DEF PeerShape
<1> DEFINE v == ac.inbuf \o Append(peer.toClient, reply)
<1>12. Lengthened(v, w, reply, Reply)
  <2>1. ac.inbuf \in Seq(Reply) /\ peer.toClient \in Seq(Reply)
    BY <1>1
  <2> QED BY ONLY <1>9, <2>1, LengthenedWhole
<1>13. Flow(k, m + 1, v, q, R, V, ch, sub, Up, subs, issued)
  <2>1. v \in Seq(Reply) /\ Grown(v, w, reply)
    BY <1>12 DEF Lengthened
  <2>2. AnswerTo(p[1], issued[p[1]], reply, peer.subs, subs)
    BY <1>7, <1>9, Zenon DEF command
  <2>3. Owed(R, V, issued)
    BY DEF Good, WorldNow, World, Dues
  <2> DEFINE su == peer.subs
             cs == issued
             up == Up
  <2>4. Flow(k, m, w, p, R, V, ch, sub, up, su, cs) /\ Typed(w, p, R, V, sub, up, su, cs, k, m)
        /\ AnswerTo(p[1], cs[p[1]], reply, su, subs) /\ up /\ Owed(R, V, cs)
    BY <1>4, <1>5, <1>6, <2>2, <2>3
  <2> HIDE DEF w, p, q, R, V, sub, ch, v, su, cs, up
  <2>5. Flow(k, m + 1, v, q, R, V, ch, sub, up, subs, cs)
    BY ONLY <1>7, <1>9, <2>1, <2>4, AnswerFlows
  <2> QED BY <2>5 DEF up, cs
<1>14. Flows(v, q, R, V, ch, sub, Up, subs, issued)
  <2> HIDE DEF w, p, q, R, V, sub, ch, v
  <2> QED BY <1>1, <1>13, FlowsFrom
<1>15. FlowNow'
  <2>1. /\ w' = v /\ p' = q /\ sub' = sub /\ R' = R /\ V' = V /\ ch' = ch
        /\ peer'.subs = subs /\ issued' = issued /\ Up' = Up
    BY <1>2, <1>11 DEF Up
  <2>2. Flows(w', p', R', V', ch', sub', Up', peer'.subs, issued')
    BY <1>14, <2>1, Zenon
  <2> QED BY <2>2 DEF FlowNow
<1> QED BY <1>2, <1>11, <1>15, PeerStep

\* The end of the connection cuts what arrives.
CutTo(v, w, S) == v \in Seq(S) /\ Begun(v, w)

\* The end of what arrives is lost.
LEMMA CutWhole ==
  ASSUME NEW S, NEW a, NEW b, NEW n, a \in Seq(S), b \in Seq(S), n \in 0..Len(b)
  PROVE  CutTo(a \o SubSeq(b, 1, n), a \o b, S) /\ SubSeq(b, 1, n) \in Seq(S)
BY JoinedCut DEF CutTo

\* The server publishes, or refuses the client.
LEMMA SpontaneousStep ==
  ASSUME Good, Spontaneous
  PROVE  Good'
<1>1. /\ PeerShape /\ Alive /\ issued \in Seq(Command) /\ peer.toServer \in Seq(Nat)
      /\ ac.obuf \in Seq(Nat) /\ ac.inbuf \in Seq(Reply) /\ peer.toClient \in Seq(Reply)
      /\ peer.subs \subseteq Channel /\ peer.feeds = FALSE
  BY DEF Good, Shape, ContextShape, Context, PeerShape, Spontaneous, Alive
<1>2. /\ ctl.at = "loop" /\ UNCHANGED <<ac, ctl, issued, calls>> /\ peer.link = "up"
  BY DEF Spontaneous
<1> DEFINE w == ac.inbuf \o peer.toClient
           p == peer.toServer \o ac.obuf
           R == In(ac.replies)
           V == In(ac.invalid)
           sub == "subscribed" \in ac.flags
           ch == ac.channels
           su == peer.subs
           cs == issued
           up == Up
<1>4. PICK k \in 0..Len(issued), m \in 0..Len(issued) :
        Flow(k, m, w, p, R, V, ch, sub, up, su, cs)
  BY <1>1, FlowIs
<1>5. Typed(w, p, R, V, sub, up, su, cs, k, m)
  BY <1>1, FlowIs
<1>6. up
  BY <1>2 DEF Up
<1>7. \/ \E c \in peer.subs :
            peer' = [peer EXCEPT !.spontaneous = @ + 1,
                        !.toClient = Append(@, [type |-> "message", channel |-> c, of |-> 0])]
      \/ peer' = [peer EXCEPT !.spontaneous = @ + 1, !.link = "closed", !.toServer = << >>,
                        !.toClient = Append(@, [type |-> "error", of |-> 0])]
  BY <1>1 DEF Spontaneous, Sends, PeerShape
<1>8. CASE \E c \in peer.subs :
            peer' = [peer EXCEPT !.spontaneous = @ + 1,
                        !.toClient = Append(@, [type |-> "message", channel |-> c, of |-> 0])]
  <2> PICK c \in peer.subs :
            peer' = [peer EXCEPT !.spontaneous = @ + 1,
                        !.toClient = Append(@, [type |-> "message", channel |-> c, of |-> 0])]
    BY <1>8
  <2> DEFINE reply == [type |-> "message", channel |-> c, of |-> 0]
             v == ac.inbuf \o Append(peer.toClient, reply)
  <2>1. reply \in Reply /\ reply.type = "message" /\ reply.channel \in su
    BY <1>1 DEF Reply
  <2>2. peer' = [peer EXCEPT !.spontaneous = @ + 1, !.toClient = Append(@, reply)]
    OBVIOUS
  <2> HIDE DEF reply
  <2>3. /\ PeerShape' /\ peer'.link = peer.link /\ peer'.subs = peer.subs
        /\ peer'.toServer = peer.toServer /\ peer'.toClient = Append(peer.toClient, reply)
    <3> DEFINE grown == Append(peer.toClient, reply)
               count == peer.spontaneous + 1
    <3>1. grown \in Seq(Reply)
      BY <1>1, <2>1
    <3>2. count \in Nat /\ << >> \in Seq(Nat)
      BY <1>1 DEF PeerShape
    <3>3. peer' = [peer EXCEPT !.spontaneous = count, !.toClient = grown]
      BY <2>2
    <3> HIDE DEF grown, count
    <3>4. /\ PeerShape' /\ peer'.link = peer.link /\ peer'.subs = peer.subs
          /\ peer'.toServer = peer.toServer /\ peer'.toClient = grown
      BY ONLY <1>1, <3>1, <3>2, <3>3 DEF PeerShape
    <3> QED BY <3>4 DEF grown
  <2>4. Lengthened(v, w, reply, Reply)
    <3>1. ac.inbuf \in Seq(Reply) /\ peer.toClient \in Seq(Reply)
      BY <1>1
    <3> QED BY ONLY <2>1, <3>1, LengthenedWhole
  <2>5. v \in Seq(Reply) /\ Grown(v, w, reply)
    BY <2>4 DEF Lengthened
  <2>6. Flow(k, m, v, p, R, V, ch, sub, up, su, cs)
    <3> HIDE DEF w, p, R, V, sub, ch, v, su, cs, up
    <3> QED BY ONLY <1>4, <1>5, <1>6, <2>1, <2>5, MessageFlows
  <2>7. Flows(v, p, R, V, ch, sub, up, su, cs)
    <3>1. cs \in Seq(Command)
      BY <1>1
    <3> HIDE DEF w, p, R, V, sub, ch, v, su, cs, up
    <3> QED BY <3>1, <2>6, FlowsFrom
  <2>8. FlowNow'
    <3>1. /\ w' = v /\ p' = p /\ sub' = sub /\ R' = R /\ V' = V /\ ch' = ch
          /\ peer'.subs = su /\ issued' = cs /\ Up' = up
      BY <1>2, <2>3 DEF Up
    <3>2. Flows(w', p', R', V', ch', sub', Up', peer'.subs, issued')
      BY <2>7, <3>1, Zenon
    <3> QED BY <3>2 DEF FlowNow
  <2> QED BY <1>2, <2>3, <2>8, PeerStep
<1>9. CASE peer' = [peer EXCEPT !.spontaneous = @ + 1, !.link = "closed", !.toServer = << >>,
                        !.toClient = Append(@, [type |-> "error", of |-> 0])]
  <2> DEFINE reply == [type |-> "error", of |-> 0]
             v == ac.inbuf \o Append(peer.toClient, reply)
             q == p'
             down == Up'
  <2>1. reply \in Reply /\ reply.type = "error" /\ reply.of = 0
    BY <1>1 DEF Reply
  <2>2. peer' = [peer EXCEPT !.spontaneous = @ + 1, !.link = "closed", !.toServer = << >>,
                    !.toClient = Append(@, reply)]
    BY <1>9
  <2> HIDE DEF reply
  <2>3. /\ PeerShape' /\ peer'.link = "closed" /\ peer'.subs = peer.subs
        /\ peer'.toClient = Append(peer.toClient, reply)
    <3> DEFINE grown == Append(peer.toClient, reply)
               count == peer.spontaneous + 1
    <3>1. grown \in Seq(Reply)
      BY <1>1, <2>1
    <3>2. count \in Nat /\ << >> \in Seq(Nat)
      BY <1>1 DEF PeerShape
    <3>3. peer' = [peer EXCEPT !.spontaneous = count, !.link = "closed", !.toServer = << >>,
                               !.toClient = grown]
      BY <2>2
    <3> HIDE DEF grown, count
    <3>4. /\ PeerShape' /\ peer'.link = "closed" /\ peer'.subs = peer.subs
          /\ peer'.toClient = grown
      BY ONLY <1>1, <3>1, <3>2, <3>3 DEF PeerShape
    <3> QED BY <3>4 DEF grown
  <2>4. Lengthened(v, w, reply, Reply)
    <3>1. ac.inbuf \in Seq(Reply) /\ peer.toClient \in Seq(Reply)
      BY <1>1
    <3> QED BY ONLY <2>1, <3>1, LengthenedWhole
  <2>5. v \in Seq(Reply) /\ Grown(v, w, reply) /\ down \in BOOLEAN /\ ~ down
    BY <2>3, <2>4 DEF Lengthened, Up
  <2>6. Flow(k, m, v, q, R, V, ch, sub, down, su, cs)
    <3> HIDE DEF w, p, q, R, V, sub, ch, v, su, cs, up, down
    <3> QED BY ONLY <1>4, <1>5, <1>6, <2>1, <2>5, RefusalFlows
  <2>7. Flows(v, q, R, V, ch, sub, down, su, cs)
    <3>1. cs \in Seq(Command)
      BY <1>1
    <3> HIDE DEF w, p, q, R, V, sub, ch, v, su, cs, up, down
    <3> QED BY <3>1, <2>6, FlowsFrom
  <2>8. FlowNow'
    <3>1. /\ w' = v /\ sub' = sub /\ R' = R /\ V' = V /\ ch' = ch
          /\ peer'.subs = su /\ issued' = cs
      BY <1>2, <2>3
    <3>2. Flows(w', p', R', V', ch', sub', Up', peer'.subs, issued')
      BY <2>7, <3>1, Zenon
    <3> QED BY <3>2 DEF FlowNow
  <2> QED BY <1>2, <2>3, <2>8, PeerStep
<1> QED BY <1>7, <1>8, <1>9

\* The connection closes, and the end of what arrives is lost.
LEMMA ClosesStep ==
  ASSUME Good, Closes_
  PROVE  Good'
<1> DEFINE w == ac.inbuf \o peer.toClient
           p == peer.toServer \o ac.obuf
           R == In(ac.replies)
           V == In(ac.invalid)
           sub == "subscribed" \in ac.flags
           ch == ac.channels
           su == peer.subs
           cs == issued
           up == Up
           down == Up'
           q == p'
<1>1. /\ PeerShape /\ Alive /\ issued \in Seq(Command) /\ ac.inbuf \in Seq(Reply)
      /\ peer.toClient \in Seq(Reply)
  BY DEF Good, Shape, ContextShape, Context, PeerShape, Closes_, Alive
<1>2. /\ ctl.at = "loop" /\ UNCHANGED <<ac, ctl, issued, calls>> /\ peer.link = "up"
  BY DEF Closes_
<1>3. PICK n \in 0..Len(peer.toClient) :
        peer' = [peer EXCEPT !.link = "closed", !.toServer = << >>, !.toClient = SubSeq(@, 1, n)]
  BY DEF Closes_
<1> DEFINE v == ac.inbuf \o SubSeq(peer.toClient, 1, n)
<1>4. CutTo(v, w, Reply) /\ SubSeq(peer.toClient, 1, n) \in Seq(Reply)
  <2>1. ac.inbuf \in Seq(Reply) /\ peer.toClient \in Seq(Reply) /\ n \in 0..Len(peer.toClient)
    BY <1>1
  <2> QED BY ONLY <2>1, CutWhole
<1>5. /\ PeerShape' /\ peer'.link = "closed" /\ peer'.subs = peer.subs
      /\ peer'.toClient = SubSeq(peer.toClient, 1, n)
  <2> DEFINE cut == SubSeq(peer.toClient, 1, n)
  <2>1. cut \in Seq(Reply) /\ << >> \in Seq(Nat)
    BY <1>4
  <2>2. peer' = [peer EXCEPT !.link = "closed", !.toServer = << >>, !.toClient = cut]
    BY <1>3
  <2> HIDE DEF cut
  <2>3. /\ PeerShape' /\ peer'.link = "closed" /\ peer'.subs = peer.subs /\ peer'.toClient = cut
    BY ONLY <1>1, <2>1, <2>2 DEF PeerShape
  <2> QED BY <2>3 DEF cut
<1>6. PICK k \in 0..Len(issued), m \in 0..Len(issued) :
        Flow(k, m, w, p, R, V, ch, sub, up, su, cs)
  BY <1>1, FlowIs
<1>7. Typed(w, p, R, V, sub, up, su, cs, k, m)
  BY <1>1, FlowIs
<1>8. up \in BOOLEAN /\ down \in BOOLEAN /\ ~ down /\ v \in Seq(Reply) /\ Begun(v, w)
  BY <1>4, <1>5 DEF Up, CutTo
<1>9. p \in Seq(Nat) /\ ac.obuf \in Seq(Nat) /\ q \in Seq(Nat)
  <2>1. ac'.obuf \in Seq(Nat) /\ peer'.toServer = << >>
    BY <1>1, <1>2, <1>3 DEF Good, Shape, ContextShape, Context, PeerShape
  <2> QED BY <1>2, <1>7, <2>1 DEF Typed
<1>10. Flow(k, m, w, q, R, V, ch, sub, down, su, cs) /\ Typed(w, q, R, V, sub, down, su, cs, k, m)
  <2> HIDE DEF w, p, q, R, V, sub, ch, v, su, cs, up, down
  <2>1. Flow(k, m, w, q, R, V, ch, sub, down, su, cs)
    BY ONLY <1>6, <1>8, DownFlows
  <2>2. Typed(w, q, R, V, sub, down, su, cs, k, m)
    BY ONLY <1>7, <1>8, <1>9 DEF Typed
  <2> QED BY <2>1, <2>2
<1>11. Flows(v, q, R, V, ch, sub, down, su, cs)
  <2> HIDE DEF w, p, q, R, V, sub, ch, v, su, cs, up, down
  <2>1. PICK l \in 0..Len(cs) : Flow(k, l, v, q, R, V, ch, sub, down, su, cs)
    BY ONLY <1>8, <1>10, CutFlows
  <2>2. cs \in Seq(Command)
    BY <1>7 DEF Typed
  <2> QED BY <2>1, <2>2, FlowsFrom
<1>12. FlowNow'
  <2>1. /\ w' = v /\ sub' = sub /\ R' = R /\ V' = V /\ ch' = ch
        /\ peer'.subs = su /\ issued' = cs
    BY <1>2, <1>5
  <2>2. Flows(w', p', R', V', ch', sub', Up', peer'.subs, issued')
    BY <1>11, <2>1, Zenon
  <2> QED BY <2>2 DEF FlowNow
<1> QED BY <1>2, <1>5, <1>12, PeerStep

-----------------------------------------------------------------------------
(***************************************************************************)
(* Callbacks                                                               *)
(***************************************************************************)
\* What the context may become before a callback is called: reply by reply, ...
Goes_on(context, back) ==
    /\ context \in Context /\ back \in {"process", "free"} /\ ctl.at = back
    /\ context.obuf = ac.obuf /\ context.reading = ac.reading /\ context.writing = ac.writing
    /\ context.replies # << >> => ac.replies # << >>
    /\ ac.flags \ {"subscribed"} \subseteq context.flags
\* ... and after.
Gone_on(context) ==
    /\ ac'.replies = context.replies /\ ac'.invalid = context.invalid
    /\ ac'.channels = context.channels /\ ac'.inbuf = context.inbuf /\ ac'.obuf = context.obuf
    /\ "subscribed" \in ac'.flags <=> "subscribed" \in context.flags

\* The callback of a command is called, if it has one, and the library goes on.
LEMMA Runs ==
  ASSUME Shape, Control, NEW i, i \in 1..Len(issued), NEW reply, reply \in Reply \cup {NIL},
         NEW context, NEW back, Goes_on(context, back), RunCallback(FnOf(i), reply, context, back),
         UNCHANGED <<peer, issued>>
  PROVE  /\ Tells(calls', calls, issued, i, reply) /\ Shape' /\ Control'
         /\ Alive' = Alive /\ Alive = (back = "process") /\ Gone_on(context)
<1>1. /\ ContextShape /\ PeerShape /\ ControlShape /\ issued \in Seq(Command)
      /\ calls \in Seq(Call) /\ ctl.at \in {"process", "free"} /\ ctl.at = back
      /\ context \in Context /\ i \in Nat /\ i # 0
  BY DEF Shape, Goes_on
<1>2. issued[i].kind = "get" => issued[i].hasFn \in BOOLEAN
  BY <1>1, CommandFields
<1> DEFINE call == [fn |-> i, reply |-> reply]
           silent == issued[i].kind = "get" /\ ~ issued[i].hasFn
           calling == [context EXCEPT !.flags = @ \cup {"in callback"}]
<1>3. FnOf(i) = (IF silent THEN FN_NULL ELSE i)
  BY <1>1 DEF FnOf, FN_NULL
<1>4. CASE silent
  <2>1. ac' = context /\ ctl' = [ctl EXCEPT !.at = back, !.cb = FN_NULL] /\ calls' = calls
    BY <1>3, <1>4 DEF RunCallback
  <2>2. Tells(calls', calls, issued, i, reply)
    BY <1>4, <2>1 DEF Tells
  <2>3. ctl'.at = back /\ ControlShape'
    BY <1>1, <2>1 DEF ControlShape, Place, FN_NULL
  <2>4. Shape'
    BY <1>1, <2>1, <2>3 DEF Shape, ContextShape, PeerShape
  <2>5. Alive' = Alive /\ Alive = (back = "process")
    BY <1>1, <2>3 DEF Alive
  <2>6. Control'
    BY <1>1, <2>1, <2>3, <2>5 DEF Control, Goes_on
  <2>7. Gone_on(context)
    BY <2>1 DEF Gone_on
  <2> QED BY <2>2, <2>4, <2>5, <2>6, <2>7
<1>5. CASE ~ silent
  <2>1. /\ ac' = calling /\ calls' = Append(calls, call)
        /\ ctl' = [ctl EXCEPT !.at = "callback", !.cb = i, !.back = back]
    BY <1>1, <1>3, <1>5 DEF RunCallback, FN_NULL
  <2>2. /\ calling \in Context /\ calling.flags = context.flags \cup {"in callback"}
        /\ calling.replies = context.replies /\ calling.invalid = context.invalid
        /\ calling.channels = context.channels /\ calling.inbuf = context.inbuf
        /\ calling.obuf = context.obuf /\ calling.reading = context.reading
        /\ calling.writing = context.writing
    BY <1>1 DEF Context, Flag
  <2> HIDE DEF calling
  <2>3. call \in Call
    BY <1>1 DEF Call
  <2> HIDE DEF call
  <2>4. calls' \in Seq(Call) /\ Grown(calls', calls, call)
    <3>1. Append(calls, call) \in Seq(Call) /\ Grown(Append(calls, call), calls, call)
      BY <1>1, <2>3, Appended DEF Grown
    <3> QED BY <2>1, <3>1, Zenon
  <2>5. Tells(calls', calls, issued, i, reply)
    BY <1>5, <2>4 DEF Tells, call
  <2>6. ctl'.at = "callback" /\ ctl'.back = back /\ ControlShape'
    BY <1>1, <2>1 DEF ControlShape, Place
  <2>7. Shape'
    BY <1>1, <2>1, <2>2, <2>4, <2>6 DEF Shape, ContextShape, PeerShape
  <2>8. Alive' = Alive /\ Alive = (back = "process")
    BY <1>1, <2>6 DEF Alive
  <2>9. Control'
    BY <1>1, <2>1, <2>2, <2>6, <2>8 DEF Control, Goes_on
  <2>10. Gone_on(context)
    BY <2>1, <2>2 DEF Gone_on
  <2> QED BY <2>5, <2>7, <2>8, <2>9, <2>10
<1> QED BY <1>4, <1>5

\* What is due is a command that was issued.
LEMMA FirstIssued ==
  ASSUME NEW rs, NEW vs, NEW ch, NEW cs, NEW cl, NEW alive, rs \in Seq(Nat), rs # << >>,
         Dues(rs, vs, ch, cs, cl, alive) \/ Dues(vs, rs, ch, cs, cl, alive)
  PROVE  Head(rs) \in 1..Len(cs)
<1>1. Head(rs) \in In(rs)
  BY DEF In
<1>2. Owed(In(rs), In(vs), cs) \/ Owed(In(vs), In(rs), cs)
  BY DEF Dues
<1> QED BY <1>1, <1>2 DEF Owed

\* The callbacks of a context that is gone hear NULL.
LEMMA FreeNextStep ==
  ASSUME Good, FreeNext
  PROVE  Good'
<1>1. /\ Shape /\ Control /\ ContextShape /\ issued \in Seq(Command) /\ calls \in Seq(Call)
      /\ ac.replies \in Seq(Nat) /\ ac.invalid \in Seq(Nat) /\ ac.channels \in [Channel -> Nat]
  BY DEF Good, Shape, ContextShape, Context
<1>2. ctl.at = "free" /\ UNCHANGED <<peer, issued>>
  BY DEF FreeNext
<1>3. ~ Alive /\ Alive \in BOOLEAN
  BY <1>2 DEF Alive
<1>4. Dues(ac.replies, ac.invalid, ac.channels, issued, calls, Alive)
  BY DEF Good, WorldNow, World
<1>5. \A i : Fits(NIL, i)
  BY DEF Fits, NIL
<1>6. ASSUME Shape', Control', Alive' = Alive,
             Dues(ac'.replies, ac'.invalid, ac'.channels, issued', calls', Alive')
      PROVE  Good'
  <2>1. ~ Alive'
    BY <1>3, <1>6
  <2> QED BY <1>6, <2>1 DEF Good, WorldNow, World
<1>7. CASE /\ ac.replies # << >>
           /\ RunCallback(FnOf(Head(ac.replies)), NIL, [ac EXCEPT !.replies = Shifted(@)], "free")
  <2> DEFINE context == [ac EXCEPT !.replies = Shifted(@)]
             i == Head(ac.replies)
             ts == Tail(ac.replies)
  <2>1. i \in 1..Len(issued)
    BY <1>1, <1>4, <1>7, FirstIssued
  <2>2. /\ context.replies = ts /\ context.invalid = ac.invalid /\ context.channels = ac.channels
        /\ Goes_on(context, "free")
    <3>1. ts \in Seq(Nat)
      BY <1>1, <1>7
    <3> HIDE DEF ts
    <3>2. context = [ac EXCEPT !.replies = ts]
      BY DEF Shifted, ts
    <3>3. /\ context \in Context /\ context.replies = ts /\ context.invalid = ac.invalid
          /\ context.channels = ac.channels /\ context.flags = ac.flags
          /\ context.obuf = ac.obuf /\ context.reading = ac.reading /\ context.writing = ac.writing
      BY <1>1, <3>1, <3>2 DEF ContextShape, Context
    <3> QED BY <1>2, <1>7, <3>3 DEF Goes_on
  <2>3. RunCallback(FnOf(i), NIL, context, "free")
    BY <1>7
  <2> HIDE DEF context, i, ts
  <2>4. /\ Tells(calls', calls, issued, i, NIL) /\ Shape' /\ Control' /\ Alive' = Alive
        /\ Gone_on(context)
    BY <1>1, <1>2, <2>1, <2>2, <2>3, Runs
  <2>5. Dues(ts, ac.invalid, ac.channels, issued, calls', Alive)
    <3>1. Tells(calls', calls, issued, Head(ac.replies), NIL) /\ Fits(NIL, Head(ac.replies))
      BY <1>5, <2>4 DEF i
    <3>2. Dues(Tail(ac.replies), ac.invalid, ac.channels, issued, calls', Alive)
      BY <1>1, <1>3, <1>4, <1>7, <3>1, DuesTold
    <3> QED BY <3>2 DEF ts
  <2>6. Dues(ac'.replies, ac'.invalid, ac'.channels, issued', calls', Alive')
    BY <1>2, <2>2, <2>4, <2>5, Zenon DEF Gone_on
  <2> QED BY <1>6, <2>4, <2>6
<1>8. CASE /\ ac.replies = << >> /\ ac.invalid # << >>
           /\ RunCallback(FnOf(Head(ac.invalid)), NIL, [ac EXCEPT !.invalid = Shifted(@)], "free")
  <2> DEFINE context == [ac EXCEPT !.invalid = Shifted(@)]
             i == Head(ac.invalid)
             ts == Tail(ac.invalid)
  <2>1. i \in 1..Len(issued)
    BY <1>1, <1>4, <1>8, FirstIssued
  <2>2. /\ context.replies = << >> /\ context.invalid = ts /\ context.channels = ac.channels
        /\ Goes_on(context, "free")
    <3>1. ts \in Seq(Nat)
      BY <1>1, <1>8
    <3> HIDE DEF ts
    <3>2. context = [ac EXCEPT !.invalid = ts]
      BY DEF Shifted, ts
    <3>3. /\ context \in Context /\ context.replies = ac.replies /\ context.invalid = ts
          /\ context.channels = ac.channels /\ context.flags = ac.flags
          /\ context.obuf = ac.obuf /\ context.reading = ac.reading /\ context.writing = ac.writing
      BY <1>1, <3>1, <3>2 DEF ContextShape, Context
    <3> QED BY <1>2, <1>8, <3>3 DEF Goes_on
  <2>3. RunCallback(FnOf(i), NIL, context, "free")
    BY <1>8
  <2> HIDE DEF context, i, ts
  <2>4. /\ Tells(calls', calls, issued, i, NIL) /\ Shape' /\ Control' /\ Alive' = Alive
        /\ Gone_on(context)
    BY <1>1, <1>2, <2>1, <2>2, <2>3, Runs
  <2>5. Dues(<< >>, ts, ac.channels, issued, calls', Alive)
    <3>1. Tells(calls', calls, issued, Head(ac.invalid), NIL) /\ Fits(NIL, Head(ac.invalid))
      BY <1>5, <2>4 DEF i
    <3>2. Dues(ac.invalid, << >>, ac.channels, issued, calls, Alive) /\ << >> \in Seq(Nat)
      BY <1>4, <1>8, DuesSwap
    <3>3. Dues(Tail(ac.invalid), << >>, ac.channels, issued, calls', Alive)
      BY <1>1, <1>3, <1>8, <3>1, <3>2, DuesTold
    <3> QED BY <3>3, DuesSwap DEF ts
  <2>6. Dues(ac'.replies, ac'.invalid, ac'.channels, issued', calls', Alive')
    BY <1>2, <2>2, <2>4, <2>5, Zenon DEF Gone_on
  <2> QED BY <1>6, <2>4, <2>6
<1>9. ASSUME NEW c \in Channel, ac.channels[c] # FN_NULL,
             RunCallback(ac.channels[c], NIL, [ac EXCEPT !.channels[c] = FN_NULL], "free")
      PROVE  Good'
  <2> DEFINE dh == [ac.channels EXCEPT ![c] = FN_NULL]
             context == [ac EXCEPT !.channels = dh]
             i == ac.channels[c]
  <2>1. i \in 1..Len(issued) /\ FnOf(i) = i
    <3>1. Told(ac.channels, issued, Alive, calls)
      BY <1>4 DEF Dues
    <3>2. i \in 1..Len(issued) /\ issued[i].kind = "subscribe"
      BY <1>9, <3>1 DEF Told
    <3> QED BY <3>2 DEF FnOf
  <2>2. dh \in [Channel -> Nat] /\ Forgot(ac.channels, dh, c)
    BY <1>1 DEF Forgot, FN_NULL
  <2>3. /\ context.replies = ac.replies /\ context.invalid = ac.invalid /\ context.channels = dh
        /\ Goes_on(context, "free")
    <3> HIDE DEF dh
    <3>3. /\ context \in Context /\ context.replies = ac.replies /\ context.invalid = ac.invalid
          /\ context.channels = dh /\ context.flags = ac.flags
          /\ context.obuf = ac.obuf /\ context.reading = ac.reading /\ context.writing = ac.writing
      BY <1>1, <2>2 DEF ContextShape, Context
    <3> HIDE DEF context
    <3> QED BY <1>2, <3>3 DEF Goes_on
  <2>4. RunCallback(FnOf(i), NIL, context, "free")
    <3>1. context = [ac EXCEPT !.channels[c] = FN_NULL]
      BY <1>1 DEF ContextShape, Context
    <3> QED BY <1>9, <2>1, <3>1, Zenon
  <2> HIDE DEF context, i, dh
  <2>5. /\ Tells(calls', calls, issued, i, NIL) /\ Shape' /\ Control' /\ Alive' = Alive
        /\ Gone_on(context)
    BY <1>1, <1>2, <2>1, <2>3, <2>4, Runs
  <2>6. Dues(ac.replies, ac.invalid, dh, issued, calls', Alive)
    <3>1. Tells(calls', calls, issued, ac.channels[c], NIL)
      BY <2>5 DEF i
    <3> QED BY <1>1, <1>3, <1>4, <1>9, <2>2, <3>1, DuesNil
  <2>7. Dues(ac'.replies, ac'.invalid, ac'.channels, issued', calls', Alive')
    BY <1>2, <2>3, <2>5, <2>6, Zenon DEF Gone_on
  <2> QED BY <1>6, <2>5, <2>7
<1> QED BY <1>7, <1>8, <1>9 DEF FreeNext


-----------------------------------------------------------------------------
(***************************************************************************)
(* Replies                                                                 *)
(***************************************************************************)
\* The world that the library goes on with is the one now.
LEMMA Processed ==
  ASSUME Good, Shape', Control', Alive' = Alive, UNCHANGED <<peer, issued>>, NEW context,
         Gone_on(context), context.obuf = ac.obuf,
         World(context.inbuf \o peer.toClient, peer.toServer \o ac.obuf, context.replies,
               context.invalid, context.channels, "subscribed" \in context.flags, Up, peer.subs,
               issued, calls', Alive)
  PROVE  Good'
<1>1. /\ ac'.replies = context.replies /\ ac'.invalid = context.invalid
      /\ ac'.channels = context.channels /\ ac'.inbuf = context.inbuf /\ ac'.obuf = ac.obuf
      /\ ("subscribed" \in ac'.flags) = ("subscribed" \in context.flags)
      /\ peer' = peer /\ issued' = issued /\ Up' = Up
  BY DEF Gone_on, Up
<1>2. WorldNow'
  BY <1>1, Zenon DEF WorldNow
<1> QED BY <1>2 DEF Good

\* What the first reply leaves.
LEMMA FirstTaken ==
  ASSUME Good, ctl.at = "process", ac.inbuf # << >>
  PROVE  /\ ContextShape /\ Alive /\ Head(ac.inbuf) \in Reply /\ Tail(ac.inbuf) \in Seq(Reply)
         /\ Tail(ac.inbuf) \o peer.toClient \in Seq(Reply)
         /\ Dropped(Tail(ac.inbuf) \o peer.toClient, ac.inbuf \o peer.toClient)
         /\ (ac.inbuf \o peer.toClient)[1] = Head(ac.inbuf)
         /\ Len(ac.inbuf \o peer.toClient) >= 1
<1>1. ContextShape /\ ac.inbuf \in Seq(Reply) /\ peer.toClient \in Seq(Reply)
  BY DEF Good, Shape, ContextShape, Context, PeerShape
<1>2. Shortened(Tail(ac.inbuf) \o peer.toClient, ac.inbuf \o peer.toClient, Head(ac.inbuf), Reply)
  BY <1>1, ShortenedWhole
<1>3. Tail(ac.inbuf) \in Seq(Reply) /\ Alive
  BY <1>1 DEF Alive
<1> QED BY <1>1, <1>2, <1>3 DEF Shortened, Dropped

\* A reply to a command that is due.
LEMMA AnsweredStep ==
  ASSUME Good, ctl.at = "process", ac.inbuf # << >>, ac.replies # << >>,
         RunCallback(FnOf(Head(ac.replies)), Head(ac.inbuf),
                     [[ac EXCEPT !.inbuf = Tail(@)] EXCEPT !.replies = Shifted(@)], "process"),
         UNCHANGED <<peer, issued>>
  PROVE  Good'
<1> DEFINE context == [[ac EXCEPT !.inbuf = Tail(@)] EXCEPT !.replies = Shifted(@)]
           i == Head(ac.replies)
           ts == Tail(ac.replies)
           rest == Tail(ac.inbuf)
           reply == Head(ac.inbuf)
           w == ac.inbuf \o peer.toClient
           v == rest \o peer.toClient
           p == peer.toServer \o ac.obuf
           sub == "subscribed" \in ac.flags
<1>1. /\ ContextShape /\ Alive /\ reply \in Reply /\ rest \in Seq(Reply)
      /\ v \in Seq(Reply) /\ Dropped(v, w) /\ w[1] = reply
  BY FirstTaken
<1>2. Shape /\ Control /\ ac.replies \in Seq(Nat) /\ ts \in Seq(Nat)
  BY DEF Good, Shape, ContextShape, Context
<1>3. /\ WorldTyped(w, p, ac.replies, ac.invalid, sub, Up, peer.subs, issued, calls, Alive)
      /\ World(w, p, ac.replies, ac.invalid, ac.channels, sub, Up, peer.subs, issued, calls, Alive)
  BY TypedNow DEF WorldNow
<1>4. RunCallback(FnOf(i), reply, context, "process")
  OBVIOUS
<1> HIDE DEF rest, ts, reply
<1>5. /\ context \in Context /\ context.replies = ts /\ context.invalid = ac.invalid
      /\ context.channels = ac.channels /\ context.flags = ac.flags /\ context.inbuf = rest
      /\ context.obuf = ac.obuf /\ context.reading = ac.reading /\ context.writing = ac.writing
  <2>1. context = [ac EXCEPT !.inbuf = rest, !.replies = ts]
    BY <1>1 DEF Shifted, ts, rest, ContextShape, Context
  <2> QED BY <1>1, <1>2, <2>1 DEF ContextShape, Context
<1> HIDE DEF context, w, v, p, sub, i
<1>6. Goes_on(context, "process")
  BY <1>5 DEF Goes_on
<1>7. i \in 1..Len(issued)
  <2>1. Dues(ac.replies, ac.invalid, ac.channels, issued, calls, Alive)
    BY <1>3 DEF World
  <2> QED BY <1>2, <2>1, FirstIssued DEF i
<1>8. /\ Tells(calls', calls, issued, i, reply) /\ Shape' /\ Control' /\ Alive' = Alive
      /\ Gone_on(context)
  BY <1>1, <1>2, <1>4, <1>6, <1>7, Runs
<1>9. World(v, p, ts, ac.invalid, ac.channels, sub, Up, peer.subs, issued, calls', Alive)
  <2>1. Tells(calls', calls, issued, Head(ac.replies), w[1]) /\ ac.replies # << >>
    BY <1>1, <1>8 DEF i
  <2>2. World(v, p, Tail(ac.replies), ac.invalid, ac.channels, sub, Up, peer.subs, issued,
              calls', Alive)
    BY ONLY <1>1, <1>3, <2>1, AnsweredWorld
  <2> QED BY <2>2 DEF ts
<1>10. World(context.inbuf \o peer.toClient, peer.toServer \o ac.obuf, context.replies,
             context.invalid, context.channels, "subscribed" \in context.flags, Up, peer.subs,
             issued, calls', Alive)
  BY <1>5, <1>9, Zenon DEF v, p, sub
<1> QED BY <1>5, <1>8, <1>10, Processed


\* An error when no command is due ends the context.
LEMMA RefusedStep ==
  ASSUME Good, ctl.at = "process", ac.inbuf # << >>,
         EndContext([[ac EXCEPT !.inbuf = Tail(@)] EXCEPT !.err = TRUE]),
         UNCHANGED <<peer, issued, calls>>
  PROVE  Good'
<1> DEFINE rest == Tail(ac.inbuf)
           failed == [[ac EXCEPT !.inbuf = Tail(@)] EXCEPT !.err = TRUE]
           context == [failed EXCEPT !.flags = @ \cup {"disconnecting"}]
           marked == ac.flags \cup {"disconnecting"}
<1>1. ContextShape /\ rest \in Seq(Reply) /\ marked \in SUBSET Flag
  <2>1. ContextShape /\ rest \in Seq(Reply)
    BY FirstTaken
  <2> QED BY <2>1 DEF ContextShape, Context, Flag
<1>2. failed.err
  BY <1>1 DEF ContextShape, Context
<1>3. StartFree(context)
  <2>1. EndContext(failed)
    OBVIOUS
  <2> HIDE DEF failed
  <2> QED BY <1>2, <2>1 DEF EndContext
<1>4. context = [ac EXCEPT !.inbuf = rest, !.err = TRUE, !.flags = marked]
  BY <1>1 DEF ContextShape, Context
<1> HIDE DEF context, rest
<1>5. /\ ac' = context
      /\ ctl' = [ctl EXCEPT !.at = "free", !.nested = @ \/ ctl.at \in Outside]
  BY <1>3 DEF StartFree, Outside
<1>6. "disconnecting" \in marked
  OBVIOUS
<1> HIDE DEF marked
<1>7. /\ ContextShape' /\ ac'.flags = marked
      /\ ac'.replies = ac.replies /\ ac'.invalid = ac.invalid /\ ac'.channels = ac.channels
  BY <1>1, <1>4, <1>5 DEF ContextShape, Context
<1>8. ac'.flags \cap {"disconnecting", "freeing"} # {}
  BY <1>6, <1>7
<1>9. ctl.at \notin Outside
  BY DEF Outside
<1> QED BY <1>5, <1>7, <1>8, <1>9, Frees

\* Another reply, when no command is due: it is about a channel that has a callback.
LEMMA HeardStep ==
  ASSUME Good, ctl.at = "process", ac.inbuf # << >>, ac.replies = << >>,
         Head(ac.inbuf).type # "error", UNCHANGED <<peer, issued>>,
         IF Has("subscribed") THEN SubscribeCallback(Head(ac.inbuf), [ac EXCEPT !.inbuf = Tail(@)])
         ELSE IF Has("monitoring")
              THEN RunCallback(ctl.cb, Head(ac.inbuf), [ac EXCEPT !.inbuf = Tail(@)], "process")
         ELSE ac' = [ac EXCEPT !.inbuf = Tail(@)] /\ LibraryAt("aborted") /\ UNCHANGED calls
  PROVE  Good'
<1> DEFINE reply == Head(ac.inbuf)
           left == Tail(ac.inbuf)
           rest == [ac EXCEPT !.inbuf = Tail(@)]
           w == ac.inbuf \o peer.toClient
           v == left \o peer.toClient
           p == peer.toServer \o ac.obuf
           sub == "subscribed" \in ac.flags
           c == reply.channel
           i == ac.channels[c]
           ends == reply.type = "unsubscribe"
           dh == [ac.channels EXCEPT ![c] = IF ends THEN FN_NULL ELSE @]
           flags == IF ends /\ reply.count = 0 THEN ac.flags \ {"subscribed"} ELSE ac.flags
           context == [ac EXCEPT !.inbuf = left, !.channels = dh, !.flags = flags]
           dsub == "subscribed" \in flags
<1>1. /\ ContextShape /\ Alive /\ reply \in Reply /\ left \in Seq(Reply)
      /\ v \in Seq(Reply) /\ Dropped(v, w) /\ w[1] = reply /\ Len(w) >= 1
  BY FirstTaken
<1>2. Shape /\ Control /\ ac.channels \in [Channel -> Nat] /\ ac.flags \in SUBSET Flag
  BY DEF Good, Shape, ContextShape, Context
<1>3. /\ WorldTyped(w, p, << >>, ac.invalid, sub, Up, peer.subs, issued, calls, Alive)
      /\ World(w, p, << >>, ac.invalid, ac.channels, sub, Up, peer.subs, issued, calls, Alive)
  BY TypedNow DEF WorldNow
<1>4. reply.type # "error"
  OBVIOUS
<1>5. reply.type \in ChannelReply /\ c \in Channel /\ i # FN_NULL /\ sub
  <2> HIDE DEF w, p, v, reply, sub
  <2>1. AboutChannel(w[1], ac.channels, sub)
    BY ONLY <1>1, <1>3, <1>4, FirstWorld
  <2> QED BY <1>1, <2>1 DEF AboutChannel
<1>6. i \in 1..Len(issued) /\ issued[i].kind = "subscribe" /\ FnOf(i) = i
  <2>1. Told(ac.channels, issued, Alive, calls)
    BY <1>3 DEF World, Dues
  <2>2. i \in 1..Len(issued) /\ issued[i].kind = "subscribe"
    BY <1>5, <2>1 DEF Told
  <2> QED BY <2>2 DEF FnOf
<1>7. SubscribeCallback(reply, rest)
  BY <1>5 DEF Has
<1>8. dh \in [Channel -> Nat] /\ flags \in SUBSET Flag
  BY <1>2 DEF FN_NULL
<1>9. RunCallback(FnOf(i), reply, context, "process")
  <2>1. rest = [ac EXCEPT !.inbuf = left] /\ rest.channels = ac.channels /\ rest.flags = ac.flags
    BY <1>1 DEF ContextShape, Context
  <2>2. [rest EXCEPT
            !.channels[c] = IF ends THEN FN_NULL ELSE @,
            !.flags = IF ends /\ reply.count = 0 THEN @ \ {"subscribed"} ELSE @] = context
    <3> HIDE DEF rest, ends, reply, left
    <3>1. [rest EXCEPT
            !.channels[c] = IF ends THEN FN_NULL ELSE @,
            !.flags = IF ends /\ reply.count = 0 THEN @ \ {"subscribed"} ELSE @]
          = [rest EXCEPT !.channels = dh, !.flags = flags]
      BY <2>1
    <3> HIDE DEF dh, flags
    <3> QED BY <1>1, <2>1, <3>1 DEF ContextShape, Context
  <2> HIDE DEF rest, context, reply
  <2>3. rest.channels[reply.channel] # FN_NULL /\ rest.channels[reply.channel] = i
    BY <1>5, <2>1
  <2> QED BY <1>5, <1>6, <1>7, <2>2, <2>3 DEF SubscribeCallback, ChannelReply
<1>10. Turned(ac.channels, dh, dsub, reply)
  <2> HIDE DEF reply
  <2>1. ends => /\ \A d \in Channel : dh[d] # FN_NULL <=> ac.channels[d] # FN_NULL /\ d # c
                /\ (dsub <=> reply.count # 0)
    BY <1>2, <1>5 DEF FN_NULL
  <2>2. ~ ends => dh = ac.channels /\ dsub
    BY <1>2, <1>5
  <2>3. \A d \in Channel : dh[d] = ac.channels[d] \/ dh[d] = FN_NULL
    BY <1>2, <1>5 DEF FN_NULL
  <2>4. dsub \in BOOLEAN
    OBVIOUS
  <2> HIDE DEF dh, dsub
  <2> QED BY <2>1, <2>2, <2>3, <2>4 DEF Turned, Unlinked, Cleared
<1>11. ac.flags \ {"subscribed"} \subseteq flags
  OBVIOUS
<1> HIDE DEF left, reply, dh, flags
<1>12. /\ context \in Context /\ context.replies = ac.replies /\ context.invalid = ac.invalid
       /\ context.channels = dh /\ context.flags = flags /\ context.inbuf = left
       /\ context.obuf = ac.obuf /\ context.reading = ac.reading /\ context.writing = ac.writing
  BY <1>1, <1>8 DEF ContextShape, Context
<1> HIDE DEF context, w, v, p, sub, i, dsub
<1>13. Goes_on(context, "process")
  BY <1>11, <1>12 DEF Goes_on
<1>14. /\ Tells(calls', calls, issued, i, reply) /\ Shape' /\ Control' /\ Alive' = Alive
       /\ Gone_on(context)
  BY <1>1, <1>2, <1>6, <1>9, <1>13, Runs
<1>15. World(v, p, << >>, ac.invalid, dh, dsub, Up, peer.subs, issued, calls', Alive)
  <2>1. Tells(calls', calls, issued, ac.channels[w[1].channel], w[1])
    BY <1>1, <1>14 DEF i
  <2>2. Turned(ac.channels, dh, dsub, w[1]) /\ w[1].type # "error"
    BY <1>1, <1>4, <1>10
  <2> QED BY ONLY <1>1, <1>3, <2>1, <2>2, HeardWorld
<1>16. World(context.inbuf \o peer.toClient, peer.toServer \o ac.obuf, context.replies,
             context.invalid, context.channels, "subscribed" \in context.flags, Up, peer.subs,
             issued, calls', Alive)
  BY <1>12, <1>15, Zenon DEF v, p, dsub
<1> QED BY <1>12, <1>14, <1>16, Processed

\* A reply.
LEMMA ReplyStep ==
  ASSUME Good, ProcessReply
  PROVE  Good'
<1>1. ctl.at = "process" /\ ac.inbuf # << >> /\ UNCHANGED <<peer, issued>>
  BY DEF ProcessReply
<1> DEFINE reply == Head(ac.inbuf)
           rest == [ac EXCEPT !.inbuf = Tail(@)]
<1>2. CASE /\ ac.replies # << >>
           /\ RunCallback(FnOf(Head(ac.replies)), reply, [rest EXCEPT !.replies = Shifted(@)],
                          "process")
  BY <1>1, <1>2, AnsweredStep
<1>3. CASE /\ ac.replies = << >> /\ reply.type = "error"
           /\ EndContext([rest EXCEPT !.err = TRUE]) /\ UNCHANGED calls
  BY <1>1, <1>3, RefusedStep
<1>4. CASE /\ ac.replies = << >> /\ reply.type # "error"
           /\ IF Has("subscribed") THEN SubscribeCallback(reply, rest)
              ELSE IF Has("monitoring") THEN RunCallback(ctl.cb, reply, rest, "process")
              ELSE ac' = rest /\ LibraryAt("aborted") /\ UNCHANGED calls
  BY <1>1, <1>4, HeardStep
<1> QED BY <1>2, <1>3, <1>4 DEF ProcessReply


-----------------------------------------------------------------------------
(***************************************************************************)
(* The theorem                                                             *)
(***************************************************************************)
\* The context as it is made.
LEMMA AsyncStarts ==
  ASSUME AsyncInit
  PROVE  AInv
<1> DEFINE none == [ch \in Channel |-> FN_NULL]
           p == peer.toServer \o ac.obuf
<1>1. PICK hasOnConnect \in BOOLEAN :
        ac = [flags |-> {}, err |-> FALSE, replies |-> << >>, invalid |-> << >>,
              channels |-> none, obuf |-> << >>, inbuf |-> << >>,
              onConnect |-> hasOnConnect, reading |-> FALSE, writing |-> hasOnConnect]
  BY DEF AsyncInit
<1>2. /\ ctl = InLoop /\ issued = << >> /\ calls = << >>
      /\ peer = [link |-> "connecting", toServer |-> << >>, subs |-> {}, feeds |-> FALSE,
                 toClient |-> << >>, spontaneous |-> 0]
  BY DEF AsyncInit
<1>3. none \in [Channel -> Nat] /\ \A c \in Channel : none[c] = FN_NULL
  BY DEF FN_NULL
<1> HIDE DEF none
<1>4. Shape
  <2>1. ContextShape
    BY <1>1, <1>3 DEF ContextShape, Context, Flag
  <2>2. PeerShape
    BY <1>2 DEF PeerShape
  <2>3. ControlShape
    BY <1>2 DEF ControlShape, InLoop, Place, FN_NULL
  <2> QED BY <1>2, <2>1, <2>2, <2>3 DEF Shape
<1>5. Control /\ Alive
  BY <1>1, <1>2 DEF Control, Alive, InLoop
<1>6. /\ ac.inbuf \o peer.toClient = << >> /\ p = << >> /\ ac.replies = << >>
      /\ ac.invalid = << >> /\ ac.channels = none
      /\ ("subscribed" \in ac.flags) = FALSE /\ peer.subs = {}
  BY <1>1, <1>2
<1>7. In(<< >>) = {} /\ Ascending(<< >>) /\ Len(<< >>) = 0
  BY DEF In, Ascending
<1>8. Dues(<< >>, << >>, none, << >>, << >>, Alive)
  BY <1>3, <1>7 DEF Dues, Owed, Heard, Told
<1>9. ASSUME NEW up
      PROVE  Flows(<< >>, << >>, {}, {}, none, FALSE, up, {}, << >>)
  <2>1. Flow(0, 0, << >>, << >>, {}, {}, none, FALSE, up, {}, << >>)
    <3>1. /\ Answering(0, 0, << >>) /\ Matching(<< >>, {}, << >>) /\ RefusalLast(<< >>, up)
          /\ DueAfter(0, {}, {}, << >>) /\ Waiting(0, << >>, << >>, up)
      BY <1>7 DEF Answering, Matching, RefusalLast, DueAfter, Waiting
    <3>2. /\ Channelled(<< >>, none, FALSE) /\ Leaving(<< >>, none, << >>, {}, up)
          /\ Unanswered(0, none, << >>, up) /\ Synced(0, << >>, none, << >>, {}, up)
          /\ Refusable(0, << >>, {}, {}, << >>, {}, up, FALSE)
      BY <1>3, <1>7 DEF Channelled, Leaving, Unanswered, Synced, Refusable
    <3>3. 0 \in Nat /\ 0 <= 0 /\ 0 <= Len(<< >>)
      BY <1>7
    <3> QED BY <3>1, <3>2, <3>3, Zenon DEF Flow
  <2>2. 0 \in 0..Len(<< >>)
    BY <1>7
  <2> QED BY <2>1, <2>2, Zenon DEF Flows
<1>10. World(<< >>, << >>, << >>, << >>, none, FALSE, Up, {}, << >>, << >>, Alive)
  BY <1>7, <1>8, <1>9, Zenon DEF World
<1>11. WorldNow
  BY <1>2, <1>6, <1>10, Zenon DEF WorldNow, p
<1> QED BY <1>4, <1>5, <1>11 DEF AInv, Good

\* What a step finds amiss stays so.
LEMMA OddStays ==
  ASSUME AsyncNext \/ UNCHANGED asyncVars, odd' = {}
  PROVE  odd = {}
<1>1. CASE Get \/ Subscribe \/ Unsubscribe \/ Monitor
  BY <1>1 DEF Get, Subscribe, Unsubscribe, Monitor, AppendCommand
<1>2. CASE redisAsyncDisconnect \/ redisAsyncFree
  BY <1>2 DEF redisAsyncDisconnect, redisAsyncFree
<1>3. CASE \/ CallbackReturns \/ FreeNext \/ FreeEnds \/ OnDisconnectReturns \/ HandleEvent
            \/ OnConnectReturns \/ Fails
  BY <1>3 DEF CallbackReturns, FreeNext, FreeEnds, OnDisconnectReturns, HandleEvent,
              OnConnectReturns, Fails
<1>4. CASE redisBufferRead \/ redisBufferWrite \/ NoReply \/ ProcessReply
  BY <1>4 DEF redisBufferRead, redisBufferWrite, NoReply, ProcessReply
<1>5. CASE Connects \/ Answers \/ Spontaneous \/ Closes_
  BY <1>5 DEF Connects, Answers, Spontaneous, Closes_
<1>6. CASE UNCHANGED asyncVars
  BY <1>6 DEF asyncVars
<1> QED BY <1>1, <1>2, <1>3, <1>4, <1>5, <1>6 DEF AsyncNext

\* A step that changes nothing.
LEMMA AsyncStutters ==
  ASSUME Good, UNCHANGED asyncVars
  PROVE  Good'
<1>1. UNCHANGED <<ac, ctl, peer, issued, calls>>
  BY DEF asyncVars
<1>2. /\ ContextShape' = ContextShape /\ PeerShape' = PeerShape /\ ControlShape' = ControlShape
      /\ Control' = Control /\ Alive' = Alive /\ Up' = Up
  BY <1>1 DEF ContextShape, PeerShape, ControlShape, Control, Alive, Up
<1>3. Shape'
  BY <1>1, <1>2 DEF Good, Shape
<1>4. WorldNow'
  <2>1. WorldNow
    BY DEF Good
  <2> QED BY <1>1, <1>2, <2>1, Zenon DEF WorldNow
<1> QED BY <1>2, <1>3, <1>4 DEF Good

\* Every step keeps the invariant.
LEMMA AsyncKeeps ==
  ASSUME AInv, [AsyncNext]_asyncVars
  PROVE  AInv'
<1> SUFFICES ASSUME odd' = {} PROVE Good'
  BY DEF AInv
<1>1. odd = {}
  BY OddStays
<1>2. Good
  BY <1>1 DEF AInv
<1>3. CASE Get
  BY <1>2, <1>3, GetStep
<1>4. CASE Subscribe
  BY <1>2, <1>4, SubscribeStep
<1>5. CASE Unsubscribe
  BY <1>2, <1>5, UnsubscribeStep
<1>6. CASE Monitor
  BY <1>6 DEF Monitor, AppendCommand
<1>7. CASE redisAsyncDisconnect
  BY <1>2, <1>7, DisconnectStep
<1>8. CASE redisAsyncFree
  BY <1>2, <1>8, FreeStep
<1>9. CASE CallbackReturns
  BY <1>2, <1>9, ReturnsStep
<1>10. CASE FreeNext
  BY <1>2, <1>10, FreeNextStep
<1>11. CASE FreeEnds
  BY <1>2, <1>11, EndsStep
<1>24. CASE OnDisconnectReturns
  BY <1>2, <1>24, OnDisconnectStep
<1>12. CASE HandleEvent
  BY <1>2, <1>12, EventStep
<1>13. CASE OnConnectReturns
  BY <1>2, <1>13, OnConnectStep
<1>14. CASE Fails
  BY <1>2, <1>14, FailsStep
<1>15. CASE redisBufferRead
  BY <1>2, <1>15, ReadStep
<1>16. CASE redisBufferWrite
  BY <1>2, <1>16, WriteStep
<1>17. CASE NoReply
  BY <1>2, <1>17, NoReplyStep
<1>18. CASE ProcessReply
  BY <1>2, <1>18, ReplyStep
<1>19. CASE Connects
  BY <1>2, <1>19, ConnectsStep
<1>20. CASE Answers
  BY <1>2, <1>20, AnswersStep
<1>21. CASE Spontaneous
  BY <1>2, <1>21, SpontaneousStep
<1>22. CASE Closes_
  BY <1>2, <1>22, ClosesStep
<1>23. CASE UNCHANGED asyncVars
  BY <1>2, <1>23, AsyncStutters
<1> QED BY <1>3, <1>4, <1>5, <1>6, <1>7, <1>8, <1>9, <1>10, <1>11, <1>12, <1>13, <1>14, <1>15,
           <1>16, <1>17, <1>18, <1>19, <1>20, <1>21, <1>22, <1>23, <1>24 DEF AsyncNext


\* The calls of a command, and what of them is said of those due.
LEMMA GoodAnswers ==
  ASSUME Good
  PROVE  /\ issued \in Seq(Command) /\ calls \in Seq(Call)
         /\ Heard(In(ac.replies) \cup In(ac.invalid), issued, calls)
         /\ Told(ac.channels, issued, Alive, calls)
BY DEF Good, Shape, WorldNow, World, Dues

\* Nothing odd, and the commands have been answered, ...
LEMMA GoodCommands ==
  ASSUME Good
  PROVE  CommandsAnswered
<1> DEFINE D == In(ac.replies) \cup In(ac.invalid)
<1>1. issued \in Seq(Command) /\ calls \in Seq(Call) /\ Heard(D, issued, calls)
  BY GoodAnswers
<1>2. DOMAIN issued = 1..Len(issued) /\ DOMAIN calls = 1..Len(calls)
  BY <1>1
<1>3. ASSUME NEW i \in DOMAIN issued, issued[i].kind = "get", NEW k \in CallsOf(i)
      PROVE  /\ CallsOf(i) = {k}
             /\ calls[k].reply.type \in {"string", "error"} => calls[k].reply.of \in {0, i}
             /\ calls[k].reply.type \in {"string", "error", "nil"}
  <2>1. k \in 1..Len(calls) /\ calls[k].fn = i /\ i \in Nat
    BY <1>2 DEF CallsOf
  <2>2. ASSUME NEW l \in CallsOf(i), l # k PROVE FALSE
    <3>1. l \in 1..Len(calls) /\ calls[l].fn = i
      BY <1>2 DEF CallsOf
    <3>2. k < l \/ l < k
      BY <2>1, <2>2, <3>1
    <3>3. calls[k].fn < calls[l].fn \/ calls[l].fn < calls[k].fn
      BY <1>1, <1>3, <2>1, <3>1, <3>2 DEF Heard
    <3> QED BY <2>1, <3>1, <3>3
  <2>3. CallsOf(i) = {k}
    BY <2>2
  <2> QED BY <1>1, <1>3, <2>1, <2>3 DEF Heard
<1>4. ASSUME NEW k \in DOMAIN calls, NEW l \in DOMAIN calls,
             k < l, issued[calls[k].fn].kind = "get", issued[calls[l].fn].kind = "get"
      PROVE  calls[k].fn < calls[l].fn
  BY <1>1, <1>2, <1>4 DEF Heard
<1>5. ASSUME ctl.at \in {"onDisconnect", "freed"}, NEW i \in DOMAIN issued,
             issued[i].kind = "get", FnOf(i) # FN_NULL
      PROVE  CallsOf(i) # {}
  <2>1. ac.replies = << >> /\ ac.invalid = << >>
    BY <1>5 DEF Good, Control, Alive
  <2>2. D = {}
    BY <2>1 DEF In
  <2>3. issued[i].hasFn
    BY <1>5 DEF FnOf
  <2>4. \E c \in 1..Len(calls) : calls[c].fn = i
    BY <1>1, <1>2, <1>5, <2>2, <2>3 DEF Heard
  <2> QED BY <1>2, <2>4 DEF CallsOf
<1> QED BY <1>3, <1>4, <1>5 DEF CommandsAnswered

\* ... the subscriptions heard, ...
LEMMA GoodSubscriptions ==
  ASSUME Good
  PROVE  SubscriptionsHeard
<1>1. calls \in Seq(Call) /\ Told(ac.channels, issued, Alive, calls)
  BY GoodAnswers
<1>2. DOMAIN calls = 1..Len(calls)
  BY <1>1
<1> SUFFICES ASSUME NEW k \in 1..Len(calls), issued[calls[k].fn].kind = "subscribe"
             PROVE  IF calls[k].reply = NIL
                    THEN ctl.at # "loop" /\ \A l \in CallsOf(calls[k].fn) : l <= k
                    ELSE /\ calls[k].reply.type \in {"subscribe", "unsubscribe", "message"}
                         /\ calls[k].reply.channel = issued[calls[k].fn].channel
  BY <1>2 DEF SubscriptionsHeard
<1>3. CASE calls[k].reply = NIL
  <2>1. /\ ~ Alive
        /\ \A d \in 1..Len(calls) : calls[d].fn = calls[k].fn => d <= k
    BY <1>1, <1>3 DEF Told
  <2> QED BY <1>2, <1>3, <2>1 DEF CallsOf, Alive
<1>4. CASE calls[k].reply # NIL
  BY <1>1, <1>4 DEF Told, ChannelReply
<1> QED BY <1>3, <1>4

\* ... and the events asked for.
LEMMA GoodReplies ==
  ASSUME AInv
  PROVE  RepliesReachTheirCallbacks
<1> SUFFICES ASSUME Good
             PROVE  /\ ctl.at \notin {"aborted", "misused"}
                    /\ CommandsAnswered /\ SubscriptionsHeard /\ EventsAsked
  BY DEF AInv, RepliesReachTheirCallbacks
<1>1. ControlShape /\ Control
  BY DEF Good, Shape
<1>2. ctl.at \notin {"aborted", "misused"}
  BY <1>1 DEF ControlShape, Place
<1>3. EventsAsked
  BY <1>1 DEF Control, Alive, EventsAsked
<1> QED BY <1>2, <1>3, GoodCommands, GoodSubscriptions

\* The inductive invariant of the asynchronous client: as long as nothing odd
\* happened, the lists of callbacks, the commands that wait and the replies that
\* arrive fit one another.
THEOREM AsyncInvariant == AsyncSpec => []AInv
<1>1. AsyncInit => AInv
  BY AsyncStarts
<1>2. AInv /\ [AsyncNext]_asyncVars => AInv'
  BY AsyncKeeps
<1> QED BY <1>1, <1>2, PTL DEF AsyncSpec

\* hiredis/async.c: as long as nothing odd happened, every callback hears what is
\* its own and in its order, a context that is gone has told all of them, no
\* assertion fails and no code goes on with a context that is gone.
THEOREM RepliesAlwaysReach == AsyncSpec => []RepliesReachTheirCallbacks
<1>1. AInv => RepliesReachTheirCallbacks
  BY GoodReplies
<1> QED BY <1>1, AsyncInvariant, PTL
====
