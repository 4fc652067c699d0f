# A verification of tadpole

tadpole is an ordered key/value server: one process, one thread, an event loop,
the Redis protocol, a skiplist for the order and a hash table next to it, and a
data file that is written on exit and read on start. This directory holds TLA+
modules that model its parts, TLC configurations that check them on small
instances, and proofs that TLAPS checks for instances of every size.

Line numbers below are lines of the repository's sources.

## The system

| part | code | its state | its operations | what makes it hard |
|---|---|---|---|---|
| ordered index | `skiplist.c` | `level`, `length`, nodes with a height, a key, a value and one pointer per level | insert, delete, search, replace, maximum | several levels that must agree, a level counter that is lowered while unlinking, keys of different lengths that compare as equal, an allocation that fails half way |
| commands | `commands.c`, `initDb` | the skiplist and the hash table `server.dict` | get, put/set, delete, scan, show, ping, shutdown | two indexes changed one after the other, results of the skiplist that are ignored |
| client and parser | `db.c:216-578`, `util.c:54-92` | per connection: query buffer, request type, arguments so far, lengths still expected | read, parse inline, parse multibulk, execute, reset, free | reads may cut a request anywhere and may bring several; malformed requests; big arguments; QUIT |
| life and data file | `db.c:143-191, 618-752` | where the process is, the data file, a temporary file | load, save, exit by command or signal, crash, restart | signals inside of a command or of the save, a crash at any step, writes that fail |
| replies | `util.c:154-211` | bytes still to write | write until all is written | short writes, a client that does not read, a broken socket |
| accepting | `db.c:541-616` | one client struct per connection, its descriptor, its registration | accept, refuse, free | descriptors that are closed, given out again and closed once more, within one turn of the loop |
| event loop | `ae/ae.c`, `ae/ae_epoll.c` | masks and handlers by descriptor, `maxfd`, fired events | create, delete, resize, poll, dispatch | handlers that close descriptors of events still to be handled; two records of what is watched |
| timers | `ae/ae.c:208-338` | a list of timers, the time of the last walk | create, delete, walk, find the nearest, sleep | callbacks and finalizers that change the list while it is walked, a clock that is set back, a timeout that is narrowed to int |
| hash table | `dict.c` | two tables, a rehash index, iterators | add, replace, find, delete, resize, rehash, iterate, scan | keys that move between the tables while they are used and walked over |
| configuration, start | `config.c`, `db.c:83-142, 718-752`, `util.c:99-151`, `log.c` | the `server` struct, the current directory, where the log goes | find the file, obey its lines, daemonize, listen, write the pid file, log | lines whose order matters, names relative to a directory that changes |
| strings, numbers | `sds.c`, `util.c:217-278` | header type, length, allocation, characters | grow, shrink, cut, split, join, quote; read and write numbers | headers too small for their numbers, overflow, room for the last token |
| allocation | `zmalloc.c` | a size in front of each block, `used_memory` | allocate, resize, free | rounding both ways |
| sockets | `anet.c` | descriptors that are open | connect, listen, accept, read, write | a system call that fails after the socket exists |
| asynchronous client | `hiredis/async.c`, `adapters/ae.h` | callbacks that are due, subscriptions, flags, buffers | command, subscribe, disconnect, free, the two events | callbacks that use and free the context that calls them; a connection that breaks |
| rest | `setproctitle.c`, the rest of `hiredis/` | | | output, and a vendored library that the server links and never calls |

How they interact: the event loop calls `acceptTcpHandler` and
`readQueryFromClient`; the parser calls `processCommand` when a request is
complete; a command works on the hash table and the skiplist and writes its
reply at once, by blocking writes. `loadDb` fills the two indexes before the loop
starts; `saveDb` is called by `exit()` and walks the lowest level of the skiplist.
Everything runs in one thread. The interruptions there are, are signals (whose
handler exits the process) and the cuts that the network makes between reads.

What makes each part correct:

* ordered index: sorted without duplicates, each level a part of the one below,
  the level counter exactly the highest level in use, every node found by search;
* commands: the two indexes hold the same keys, no command follows a null
  pointer, and together they answer like a sorted map;
* parser: each request is run once, in order, when its last byte is there;
  `argv` never overflows; no assertion fails; nothing waits for bytes already read;
* life: the data file is replaced as a whole or not at all, no interruption takes
  a key out of it, a restart brings back what was saved;
* replies: every reply is written whole, and one client cannot stop the others;
* event loop: the loop and the kernel watch for the same events, and a handler is
  only called for a descriptor that is still registered, with its own client;
* timers: none is lost, each is called when it is due, once;
* hash table: it answers as a set does whatever moves inside, and a walk over it misses
  and repeats nothing;
* start: the server goes by the last line of each directive, and logs where it tested;
* libraries: strings stay strings, splitting undoes joining, numbers are read exactly,
  memory and descriptors are accounted for; every callback of the client is told
  its own reply, or that there is none, once.

## Modules

| module | models | extends |
|---|---|---|
| `KeyOrder` | `slKeyCompare`, `dictSdsKeyCompare`: keys have a length and a rank among the keys of that length | |
| `SkipList` | `skiplist.c` | `KeyOrder` |
| `SkipListWalk` | the search loop as written, node by node, and that it ends where `SkipList` says | `Commands` |
| `Commands` | `commands.c` over the skiplist and the hash table | `SkipList` |
| `KVStore` | what a client may expect: a sorted map, and the command with its arguments that each reply answers | |
| `StoreRefinement` | the refinement of `KVStore` by `Commands`, and the properties of both indexes | `SkipListWalk` |
| `MCStore` | instances for TLC | `StoreRefinement` |
| `StoreProof` | proofs: the list, the store and its refinement | `StoreRefinement` |
| `ClientProof`, `PersistenceProof`, `DictProof`, `ServerProof`, `SdsProof` | proofs | `Client`, `Persistence`, `DictWalk`, `Server`; `Sds`, `SdsSplit`, `Numbers` and `Startup` |
| `LibraryProof` | proofs about timers, sockets and memory | `TimeEvents`, `Anet`, `Zmalloc` |
| `AsyncProof` | proofs about the asynchronous client | `AsyncClient` |
| `Client` | a connection: reading, both parsers, execution, QUIT, freeing | |
| `ClientStream` | requests, their encoding, and what is owed to a client that sends them | `Client` |
| `MCClient` | instances for TLC | `ClientStream` |
| `Persistence` | loading, saving, signals, exit, crash, restart | |
| `MCPersistence` | instances for TLC | `Persistence` |
| `DictSet` | what the hash table promises: a set of keys, and for every call with its key an answer | |
| `Dict` | `dict.c`: tables, resizing, rehashing by steps | |
| `DictWalk` | the safe iterator and `dictScan` over a table in use; the refinement of `DictSet` | `Dict` |
| `MCDict` | an instance for TLC | `DictWalk` |
| `EventLoop` | the file events of `ae.c` over epoll | |
| `Server` | accepting, refusing, serving and freeing connections, and `addReply` | `EventLoop` |
| `MCServer` | an instance for TLC | `Server` |
| `TimeEvents` | the time events of `ae.c` | |
| `Sds`, `SdsSplit`, `Numbers` | `sds.c` and `string2ll` | |
| `Zmalloc`, `Anet` | `zmalloc.c`, `anet.c` | |
| `Paths`, `Startup` | `getAbsolutePath`; the configuration and the rest of `main` | `Startup` extends `Paths` |
| `AsyncClient` | `hiredis/async.c` on `adapters/ae.h` | |
| `MCLibrary` | an instance of all parts from `TimeEvents` on and of `EventLoop` | those |

### The store: `SkipList`, `Commands`

`level`, `length` and `height`, `next`, `val` are the fields of the skiplist and
its nodes. A node is identified with its key: a key is freed with its node, and
`NodesIndexed` (which says that no second node is ever made for a key that is in
the hash table) is what makes that sound. `next[n][i]` is the pointer of node `n`
on level `i`, level 1 being the code's index 0; `HEAD` is `sl->head`. The search
loops of the code all end at the same place, which `StopsAt` and `update` define
without walking: the last node before the key on each level. That the loop gets
there is the invariant `WalkAgrees` of `SkipListWalk`, which walks literally.
`gen_random_level` is a choice of any level up to `MAX_LEVEL`.

A value is a model value, or `FREED` for a string the caller frees after
`insert_skiplist` kept it (`skiplist.c:77-79`). `MallocCanFail` lets the
allocation of a node fail. `FixedLength`, `key_len` and `val_len` are the
directive fixed-length. `dict` is the set of the keys in the hash table: that the
table answers as a set does, while it rehashes and is walked over, is `IsSet` of `DictWalk`. `status` becomes `"crashed"` where the code
follows a null pointer or frees twice; `reply` is what the client was answered and `cmd` the command it
answers, with its arguments. `cmd` is a variable of `KVStore` too, so that `StoreSpec` asks of each command
what the map does for that command and not for any.
Commands are one action each, as nothing interrupts them but an exiting signal
(see `Persistence`). The count of a scan and the wording of errors are left out.

### The parser: `Client`, `ClientStream`

`querybuf`, `reqtype`, `multibulklen`, `bulklen` and `argv` are fields of the
client; `argvcap` is what `c->argv` was allocated for, `pos` the local variable of
`processMultibulkBuffer`, `phase` where the code is. One byte is one value;
`*<n>` and `$<n>` are one value each in front of their CR LF, since the parser looks at
none of their characters before the CR is there. `Read(n)` delivers any number of
bytes up to what the code asks for. `executed` records the requests that
`processCommand` is called with. Commands are not looked up; QUIT is, because it is the
one that changes what happens to the client.

`ClientStream` adds a client that sends requests: `Encode` is the protocol,
`Arrived` the number of requests that lie wholly in the bytes read, and
`ExecutedInOrder` compares `executed` with them.

### The life of the process: `Persistence`

`list` is the lowest level of the skiplist, all that `saveDb` reads.
Insertion and deletion change it by one pointer and are one step. Replacement frees
the old value and then assigns the new one, and these are two steps with everything else
possible in between. `file`, `rest`, `temp`, `line` are sequences of bytes,
because `loadDb` depends on them: `Fetched`, `Older`, `Unwritten` and `Capacity` are glibc's `getline()`,
which keeps its buffer from line to line and starts with 120 bytes (`MIN_CAP`).
`saved`, `cut`, `damaged` and `deleted` are history and are only read by properties.
A write that fails leaves any part of its line in the file (`Torn`: stdio writes its buffer when it is full, at any
byte of a line, and goes on with the next ones); the file is renamed into place all the same, and from then on
`damaged` holds. `rename()` may fail, and nobody looks at it: the process then ends `"unsaved"`.
A node whose value was freed is saved as whatever a string there reads as (`Garbage`).

A signal may come at any step. Its handler calls `exit(0)`, which runs `saveDb` if
`main` has come to register it. While `saveDb` writes, a signal runs its handler too, after a shutdown
command or inside the handler of another signal, since nothing but the signal itself is masked; `exit()` inside of `exit()` goes on behind the
function that was running (that is what glibc does; the standard leaves it open).
`Killed` is SIGKILL, a failed assertion or a crash.

### The hash table: `Dict`, `DictWalk`

A table is a size, the count `used` and one set of keys per bucket; `dict` has two of
them, `rehashidx` and the number of safe iterators. Every operation is a function of
the struct (`Rehash1`, `Insert`, `Removed` and so on), since nothing interrupts it,
and an action that applies it and keeps its answer with the call and its key (`Ret`). `Hash` is any function. The order within
a chain matters to an iterator only: `DictWalk` finds it out while it walks, keeping the key the
code has saved in `nextEntry` and the set behind it. `dictScan` advances its
cursor with `rev` on words of `WORD` bits. `seen` and `missing` are history.

### The loop and its clients: `EventLoop`, `Server`

`loop` is `aeEventLoop` with, in `watched`, the set that epoll keeps; `file` is
what each descriptor stands for, `fired` the events of the turn. `aeCreateFileEvent`,
`aeDeleteFileEvent` and `aeResizeSetSize` are functions of `loop`, used by `AnySpec` in any order and
by `Server` in the way of `db.c`. The kernel is external: it gives out the least free descriptor,
and closing a descriptor takes it out of epoll. `Server` has connections (`net`), client structs
(`client`) and the one reply that is being written (`reply`): while it is, nothing else runs, as
`addReply` repeats its `write()` until all is gone. `orphans` counts the clients made with
descriptor -1 after EWOULDBLOCK (`db.c:606`). The log file takes a descriptor for
the moment of a message, in between the two closes of a refused connection.

### The libraries

`TimeEvents`: one step is one timer of the walk of `processTimeEvents`, one call in its callback or finalizer, or a tick;
timers keep the number they were created with, so that a deletion (which overwrites the id)
can be told. A finalizer runs after the unlink with `prev` as it was, and is code like a callback: it may create and delete
timers. `Sleep` computes the timeout as the code does, narrowed to an int (`AsInt`). `live`, `exposed` and `far` are history: who was not
deleted, who was created by a finalizer in front of a walk that had passed no timer yet, and whether the first timer
was more than `INT_MAX` away. The server creates no timer (`db.c:739-745` is compiled out): this is the library's promise. `Sds` keeps the bytes of the allocation that were written, next to `text`, the
string the caller believes in. `SdsSplit` and `Numbers` take the loops of the code apart, one
turn a step, and compare the result with the inverse operation. `Zmalloc` has one size per block.
`Anet` has a table, `Program`, of the calls that each function makes in order, each of which may fail.
`Startup` is `main()`; paths are resolved by the kernel, which is external (`Resolve`).

`AsyncClient`: `ac` is the context, `ctl` where the library is in its own code. Its callbacks are
the program's code (those of commands, `onConnect` and `onDisconnect`), which may issue commands, disconnect or free in each of them; `nested` says
that the context is freed under a function of the library which will touch it again. A command is its place in `issued`; the
lists of callbacks hold commands, and `FnOf` is the callback of one, which may be NULL. The server
is external: it answers in order, with an error once the client is subscribed, publishes, refuses, and
closes with or without what is on its way. It acts between events only, as nothing else
sees it. `odd` collects the circumstances the library is not written for (below).

## Runs

| run | asks | result |
|---|---|---|
| `store_fixed` | fixed length, memory suffices: sorted map (`StoreSpec`), both indexes equal, length counted, levels tight, no crash, search loop right | holds |
| `store_flex` | no fixed length, and allocations may fail: nodes of one length only, none above the level a search starts at, each one indexed | holds |
| `flex_put` | `PutIsStored`: a put that was answered OK is stored, without a fixed length | violated |
| `client` | well-formed requests: run exactly when they arrived, in order, arguments whole (big ones up to a line end), no read of 0 bytes, all are run in the end; malformed requests and QUIT: `argv` never overflows, fields in range, assertions hold until QUIT | holds |
| `client_quit` | `NeverAborts` with QUIT | violated |
| `client_linefeed` | `ExecutedInOrder` with lines that end with LF alone | violated |
| `restart` | lines that fill the buffer of `getline()`: no key lost by any interruption or a failing rename (`KeysKept`), a restart loads what was written (`LoadsWhatWasSaved`), as long as no write of the file fails | holds |
| `restart_values` | `LoadsWhatWasSaved` with shorter lines | violated |
| `exit_saves` | `ExitSaves`: after an orderly exit the file was written from what was in memory | violated |
| `dict` | a set of keys (`IsSet`); every key once, where it is looked for (`KeysOnce`); counters exact, since rehashing trusts them (`UsedCounts`, `RehashFindsBucket`); the iterator misses and repeats nothing; `dictScan` misses nothing unless misled | holds |
| `server` | `OneClientPerDescriptor`, replies written whole, everybody accepted and served in the end | holds |
| `library` | each library part by itself: `LoopAgrees`, `NoTimerLost` (but for those a finalizer creates too early), `DueIsCalled` (no sleep beyond the first timer, but for one too far away, and each that is due is called, once), `SdsIsString`, `SplitsUndo`, `NumbersExact`, `UsedMemoryExact`, `SocketsAccounted`, `StartedAsAsked`, `RepliesReachTheirCallbacks` | holds |

### Bounds

* `store_fixed`: three keys of the configured length, a longer one, three values
  (one too long), three levels. `store_flex`: two keys of each of two lengths, two
  levels. Three nodes on two or three levels have all relations of a node to its
  neighbours: first, middle, last, alone on its level, the last of the top
  level. `MaxLength` bounds `sl->length` where keys of different lengths make it
  grow without bound.
* `client`: a read of up to 12 bytes brings up to three requests, and every way to
  cut the bytes is tried; the scripts are any two of seven small requests, any
  three of three, any two of four with arguments of `BIG_ARG - 1`, `BIG_ARG` and
  `BIG_ARG + 1` bytes, and those between two others. Arguments may be longer than a read and shorter.
  Besides, any two of 16 malformed or well-formed pieces, with a buffer limit
  that they reach.
* `restart` and its relatives: two keys, two values, lines of four bytes, and
  `MIN_CAP = 2`, which stands to a line of four bytes as the 120 bytes of glibc to
  lines of 240 bytes and more: the buffer grows to exactly the line.
  tadpole.conf configures 16 and 256 bytes, which makes such a line.
  `restart_values` has `MIN_CAP = 6`, as for any shorter line, such as those of the
  lengths 8 and 16 in README.md:19. Restarts are not bounded. Writes may fail at any byte of any line, but what a server does
  with a file that is torn is not followed (`CONSTRAINT Undamaged`), as both properties promise nothing there; and of a
  process that has ended the view keeps the data file only, as the next one starts from nothing else.
* `dict`: three keys that share buckets in tables of one and two, two of them in a table of four;
  tables start with one bucket, are forced to grow at a ratio of one, and are
  resized by hand up to two: growing twice, shrinking, and growing again during a walk all happen. The view leaves
  out the answer of the last call while a walk is under way. `MaxRounds` bounds `dictRehashMilliseconds`, `RehashesAtOnce`
  stands for 100.
* `server`: two connections and four descriptors, the first two or three of which are taken: the second connection
  finds a descriptor that was just freed, one that is too large for the loop, or none. A socket takes two
  bytes at a time of replies of up to three.
* `library`: three descriptors and arrays of two and three; three timers, a second of two ticks, a clock of four, delays of none,
  a second and seven ticks, and `INT_MAX = 2`: seven is beyond it and wraps to a negative timeout. Three timers are enough
  for the one that the code loses: two deleted at the head and a new one; strings of up to five letters where a header holds two and four; separators of one and two
  bytes, some of them alike, in strings of up to seven; words of two out of ten bytes that need different
  quoting; a greatest `long long` of 63, so that 64 is one too large and texts of four characters cross
  every limit; three blocks; two addresses for a name, three descriptors; names of up to six characters in directories of depth
  up to two, configuration files of three lines; three commands on two channels and one message
  of the server's own (the channels are symmetric), where a program issues no further command after an odd one.

### Fairness

`AllExecuted` needs fairness: the event loop reads again and again from a
connection that is readable (`aeMain` never stops, epoll is level triggered), and a
handler that was called runs to its end, so that weak fairness of `Receive` and
`Process` is what the code has. `freeClient` may happen at any time (the connection breaks)
and is not forced.

`ServedEventually` and `AcceptedEventually` assume weak fairness of `Run`, the server's own steps, as
the only thread never waits for anything but epoll, which reports every ready descriptor
(`PollAll`: the array of events is as long as the set), and of `ReadReply`: clients read the
replies that fill their socket. Without the second, one client stops everybody for ever, as `addReply` repeats
`EAGAIN` (`util.c:164`). Both properties except `Hangs`, a client that resets its connection in the middle
of a reply (`util.c:169`: the remainder then grows), and acceptance the lack of descriptors.

`CHECK_DEADLOCK FALSE` stands in the configurations whose system really stops: a server
that has crashed, a client that was freed.

### What the violations show

* Without fixed-length, `slKeyCompare` takes keys of different lengths for
  equal (`skiplist.c:57`). A put of `ab` next to `a` overwrites the node of `a` with a
  value that is freed afterwards, and counts a node that does not exist.
  `store_flex` shows what still holds, and `ListIsLinked` proves that the list is never torn.
  The same drift of the length lets show follow the null pointer of an empty list (`commands.c:239`).
* QUIT leaves the client as it is (`db.c:221-224`), and the next request runs into the
  assertion of `db.c:318`, which aborts the whole server without saving.
  `client` shows that no other input does, however it is cut.
* `db.c:289` removes two bytes for a line end of one.
* `db.c:634` takes the size of the buffer for the length of the line.
* `db.c:158` exits from the handler, with an empty `sa_mask`: in the middle of a command, and in the middle of
  the save. The trace of `exit_saves` is a put, a shutdown command and one signal while `saveDb` writes; a second
  signal in the handler of a first does the same. `KeysKept` shows that even so no key that was in the file before is
  lost, as the rename is the last step; only a save whose writes fail breaks that
  (`db.c:709-714` look at no result: a torn line is renamed into place), and the property excepts it.

### What the properties except

Places where the code does less than one would wish, which no run shows as a violation,
because the property that holds says exactly where they are:

* `BigExecutedInOrder`: `db.c:420` copies the argument before `db.c:421` cuts off the CR LF, so that a
  big argument keeps them if it is alone in the buffer and loses them if it is not.
* `ScanCompleteUnlessMisled`: `dict.c:658` promises that a scan returns all elements that are present from start to end.
  `dict.c:795-799` visits the expansions of the cursor's low bits only from the cursor on: a scan whose cursor
  comes from a larger table, and which is called while a table four times as small or smaller
  is there, misses keys (`misled`). The unconditional `ScanComplete` fails in the instance of `dict`
  within a few calls.
* `KeysKept`, `LoadsWhatWasSaved`: a save whose writes fail (`db.c:709`), from its rename on.
* `NoTimerLost`: `ae.c:298-303` unlinks a deleted timer, calls its finalizer and goes on with `prev == NULL`. If the finalizer creates a timer, which
  goes to the head, and the next timer is deleted too, the head is set to what follows that, and the new timer is gone, though the
  comment of `ae.c:295` is about "events scheduled for deletion" only. The property
  excepts the timers a finalizer creates in front of a walk that has passed none (`exposed`); the unconditional `OnlyDeletedRemoved` fails in
  the instance of `library`.
* `DueIsCalled`: `ae_epoll.c:115` makes an int of a number of milliseconds: with a first timer more than `INT_MAX` (25 days) away it may be
  negative, and the loop then sleeps until a file event, however long, though `aeCreateTimeEvent` takes a `long long` and `ae.c:361` wants to
  sleep "until the next time event is ready to fire". The property excepts endless sleeps that began with such a timer (`far`); the
  unconditional `WakesForTimers` fails in the instance of `library`.
* `StartedAsAsked`: a `dir` line behind the last `logfile` line moves the log away from the file that was
  tested (`config.c:75`), and without a `logfile` line the first message reads through a null pointer (`log.c:21`).
* `SocketsAccounted`: `anet.c:381-383` and `anet.c:482-493` leave a socket open that nobody knows of.
* `ServedEventually`, `AcceptedEventually`: see Fairness.
* `RepliesReachTheirCallbacks` except what `odd` names. `disconnecting with replies due`: `async.c:408-410` takes the first
  moment without a reply for the end of all replies, and the assertion of `async.c:328` fails, against hiredis/README.md:303
  ("only terminated when all pending commands have been written to the socket, their respective replies have been read").
  `issued while unsubscribing`: the confirmation of the last unsubscription ends the subscribed mode that later
  commands were sorted by, and `async.c:451` fails. `not subscribed`: the confirmation for an unknown channel goes to
  the callback that was called last. `monitor`: `async.c:417` pushes back whatever is in hand.
  `ended by onConnect`, `ended by onDisconnect`: both are called without `REDIS_IN_CALLBACK`, the second (`async.c:296-302`) when the dictionaries are
  already released, so that the context is used after it was freed in there.
  Without any of these: a command to a subscribed context is answered with an error, which `async.c:443` takes for
  a refused connection, so that its callback hears NULL although `async.c:620` says the error "needs to be received and passed to the callback".

## Proofs

`tlapm` checks `StoreProof`, `ClientProof`, `PersistenceProof`, `DictProof`, `ServerProof`, `LibraryProof`, `SdsProof`
and `AsyncProof`, the last without any assumption. The assumptions are on constants only, named in the module that declares the constants, and
TLC evaluates each of them: `KeyAssumption` (a rank tells keys of one length apart), `SkipListAssumption`,
`CommandsAssumption`, `ClientAssumption`, `DictAssumption`, `WalkAssumption`, `EventLoopAssumption`,
`ServerAssumption`, `TimeAssumption`, `AnetAssumption`, `ZmallocAssumption`,
`SdsAssumption`, `StringsAssumption`, `SplitAssumption` (no separator is empty, as `sdssplitlen` sees to), `NumberAssumption`, `PersistenceAssumption`,
`PathAssumption` (a current directory is `/` or named from the root through proper names, as `getcwd` names it), `StartupAssumption`. Besides, three theorems about the store assume a fixed
length and memory that suffices, and the two about the data file what is said there. No bound of the runs but those named in the guards of the modules is left.

### The store

* `ListIsLinked`: `Spec => [](Linked /\ SameLength /\ Reachable)`, in every configuration, for any number of
  keys and levels, with failing allocations and with aliasing keys.
  `Linked` says that each level is the list of the nodes of at least that height,
  in order, without gaps. It is stated by successor (the next node on a level is the
  nearest greater one of that height) and not by paths, so that no
  induction is needed: the existence of nearest nodes comes from the least element of a set of
  numbers. The inductive invariant is `TypeOK`, `SameLength` and `Linked`: all
  nodes have one length, since a key of another length always compares as
  equal and is never inserted, and this is why the list is sorted even then.
  `InsertKeepsWellFormed`, `DeleteKeepsWellFormed` and `ReplaceKeepsWellFormed` are its steps.
* `ListIsIndexed`: type correctness, and every node is in the hash table, also in every configuration.
* `FixedLengthAgreement`: assuming a fixed length and memory that suffices, both indexes
  agree, `sl->length` counts the nodes, and `LevelTight`: the highest level in use has a node. It
  needs `LevelTight` in the induction, as a deletion takes `level` down by the number of
  levels it empties, which is right only if those are the topmost.
* `FixedLengthNeverCrashes`: from these, no command follows a null pointer.
* `SearchLoopsAgree`: in every configuration the search loop, walked from node to node and level to level as
  `skiplist.c` does, ends where `SkipList` says without walking (`WalkAgrees`). Besides `Linked` this needs
  `Trimmed` in the induction: a node has no pointer at or above its height, so that the loop cannot leave a level
  by one that was left behind. The loop is a recursive function of the node, and
  `RanksEnd` is why it ends and has one value: the rank grows with each step, and ranks are bounded.
* `FixedLengthStore`: `Spec => StoreSpec`, each step of `Commands` is the operation of the sorted map `KVStore` with
  the same answer, for the same command with the same arguments (`cmd`), or a stutter; the map is the values of the nodes. It rests on `FixedMode` and `Trimmed`. The code follows
  the lowest level, the map sorts a set, and the proof has to bring the two together without induction on
  sequences: `SortsExists` and `SortsOnce` show that a finite set of keys has exactly one sorted
  sequence (by a set without a sorted sequence, or a place of first difference, that is least), `ScannedIs`, `LastFromIs` and
  `FirstIsSmallest` that the walks of scan and show are that sequence and its ends. `GetMaps` to `ShowMaps`
  are the steps.

### The parser

* `ParserInvariant`, and from it `ParserTypeOK`, `ArgvNeverOverflows` and `AssertionsHold`: for
  every stream of bytes, every way to cut it into reads and all sizes of buffers and limits, the
  fields of a client stay in range, `argv` has room for what is stored, and no assertion
  fails before a QUIT. None of the three is inductive. That `argv` is empty where
  `assert(c->argc == 0)` stands needs `IsReset` (between two requests the client was
  reset, or a QUIT was run); that the buffer starts with `*` there, although the
  request type was set in an earlier read, needs `StartsWithCount` (what waits for the
  rest of its count line is still at the front: reads only append). `KindsAgree` and
  `ReadsFromStart` tie the request type, the count of missing arguments and the position
  to the place the parser is in. `ArgvFits` itself bounds arguments and missing arguments together,
  which is why a malformed argument that is parsed again cannot overflow: each argument
  that is stored is taken from the missing ones, also the second time.
* `ReadsAsk`: the server never asks `read()` for nothing, which it would take for the end of the connection. For a big
  argument it asks for just what is missing of it, so the invariant adds `ArgumentIncomplete`: a client that waits within
  an argument has not got all of it.

### The data file

`DataFileKeepsKeys`: `KeysKept` (so as long as no file with failed writes is renamed, while a rename may fail), for any keys of one length, values of one length, sizes of the buffer, signals and crashes, under
two hypotheses, both needed, as the runs show:

* `FullLines`: a line is longer than twice the buffer that `getline()` starts with (then the buffer becomes just what a
  line needs), and no key or value has a line end or a NUL in it, and no key a blank. Shorter lines are what `restart_values` refutes.
* `SavesStrings`: freed memory is not written as a string that cannot be read back: either it reads as some string of the length of a value,
  or no exit falls between the two steps of a replacement. `exit_saves` shows that one can; a line end in what is
  read there would split the line.

A file is a text (`Text`): wherever a line starts, there is a whole line of `n` bytes from the set of lines.
It is stated by position and not as a concatenation, so that adding a line at the end (`LineAdded`) and taking one from the front (`LineTaken`) need
no induction. The invariant says that the file, what is left of it while it is loaded, and the temporary file are such texts,
that no key is in one of them twice (a second one would free a value and keep the pointer, see `insert_skiplist`), and that a
key of the file is in the list, or deleted, or still to be loaded; and of what is in the temporary file, that it is in the list
before `node`. `LoadedLine` is the heart of it: `line'` is the whole line and a NUL, nothing older is behind it, and so
what is cut off is the line end and not a byte of the value. TLC checked the invariant on the instance of `restart`, once with each form of `SavesStrings`.

`RestartRestores`: `LoadsWhatWasSaved`, under `FullLines`, `SavesStrings` and `RankedBytes`: two bytes of one rank are
the same, as `memcmp()` compares them. `OrderInv` adds to the invariant that the list, and what the last save wrote, are sorted; that the file consists
of the lines of what was saved, in their order; and that while the file is loaded the list is a prefix of what was saved and what
is left of the file is the rest. That is stated by `Rests`, a function from `i` to what is behind the
first `i` lines: taking a line moves one on, writing one extends each, and neither needs an induction. A loaded line lands at
the end of the list, wherever the search in the skip list may put it, because the lines before it are of smaller keys; that takes the order to be total and
transitive (`LessTotal`, `LessTransitive`) and an insertion to leave the list sorted (`InsertedSorted`).

### The hash table

`Good` describes a struct on its own: each key is in the bucket its hash leads to, in one of the two tables; `used` counts
the keys; while a table is rehashed the buckets before `rehashidx` are empty, and otherwise the second table has
none. Each function of `Dict` keeps it (`InsertGood`, `RemovedGood`, `ExpandGood`, `Rehash1Good` and so on). The
search for a bucket that is not empty, and the next size of a table, are least elements of sets of numbers.

* `WalkKeysOnce`, `WalkUsedCounts`, `WalkRehashFindsBucket` follow from `Good`. That a rehashing step finds a bucket
  needs the count of both tables, and where the keys are not.
* `WalkIterationComplete`, `WalkNoDuplicates`: the safe iterator. `WalkInv` adds `IteratorInv`: what is missing is
  either saved with the iterator or in a bucket ahead of it (`IsAhead`), what was returned is neither, and the iterator
  is counted, so that nothing is rehashed under it. The key to it is `Settled`: while an iterator runs, no key that stays in the table changes
  its place, also when the table begins to grow, where the iterator has the new table still ahead of it.
* `WalkIsSet`: every step of the tables and of the iterator is one of `DictSet`, the same call with the same key and the same answer, or a stutter.

### The loop and its clients

* `LoopAlwaysAgrees`: for any calls of the functions of `ae.c` in any order (`AnySpec`): epoll watches exactly what is
  registered, and `maxfd` is the greatest descriptor in use, which the search downwards after a deletion must find.
  `AnyInv` adds that only open descriptors are watched.
* `ClientsOnDescriptors`: `ServerInv` is type correctness, `ClientsApart` and `ReplyInv`. `ClientsApart` goes beyond the property in
  both directions: the descriptor of a client leads back to it in `file`, in the events of the loop and as the data of its handler, every
  connection that has a descriptor has a live client, and no write handler is ever registered (or `ClientEvent` would not
  be all that is at a descriptor).
* `RepliesWhole`: `ReplyInv`, what is still to be written and what was add up to the reply unless
  the connection was reset.

### The timers

`TimersKept`, `DueTimersCalled`: `TimeInv` says that the newest timer is in front and numbers descend (`Listed`); the walk stands in
the list, `te` right behind `prev` if there is one (`Standing`); who was called is behind the walk and who is due is still in front of it
(`Turns`). A callback may create timers in front and delete any, including the one that runs, and `Standing` is what
makes the unlinking by `prev` right afterwards. A finalizer may do the same, at a moment when its timer is out already
(`FinalizerTimeInv`): what it creates while there is a `prev` is safe in front of that, and without one is `exposed`, which both the list
and what the next unlinking takes out of it are allowed to differ in. That a timeout above `INT_MAX` may come out negative, or shorter, but never too long is
`IntTaken`, with `Remainder` about the arithmetic. Run `library` checks `TimeInv`'s consequences; the
invariant itself was checked by TLC on that instance before it was proved. `timers` is a sequence
there, and `CreatedInFront`, `TakenOut`, `DeletedInPlace` and `TimedInPlace` are the lemmas about what each change does to it.

### Sockets and memory

`SocketsAlwaysAccounted`: for any number of descriptors and whichever call fails. The invariant adds that a function that has a
socket is at one of the steps of its `Program`, as a step outside of it would have no handling of its failure, and one that
has none is not.

`MemoryCounted`: `used_memory` is the sum of what the live blocks take, for any sizes and any number of blocks. The sum over a
finite set is a fold, and that it exists and is the same in every order, and what an element adds to it (`FoldsExist`, `SumSome`, `SumWithout`), is shown
by a least counterexample instead of induction. `zmalloc` rounds each block up to whole words and adds the prefix, `zrealloc` takes the old block
off and adds the new one, and both agree with the sum because prefixes are whole words.

### Strings

`StringsRight`: for any letters, limits of the types and preallocation, and any lengths. `StringsAssumption` says that the
widest type holds what the longest string grows to, as `sds.c` takes for granted: its widest length is a `size_t`, and nothing checks the doubling.
The invariant, `IsSds`, is the property together with what makes it inductive: the memory begins with the characters
(`Begins`), and there is `Room`, in the allocation and in the type, for as many as the header says. Each operation has a lemma of
its own, from a string that is right to the right string. `CatFormatSds` needs the weaker `Carries`, as between two items of a format the terminator is missing;
`RoomMade` is the one place where the type may change. `UpdateLenSds`, `TrimSds` and `RangeSds` say where the loops of the code stop: the walks of
`sdstrim` exist and end at the first and the last character that is kept (`LeftWalks`, `RightWalks`, `EndsAre`), again by a least counterexample.

`NumbersAlwaysExact`: `NumbersExact`, for any greatest `long long` and texts of any length over any characters. That
`LLONG_MAX` is one less than a power of two is not used, only how `ULLONG_MAX` and `LLONG_MIN` follow from it. The invariant, `NumberInv`, adds that what
`string2ll` holds is what the characters up to `plen` spell (`Spelt`). `FirstDigitStep`, `NextDigitStep` and
`LastDigitStep` are its steps. The digits of a number are a recursive function: that it exists and what its
elements are (`DigitsIs`, `Numerals`), and that a number whose first digits were read is at least what was read with
one more digit (`Leading`, which is why a refused overflow was no number's text), are again shown by a least
counterexample.

`SplitsAlwaysUndo`: `SplitsUndo`, for any bytes, any separators that are not empty and strings of any length. The invariant, `SplitInv`, has a
part for each function. `CutState`, for `sdssplitlen`: the tokens, each with the separator behind it, are the string up to `start`, none of them holds
the separator, none begins between `start` and `j`, and there is room for one token more (`TokenMore`, `FoundTurn`, `NotFoundTurn`, `LastTurn`).
A token is free of the separator as soon as none begins where a whole one fits in it (`TokenFree`).
`ArgState`, for `sdssplitargs`: the line is what two words, or one, were written as, and what was read so far is the first
bytes of a word, up to the place where the next byte begins (`Toward`). A word is laid out byte by byte, each in the form its quotes ask for (`Laid`,
`LaidIs`): itself, behind a backslash, as an escape or as four characters with two hexadecimal digits. `ReadPart` says that
one turn of the loop, in each of its modes, takes just such a form, and gives back its byte. `QuotesOpen` and `SingleOpen` say that a line whose closing
quote is missing or has a letter behind it is one on which the word can be read to its end, and no farther. What the
pieces of a sequence are when they are put together is a recursive function again (`FlattenIs`, `JoinsBegin`).

### Names and configuration

`StartedAlways`: `StartedAsAsked`, for names of any length over any characters, any lines in any number, and any tree of
directories. `PathInv`, the part of the invariant about `getAbsolutePath`: while `../` are taken off, what is held ends in a slash and has
only proper names in it, and it and what is still to be glued to it lead, from the root, to the file that the name meant. Cutting off
the last element (`Parent`) does what walking over `..` does, just because the element is a proper name (`UpToParent`); this is where
`PathAssumption` is used. A path is walked character by character, by a recursive function; that it exists and that
walking on from where another walk ended is walking along both (`WalkedIs`, `WalkedOn`, `WalkedElement`) is again shown by a least counterexample.
`StartInv` adds that at every line of the file each field is what the last line of its directive asked for (`Configured`; `LineMore` says
what one more line changes) and that, as long as no `dir` line came later, the log file was opened in the directory the
process is in (`Tested`). `ObeyKeeps` has a case for each directive. The pid file is only what was asked until `createPidFile` fills
in the default, so that the invariant states the two phases apart.

### The asynchronous client

`RepliesAlwaysReach`: `RepliesReachTheirCallbacks`, for any channels, any number of commands and of messages that answer none, any
way to cut what is written and read, callbacks (`onDisconnect` among them) that issue commands, disconnect or free the context, and a connection that fails at any
moment. The property is far from inductive: that a reply is given to the right callback depends on all that is between
the two. `AsyncInvariant` is `AInv`: as long as `odd` is empty,

* `Shape`, `Control`: the types of all fields, among them that no assertion failed and no freed context is used; what the place
  the library is at says of the flags, such as that a context is freed only after the program, an error or a refusal asked for it;
* `Dues`: the two lists of callbacks are in the order of the commands, those of the commands before a subscription come first, what is
  called comes before what is due, and each command with a callback is due or was called (`Heard`); a channel leads to the
  subscription that asked for it, and nobody who was told NULL is told more (`Told`);
* `Flows`, while the context is alive: there are `k` and `m`, such that the commands up to `k` are answered, the answers to those up to `m`
  are on their way and the others wait to be written or read, in their order (`Answering`, `Waiting`); the lists of callbacks are just
  the gets after `k` (`DueAfter`); a reply fits its command (`Matching`); what is about a channel finds a callback there
  (`Channelled`), though messages, confirmations and unsubscriptions overtake one another (`Synced`, `Leaving`, `Unanswered`); and a reply that answers no command
  comes where it cannot be taken for an answer (`Refusable`, `RefusalLast`).

The last two are about the parts of the queues, whoever holds them: `w` is what arrives, in the buffer and on the connection, `p` what is
pending. Reading and writing then change nothing, and each other step has a lemma of its own, over sequences and sets and without the state
(`GetFlows`, `ChannelFlows`, `AnswerFlows`, `MessageFlows`, `CutFlows`, `AnsweredFlows`, `HeardFlows`, `LeavingFlows`). Steps of the
state (`GetStep` to `ReplyStep`) are put together from those. `FirstDue` and `FirstOfChannel` are the heart of it: the first reply that arrives is that of the first command that is
due, if one is; and else it is an error, or about a channel that has a callback, so that `async.c:451` never fails. No
reply needs an induction, as `k` and `m` move by one. TLC checked the invariant with two channels, three commands and a
message before it was proved.

### What is only model-checked

* Liveness under fairness (`AllExecuted`, `ServedEventually`, `AcceptedEventually`): out of the prover's reach.
* What takes an induction over data: that the parser runs the requests that were sent, in order (`ClientStream`, over the
  stream), `ScanCompleteUnlessMisled` (over the bits of a cursor).
* The negative results, of course.

## Not modelled

* The rest of hiredis: the parsing of replies, the formatting of commands, the blocking client; the server links it and never calls it.
* `setproctitle.c` and the options of the command line: output and input that nothing reads later.
* `dict.c`: hash functions, `dictGetSomeKeys`, unsafe iterators and their fingerprint, which change no table.
* `sds.c`: formatting with printf, comparing; `zmalloc.c`: reading /proc;
  `anet.c`: socket options and the printing of addresses; `ae.c`: the select and kqueue variants, which are not built here.
* `util.c:177`: `addReplyString`, a single write whose result nobody looks at.
* A failing `getcwd` (`util.c:109`: a current directory that was removed or has a name of 1024 characters or more) in `Paths.StartPath`; the server then
  has no name of a configuration file and ends in `db.c:117-118`.
* A configuration file that is a directory: `fopen` opens it and the first `fgets` fails, so that the server goes on with an empty one,
  where `Startup` has `fopen` fail.
* The shell tests.

## Plan

1. Done: the store, its refinement and proofs; the parser and its proofs; the life of the process; the hash table as a
   refinement of a set; the loop, the server and replies; configuration and start; the libraries; the asynchronous client.
2. Done: proofs for the hash table and its iterator, the loop, the server, the timers, the sockets; that `Commands` implements `KVStore`.
3. Done: `KeysKept` and `LoadsWhatWasSaved` for all files whose lines fill the buffer of `getline()`; `UsedMemoryExact`; `ReadsSomething`; `SdsIsString`;
   `NumbersExact`; `SplitsUndo`; `StartedAsAsked`; `RepliesReachTheirCallbacks`.
4. The parsing of replies in `hiredis.c`, as the inverse of what `util.c` writes.
