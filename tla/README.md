# TLA+ models of the JT/T 808 Go SDK

Specifications, model-checking configurations and machine-checked proofs for
the JT/T 808 (vehicle terminal) server SDK. Paths are relative to the
repository. `PROJECT.json` holds the exact correspondence: the source lines of
every definition, the runs, the mutants that show what each property catches,
findings, hazards and theorems.

## The system

| Part | Source | State | Operations | Modelled by |
|---|---|---|---|---|
| TCP server | `transport/tcp.go` | listener, context, WaitGroup, `rawConns`, `connections`, counters | Start, accept, handleConn, Stop | `TCPServer` |
| TCP connection | `transport/tcp.go` | `connected`, `deviceID`, `c.mu`, socket | Send, Close, SetDeviceID, DeviceID | `TCPServer` |
| framing | `readMessage` of both servers | bytes not yet read | readMessage | `Framing` |
| codec | `protocol/codec.go`, `protocol/types` | none | Encode, Decode and helpers; body parsers | `Codec` (without body parsers) |
| high-performance connection | `transport/tcp_highperf.go` | `writeChan`, `closeMu`, `c.mu`, `connected`, context | writeLoop, Send, Close | `HighPerfConnection` |
| sharded connection pool | `transport/tcp_highperf.go` | shards, counts | Put, Delete, DeleteConn, Get, Size, Range | `ConnectionPool` |
| worker pool | `transport/tcp_highperf.go` | task channel, `workers`, `active` | Submit, spawnWorker, adjust, Stop | `WorkerPool` |
| high-performance server | `transport/tcp_highperf.go` | listener, counters, the three parts above | Start, accept (several), handleConn, processMessage, Stop | `HighPerfServer` over `TaskQueue` |
| dispatch, middleware | `tcp.go`, `tcp_highperf.go`, `middleware/` | handler map; attributes; token bucket | lookup and call of handlers; Auth, AuthWithCode, AuthWithStorage, RateLimit, Timeout, Recovery, Logging | `Dispatch` |
| core worker pool | `core/worker.go` | `taskQueue`, `workers`, context | Submit, SubmitAsync, adjustWorkers, worker, Stop | `CoreWorkerPool` |
| core connection pool | `core/pool.go` | shards, counts, `totalCount` | Put, Get, Delete, Size, Range, Clear | `CoreConnPool` |
| storage | `storage/` | histories, devices, Redis keys, tables | Save*, Get*, UpdateDeviceStatus | `Storage` |
| publishers | `publisher/` | broker clients | Publish, PublishAsync, Subscribe, Unsubscribe | `PubSub` |
| configuration | `config/` | values, watchers | Set, Watch, getters | `Config` |
| commands | `cmd/` | none | the register, location and heartbeat handlers | `Dispatch` |
| metrics, logger, examples | `metrics/`, `logger/`, `examples/` | counters, output | | no |

How they interact. `accept` starts one `handleConn` goroutine per socket. In
`TCPServer` that goroutine reads frames and calls the handler itself; in
`HighPerfTCPServer` it submits each message to the worker pool and reads on.
Handlers call back into the connection (SetDeviceID registers it in the shared
device map or pool, Send writes to the socket or its channel, Close). Hooks and
the application hold connections and call the same methods from goroutines of
their own. `Stop` cancels the context, closes sockets and waits for everybody.
Between a server and a handler stands the middleware chain, in which Timeout
starts a second goroutine for the rest of the call. Storage, publishers, core
pools and configuration are libraries that handlers and applications call; no
server calls them, except AuthWithStorage.

What is hard here: check-then-act on atomics (connection limit, worker limits),
state changed under a lock and a map changed after it (SetDeviceID), teardown
racing a reconnection of the same device, Stop racing accept and the first
steps of handleConn, closing a channel others send on, locks held during
blocking writes, writes that fail in the middle of a frame, tasks of one
connection that overlap and outlive it, and frames whose flag, escape, length or
checksum byte was damaged; calls given up and still running; pipelines cut short
or sent again, statements executed although they failed, messages published or
delivered again or handed over late; slices, counters and maps of one object
under different locks. `PROJECT.json` lists each with its line.

What makes each part correct: counters equal what they count on every path; Stop
returns and leaves nothing running; a device leads to its newest live connection and
to nothing else; no panic, and an accepted message is written once, in order, and
torn only by a Write that fails; every accepted task runs once, within the worker
limits; the server gets the messages that were sent, or closes the connection; a
panic, a slow handler or an unauthenticated message goes no further than the chain
lets it; what was acknowledged as saved is found; what reached the broker is
handled, in order, and repeated only after a lost connection.

## Modules

**TCPServer.** One action per stretch of code between two points where another
goroutine can look: the atomics, the two `sync.Map`s, `c.mu`, the context and
the WaitGroup. `pc[c]` is the position of `handleConn`, `hpc[c][k]` that of
handler invocation `k` on connection `c`, `accPc` and `stopPc` those of `accept`
and `Stop`, `app[c]` a Send by an application goroutine. `closer[c]` is whoever
has won the CAS of `Close` and has not yet closed the socket; others lose the
CAS and go on meanwhile, as in the code. `writer[c]` is the goroutine inside
`Write`, which holds `c.mu`. A `Range` over a `sync.Map` must visit every key
that is there throughout and may visit keys stored meanwhile. Message contents
are left out: a read returns a message or an error, a handler may rename the
connection, reply, close it or return. `Detach` says that the Timeout
middleware is in use: a handler's call may then return while the handler goes on.

**Codec, Framing.** `Codec` has Encode and Decode on sequences of bytes (escape
and unescape, XOR checksum, BCD phone numbers, the property word with length,
encryption, sub-package and version bits); a loop over bytes is a recursive
function of how many are done. `Message` gives the fields the widths they have
(three bits of encryption, phone numbers of digits), and `MessagesAssumption` asks
of a message ID that neither byte is 0x7C, 0x7D or 0x7E, as in `protocol/types`.
`Framing` puts frames into a stream, changes at most one byte, and reads with the
loop of `readMessage` and `handleConn`. `got` is what handleConn passes on, to the
handler or to the worker pool; `ended` says what ended it: an error of content
(`flag`, `size`, `decode`), the end of the stream, a read that failed at any moment
(the deadline, a reset, Stop), or a Submit that the stopped pool refused.

**HighPerfConnection.** Send in its steps (first check, `closeMu.RLock` and second
check, select, `c.mu`, Write), Close in its steps (CAS, `closeMu` and close of the
channel, cancel, socket), and writeLoop, whose error path runs the steps of Close
itself. A Write may stand still with part of the frame sent (`part`); if it fails
then, the frame on the wire is torn. Send leaves the connection open behind a torn
frame, and writeLoop frees `c.mu` before it clears `connected`, so that frames may
follow one, in the model as in the code. **Outbox** is the abstract specification:
accepted messages, a line written from its head, and what is on the wire, each
message in one piece or torn, without channel, locks or loop. `ImplementsOutbox` is
the refinement: the line is the message in the hands of writeLoop followed by the
channel.

**ConnectionPool.** `Put` as three reads of `conn.DeviceID()`, the last two under
the lock of the shard chosen by the first; SetDeviceID and the teardown of
`handleConn`, which call it and DeleteConn. The worker pool runs the messages of a
connection at once, so its tasks overlap each other and the teardown in every
way. A task that renames the connection while another is in Put makes that Put
count one key and store another; `moved` records for which connection and shard
this has happened. `Hash` is any function from keys to
shards. `c.mu` is not a variable: it is held only around single reads and
assignments of the identifier here, and by writes, which only delay them (that
they may do so for ever is in `HighPerfServer`).

**WorkerPool.** Submit, workers, adjust (its three reads, its two loops) and Stop.
The ticker may fire at any time. **TaskQueue** is the abstract specification:
tasks accepted, waiting in a bounded line, running, and refused, without
workers. Under `ImplementsTaskQueue` the nil tasks that end workers are
invisible, and a task runs from the moment a worker takes it.

**HighPerfServer.** The server as a whole: accept goroutines, handleConn from the
counter to the teardown, tasks, SetDeviceID in `processMessage`, Close by
writeLoop or the application in its two steps, and the steps of Stop. The worker
pool is composed in as an instance of `TaskQueue`, whose actions are conjuncts of
the server's: what `WorkerPool` implements is all that `HighPerfServer` uses. The
connection pool is one entry per device (shards and counts are `ConnectionPool`).
`visited` holds the devices Stop's Range has passed. `mu` holds the connections
whose `c.mu` is held by a Write that is stuck because the client does not read and
writes have no deadline: the teardown (`DeviceID`), SetDeviceID and Put wait for it,
and so may any handler that calls Send. Put waits for it with the lock of a shard
(`puts`), for which DeleteConn and Range wait. Closing the socket frees it.

**Dispatch.** One message's way through lookup, chain and handler, in both
servers. A call has two goroutines, the serving one and the one that Timeout
starts; each is a position in the chain, a direction and a result (ok, err,
panic). Handlers are those of `cmd/server`, and any of them may fail, panic or
hang. The token bucket counts half tokens and half seconds.

**Storage.** The four implementations of `core.Storage`, `backend` naming one.
Memory trims under its lock; a statement of MySQL or PostgreSQL is one step, may
have been executed although the call fails, and a `Writers` member is one
goroutine; the Redis pipeline is its three commands, which other writers come
between and which a lost connection cuts short, whereupon the client sends them
again or gives up. Times are any instants, in quarters of a second, with the zone
of the `time.Time`: Redis compares whole seconds, MySQL rounds what it stores to
whole seconds, PostgreSQL compares what clocks in the zones show. Left out are the
rounding to microseconds, the hour that MySQL cannot tell from the next at the end
of summer time, and the order of the rows: queries return sets.

**PubSub.** Each publisher and subscriber with its broker, as its client relies
on it: RabbitMQ requeues what was not acknowledged when the connection is lost,
Kafka keeps a log and a committed offset that is advanced in the background
when the message is read, not when it was handled, Redis keeps nothing. The
clients of Kafka and Redis send a message again when the answer does not come
(`Resend`), whether or not it had arrived; how often they try is left out.
ReadMessage of Kafka is two steps, the fetch and the note of the offset; a context
cancelled in between makes Subscribe return with the message gone (`KafkaSkip`).
Assumed: one Kafka partition, one subscriber, a handler is given.

**CoreWorkerPool.** `append` on the unlocked slice is a read and a write. A
Submit that finds the queue closed panics (`SendPanics`), which the code lets
happen and nothing forbids. `made` says which Submit has started which worker,
`crowded` that two Submits that grow the pool have overlapped, `late` which of them
overlapped Stop.

**CoreConnPool.** Put and Delete under one shard lock; Clear and Range shard by
shard; `totalCount` stored at the end of Clear. **Config.** Set starts a goroutine
per watcher; each may run at any later time. A callback reads the configuration
(`Call`) and then keeps its argument and what it read (`Keep`), with other callbacks
in between, unless it is one of `Guarded`, which hold a lock of their own meanwhile.

**Components** puts the components that do not interact side by side: `focus`
chooses one (of storage, its reports or its devices, which share nothing), the
others stay in their initial state, and each property is about
its own component.

The `MC` modules name the instances' model values; `...Proofs` modules hold the
theorems.

## Runs and bounds

| Run | Instance | Shows |
|---|---|---|
| tcp_safety | 2 connections, 1 device, limit 1, no Timeout middleware | counters; sockets always owned; Stop leaves nothing; device map consistent |
| tcp_liveness | 1 connection, 2 devices, Timeout middleware, write deadline, no read deadline | Stop returns; teardown completes |
| tcp_limit | 2 connections, limit 1 | **violation**: limit exceeded |
| highperf_connection | 2 senders, 2 sends each, channel of 2, a closer and writeLoop, no deadline | no panic; one writer at a time; implements `Outbox`, torn frames included; Close completes; what was accepted is written |
| connection_pool | 2 connections, 2 devices in 2 shards, 3 tasks of one connection and 1 of the other, all at once | counts, shards, ownership |
| connection_pool_stale | 1 connection, one task | **violation**: dead connection registered |
| worker_pool | 2 submitters, queue of 1, 1 to 2 workers, 5 goroutines | bounded overshoot; implements `TaskQueue`; Stop returns |
| worker_pool_min | 2 submitters, queue of 1 | **violation**: below the minimum |
| highperf_server | 2 connections, 1 device, 1 accept goroutine, task queue of 1, limit 1, no deadlines | Stop leaves nothing; Stop returns, or a client out of its reach is silent or does not read |
| dispatch | 2 messages through 4 chains in both servers | reach of panics; replies in order; rate; authentication; a request with Timeout ends |
| dispatch_unknown | 2 messages, TCP server, no middleware | **violation**: unknown message handled |
| components | storage (2 writers, 3 saves, limit 1), publishers (2 messages, 3 requests, 2 lost connections), core pools (3 tasks, 1 to 3 workers; 3 devices in 2 shards), configuration (1 key, a guarded and an unguarded watcher, 3 changes), framing (2 messages out of 12, limit 22 bytes, damage to 0, 1, 2, 0x7D, 0x7E) | the thirteen invariants of these components |

Why these are enough. Two connections suffice for a replacement of a device's
connection; a second device adds the rename between two names, which the proofs
cover for every number. A channel of two with four sends reaches empty, partly
filled and full; with one closer beside writeLoop both ways to close meet. Three
tasks of one connection are a Put, a rename in the middle of it and a rename that is
late, beside a task of another connection. Five goroutines are more than the
overshoot theorem allows to exist in that instance, so no spawn is held back by the
bound. `highperf_server` has one accept goroutine: a second multiplies the states by
five, and accept goroutines meet only at the counter (the subject of `tcp_limit`)
and at the WaitGroup; without deadlines the silent client and the one that does not
read are there, with them StopReturns only gets easier. Its task names are used
again once a task has run, so behaviours are unbounded. The four chains of
`dispatch` put Recovery inside Timeout (as `src/README.md` adds them) and outside
(as `src/docs/api` does), and have every Auth variant. A history limit of 1 with
three saves of four reports (two with equal times, in different zones) trims, evicts
out of order, and lets two pipelines interleave; the query bounds lie at, half a
second and less than a second from those times, in both zones. Two lost connections
are a redelivery of a redelivery, three requests a repeated one and its successor.
Three tasks are what two overlapping growths and a third Submit need; a shard with
two devices and one with one, what Clear and Range do between locks. The messages of
framing are made of the bytes that matter to it, phone numbers are shorter and
longer than their field, both protocol versions and sub-packaging occur, and their
frames lie below, at and above the limit.

Named bounds: `Slots` (handlers at once), `MaxSends`, `MaxMsgs`, `MaxOutstanding`,
`MaxCalls`, `Bounds` of queries, `MaxSaves`, `MaxDrops`, `MaxStarted`, `MaxSets`,
the sets of goroutines and tasks.

Deadlock is checked in every run but two: in `dispatch` all calls end (or hang,
when the handler does) and in `components` the bounded calls, messages and
changes run out. Elsewhere the only states without a further step of the system
are those named `Stopped`, `Quiet` or `Closed`.

Type invariants are proved for the modules with theorems and are part of
no run. The properties say what really holds, exceptions included: StopReturns
of the server excludes a silent client, and one that does not read, that the Range
cannot reach, PanicContained a
Recovery outside Timeout, ReplyOrder calls given up, DevicesKept the status Redis
keeps, NothingDropped the messages in a Kafka handler when the process dies and those a
cancelled Subscribe had fetched, DuplicatesExplained requests the client repeats,
SizeExact and RightShard a connection renamed in the middle of its own Put,
QueryExact reports near a bound, the maximum of WorkersAccounted growths that have
overlapped and limits given the wrong way round (NewWorkerPool
does not compare them), TotalExact a Put during Clear,
WatchersCurrent notifications that overlapped. Each exception is needed: without it
TLC finds a counterexample in the same instance, or, for the two that depend on
how a constant is chosen (the limits, and AuthRequired's for a chain with both
AuthWithCode and AuthWithStorage), in one that chooses it so.

The violations are disagreements of the code with its own comments, documents and
tests; `PROJECT.json` quotes them under "findings". Related observations without a
run: with `WriteTimeout` 0, a connection that enters `rawConns` after Stop's Range
and on which the application's Send is blocked is never closed (its teardown waits
for `c.mu` before it closes the socket), and Stop does not return; with the Timeout
middleware a late handler of `TCPServer` can register a dead connection as in
connection_pool_stale; two messages of one connection handled at once, one of which
renames it during the Put of the other, can make the pool's Size wrong for good and
put an entry where nothing finds it; a frame may follow one that a failed Write has
torn; a query of a database is off by what the column keeps of the time; a Kafka
message may be passed over by a cancelled Subscribe; messages queued in `writeChan`
are dropped on Close; Submit may spawn a worker after `WorkerPool.Stop` has
returned, and the pool can be left without workers; Submit on a stopped core pool
may panic.

## Fairness

A goroutine that can run does run (Go's scheduler is preemptive): weak fairness for
its steps. Waiters for a `sync.RWMutex` are served in turn: strong fairness for the
steps that take `c.mu` or `closeMu`. A blocked read or write ends for certain only
when a deadline is set or the socket is closed, and until then the handlers of
`HighPerfServer`, which may call Send, need not return; nothing is assumed about
clients, the application calling Send, Close, Start or Stop, or Accept failing
without cause. Handlers and tasks return, except in `Dispatch`, where a handler may
hang and only timers and goroutines are fair. In `HighPerfServer` no worker is
certain to take a task, since the pool can be left without any: what is assumed is
that a blocked sender of the task queue is not passed over for ever, and that reads
on a closed socket fail once the buffer is used up. In `adjustLoop` the cancelled
context is not passed over for ever, since between two ticks it is the only case
ready.

## Proofs

All for every value of the constants that satisfies the assumptions named in the
modules: finite sets of connections, devices, goroutines and tasks; distinct names
for "none"; a hash into the shards; `MinWorkers <= MaxWorkers` for the
high-performance server's pool, which its options set; chains of the seven
middlewares; reports with distinct identities; messages with fields of their width
and IDs as in `protocol/types`. They use SMT, Zenon and LS4 only. Types are theorems
too (TypeCorrectness) where they say more than shapes: writeLoop never writes a zero
value of the closed channel, a worker never calls nil, counters are never negative,
no device is saved without an identifier.

*TCPServer* (`TCPServerProofs`). The inductive invariant is `StateTypes /\
Accounting /\ Sockets`. Counters are proved equal to cardinalities, which needs
`Sockets` (the socket `accept` holds has no goroutine yet), and `Sockets` needs
`Accounting` (once `Stop` has returned the WaitGroup is zero, so nobody runs).
TypeOK, Accounting, Sockets and StopComplete follow. Without the Timeout middleware,
`HandlersInline` (a handler runs only while handleConn waits for it, so
identifiers read earlier are current) strengthens it to prove NoStaleEntry,
RegisteredUnderOwnId and the action property EntryKept.

*HighPerfConnection.* `CloseProtocol` is why there is no panic: a sender at the
select holds `closeMu` and saw `connected`, and only the one winner of the CAS
closes the channel, after the last such holder. OneWriter is inductive with the
types. For ImplementsOutbox, `Fresh` says that what is in the channel or in the
hands of writeLoop has been accepted and nothing of it is on the wire, and that the
message of a Send under way is neither accepted nor on the wire. Under it each step is
an action of `Outbox` or leaves the line (writeLoop's message, then the channel) and
the wire as they are; taking a message off the channel is of the second kind.

*ConnectionPool.* For any overlap of tasks. `LockProtocol` (one Put per locked
shard), `CountedRight` (a Put has counted just if there is no entry, unless its
connection was renamed since) and `CountsAgree` (counts equal entries plus the entry
each Put in progress is about to add) give SizeExact; `ChosenRight` (a Put has the
shard of the identifier, unless a rename came in between, which is in `moved`) gives
RightShard. `OwnOrGivingUp` adds to RegisteredUnderOwnId that the identifier was
given up for another one, which makes it inductive, and EntryKept is proved of each
step: the key a rename or a teardown deletes is deleted only if its own connection
is under it.

*WorkerPool.* `Counted` (the counter is the number of goroutines) and
`BeforeGrowth` (between adjust's read and its decision only Submits add workers)
make OvershootBounded inductive. For ImplementsTaskQueue the line is the channel
without its nil tasks. As what a recursive filter does cannot be proved, `Line`
is defined by ranks: its i-th task is the one with i tasks up to it. Lemmas say
what Append and Tail do to it; `TasksOnce` (a task is at one place of the channel,
or with one worker, or over) is what makes a step of a worker one of the task queue.

*HighPerfServer* (`HighPerfServerProofs`). As for the TCP server, but with several
accept goroutines and a composed task queue: `active` counts the `handleConn`s
between their two updates, a socket in the hands of `accept` is in those of one
goroutine, and nobody is left in the backlog once the listener is closed. The
worker pool it is composed with is the `TaskQueue` that ImplementsTaskQueue proves.

*Dispatch* (`DispatchProofs`). `StepMoves`, `WaitMoves` and `DispatchMoves` reduce
every action to a move of one goroutine through the chain (on, up, out, into or out
of Timeout); each invariant is then proved over the moves. `Placed` says where the
two goroutines of a call can be. PanicContained needs `Escaping`: from where a panic
has got to inwards, every Recovery has a Timeout inside of it. RateBound needs
`Budget`, the same bound for every call let through so far, with what the bucket
still holds. AuthRequired needs `Cleared`, which carries "authenticated" from the
middleware inwards. ReplyOrder needs `InTurn`: calls begin in order, one at a time
on the TCP server, and nobody works on a call that has replied.

*Core pools and configuration* (`ComponentsProofs`). TotalExact: the shards Clear
has been at are empty as long as nobody puts (`Cleaned`). RangeSees: what has been
there since Range began is there, and was given to fn in the shards behind
(`Visited`). WorkersAccounted: a Submit that grows the pool adds half of the maximum
at most and each share once (`Shares`), a lost append only shortens the slice
(`Lossy`), after Stop only late ones add (`LeftOver`), and until two overlap the one
loop of `adjustWorkers` works on what it read (`Alone`). WatchersCurrent: the
goroutine of the last Set has ended or is there (`Told`); a watcher that did not
race has one goroutine at most, with the current value (`OneNote`, `OneRun`); of a
guarded watcher, one that runs when none waits has read what is current (`Serial`).

*Storage and publishers* (`ComponentsProofs`). AckedKept: `Keeping` says of a report
what AckedKept says, from ZADD on and not only from the acknowledgement on, and that
a key's set is sorted; `TrimmedKeeps` is the step that counts, a report that a trim
drops has Limit others after it that stay; in memory the list is always the end of
what has arrived (`Arrivals`). PipelineSettles: a key that is too long, or has no
expiry, has a pipeline on its way to the command that will change it (`Settling`).
QueryExact is the arithmetic of what each backend keeps of a time, and needs no
invariant but the types. DevicesKept: devices with a known status are acknowledged,
and those are stored (`DevicesInv`). NothingDropped: the message RabbitMQ's
subscriber is about to acknowledge has been handled, and what lies before the offset
Kafka's reader has reached is handled, with the reader, was there at a loss, was
skipped by a cancelled Subscribe or passed over (`Settled`). DuplicatesExplained: in
RabbitMQ and Redis a message is at one place at a time for each request to publish
it, or is the one being acknowledged; in Kafka what has been handled or read is in
the log before the offset as often (`Counted`). Both count, and lemmas say how
counts change with Append, Tail and concatenation. OrderKept: for two messages
published one after the other, wherever the later one can come from, the earlier one
is before it (`Order`). In RabbitMQ and Redis that holds in what is handled, then
received, then queued, up to the first place where the earlier one is; in Kafka the
whole log has the two in order, and the later one is read before the earlier one is
handled only if no reader will see the earlier one again, since its copies lie below
the committed offset, or below where the first reader started (`Passed`). That
invariant needs another: a reader that is open has handled or received all between
the committed offset and its own, but for what it skipped, and what is sent again is
the last call's (`Placed`).

*Codec and framing* (`FramingProofs`; `ComponentsProofs` carries the two invariants
over to the instance that is checked). The recursive functions of `Codec` are first
shown to have values (`Recursion`) and to go on by one byte at a time (`MappedAppend`,
`UnescapeAppend`, `ChecksumAppend`); induction over sequences then gives that Unescape
undoes Escape, that no flag is left in a frame, and that checksums of parts combine.
RoundTrip: Decode gives back what Encode was given, for every message, with a phone
number filled up or cut to the width of its version. DamageRefused: with one byte of a
frame changed to anything but a flag, Decode returns an error. The argument goes by
what the change does to the code of one byte of the contents (`ByteHit`). It may
leave an escape that means nothing; it may replace a byte, which the checksum tells;
or it may make or undo an escape, which moves all later bytes by one and passes the
checksum only where 0x7C stands before 0x01 or 0x02 (`XorEscapes`); but then the length
in the header is wrong (`NotShifted`) unless this happens in the message ID.
`CutRefused` and `MoreRefused` are the same for a byte that becomes a flag and for an
end flag that becomes another byte.

That exception is real. A message with the ID 0x7C01, a phone number that starts with
03 and a body of four bytes starts with 7C 01 00 04 03. With 7D in place of 7C the first
two bytes are an escape for 7D: the checksum is the same, and what is now the header,
7D 00 04 03 and so on, asks for a body of three bytes, which is what is left. Decode
returns a message nobody sent. No ID of `protocol/types` has such bytes, hence
`MessagesAssumption`, which came out of the attempt to prove the theorem without it.

OnlyWhatWasSent and OnlyOversizeRefused follow from `LinkInv`: what was got is what
was sent first; the stream is the frames of the rest (`Wire`), but for one byte once
one was changed; and what ended an undamaged connection is `Explained`: no error of
content but a message over the limit that was next, the end of the stream only with
all messages passed on, or nothing that is in the stream. `NextFrame` says what a
read finds: the next frame, or something that Decode refuses. It takes no bound on
the messages, their number, MaxPacketSize or the noise.

Only model-checked, and why:

- liveness (StopTerminates, TeardownCompletes, CloseCompletes, AcceptedIsWritten,
  StopReturns, RequestEnds): outside the prover's reach, like ENABLED.

Every invariant, action property and refinement that a passing run checks is a
theorem.

## Not modelled

The body parsers of the codec (location, registration, BCD time): their result
is a record of numbers that no other modelled code depends on, apart from the
device identifier and the time, which are inputs elsewhere. Metrics and logger:
independent atomic counters and output. `core` interfaces: declarations. Set-up:
`main` functions, examples, dialling of databases and brokers, `createTables`,
Close and Ping, `LoadFromFile`, `LoadFromEnv` and `Unmarshal`, which are stubs.
Message and error counters, socket options, and connection attributes other
than `authenticated`. Several Kafka partitions and several subscribers.

## Plan

1. Body parsers, against a reference encoder.
2. A device registry (device to newest live connection) as an abstract
   specification, implemented by `TCPServer` without late handlers and by
   `ConnectionPool` as long as no connection is renamed during its own Put.
