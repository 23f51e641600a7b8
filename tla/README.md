# TLA+ verification of the raw data layer

This directory holds TLA+ models of the raw data layer (`src/`): a Go pipeline of four
processes that ingests market data, canonicalises it, publishes it and stores it.

    cmd/adapter --UDS--> cmd/canonicalizer --UDS--> cmd/publisher --UDS--> cmd/storage
     (adapters,            (worker pool,              (ZMQ PUB,             (WAL,
      fan-in)               Process)                   forward)              DolphinDB)

Each `--UDS-->` edge is one `ipc.Client` (spool + drain loop) and one `ipc.Server`.

## 1. Inventory

| component | source | state it keeps | operations | what is hard |
|---|---|---|---|---|
| IPC client | `pkg/ipc/client.go` | in-memory `queue`, `spilling`, `conn`, `connected`, `closed`, tokens `notify`/`connBroken` | `Send`, `drainLoop`, `connect`, `readLoop`, `writeFrame`, `breakConn`, `Flush`, `Stop` | a producer, the drain loop, one read loop per connection and `Stop` share `conn`/`connected` non-atomically; outages, reconnects, crash with a non-empty spool |
| IPC spool | `pkg/ipc/spool.go` | append-only file, `curBytes` | `newSpool`, `append`, `drain`, `close` | partial record after a crash, a failed second write, oversize record, cap |
| IPC server | `pkg/ipc/server.go`, `frame.go` | listener, `conns`, `closed`, `quit` | `Listen`, `acceptLoop`, `serveConn`, `Stop` | two connections of one client served concurrently; frames in the socket when it stops |
| WAL (sync) | `pkg/storage/wal.go` | current file, buffered writer, size/message counters, `rotationSeq`, `running` | `Start`, `Write`, `rotate`, `rotationChecker`, `Replay`, `CleanOld`, `Stop` | crash, rotation that fails to open, replay while writing |
| WAL (batched) | `pkg/storage/wal_batched.go`, `wal_writer.go` | as above plus un-synced buffer, `pendingMessages` | `Write`, `Flush`, `flushLoop`, rotation, `Stop`, `Replay` | what a crash loses; replay does not see the buffer; a failed rotation discards it |
| DolphinDB writer | `pkg/storage/dolphindb.go` | `batch`, `connected`, session, counters | `Connect`, `Write`, `flush`, `flushLoop`, `reconnectLoop`, `replayWAL`, `Stop` | flush / connect / replay interleavings, DB outages, duplicates, what reconnect sees |
| worker pool | `pkg/workerpool/pool.go` | `input`, `output`, `stopped`, `activeWorkers`, `queueDepth`, counters | `Start`, `Submit`, `worker`, `processMessage`, `checkScale`, `Stop` | Submit against Stop, autoscaler against Stop, closed output channel |
| supervisor | `pkg/process/process.go`, `manager.go` | `started`, `stopped`, `running`, `cmd`, `restarts` | `Start`, `monitor`, `Stop`, `Health`; `StartAll`, `StopAll` | Stop against the monitor's (re)start of the child |
| Binance adapter | `pkg/adapter/binance.go` | `conn`, `connected`, `running`, ctx, counters | `Connect`, `receiveLoop`, `reconnect`, `heartbeatLoop`, `sessionRotationLoop`, `Stop` | rotation calls Stop, which cancels the context Connect then uses |
| IB adapter | `pkg/adapter/ib.go` | same shape, TCP | `Connect`, `receiveLoop`, `reconnect`, `Stop` | handshake and subscribe failures |
| MT5 adapter | `pkg/adapter/mt5_zmq.go` | ZMQ socket, `stopCh`, `reconnectCount` | `Connect`, `Start` (blocking), `receiveLoop`, `reconnect`, `Stop` | Start never returns, retry budget never reset |
| canonicalizer | `pkg/canonicalizer/worker.go`, `mt5.go`, `pkg/allocator` | pooled events | `Process`, `parse*Into`, `fillUnknown`, `AcquireEvent`, `ReleaseEvent` | pool reuse, fallback event on error |
| proto bridge, codec | `pkg/canonicalizer/proto.go`, `pkg/pipeline/codec.go` | none | encode / decode | pure conversion |
| ZMQ publisher | `pkg/publisher/zmq.go` | `socket`, `running`, counters, heartbeat | `Start`, `Publish`, `publishHeartbeat`, `Stop` | Publish and heartbeat against Stop |
| order book | `pkg/orderbook/lockfree.go` | two atomic side pointers, `seq` | `SetBids`, `SetAsks`, `Bids`, `Asks`, `Seq` | reading both sides across concurrent writers |
| validator | `pkg/validation/validator.go` | counters | `Validate` (5 layers), `Stats` | error-rate feedback between messages |
| symbol mapper, sanitizer, parsers | `pkg/mapper`, `pkg/axiom`, `pkg/parser` | tables | lookups, float clamps, record parsers | pure |
| process wiring | `cmd/*/main.go` | goroutines, shutdown order | startup, shutdown | fan-in not awaited before Flush/Stop |
| health, config, logging, benchmark | `pkg/health`, `pkg/config`, `pkg/pipeline/runtime.go`, `pkg/benchmark` | metrics | HTTP, YAML, logging | I/O only |

### How the parts interact

- An adapter's `receiveLoop` puts raw messages on the channel `rawCh`; the goroutine `fanIn`
  of `cmd/adapter` takes them off, encodes them and calls `ipc.Client.Send`.
- `Send` puts a message into the in-memory queue or, once that was full (`spilling`), appends
  it to the spool file and leaves a token on `notify`. `drainLoop` replays the file over the
  current connection; a failed write, a `readLoop` that sees the connection end, or `Stop`
  calls `breakConn`, which leaves a token on `connBroken`.
- `ipc.Server` accepts connections and runs one `serveConn` goroutine for each, which calls
  the handler of the receiving process: `pool.Submit` in the canonicalizer, `Publish` and
  `Send` in the publisher, `DolphinDBWriter.Write` in storage. Nothing is acknowledged.
- The worker pool's workers call the canonicalizer's processor and put results on the output
  channel; one output loop encodes them and sends them to the next process.
- `DolphinDBWriter.Write` writes the event to the WAL first, then to an in-memory batch; a
  ticker and a full batch flush the batch to DolphinDB. `Connect` replays the WAL.
- Every `main` waits for a signal and then stops its parts in the order of the data flow.

### What makes each component correct

| component | correct means |
|---|---|
| IPC edge | a spooled record stays until it was written to a connection; order within a connection; one connection at a time; drainLoop never sleeps on work; Send, client Stop and server Stop end; a shutdown with Flush loses nothing |
| WAL | sync: a Write that returned nil survives any crash; batched: only a crash or an I/O error loses a record, and ticks make records durable; replay order is write order |
| DolphinDB writer | an event accepted by the log reaches the database or is replayed into it; shutdown ends and drains |
| worker pool, canonicalizer | every accepted frame is handed on or counted; nobody sends on the closed output; `queueDepth` is right; Stop ends |
| adapters | the message counter is exact; `connected` is true only with a connection; a lost connection is replaced; Stop ends the loop; the proactive rotation reconnects |
| publisher | each stage of the shutdown finds the one before it at rest: no handler holds a frame when Flush looks at the spool, no heartbeat runs when the socket is closed |
| supervisor | Stop leaves no child behind and returns; a crashed child is started again; a Stop costs no spooled record |
| order book | a reader can tell whether two sides belong together |
| canonical processing | a pooled event is released once and not used after |
| spool file | the file decodes to the records that were acknowledged, also with an incomplete record at its end |
| validator | what the feedback of the error rate leads to: when does it refuse every message |

Every place in this code that is hard to test is listed, with its line and the properties
that cover it, under `hazards` in PROJECT.json.

## 2. Modules

| module | models | EXTENDS |
|---|---|---|
| `UnixSocket` | external: the kernel's socket as the IPC code uses it | |
| `IpcClient` | `client.go`, and `spool.go` at the grain of whole records | `UnixSocket` |
| `IpcServer` | `server.go`, and `frame.go` as whole frames | `UnixSocket` |
| `Outbox` | abstract: what the IPC comments promise of spooled records | |
| `IpcLink` | one edge: client, server and socket; its properties; the refinement of `Outbox` | `IpcClient`, `IpcServer` |
| `IpcLinkProofs` | theorems about `IpcLink` | `IpcLink`, TLAPS |
| `DurableLog` | abstract: what the comments of both logs promise: one sequence that grows at its end | |
| `WriteAheadLog` | `wal.go`, `wal_batched.go`, `wal_writer.go`: both modes as one log with `mode` | |
| `DolphinDBWriter` | `dolphindb.go` over the log | `WriteAheadLog` |
| `Storage` | `cmd/storage/main.go`: start, shutdown, crash and restart; the properties of all three; the refinement of `DurableLog` | `DolphinDBWriter` |
| `StorageProofs` | theorems about `Storage` | `Storage`, TLAPS |
| `Stage` | abstract: every message that comes into a stage leaves it once, as a result of its own or in a counter | |
| `WorkerPool` | `pool.go` with an arbitrary processor | |
| `Canonicalizer` | `pkg/canonicalizer` as the pool's processor, and `pkg/allocator`: acquire, fill, encode, release of events | `WorkerPool` |
| `CanonicalizerProcess` | `cmd/canonicalizer/main.go`: handlers, output loop, shutdown order; the properties of all three; the refinement of `Stage` | `Canonicalizer` |
| `CanonicalizerProofs` | theorems about `CanonicalizerProcess` | `CanonicalizerProcess`, TLAPS |
| `Adapter` | what the three venue adapters have in common | |
| `BinanceAdapter`, `IbAdapter`, `Mt5Adapter` | what each does differently | `Adapter` |
| `AdapterProcess` | `cmd/adapter/main.go`: start, fan-in, shutdown; the properties | the three adapters |
| `AdapterProofs` | theorems about `AdapterProcess` | `AdapterProcess`, TLAPS |
| `SpoolFile` | `spool.go` at the grain of its two writes per record: torn records, the cap, oversize records; implements `Outbox` | |
| `OrderBook` | `lockfree.go`: both books at the grain of their atomic accesses | |
| `Validator` | `validator.go`: the layers and the feedback of the error rate, concurrent callers | |
| `SpoolFileProofs` | theorems about `SpoolFile` | `SpoolFile`, TLAPS |
| `SharedObjectsProofs` | theorems about the objects that threads share | `OrderBook`, `Validator`, TLAPS |
| `ZmqPublisher` | `publisher/zmq.go`: the socket, the heartbeat, Stop | |
| `PublisherProcess` | `cmd/publisher/main.go`: start, handlers, shutdown, death | `ZmqPublisher` |
| `Supervisor` | `process.go`, `manager.go`: monitor, Stop, StartAll, StopAll | |
| `SupervisedPublisher` | the publisher and the process after it as children of a Manager; the properties of all three | `Supervisor`, `PublisherProcess` |
| `PublisherProofs` | theorems about `SupervisedPublisher` | `SupervisedPublisher`, TLAPS |
| `MCParts` | `SpoolFile`, `OrderBook`, `Validator` and `SupervisedPublisher`, one per execution | these four |
| `PartsProofs` | theorems about `MCParts` | `MCParts` and the proofs of its parts |
| `MCIpcLink`, `MCStorage`, `MCCanonicalizer`, `MCAdapterProcess` | instances for TLC | the process modules |

### How state and actions correspond to the code

A variable is a field or a channel of the code under its own name wherever there is one
(`queue`, `spilling`, `conn`, `connected`, `notify`, `connBroken`; `batch`; `input`,
`queueDepth`; `rawCh`, `messagesRecv`). `dpc`, `rl`, `main`, `fpc`, `kpc`, `wpc`, `rpc`, ... say
where a goroutine is. A step is everything a goroutine does between two points at which
another one can see or change something it shares, so a critical section is one step and two
accesses to an atomic are two. In particular:

- `breakConn` takes and closes the connection under the mutex (`BreakTakes`) and clears
  `connected` afterwards (`BreakMarks`); `connect` publishes `conn` (`DrainDials`) and sets
  `connected` afterwards (`DrainConnected`). A drain holds the spool's mutex from its first
  record to its return (`SpoolLocked`), which is why a Send can wait for a socket.
- The log is `written` (in the files, oldest first), `synced` (how much of it is fsynced)
  and `buf` (in the bufio writer). A machine crash keeps any prefix that contains what is synced.
- A flush of the writer takes the batch, checks `connected`, and runs the script in steps of
  their own, because Connect and Write may come between them.
- A worker that takes a message, and the counter it counts down, are two steps, as are the
  channel send and the counter in `Submit`.
- The monitor's `cmd.Start` and its assignment of `p.cmd` are two steps (`MonitorStarts`,
  `MonitorAssigns`), because Stop may read `p.cmd` in between. The exit status and the cleared
  `p.cmd` are one, because nothing that differs can be seen between them.
- A store into the order book and its count in `seq` are two steps of the lock-free book
  (`StoreLockFree`, `Counts`) and one of the book with a mutex (`StoreLocked`). A reader takes
  number, bids, asks and number in four.
- The spool file is a sequence of units, a header or a unit of a body; a record is written by two
  steps (`AppendHeader`, `AppendBody`), and a crash or a failed write may come between or inside them.
- The publisher dies with its child: `PubDies` resets all but the spool file.
- A `select` with several ready cases may take each of them. A timer may fire whenever its
  goroutine waits for it and nothing bounds how long the other case takes.

Definitions whose comment begins with "Mistake:" are variants of the action below them, with a
plausible bug; no specification uses them. Each property is known to fail when the action is
replaced by one of them, so each property says something about the code.

## 3. Runs

| run | question | bounds |
|---|---|---|
| `ipc_link` | one edge: its safety, that it implements `Outbox`, and that a Send that waits for a drain, the client's Stop and the server's Stop end | 1 producer, queue 1, spool 2, and one of: 2 connections, 3 messages, 1 client crash, no Stop; the same with 2 messages and Stop; 1 connection, 3 messages, 1 stop or crash of the server; 1 connection, 4 messages, no Stop |
| `ipc_flush` (violated) | is Flush before Stop lossless? | 2 connections, 3 messages, no crash |
| `ipc_stale_break` (violated) | does `connected` mean a connection? | 2 connections, 3 messages, 1 server stop |
| `storage` | safety of log and writer in both modes, and that the log implements `DurableLog` | 3 events, 2 handlers, 1 extra flush, files of 2 records, buffer 1, 2 faults, 1 restart |
| `storage_live` | records become durable, shutdown ends | 2 events, 1 handler, 1 fault, 1 restart |
| `storage_stuck` (violated) | sync log: does every event reach the database in the end? | 1 event, 1 fault |
| `canonicalizer` | the pool, its events and its process, safety and termination, and that they implement `Stage` | 3 frames (a book snapshot, one that does not parse, a trade), 2 handlers, 1-2 workers, channels of 1 |
| `canonicalizer_fallback` (violated) | does an unparsable message leave as UNKNOWN? | 2 frames of any kind, 1 handler |
| `adapters` | each of the three adapters in its process | 2 counted messages, channel of 1, 1 reconnect attempt |
| `adapter_rotation` (violated) | does the 24 h rotation reconnect? | Binance, 1 message |
| `validator_rate` (violated) | does the rate spare sound messages? | as `parts` |
| `parts` | the parts that are checked alone: spool file against `Outbox`, both order books, validator, supervised publisher | spool: 3 bodies of 1 to 3 units (one above maxFrameSize, 2), cap 10, 4 records, 2 crashes or failed writes; book: 2 writers, 1 reader, 5 writes; validator: 2 callers, 6 messages, rate 1/3; publisher: 2 processes, 1 retry, grace 1, Flush 2, 1 handler, 1 frame, 2 crashes |

Why these bounds are enough for the interesting cases. *Edge*: the bounds are not at their largest
all at once; a behaviour stays within one of the boxes of `MCIpcLink` (`Boxes`). With three messages, a
queue of one and a spool of two, one message is queued, two are spooled, and a drain can fail
before, between and after them; the second connection replays what the first one carried, and the
crash can fall into any step of it; a stale `readLoop` needs exactly two connections. Stop meets a stale
`readLoop` and a crash with one spooled record, and a drain of two with one connection: it waits for one
connection at a time. Four messages fill the queue and the spool and leave a Send
waiting for a record that the server may never read. The boxes keep the liveness check within reach and disable nothing
that fairness makes happen; the safety properties are theorems for all bounds at once. One
producer suffices for the runs since all producers share one spool and order between
producers is not promised; the theorems hold for any number. *Storage*: two handlers race for
the writer's batch, `BatchSize` 2 of 3 events leaves a full batch and a partial one, files of
two records make a rotation fall between records that one flush covers, two faults allow a failed
rotation followed by a failed write. *Pool*: one place in each channel makes Submit
and workers block; two workers with `MinWorkers` 1 let the autoscaler spawn one during Stop;
two connections let a Submit be late. The snapshot's event has
levels and metadata that the trade's parser does not write, so a recycled event that were not clean would show, and
the message in between takes the path of the error. *Adapters*: three connection numbers tell the
current, the stale and the new connection apart and are reused, so the number of reconnects is
not bounded; a channel of one is full with the first message.

*Spool file*: one record of every kind and one more: a record before, a torn one, one behind it,
one above the limit; two tears make a torn record behind a torn one. The bodies hold units that read as a header, so
that misframing shows. *Order book*: a reader that is
fooled needs two stores between its reads and one before them. *Validator*: with a rate of 1/3 two failures among
four messages are hopeless for two callers, and a call that read the rate before may still pass. *Supervised
publisher*: two children because StopAll stops storage first; the first retry is made
and the second is not; a grace of 1 and a Flush of 2 keep the order of the code's 5 s and 10 s; one
frame is enough to be held by a handler, or to be spooled, at every stage of the shutdown. Two crashes allow
a restart that fails.

The symmetry of `storage` is over handlers and extra flushers and is not used where liveness is
checked. Deadlock is checked in every run: `LinkOver`, `StorageOver`, `CanonOver`, `Over`, `SupervisedOver`
and `PartsRest` are the only states a process may rest in for good, and the edges of the boxes of `ipc_link` without
a Stop (`Rests`). `storage_live` does not repeat the invariants of `storage`.

### Fairness

- A runnable goroutine runs (weak fairness on each goroutine's steps), timers and tickers fire,
  a read or write ends by its deadline. Nothing is assumed of senders, of a signal, of crashes, or
  of the remote side.
- Send (`SendRuns`) is strongly fair: the spool's mutex is free again and again only for
  moments, and Go's `sync.Mutex` hands itself to a waiter after 1 ms (starvation mode).
- Storage: strong fairness on `LoopDials` says a database that is dialled for ever answers
  once. Without it nothing could be said of replay.
- `ShutdownTerminates` assumes the output loop runs, that is, that the IPC `Send` it calls
  returns, which `ipc_link` checks. `PoolStopTerminates` holds without it.
- Adapters: only the receive loops are fair. `Recovers` and `RotationReconnects` assume a
  venue that answers one of infinitely many dials and stops dropping connections at
  some time, and IB's writes not to miss their deadline for ever (`VenueAnswers`), the latter also that the rotation goroutine runs.

- Supervisor: the monitors, Stop, the Manager and the timers run. Nothing is assumed of a child: it need
  not obey SIGTERM, flush, or end. A timer that has run out goes off before more time passes
  (`GracePasses`); `StopKeepsSpool` compares two timers, so it needs this.

### What the violated runs show

1. `ipc_flush`: nothing receives from the channel `queue`; the first `QueueSize` messages of a
   client are never sent and Flush, which looks at the spool only, does not notice
   (client.go:358 against the comment at client.go:345).
2. `ipc_stale_break`: a late `readLoop` of the connection before takes the new connection
   between `conn = ...` and `connected = true`; the client believes it is connected and has no connection
   (client.go:264, 316 against client.go:415). With an empty spool it sleeps, with records it spins.
3. `storage_stuck`: a failed script leaves `connected` true, so reconnectLoop never
   connects again and the failed batch is replayed only by a restart (dolphindb.go:400).
   A replay that cannot read the log or a file of it ends the same way: the writer stays connected and
   nothing replays again (dolphindb.go:613, wal.go:267; action `ReplayMisses`).
4. `adapter_rotation`: the rotation's Stop cancels the context its Connect and the loops
   need; the adapter is silent from then on (binance.go:322).
5. `canonicalizer_fallback`: what cannot be parsed gets an event UNKNOWN from `fillUnknown`; the
   pool drops it with the error (pool.go:245), and the output loop makes another event, of type TRADE and price
   0 (main.go:96-104), against worker.go:192 and main.go:93. The payload itself is kept.
6. `validator_rate`: the refusals of the error rate are failures too, so that after some bad messages nothing passes
   again (validator.go:305), against validator.go:136 and 297; that it is for good is theorem `HopelessStays`.

Met while modelling, without a run of their own:

- order across two connections is not a property here: each connection has a goroutine of its
  own in the server, so a frame of a broken connection may be handled after newer frames that
  were replayed over the next one, although client.go:35 speaks of "lossless and FIFO";
- `MT5ZMQAdapter.Start` does not return (mt5_zmq.go:135), so with MT5 enabled
  `cmd/adapter` never reaches the adapters after it, the health server and the signal; modelled as main being
  "blocked"; its retry budget counts over the life of the process (`Mt5GivesUp`);
- nothing cancels the MT5 adapter, so `AdapterStops` says nothing of it;
- main does not wait for `fanIn` before Flush and Stop (cmd/adapter/main.go:171-183);
- a Stop during Connect's subscription closes a nil connection; the recover hides it and
  `connected` stays true on a stopped adapter (`BinanceUndoPanics`);
- the heartbeat's `WriteMessage` may run next to the subscription's `WriteJSON`
  (binance.go:303), which the WebSocket library does not allow; a write is one step here;
- in batched mode a reconnect's replay reads files, so an event still in the bufio buffer whose batch was
  dropped is in neither the database nor the replay (dolphindb.go:404); `SyncAccountedFor` is about the sync log for this reason;
- nothing cuts off a torn record, so a record appended behind one, and acknowledged, is read as the rest of its
  body (spool.go:91), although spool.go:36 says that a loss is never introduced; what was acknowledged before it is still
  read first and in order, which is what `FileIsAccepted` states of such a file (`misframed`);
- one record above maxFrameSize, which `append` accepts, makes every later drain fail (spool.go:122);
- what a failed write left in the file is not counted in `curBytes`, so the file may exceed its cap;
- comparing `Seq()` before and after a pair of reads does not detect every write in between (lockfree.go:101): one store may
  not be counted yet, and then the pair was the book at some moment all the same; two stores of different writers
  may both be uncounted, and then it need not be. `SameSeqIsOneBook` states the first and excepts the second (`lone`);
- StopAll stops one process at a time, last first, and waits for each, where manager.go:67 says "Signal all first, then
  wait". Storage is therefore gone when the publisher flushes; its Flush waits
  until SIGKILL (default grace 5 s) comes before its own 10 s, which is what keeps the spool file (`StopKeepsSpool`);
- a second Stop of a process returns at once, so StopAll does not wait for a process that another caller is
  stopping; modelled are StopAll or one Stop, not both;
- a Stop that reads `p.cmd` between `cmd.Start` and the assignment signals nobody and waits for as long as the child
  lives (process.go:170, `Missed`); `StopEnds` states that this is the only way to wait for ever;
- a Stop before Start calls a nil cancel; the Manager does not do this and neither does the model;
- SIGTERM to a publisher that has not come to `WaitForSignal` kills it (`Untrapped`);
- no `cmd` uses the Manager of `pkg/process`, only its tests do: what the supervised publisher shows holds for the processes
  started under it;
- the publisher's `sendTimeout` is stored and not applied.

## 4. Proofs

`IpcLinkProofs` proves about `LinkSpec`, for every number of producers, messages, connections,
crashes, every queue, spool and socket capacity:

| theorem | states |
|---|---|
| `IInvHolds` | the inductive invariant `IInv` |
| `TypesAlwaysHold` | `[]TypeOK` |
| `NoSpooledRecordLost` | `[]SpoolKeepsUnsent` |
| `ConnectionsInOrder` | `[]ConnInOrder` |
| `OneConnectionAtATime` | `[]OneConnection` |
| `NoWakeUpLost` | `[]WakeUpPending` |
| `QueueOlderThanSpool` | `[]QueueBeforeSpool` |
| `DownServerIsQuiet` | `[]ServerDownIsQuiet` |
| `LinkImplementsOutbox` | `LinkSpec => Promise!OutboxSpec`: the refinement |

The only assumptions are the named ones on the constants (naturals, capacities at least one).
None of the properties is inductive alone; `IInv` adds what makes them so:

- `SpoolIsTail`, `DrainIsWithin`: the spool is a tail of everything ever appended, and whatever
  precedes it, or the position a drain has reached, has been written to a connection;
- `SegmentOf`, `CurrentEndsAtCursor`: every connection carries a segment of that history, and
  the current one's ends where the drain stands. This is what makes the next
  write the next record; it fails between a failed send and the break, which is why the
  invariant excepts that moment;
- `OneMark`, `MarkingHoldsDial`, `DisconnectedHasNone`: at most one goroutine is between taking
  a connection and clearing `connected`, and meanwhile nobody dials. From these follows
  that a dial finds no connection, although `connected` may be stale;
- `BrokenIsSignalled`, `SpooledIsSignalled`: a token is pending whenever drainLoop has passed
  the check the token is for;
- `NotSpillingYet`, `QueueIsOld`: nothing is queued once something is spooled;
- `ServerOwnsOpen`: each open server end belongs to acceptLoop or a serveConn, so
  closing what is tracked, or letting its goroutine end, closes everything.

The proof of each part goes over the actions that change its variables; the `...Frame` lemmas
say which these are. The refinement maps each step to `Put` (an append), `HandOver` (a first
write), `Forget` (a truncation), `Discard` (Stop), or a stutter.

`SharedObjectsProofs` proves about `ValSpec`, for every number of callers, every rate and any number of messages:

| theorem | states |
|---|---|
| `CountersAddUp` | `[]ValTypeOK`: validated = passed + failed + in progress |
| `HopelessStays` | `HopelessForGood` |

The bound inside `Hopeless` has the number of callers as slack: of the messages in progress, which `CountersAddUp`
counts, each may still be added to those the rate is taken of, and even then it is too high; so whoever looks at the rate
next refuses, and who has looked and not counted yet does not pass. This is an argument about a cardinality;
`BeginsAddsOne` and `CountsRemovesOne` are its lemmas.

and about `BookSpec`, for any number of writes, readers and writers, with a mutex and without:

| theorem | states |
|---|---|
| `BookInvHolds` | the inductive invariant `BookInv` |
| `BookTypes` | `[]BookTypeOK` |
| `EqualSeqIsOneBook` | `[]SameSeqIsOneBook` |

The number is behind the stores by those that are not counted (`StoresAreCounted`), a cardinality over the writers. Where that is at
most one (`Lone`, which a reader that compares its numbers remembers in `lone`) `BookInv` follows the reader: while the number is the one
it saw first, its bids are current or were replaced by one uncounted store, before which they stood beside the asks of
now (`BidsFit`); its pair, once complete, was the book (`PairFits`). Since the number has not changed, no store was counted in
between, so stores uncounted earlier would still be; this carries the argument over any number of writers.

`PublisherProofs` proves about `SupervisedSpec`, for every number of processes, handlers, frames, crashes, retries and
every timeout:

| theorem | states |
|---|---|
| `PInvHolds` | the inductive invariant `PInv` |
| `SupervisedTypes` | `[]SupervisedTypeOK` |
| `StopLeavesNoChild` | `[]NoChildLeft` |
| `ShutdownIsStaged` | `[]StagesAreQuiet` |
| `SupervisorKeepsSpool` | `StopKeepsSpool`, if `GracefulTimeout < FlushTimeout` |

`PInv` has three parts. `SupInv` is the supervisor alone: a child exists only while its monitor is between start and wait
(`ChildHasMonitor`), a Stop returns only after the monitor (`ReturnedIsDone`), and StopAll has passed only processes
that are stopped (`PassedIsStopped`). `PubInv` is the publisher alone: spooled, discarded and held frames are at most
the received ones (`FramesAddUp`), the socket and the heartbeat keep their order (`ZmqInOrder`). `Together` ties them: the
process lives as its child does (`LivesAsChild`), a SIGTERM from nobody else is the supervisor's, whose timer runs from then on
(`TermIsStops`), and the time Flush has used is at most what the grace has (`FlushWithinGrace`), so the grace
is used up first. Each step is shown to be one of few views (`SupView`, `PubView`), over which
the parts are proved separately.

`StorageProofs` proves about `StorageSpec`, for both modes, every number of events, handlers, asynchronous flushes,
faults and restarts, and every size of buffer, file and batch:

| theorem | states |
|---|---|
| `LogInvariant` | the inductive invariant `LogInv` of the log in its process |
| `SyncWritesAreDurable` | `[]SyncIsDurable` |
| `LogKeepsOrder` | `[]LogInOrder` |
| `StopDrainsTheLog` | `[]StopDrains` |
| `LogLosesOnlyToFaults` | `LosesOnlyToFaults`, an action property |
| `StorageShape`, `StorageTypes` | `[]TypeOK`, with what holds of the writer's goroutines |
| `WriterAccountsForTheLog` | `[]SyncAccountedFor` |
| `StorageImplementsLog` | `IsDurableLog`: the refinement |
| `StableRecordsStay` | what is fsynced stays, in its place, in every step of both modes |

`LogInv` says of the log, `written \o buf`, that it is the appended events in order with some left out
(`AppendedInOrder`: the next number is above all of them), that a sync log leaves nothing in the buffer
(`SyncUnbuffered`; this is why what it acknowledges is synced), that it runs while the process is up (`RunsWhileUp`), and that
without a fault or a crash it holds what it accepted and can write it (`Faultless`). Each operation is shown to be one move
of the log (`Moves`: it is extended, or cut at its end by a fault), and the properties follow from the moves.
For the writer, an acknowledged event is followed from place to place (`Traced`: database, the records the last replay passed over, batch, a handler between log
and batch, a flusher, a replay) while the writer is in step with a sync log (`InStep`); the invariant is `AccountedFor`.
Two facts tie it to the log: a replay reads all that is acknowledged or passes it over, which
`unread` records (`PassedOver`), and while a Connect is between its
session and the read, nothing is claimed.

The refinement hides the buffer, the files and their rotation: the abstract log is `written \o buf`, of which `synced` records are
durable. A Write is `Accept`, or `Reject` when it returned an error and its record is in the file all the same; a flush and a
rotation, or the failure of one, are `Maintain`; `Stop` is `Close`; a restart, after Stop or a crash, is `Start`. What
it adds to the properties is what holds between them: nothing that is durable ever leaves the log, whatever fails, and what a
step takes away is an end of it (`StableRecordsStay`). `LogInOrder` follows from
it, which is why the run checks the refinement and the theorem `LogKeepsOrder` states the order. One invariant is added to `LogInv`: no accepted event has a number that is still to be given (`AcceptedHaveArrived`), so a record that arrives
is newer than all accepted before, those lost in a crash included.

`CanonicalizerProofs` proves about `CanonSpec`, for every number of handlers, workers, messages and of their kinds, and
every size of the channels:

| theorem | states |
|---|---|
| `CanonInvariant` | the inductive invariant `CanonInv` |
| `CanonTypes` | `[]TypeOK` |
| `DepthFollowsTheQueue` | `[]DepthIsQueue` |
| `ClosedIsClosed` | `[]NoSendOnClosed` |
| `ShutdownLosesNothing` | `[]NothingVanishes` |
| `EncodedFromItsOwn` | `[]WireIsOwn` |
| `CanonicalizerIsStage` | `IsStage`: the refinement |
| `FramesLeaveOnce` | nothing is both handed on and counted, and what was handed on stays as it was |

`CanonInv` is an inventory. `OnePlace` and `NoTwins`: every message submitted is in exactly one place, a Submit, a
channel, a worker, the output loop, or a counter. `CountFits`: `activeWorkers` is the number of live workers and one more
between the autoscaler's increment and its check. `Staged` is the order of the shutdown, and `Drained` its consequence:
the last worker leaves an empty queue, and it can leave only when no handler will fill it. From these
`NothingVanishes` and `NoSendOnClosed` follow. `EventsAreOwned`, `LiveWhere` and `EnoughEvents`: an event outside the pool belongs to one message and
has only its values, those in the pool are blank, and there is always one to acquire (a
cardinality argument over messages). `DepthFits` bounds `queueDepth`: a Submit that has sent and not yet counted
leaves it below the length of the channel, so it may fall as far below zero as there are handlers.

The refinement maps the process to a stage without channels, workers or events: a message is inside from the moment a handler
has numbered it until it is handed on or in a counter. The first step of a Submit is `Take`; the output loop's Send is `HandOn`; the rejection of
a Submit, the worker's timeout and its panic are `Drop`; main's two boundaries are `Stop` and `End`; all else stutters.
`OnePlace` shows that whoever holds a message holds one that is inside, so nothing is counted and handed on, or either of them twice,
and what has been handed on never changes (`FramesLeaveOnce`, proved from the abstract steps alone). That the
result is of the message alone comes from `WiredIsOwn`, that its type is one the parsers set from `WiredIsTyped`, and
`End` from `NothingVanishes`, which the run therefore does not check again.

`AdapterProofs` proves about `Spec` of `AdapterProcess`, for every configuration of the three adapters and every number of messages,
connections, attempts and places of the channel:

| theorem | states |
|---|---|
| `AdapterInvariant` | the inductive invariant `AdapterInv` |
| `AdapterTypes` | `[]TypeOK` |
| `ConsumersFindItCounted` | `[]CountedBeforeSeen` |
| `FlagMeansConnection` | `[]ConnectedHasConn` |

`OneConnects`: a Connect is main's before Start or `reconnect`'s in a receive loop, so an adapter never has two. That is
what `FlagAfterConn` needs: between the assignment of `conn` and that of `connected` nobody but a Stop takes the
connection away. `CountsFit` is `CountedBeforeSeen` with its bounds; it counts occurrences in the channel, whose lemmas
(`CountAppend`, ...) come first.

`SpoolFileProofs` proves about `SpoolSpec`, for every set of bodies, `MaxFrame`, cap and number of appends, failed writes and crashes:

| theorem | states |
|---|---|
| `SpoolInvariant` | the inductive invariant `SpoolInv` |
| `SpoolTypes` | `[]SpoolTypeOK` |
| `DrainReadsWhatWasAccepted` | `[]FileIsAccepted` |
| `SpoolImplementsOutbox` | `SpoolIsOutbox`: the refinement |

`Decode` is a recursive function over the positions of the file. That it is defined at all (`ReadingExists`, `ReadingIsUnique`), and
what it returns for a file in which records lie one behind another (`DecodeOfRecords`), needs induction over data. The library's
induction theorems take an operator as a parameter, which the provers cannot instantiate; but `<` on the naturals is
well-founded, which is a fact without one, so a non-empty set of naturals has a least element
(`LeastNatural`), and from it comes induction from the end of the file to its beginning over a set of positions (`Downward`).
`SpoolInv` says that there are positions at which the kept records lie (`FileHolds`): each header tells where the next is, and behind the last
there is nothing, a torn record, or the header that `append` is following with its body. A write behind them does not move
them (`LaidOutGrows`); a body behind its header makes one more (`LaidOutAppend`). `DrainFollows` adds
that drain has read the kept records and is not past what was handed over, from which a truncation loses nothing.
These hold until something is appended behind a torn record (`misframed`). What holds afterwards too is `KeptLieFirst`: the records
acknowledged before do not move, and so whatever lies behind them a drain that reads anything
reads them first (`DecodeBeginsWith`). What is acknowledged behind a torn record is lost (section 3), and nothing is proved of it.

The assumptions of all proofs are the named ones on the constants, which the runs evaluate: naturals, capacities of at least one,
finite sets of workers and handlers (`SubmittersAssumption`; the code has one handler for each connection), nonempty bodies.

`PartsProofs` proves about `PartsSpec`, the composition that the run `parts` checks:

| theorem | states |
|---|---|
| `PartsAreFaithful` | `PartsSpec` implies `SpoolSpec`, `BookSpec`, `ValSpec` and `SupervisedSpec` |
| `PartsTypes` | `[]TypeOK` of `MCParts` |
| `PartsAreSafe` | every other safety property of that run, `StopKeepsSpool` if `GracefulTimeout < FlushTimeout` |

The parts share no variable and a step of one leaves the others alone, so checking them together checks the parts themselves,
and what is proved of them holds of the composition.

Every invariant, every action property and every refinement of the passing runs is stated by a theorem, about the specification that the
run checks (without its fairness, which only restricts it further). Only model-checked is liveness (`SendTerminates`,
`StopTerminates`, `ServerStopTerminates`, `EventuallyDurable`, `StorageStopTerminates`, `PoolStopTerminates`, `ShutdownTerminates`, `Recovers`,
`AdapterStops`, `StopEnds`, `CrashedIsRestarted`), because fairness and ENABLED are out of the prover's reach. The properties of the violated runs are false. `HopelessForGood` is proved and
not run: it is what makes the state that `validator_rate` reaches a dead end.

## 5. Abstractions

- Payloads, encodings and the text of messages are left out: a message is its producer and
  number, an event a number, an adapter's message the name of the adapter.
- A spool record and a frame are whole on the edge; `SpoolFile` has the parts of a record. There a
  length is one number instead of four bytes: the fragment that a failed write of a header leaves is a number that nothing follows
  (`AppendHeaderFails`), where four bytes made of it and of what follows could also be zero or above the
  limit. A Truncate or Seek that fails is left out.
- In the publisher process the client is the number of its spooled records: what stays in the in-memory queue, which
  is never sent (see `ipc_flush`), and what is refused is not counted. A frame does or does not decode; messages and counters of ZeroMQ are left out.
- The validator has its default rules and a rational rate; the counters of each layer and the batch helpers are left
  out.
- The supervisor's `Health`, its parent context and a second, concurrent Stop are left out. A child that is not the publisher
  lives, ends when it likes or on SIGTERM, or ignores it.
- The WAL's record format, file names and the age-based `CleanOld` are not modelled;
  an I/O error may strike any write, flush, sync or rotation, `MaxFaults` times.
- Of a canonical event the model keeps whose values it has: `main` for the fields every parser writes
  and `rest` for levels and metadata. Prices, symbols and times are left out, and so are panics of
  the parsers, which no input is known to cause.
- An encoding or a `Send` that fails is logged by the output loop; the model does not tell the two
  from a Send that succeeds, which the IPC edge is about.
- A DolphinDB script succeeds or fails as a whole. It and a dial return: neither has a timeout (dolphindb.go:176,
  198), and one that never returned would keep the shutdown from ending. A replay reads the log in one step, and the records it
  misses are any one stretch of it, of which whole files are a case.
- An adapter has symbols and a backoff list. With an empty list of symbols the Binance adapter's Connect fails on a
  live connection every time (binance.go:110) and it never recovers; that of IB (ib.go:149) fails as a write that misses its
  deadline does, which is modelled.
- The statistics the properties do not mention, and Health, are left out.

### Not modelled

- Parsers, symbol mapper and sanitizer: pure functions on bytes and floats, whose results depend on formats and
  rounding and on no order of events.
- The health server, metrics, configuration and logging: input and output around the system.
- The benchmark: a measurement harness. `ipc.pb.go`: generated.
- The WAL's age-based `CleanOld` and its record format, `GetStatistics` and the per-layer counters of the validator, as above.

## 6. Plan

Done: the IPC edge, storage, canonicalizer and adapters; the spool file, the order book and the validator; the publisher under the
supervisor; theorems for the safety properties of all of them; the abstract log and the abstract
stage, with their refinements. What is left:

1. `AdapterLink`: `fanIn` composed with the client, for what a shutdown of the adapter process loses.
2. The safety lemmas that the liveness properties rest on, as far as they are invariants: for each wait, that who is
   waited for is at a step it can take.
