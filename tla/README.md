# Verification of the TESTRADE telemetry hub

TLA+ models of the parts of this repository that move events, messages and
trading decisions between threads and processes, the TLC runs that check them,
and TLAPS proofs of what matters most. Definitions are translated from the
source; `PROJECT.json` maps each of them to the lines it stands for.

    tlc -workers 2 -config MCEventBus.cfg MCEventBus.tla
    tlapm EventBus_proofs.tla          (and the other *_proofs modules)

## 1. The system

TESTRADE is a Python trading assistant. A screen-reading process recognises
positions in a broker's window, the core turns changes into trade signals and
orders, and everything that happens is sent as telemetry to Redis streams,
from which GUIs read and to which they write commands.

```
 price feed ──> disruptor ──┐                       ┌─> Redis streams ─> GUI
 OCR process ─> core:  EventBus <─> services        │        │
 broker ─────>              │                       │        │ commands
                            └─> IPC client ──ZMQ──> Babysitter <┘
                                 (mmap buffer)       (disk buffer)
```

| Component | State | Operations | Talks to |
|---|---|---|---|
| `core/event_bus.py` | deque of events, weak sets of handlers, processing thread, stop flag | subscribe, unsubscribe, publish, dispatch loop, start, stop | every service of the core: publishers' threads, handlers run on its own |
| `core/bulletproof_ipc_client.py` | per lane: queue, worker, PUSH socket, memory-mapped circular file with a header | send_data, worker loop, buffering, replay, close | callers in the core and in the telemetry service; the Babysitter over ZMQ |
| `services/babysitter/babysitter_service.py`, data path | bounded queue, workers, Redis connection with back-off, buffer files on disk | receive, publish with retry, write, rotate, replay, prune, start, shutdown | PULL sockets, Redis, the file system |
| same, GUI relay, and `services/session_recorder.py` | consumer group in Redis, PUSH sockets, session file | read, forward, start and stop recording, acknowledge | Redis, core, OCR process |
| `core/services/market_data_disruptor.py` | two rings, write cursor, a read cursor per consumer | on_trade, on_quote, dispatch loop, start, stop | price fetching; consumers |
| `modules/trade_management/ocr_scalping_signal_orchestrator_service.py`, `snapshot_interpreter_service.py`, `modules/utility/fingerprint_service.py` | queue of snapshots, previous snapshot per symbol, last fingerprint sent, a state lock | take a snapshot, interpret it, size and publish an order request | filter, positions, EventBus |
| `modules/trade_management/master_action_filter_service.py` | per symbol: settling flags, deadlines, baselines | record add/reduce, filter, reset | the orchestrator |
| `modules/risk_management/risk_service.py` | thresholds, market data | pass a request on or reject it | EventBus |
| `modules/trade_management/trade_manager_service.py`, `trade_executor.py`, `order_strategy.py` | trading switch, poll thread | handle a validated request, execute it, poll and compare positions | trades, orders, positions, broker |
| `modules/trade_management/trade_lifecycle_manager_service.py` | trades with lifecycle states, ledger, callbacks | create, find, activate, submit, fail, synchronise; finalise, close | trade manager, position manager |
| `modules/trade_management/position_manager.py` | position per symbol, its last fingerprint | fill, quantity push, full push, synchronise | EventBus, trade manager |
| `modules/order_management/*` | orders by local id with versions, id links | create, update if the version matches, fill, link, finalise, time out stale ones | executor, EventBus |
| `modules/broker_bridge/lightspeed_broker.py` | socket, reader thread, maps of ids | send an order, publish statuses, fills, rejections and pushes, answer a poll | broker, EventBus |
| OCR process, price fetching | caches, model results, sockets | recognition, protocol | EventBus |
| start-up, telemetry, health, GUI, IntelliSense, mission control | wiring, counters, views | periodic or once | all |

### What is hard here

* **Threads and callbacks.** Publishers race `stop()`; a thread that `stop()`
  failed to join works on beside its successor; handlers come and go while an
  event is being dispatched; replay, pruning and workers share buffer files.
* **Failure.** Redis goes away before or after it applies a command; the peer
  of a socket goes away; processes crash between two steps; opening, writing
  and rewriting files fails.
* **Limits.** A deque that drops its oldest event, queues that refuse, a pipe
  that fills up, a circular file that overwrites itself.
* **Stale reads.** A position is read, decided upon and acted on seconds later,
  by threads that learn of fills, pushes and poll answers in different orders.
* **Order and progress.** Retries and replays must not reorder or duplicate
  more than the lost replies explain, and must not starve.

### What makes each component correct

* *EventBus*: an event is handed to a subscription at most once and in order;
  a standing subscription gets what is dispatched; nothing disappears without
  being stale, overflowed or cleared; a stopped bus is quiet; a running one
  makes progress.
* *IPC client*: what `send_data` accepted is sent, held or lost for a known
  reason; the file's head can always be read; order; the queue is served.
* *Babysitter data path*: what was received is in Redis, in memory, on disk or
  lost for a known reason; duplicates are explained; replay never touches the
  file being written; what can be replayed is.
* *GUI relay*: commands are forwarded in order and once per group; what is
  acknowledged is settled; replaying the history of commands leaves the
  recorder where they put it; a command that a target refuses holds up none
  beyond its batch.
* *Disruptor*: a consumer is handed each tick once and in its turn, as itself
  or as what took its slot; what was overwritten was counted; consumers that
  lag catch up.
* *Master action filter*: consecutive orders of a kind are a settling time or
  a threshold apart, whatever the workers' interleaving; the two kinds of
  settling exclude each other.
* *Positions*: the position with what is on its way makes up the broker's
  account, unless an event is lost, a sale is booked as a purchase or a poll
  is applied over fills.
* *Orders and trades*: nothing is sold that is not held unless sales overlap;
  a trade that failed to open gets no order; trades never change back.

## 2. Modules

| Module | Role |
|---|---|
| `EventBus` | the bus |
| `EventBus_proofs` | its theorems |
| `MCEventBus` + `MCEventBus.cfg` | its run |
| `Babysitter` | the data path of the Babysitter |
| `Babysitter_proofs` | its theorems |
| `MCBabysitter` + `MCBabysitter.cfg`, `...Drain.cfg`, `...Rewrite.cfg`, `...Current.cfg`, `...Full.cfg` | its runs |
| `IpcClient` | one lane of the IPC client |
| `IpcClient_proofs` | its theorems |
| `MCIpcClient` + `MCIpcClient.cfg`, `...Replay.cfg` | its runs |
| `GuiCommandRelay` | the GUI relay of the Babysitter and its recorder |
| `GuiCommandRelay_proofs` | its theorems |
| `MCGuiCommandRelay` + `MCGuiCommandRelay.cfg`, `...Resend.cfg` | its runs |
| `MarketDataDisruptor` | the disruptor |
| `MarketDataDisruptor_proofs` | its theorems |
| `MCMarketDataDisruptor` + `MCMarketDataDisruptor.cfg` | its run |
| `MasterActionFilter` | the master action filter for one symbol |
| `TradeLifecycle` | the operations on trades |
| `TradeLife` | abstract specification: what may become of a trade |
| `PositionManager` | the operations on a position |
| `TradingPath` | the four composed with OCR workers, bus thread, poll thread and broker |
| `TradingPath_proofs`, `TradingBook_proofs` | its theorems; the second has the one about the position and the account |
| `MCTradingPath` + `MCTradingPath.cfg` | its run |
| `SetInduction` | induction over the natural numbers, for the proofs |

A definition whose comment begins with "Mutant:" stands next to the one it
imitates and differs from it as a plausible mistake would. No run uses it: it
is there to be put in place of the original, to see that a property notices.

### EventBus

`queue`, `stopped`, `current`, `subs` are `_queue`, `_stop_event`,
`_processing_thread`, `_subscribers`. An event is its position in `log`, the
order of the appends, so the deque holds numbers. Each processing thread has a
program counter, its batch, the clock it read and the handlers it still has to
call. The steps are cut where the code takes or releases the lock or calls
out:

| Code | Actions |
|---|---|
| `publish` | `PublishCheck` (flag, no lock), `PublishAppend` (under the lock, with the overflow) |
| `_process_events` | `Take` or `Exit` (under the lock), `ReadClock`, per event `DropStale` or `CopyHandlers` (under the lock), per handler `CallHandler`, `HandlerReturns`, then `FinishEvent`, `FinishBatch` |
| `stop` | `StopRequest`, `JoinReturns` or `JoinTimesOut`, `StopClear` |
| `start` | `Start`, which makes the thread `NextThread` chooses |
| garbage collection of a weakly held handler | `Collect` |

A handler may publish (`MayPublish`), and one that raises is logged, which
`HandlerReturns` covers. `fate`, `got`, `since` and `late` are history:
how each event left the bus, the calls made, when a subscription began, and
whether a join ever timed out.

Left out: logging and metrics; a handler that itself calls `stop()` or
`start()`; `subscribe()` of what is already subscribed (it changes nothing).

### Babysitter

`queue` is `processing_queue`; `disk`, `current`, `open` are the buffer files,
`current_file_path` and whether the handle is usable; `rfile`, `rtodo` are the
file under replay and what of it is not yet published. A message is a model
value; `Multipart` are those with binary parts, `Malformed` those that make no
task (too few parts, metadata that is not JSON, anything else that raises on
receipt), `Rejected` those that Redis answers with an error of their own.
`Receive` takes a message off its socket whatever becomes of it: on the queue,
dropped as malformed, or dropped because the queue is full. A multipart
message counts as in Redis when its binary parts are there too (`InRedis`);
`WorkerBlobs` may store them or fail, and then the message is lost with the
cause "blobs", though its metadata is in the stream. `Connect`, `Xadd`, `XaddStopped` and
`Again` are `_publish_to_redis_with_internal_retry`, run by the workers and by
the replay thread; what follows differs (`AfterSuccess`, `AfterFailure`).
`Xadd` has the four outcomes of a command: applied; applied and the reply
lost; not applied, connection lost; refused.

The replay's parser knows the records of `write()` only. `Readings` says what
it makes of a file with records of `write_multipart()`: either it gives up, or
a run of records that begins with the first and ends at or after the last
multipart one comes out as one entry of junk.

The worker's health check and the first `get_client()` of the publisher are
one step; the connection manager's growing delay is one flag. Not modelled: a
partial record left by a failed or interrupted write, health publishing,
session recording, and the decompression of a payload. Nor is what happens to
binary parts once stored: they expire after an hour, and messages that share a
correlation id, as all without one do ("unknown"), overwrite each other's.

`lost` records which of the known causes took a message, `doubtful` which
additions to a stream left no trace that they were made. The properties say
that no *other* message is lost or duplicated.

### IpcClient

One lane; the three share nothing but the shutdown flag. `queue`, `batch` are
the lane's queue and `messages_to_process`; `pipe` is the outgoing pipe of the
PUSH socket; `start`, `wptr`, `count` are the intact frames of the mapped file,
`write_ptr` and `message_count`. Frames take as many cells as their size says,
so that overwriting and running past the end of the file are what they are in
the code. `read_ptr` is not a variable: it is advanced only after a `recv()`
that never returns on the sockets this client makes, so it stays 0.

`_add_to_mmap_buffer` writes a frame slice by slice and the header after it, and
a crash, or `close()` after a join that timed out, may fall between any two.
`BeginFrame` overwrites some of the frame's cells, `FillFrame` the rest, and
`WriteHeader` makes it count; `frame` is the message in the making, and
`FrameCutShort` the exception when the file was closed under the writing. The
header is one slice and one step. So is the write that runs past the end
(`BufferTorn`), which may stop after any of its cells. A torn frame at the
head reads either as nothing (`ReplayUnreadable`) or as a message that nobody
sent, which the model writes as `NoMsg` in the pipe and at the peer. `cut`
is history: the frame at `write_ptr` was begun and abandoned.

Of ZeroMQ the model uses: a PUSH socket holds up to `Hwm` messages for a peer;
what is in it when it is closed with linger 0 is gone; it cannot receive; a
REQ socket and a PULL socket do not exchange messages. These, the peer and the
operating system are marked external in the map.

Not modelled: the choice of a lane by stream name, and offline mode, in which
the constructor returns before any of this exists.

### GuiCommandRelay

A command is its position in `stream`. Of Redis the model keeps, per consumer
group, the last command delivered (`cursor`) and what of that is not
acknowledged (`pending`). Groups are named after process ids and outlive
processes, so a successor begins at the first command, unless it gets an id
that was used before and goes on where that one was. `pc`, `batch` and `acks`
are the consumer thread; `socket` and `recorder` are set up by `Launch`,
which may leave any of them out. `Read` and `ReadReplyLost` deliver alike; in
the second the answer does not arrive. `Forward` and `Refuse` are both open to
a socket that is there: whether the pipe of a PUSH socket has room depends on
its peer, and what becomes of a command in it is outside this model. Shutdown
runs on the main thread, so `CloseSocket` may come between any two steps of
the loop.

Not modelled: what the recorder writes, and the retry delay of the loop.

### MarketDataDisruptor

`write_cursor`, `read_cursors` and `buffer` are the cursors and slots of both
rings, a slot holding the number of the tick last written to it. One thread
calls `on_trade` and `on_quote` (that of the price feed), so a call is in one
place at a time: `Check`, `Claim`, `Write`. The assignment to a slot is one
step of the interpreter; the cursor has moved before it. The dispatcher reads
the fields of a slot through a view of it, one after the other: `ReadSymbol`
takes the first, `HandOver` the others. `handed` and `overrun` are history.

A thread can be started once, so `start()` after `stop()` fails, and
`Start` is enabled before the first only. All receivers take both kinds of
tick. The docstring of `_dispatch_loop` says slow consumers do not block fast
ones; as one thread calls them all, what holds is that a slow one delays the
others and none is skipped.

The price feed's constructor tests a name that is not among its parameters
(`modules/price_fetching/price_fetching_service.py:119`), so as the
repository stands the disruptor has no feed; the model has one, as the
interface intends.

### TradingPath and its parts

`MasterActionFilter`, `TradeLifecycle` and `PositionManager` give the
operations of three services under their own locks; the last two give them as
functions of the trades and of the position, since some callers apply two in
a row. `TradingPath` has the threads that call them, cut where a thread
releases a lock, waits or hands over:

| Code | Actions |
|---|---|
| worker of the orchestrator | `TakeSnapshot` (dequeue and duplicate check, before the lock), `Unchanged` or `ReadPosition` (lock taken), `NoSignal`, `Suppress` or `Decide` (interpretation, filter, quantity), `NoPrice` or `Publish` (request, record, fingerprint, previous snapshot; lock released) |
| risk service, on the bus thread | `RiskCheck` |
| `_handle_validated_order_request`, on the bus thread | `SkipRequest` or `Admit`, `ForceTrade`, `ForceActive`, then `Refuse`, `RefuseTwin`, `SendFails` or `Send` |
| position manager, on the bus thread | `HandleFill`, `HandleQuantity`, `HandleFull` |
| `_poll_broker_loop` | `PollFetch`, `PollCompare` or `PollAgrees`, `PollSync` |
| broker and its reader thread | `BrokerFills`, `BrokerFillsUnpriced`, `BrokerFillsAsBuy`, `BrokerEnds`, `BrokerPushes` |
| bus: a stale event, a full deque, a fill refused | `Drop` |

A snapshot is `[hint, cost, pnl]`; hints are "closed" and "long", the two the
interpreter reacts to. Equal snapshots may still differ in the P&L per share,
which the fingerprint leaves out, so one that repeats the last may be
interpreted again. The risk checks, the executor's checks and the strategy are
choices between going on and giving up, as they depend on prices.

`BookFollowsAccount` lets the events on the bus be handled one after the other
(`Drained`) and compares the shares that come out with the account.

`exact`, `overlap`, `lastAdd`, `lastReduce` and `poll.ahead` are history. `exact`
says that the position and the fills on the bus still make up the account: it
ends when a fill is dropped, comes without a price, a sale's fill comes
without a side and is published as a purchase, or a poll answer is applied that does not count the fills on the bus as they are; a poll that
agrees, or synchronises, with no fill or push left from before its answer
brings it back. `overlap` says that some sale was sized while another was
between its decision and its last fill, or from a position that was not the
account's.

What reading the code for this model brought up, and the model has:

* `TradeManagerService.initialize` has no caller. Without it there is no
  reconciliation at the start, no poll thread and no listener for the risk
  service's critical verdict. `StartUp` has both cases, with and without.
* `_load_initial_broker_positions` looks for "quantity" where the broker bridge
  has "shares", so the position manager starts from nothing (`Unknown`).
* The handlers of `OrderEventProcessor` and of `FingerprintService` are bound
  methods given to a bus that keeps weak references: they are gone before
  the first event. Orders keep the status they were created with, trades are
  never closed by a fill, and a fingerprint is never cleared by one.
* `get_active_open_buy_orders`, which the interpreter asks for before an OPEN,
  does not exist, and its absence is taken for "none": a second OPEN is held
  back by the position alone.
* A fill whose side is missing or unknown is published as a purchase
  (`modules/broker_bridge/lightspeed_broker.py:2256-2261`), and the side is looked
  up only when the symbol is missing as well. `BrokerFillsAsBuy` is the sale to
  which that happens.
* The executor's fingerprint reads the realised P&L under a name positions do
  not have, so it is always 0 there.

## 3. Runs

| Run | Shows | Bounds |
|---|---|---|
| `eventbus` | `AtMostOnce`, `DeliveryOrder`, `SingleDispatcher`, `QuietAfterStop`, `NoSilentLoss`, `DeliveredToStanding`, `EventuallySettled` | 1 publisher besides the handlers, 2 processing threads (so one restart, with or without a thread left over), 2 event classes of which one is BaseEvent, deque of 1, 2 events (so it overflows; batches of several events are left to the theorems), 1 tick (so an event may be stale) |
| `babysitter` | `NoUnexplainedLoss`, `DuplicatesExplained`, `ReplayAwayFromWriter` | 4 messages, one multipart, one malformed and one refused by Redis, 1 worker, queue of 2, files of 2 entries, 3 files, 1 outage, 1 crash, 1 disk fault |
| `babysitter_drain` | `ClosedFilesDrain`, `QueueDrains` | 2 messages, one multipart, 2 workers, files of 1 entry, 4 files, 2 outages, 1 disk fault |
| `babysitter_rewrite` | violation of `RewriteKeepsEntries` | 3 messages, 2 outages |
| `babysitter_current` | violation of `BufferedIsReplayed` | 2 messages, 1 outage |
| `babysitter_full` | violation of `BackPressure` | 3 messages, a queue of 2, no failures |
| `ipc_client` | `NoUnexplainedLoss`, `HeadIntact`, `AtMostOncePerLife`, `FastPathOrder`, `QueueIsServed` | messages of sizes 2, 3 and 4 for an area of 3 cells (so frames fit, cross the end, overwrite or tear the one at the head, and are too large), pipe of 1, queue of 2, 1 outage, 1 crash, 2 processes |
| `ipc_client_replay` | violation of `BufferedIsSent` | the same, 1 process |
| `gui_relay` | `ForwardOrder`, `AcknowledgedIsSettled`, `RecorderFollowsHistory`, `EveryCommandDecided` | 2 processes with 2 process ids, 2 targets, the three recorder commands and junk, 2 commands read together or one by one, 1 outage or lost reply, 1 socket, recorder or file that fails |
| `gui_relay_resend` | violation of `RefusedIsResent` | 1 process |
| `disruptor` | `LossIsCounted`, `HandedFromSlot`, `HandedInTurn`, `ConsumersCatchUp` | 2 consumers, rings of 2 slots, 5 ticks on both together (so a ring is filled twice over) |
| `trading_path` | `BookFollowsAccount`, `ShortOnlyFromOverlap`, `FailedNeverSent`, `OneSettling`, `OrdersSpaced`, `LifeSpec` | 1 symbol, 2 workers, 5 snapshots (so every action is signalled), 2 snapshots taken, orders of 1 share, 0 or 2 shares at the start (so a partial fill and two sales meet), 1 tick (a settling time), 1 event lost, unpriced, booked on the wrong side or pushed |

Each module has one type invariant besides. The counters that bound a model
(`MaxEvents`, `MaxTime`, `MaxFiles`, `MaxOutages`, `MaxCrashes`, `MaxFaults`,
`MaxLives`, `MaxCmds`, `MaxLosses`, `MaxTicks`, `MaxSnapshots`, `MaxUpsets`, `MaxTrades`) stand in the guards of the environment's actions and of those that
make a new file or event. A run that has used them up may stop, so deadlock is
not checked. The bounds are the smallest at which the interesting cases meet:
every action of every module fires in a passing run, and for each property
there is a mistake in a mapped definition that breaks it at these bounds.

`LifeSpec` is the one refinement: with `life` the sequence of the trades'
states, `TradingPath` implements `TradeLife`. It is a property of three threads,
since the handler looks up, creates and activates a trade in three critical
sections while the poll thread creates and finds trades of its own.

### What the violations say

* **A replay that fails drops the rest of its file.** The loop stops at the
  first entry it cannot publish, and the file is rewritten with that one
  entry. The comment on the rewrite says entries that "were not attempted"
  are kept.
* **The file open for writing is not replayed.** It changes only when it is
  full, fails or the service restarts, so a short outage leaves its messages
  on disk for good, where the module's first lines promise automatic replay.
* **A full queue holds nobody up.** The message that finds the queue full has
  left its socket and is dropped. The comment and the log message there say
  that the producers will buffer, but the socket goes on being read, so no
  pipe upstream fills.
* **The IPC client's replay disables its lane.** It waits for a reply on a
  socket of a kind that has none, and its error path replaces the socket in
  the table while the worker goes on with the closed one.

* **A refused command is not resent.** A command for which the socket has no
  room is left unacknowledged, with the comment that Redis will resend. The
  next read asks for commands never delivered, and nothing reads pending ones.

### Fairness

`EventBus`: weak fairness of each processing thread's steps (the interpreter
schedules it, handlers return) and of the append that ends a `publish` a
handler has begun. Nothing makes publishers publish or the main thread stop.
`Babysitter`: weak fairness of each worker and of the replay thread, of the
end of the reconnection delay (it is at most 30 s) and of the end of an outage.
Replay of a file its reader refuses changes nothing and is not counted as
progress. `IpcClient`: weak fairness of the worker, of ZeroMQ's own thread and
of the end of an outage. `GuiCommandRelay`: weak fairness of the loop, whose
reads block for a second and whose sends do not block, and of the end of an
outage; a socket need never have room, and `EveryCommandDecided` holds though
one target refuses for ever: it exempts the refused command and those behind it
in its batch, which the code lets go with it, and those of a lost reply. `MarketDataDisruptor`: weak fairness of
the dispatcher (consumers return) and of the rest of a feed's call once begun.
No crash, fault, shutdown or new message is ever fair. `ConsumersCatchUp` rests
on the bound on ticks standing for a feed that pauses: one that never lets the
dispatcher drain a ring keeps it from all the others. `TradingPath` states no
fairness and no liveness: that the position comes to agree with the account
needs the poll thread, which nothing starts (see above).

## 4. Proofs

Every type invariant, every safety invariant and every action property that a
passing run checks is also a theorem, and so is the refinement of `TradeLife`.
The theorems are about the modules' `Spec`s, which have the bounds on faults and
events in the guards of the environment; the proofs use of a bound at most that
it is a number, so the theorems hold for all of them.

Each invariant is built in layers, every one inductive under those before it.

### EventBus

`EventBus_proofs` proves for any sets of publishers, threads, handlers and
event classes, any queue size and any number of events:

| Theorem | States |
|---|---|
| `Typing` | `Spec => []TypeOK` |
| `OneThread` | `Spec => []SingleDispatcher` |
| `QuietOnceStopped` | `Spec => []QuietAfterStop` |
| `HandedOnce` | `Spec => []AtMostOnce` |
| `HandedInOrder` | `Spec => []DeliveryOrder` |
| `NothingLostSilently` | `Spec => []NoSilentLoss` |
| `StandingServed` | `Spec => []DeliveredToStanding` |

from `BusAssumption` alone: BaseEvent is one of the classes, the deque holds at
least one event, publishers and processing threads are different actors, and
the two "none" values are not values of their kind.

1. `TypeInv` is `TypeOK` with `BatchHeld`: a thread that calls handlers has a
   batch, and one that has not begun, waits or is done has none. Without it
   the head of a batch need not exist.
2. `LifeInv` ties the threads to `start()` and `stop()`: unless a join timed
   out, the only thread that may be alive is the current one, and after a
   successful join none is. `SingleDispatcher` and `QuietAfterStop` follow.
3. `OrderInv` says the queue and every batch are strictly increasing, share no
   event with each other, and that the queue is newer than every batch as long
   as only one thread was ever alive. It holds even while a leftover thread
   works beside a new one, which is why `AtMostOnce` does too.
4. `GotInv` is `AtMostOnce` and `DeliveryOrder` with `CallInv`: what a thread
   has handed out is older than what is left in its batch, except for the
   head, for which exactly the subscriptions not in `todo` may have been called.
5. `NoSilentLoss` is inductive with the layers so far: by `OrderInv` an event
   waits in one place only, so the step that takes it out of there settles it,
   and the batch a thread finishes has nothing live left.
6. `OwedInv`: while a thread works on an event, a subscription older than the
   event is in `todo` or was called. `DeliveredToStanding` needs it since the event
   counts as dispatched only when the last handler has returned, with
   subscriptions coming and going meanwhile.

### MarketDataDisruptor

`MarketDataDisruptor_proofs` proves for any number of consumers, any ring
size and any number of ticks:

| Theorem | States |
|---|---|
| `Typing` | `Spec => []TypeOK` |
| `TurnByTurn` | `Spec => []HandedInTurn` |
| `FromItsSlot` | `Spec => []HandedFromSlot` |
| `EveryLossCounted` | `Spec => []LossIsCounted` |

from `DisruptorAssumption` alone: there is a consumer, and a ring has a slot.
Not even that its size is a power of 2 is used, since a slot is a remainder.

1. `PlaceInv` is `TypeOK` and `HandedInTurn` with `ReadInv`: the dispatcher's
   own position lies between the cursor published for the consumer and the
   write cursor, strictly below the latter once a tick is taken.
2. `SlotInv` says a slot holds a tick that belongs to it and no older one than
   any claimed, save the tick just claimed and not yet written. Its step is
   `ClaimedSlot`: the slot claimed next holds the tick of the round before.
3. `HandInv` follows the fields while they are read; slots only get newer
   (`SlotsAge`).
4. `LossInv` is what makes `LossIsCounted` inductive. A tick is doomed for a
   consumer when the cursor is a round past it, long before the dispatcher
   finds it overwritten. So doomed ticks are counted with those found lost,
   and the producer, between its check and its claim, has one count in hand
   if the claim will doom a tick (`CheckCounts`, `ClaimLoses`).

### IpcClient

`IpcClient_proofs` proves for any messages, frame sizes, size of the file, and
bounds of queue, pipe, processes, crashes and outages:

| Theorem | States |
|---|---|
| `Typing` | `Spec => []TypeOK` |
| `HeadStays` | `Spec => []HeadIntact` |
| `LossExplained` | `Spec => []NoUnexplainedLoss` |
| `CopiesBounded` | `Spec => []AtMostOncePerLife` |
| `FastPathInOrder` | `Spec => []FastPathOrder` |

from `IpcAssumption`: frames, file, queue and pipe are not empty.

1. `BaseInv` is `TypeOK` with `HeadInv`, `FrameInv`, `BatchInv` and `FileInv`.
   `HeadIntact` alone is not inductive: that a frame at the head survives the
   next write needs that the write pointer is at the start of the file or
   behind that frame (`HeadInv`), and that a frame is whole before the header
   counts it (`FrameInv`). Its exception is the one the code has: `write_ptr`
   is back at the start, and a frame over the first was begun and not completed.
2. `LossInv` says where an accepted message is. Its hard step is the write to
   the file (`BeginFrame`, `FillFrame`): the messages whose frames it hits must each
   be lost by overwriting, the others keep their frames.
3. `FreshInv` and `CopiesInv` count. A message on its way to the socket was never
   sent and is not in the file; one that was buffered has been sent at most
   once per process, and once less as long as the replay still lies ahead,
   since the replay costs the worker its socket.
4. `OrderInv` says of what was sent, the pipe, the batch and the queue that each
   is in order and ahead of the next, except for messages that were buffered.
   The pairs in order (`InOrder`) only grow, so steps move heads to ends.

### Babysitter

`Babysitter_proofs` proves for any messages and workers, any number of retries,
sizes of queue and files, and numbers of files, outages, crashes and faults:

| Theorem | States |
|---|---|
| `Typing` | `Spec => []TypeOK` |
| `ReplayApart` | `Spec => []ReplayAwayFromWriter` |
| `LossExplained` | `Spec => []NoUnexplainedLoss` |
| `NoOtherDuplicates` | `Spec => []DuplicatesExplained` |

from `BabysitterAssumption`: the special values are not messages, files or
workers, and queue, files and the number of attempts are not 0.

1. `BaseInv` is `TypeOK` with `ThreadInv` (what a busy thread holds, and that its
   attempt is not past the last) and `FileInv` (files are numbered as opened;
   the one under replay exists, is not the current one, and the entry in hand
   is the first left to do). `ReplayAwayFromWriter` is part of it.
2. `LossInv` says every message is kept or lost with a cause. The causes are
   those `Causes` lists; a message with binary parts is kept only with them. What makes it
   inductive is `ReplayOwes`: everything still in the file under replay is to
   be published by this pass, is in the stream, or is lost. Without it the
   deletion of a replayed file could lose what the pass did not read.
3. `OnceInv` says that a message none of whose additions is doubtful is in one
   place: unsent, queued, with one worker, in one file or in the stream. The
   file under replay is the exception, as it keeps what the pass has added;
   so ending a pass early makes just those additions doubtful.

### GuiCommandRelay

`GuiCommandRelay_proofs` proves for any targets, process ids, size of a read, and
numbers of commands, processes, outages and faults:

| Theorem | States |
|---|---|
| `Typing` | `Spec => []TypeOK` |
| `ForwardedInOrder` | `Spec => []ForwardOrder` |
| `AcknowledgedSettled` | `Spec => []AcknowledgedIsSettled` |
| `RecorderFollows` | `Spec => []RecorderFollowsHistory` |

from `RelayAssumption`, which says that there are finitely many targets and that
the recorder's commands and junk are not targets.

1. `BaseInv` is `TypeOK` with `PlaceInv`: a batch is the end of what its group has
   delivered, so its length says how far the consumer has come (`Passed`).
2. `OrderInv`: what a group forwarded is not newer than that place, over all
   processes with the group's name. The place never moves back.
3. `AckInv`: the acknowledgements a process has in hand are settled, and what is
   settled stays so.
4. `GroupInv` and `RecInv`: the recorder of a process with a new group is where
   the commands it has passed put one that was started, if it left none of
   them behind. `RecorderFollowsHistory` speaks of the whole stream only, which
   says nothing about the states in between.

### TradingPath

`TradingPath_proofs` proves for any number of workers, any snapshots, sizes,
thresholds and durations, and without the bounds playing a part:

| Theorem | States |
|---|---|
| `Typing` | `Spec => []TypeOK` |
| `Settling` | `Spec => []OneSettling` |
| `SentTradesOpen` | `Spec => []FailedNeverSent` |
| `Spacing` | `Spec => OrdersSpaced` |
| `TradesLive` | `Spec => LifeSpec` |
| `ShortOnlyFromOverlaps` | `StartShares \subseteq Nat` implies `Spec => []ShortOnlyFromOverlap` |

from `FilterAssumption` and `PathAssumption` (what kinds of values the constants
are) and `IdleAssumption` (an idle worker is not taken for a busy one). The
last theorem needs an account that is not short when the program starts.

The inductive invariant `IInv` is

1. `TypeOK`, which holds the exclusion of the workers: at most one is past the
   lock. It also says that the strategy is the sign of the shares, that every
   order has a trade, and that what is live at the broker was sent.
2. `InHand`, about the request being executed: its trade is not closed, is
   pending as long as it is to be forced active, and if the request opens it,
   nothing was sent for it yet. Without it `FailedNeverSent` is not inductive:
   the executor's answer comes several steps after the trade was found, and
   what the poll thread does in between must leave that trade alone.
3. `AddSpacing` and `ReduceSpacing`: unless a worker is about to send an order
   of the kind, the settling period is that of the last order (deadline and
   baseline); a worker about to send one has a snapshot that is far enough
   from the last order. It is alone past the lock, so no other order comes
   in between, and `OrdersSpaced` follows for the step that publishes. Without
   the lock it fails, as the mutant `NeverLocked` shows.
4. `OneSettling`.

`TradesLive` maps every step to a step of `TradeLife` or to a stutter: sequences
only grow (`Grown`), and the only states changed in place are activation and
failure of the trade in hand, which `InHand` says is pending when it matters.

`ShortOnlyFromOverlaps` has an invariant of its own, `SaleInv`: as long as sales
did not overlap, at most one sale exists anywhere (with a worker, on the bus,
in the handler, at the broker), and what is left of it is no more than the
account. Fills take the same number from both, so partial fills keep it.

`TradingBook_proofs` proves `BookExact`: `Spec => []BookFollowsAccount`, under the
same assumptions. The position that the events on the bus lead to is a
recursive function (`Run`), of which the module proves that one more event, or
one handled, does to it what one would think (`RunAppend`, `RunTail`). The
property is not inductive. `BookInv` adds to it

1. that each push on the bus tells the number of shares that the position will
   have when it is handled. Otherwise a push could repair a book that is not
   right, and the loss of that push would break it;
2. that the answer of a poll, with the fills on the bus behind the first
   `poll.ahead`, makes up the account (`Owed`). An answer with no fill ahead is
   then what the position should be if no push is on the bus (`OwedBook`) and,
   as two runs over the same fills stay as far apart as they began, what the
   position already is if the book is right (`OwedAgrees`).

### Induction

The library's induction theorems take an operator, which none of the provers
here instantiates. Its theorem that a well-founded relation has minimal elements
takes a set, and `SetInduction` derives from it induction over sets of numbers:
a set with 0 and every successor has all of them. That serves for what recursive
functions compute (`Run` of the trading path, the history of the recorder in
`GuiCommandRelay`).

### What is model-checked only

Liveness: `EventuallySettled`, `ClosedFilesDrain`, `QueueDrains`, `QueueIsServed`,
`EveryCommandDecided` and `ConsumersCatchUp` need fairness, whose treatment
(ENABLED) is beyond the prover. The violations are counterexamples, so there is
nothing to prove of them.

## 5. Plan

Modelled so far, in this order: the bus, the Babysitter's data path, the IPC
client, the GUI relay, the disruptor, the trading path with its abstract
`TradeLife`. What would come next:

1. Manual orders and liquidation, which enter the trading path at the executor,
   and the resets that the GUI asks for.
2. `handle_order_finalized` and the version-checked updates of orders, once the
   subscriptions that would reach them hold; `TradeLife` then gets a step that
   closes an open trade.
3. Further abstract specifications: the bus as a set of per-subscription FIFOs
   with losses, implemented by `EventBus`; a lossy channel with explained
   losses, implemented by `IpcClient` and `Babysitter`.
4. Theorems that each of these abstract specifications is implemented; the
   invariants they need are those proved already.

## 6. Not modelled, and why

* **Text recognition and cleaning, risk thresholds, prices.** Arithmetic on
  floating-point data. Where the trading path depends on it, it chooses.
* **What no thread reaches.** `OrderEventProcessor`, the finalisation and closing
  of trades, and the fingerprint's event handlers never run, for the reason
  given above; a model of them would be of a program that is not this one.
* **Several symbols.** The filter, the trades and the positions keep
  dictionaries by symbol under one lock each; symbols share nothing else but
  the order of the bus.
* **Manual trading.** Orders and liquidations asked for by the GUI, the aggressive
  chase, and resets of positions and trades.
* **Protocol, presentation, tooling.** The broker's socket protocol, GUI,
  IntelliSense and mission control.
* **Start-up, dependency injection, health and metrics.** Run once on one thread,
  or only report.

The components list in `PROJECT.json` names each with its reason.
