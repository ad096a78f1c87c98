# digital_dashboard: a TLA+ development

This directory models the concurrent core of the repository: the parts where a
thread, a message, a timer or a crash can come at a moment nobody wrote a test
for. It holds TLA+ modules translated from the source, TLC configurations that
check them on small instances, and theorems with proofs that TLAPS checks for
every value of the constants.

Every definition of a model names, in `PROJECT.json` under `map`, the lines it
stands for. Definitions whose comment begins "Wrong on purpose" are not part of
any behaviour: each is a plausible bug that the property it is listed with under
`mutants` must detect.

To parse, check and prove, inside this directory:

    tlasany TileSource.tla
    tlc -workers 2 -config tiles.cfg MCTileSource
    tlapm BagRecorderProofs.tla


## 1. The system

The repository is a family of processes around a zenoh bus. *Nodes* talk to
hardware (CAN, GNSS receivers, relays, keypads, phones) and publish Cap'n Proto
messages; *tools* record, build and inspect; the *dashboard* and the *scope*
draw. Processes share nothing but the bus, so the hard interleavings are inside
a process: zenoh threads against a GUI or main thread, a reader thread against a
caller, a link partner on the other side of a lossy transport.

### 1.1 Inventory

| Component | State it keeps | Operations | What is hard | What makes it correct |
|---|---|---|---|---|
| `nodes/msel_master_relay`, `libs/msel` | waiter (armed, response), decoder address and watched address, telemetry snapshot, two mutexes | four config services, `set_base_address` with rollback, CAN kill, receive callback | a late answer reaching the next command; a base address read before waiting for a mutex; retuning before the relay has moved | a caller is told what became of *its* command; the decoder ends at the relay's address; every call returns |
| `libs/iap2/link_layer` | sequence and acknowledgement numbers mod 256, send window, unacknowledged and queued packets, packets held out of order, timers | negotiate, submit, receive (ACK, EAK, data, SYN, RST), three timers | loss, reordering by retransmission, wrap-around, a queue drained from one place | each session is an in-order stream; nothing acknowledged was lost; nothing waits without a timer |
| `nodes/bag` record, `libs/bag` queue, writer, index, rebuild | bounded queue, drop count, parts on disk, index on disk, topic statistics | receive, pop, write, roll, close, save, interrupt, reindex | overrun, shutdown order, failing disk operations, being killed between any two steps | no message unaccounted for, order kept, an index that tells the truth |
| `dashboard/widgets/map` tile workers | generation, job, counters, condition variables | `runAll`, helper loop, destructor | a straggler claiming in the next batch; a lost notification | each index once, only inside its call; every call returns |
| `dashboard/widgets/map` tile source | cache, in-flight set, mailbox, failures, backoffs, learned zoom range, coalescing flag, retry timer | request, reply, drain, paint, retry | nothing polls: every path has to leave a wake-up behind | no tile is forgotten; the widget comes to rest |
| `libs/pub_sub` | one session per process, topic directory, subscriptions | publish, subscribe, query, discover | callbacks on zenoh threads against teardown; a shared weak session | a callback at most once per query, none after its owner |
| `libs/agent_control`, `tools/mcp_dashboard` client | accept thread, client threads, posted tasks, promises, log ring; the client's socket, ids and log cursor | accept, dispatch, run on the GUI thread, time out, query the log, stop; call, retry, close | a task that outlives the stack frame it refers to; a retry with an answer outstanding; cursors over a ring that overruns; `stop()` on the thread the others wait for | an answer is its request's own; every call and `stop()` return; nothing runs after `stop()`; no log record lost unreported |
| `libs/airplay`, `libs/apple_usb`, `nodes/carplay` | RTSP-like session state, media streams, usbmux connections | set-up, keep-alive, tear-down | teardown from three threads | streams end before what they feed |
| CarPlay audio ring, scope sample ring and capture buffer | ring indices | push, read, snapshot | lock-free producer and consumer, overrun | what is read was written, in order |
| `libs/can`, `libs/can_backends`, CAN drivers | handlers, reader thread, reconnect state | subscribe, send, read loop | a handler removed while it runs; unplugging | no callback after unsubscribe returns |
| `libs/canopen` | one SDO transfer | upload, download, abort, time out | late segments of an aborted transfer | a transfer returns its own data |
| `libs/bd992`, `nodes/bd992_bridge`, `libs/gsof` | control connection and its framer, page assembler, `mMutex`, configuration and policy; stream socket | read a file in pages, compare, write what differs, query; services beside the main loop | replies that name no command; late ones; a read that is stale when the write is made; other owners of the receiver | a reply is its command's own; the port ends as configured; nothing is written that need not be |
| `nodes/can_bridge`, `grayhill_keypad`, `motec_*`, `megasquirt`, `racegrade_tc8` | last values | decode, publish, serve | little | decoding, covered by unit tests |
| `nodes/map_server`, `map_match`, map data libraries, `tools/map_build` | read-only archives; one matcher state | query | numeric | covered by unit tests |
| dashboard, editor, scope panels | widgets, layouts | draw | little that is concurrent | presentation |
| configuration, DBC, plist, reflection, CLI helpers | none | parse, format | none | pure functions |

`PROJECT.json`, under `components`, lists all of them with what is modelled and
why the rest is not.

### 1.2 How the modelled parts interact

* **Relay node.** A zenoh thread per service call takes `commandMutex`, arms the
  waiter, transmits under `mutex`, and waits. The CAN receive callback decodes
  under `mutex`, feeds the waiter and publishes. `setBaseAddress` additionally
  retunes the decoder and may put it back.
* **iAP2 link.** Two link objects over a byte transport, each driven by its own
  `poll()` loop: bytes in, timers, packets out. The carplay node starts one end;
  the other end is the phone, modelled by the same code with the roles of the
  tests (`test_framing.cpp` plays the phone the same way).
* **Recorder.** zenoh callbacks push into `MessageQueue`; the writer thread pops
  into `BagWriter`; the main thread subscribes, notes advertised topics, and
  shuts the three down in order. `bag reindex` reads what a kill left.
* **Agent control.** A tool call goes through `DashboardClient.call` to a client
  thread, which posts a task to the GUI thread and waits for its promise up to a
  deadline. Loggers on any thread fill the ring that `app.logs` reads. When `exec()`
  returns, `main` stops the socket on the GUI thread.
* **BD992 bridge.** The main loop and the service threads run passes (read the
  receiver's outputs, compare, write) over one control connection, which is locked
  for a command and its reply but not for a pass.
* **Map widget.** The paint on the GUI thread calls `TileSource::request`;
  zenoh threads answer, decode across `TileWorkers`, fill the mailbox and post a
  coalesced drain; the drain repaints; the end of the paint arms one retry timer.


## 2. Modules

| Module | Models | Notes |
|---|---|---|
| `ResponseWaiter` | `response_waiter.cpp` | arm, offer, take, disarm |
| `MselDecoder` | `decoder.cpp` and the generated decoders | addresses as arithmetic on CAN ids, so overlapping spans are real |
| `MselMasterRelay` | `main.cpp` of the node, the relay of `stub_relay.cpp`, the bus | EXTENDS the two above |
| `RelayCommands` | abstract: one command decided at a time, each caller told its own outcome | refined by `MselMasterRelay` |
| `Iap2LinkLayer` | one link object, each handler an operator on its record | pure: usable for any number of ends |
| `Iap2Session` | two link objects and two lossy channels | composes `Iap2LinkLayer` with itself |
| `Iap2Stream` | abstract: an in-order stream of chunks | refined in both directions |
| `MessageQueue` | `queue.h` | push drops the oldest and counts it |
| `BagWriter` | `writer.cpp`, `metadata.cpp`, `rebuild.cpp` | memory, parts on disk, index on disk |
| `BagRecorder` | `record.cpp`, `reindex.cpp` | EXTENDS the two above |
| `TileWorkers` | `tile_workers.cpp` | helpers, caller, condition variables |
| `ParallelFor` | abstract: a blocking parallel for | refined by `TileWorkers` |
| `TileSource` | `tile_source.cpp`, `tile_cache.cpp`, the part of `map_widget.cpp` that drives them | uses the promise of `ParallelFor`: each tile of a reply is delivered once |
| `LogRing` | `log_sink.cpp` | a record is numbered in one critical section, stored in another |
| `AgentControl` | `control_socket.cpp`, `server.cpp`, `gui_thread.h`, `settleEventLoop`, the end of `main` | EXTENDS `LogRing` |
| `AgentClient` | `client.py` | EXTENDS `AgentControl` |
| `PageAssembler` | `PageAssembler` of `libs/gsof/transport.cpp` | pure |
| `OutputConfig` | `output_config.cpp`: `diff`, `plan_writes` | pure |
| `ControlClient` | `control_client.cpp` | EXTENDS the two above |
| `Bd992Bridge` | `services.cpp`, the main loop, and the receiver | EXTENDS `ControlClient` |
| `*Proofs` | theorems | section 5 |
| `MC*` | instances for TLC | values of constants only |

### 2.1 From code to state and steps

**Steps.** What a thread does while it holds a lock is one step when the lock is
never held across a wait; a lock that is held across a wait is a variable
(`commandMutex`). Between two locks, two system calls, or a lock and a callback,
the step ends. A condition variable is two places per thread: about to look at
its predicate, and asleep until a notification (or nothing at all: spurious
wake-ups are steps of `TileWorkers`).

**Relay.** `pc[c]` is where the thread of call `c` is: `acquire` (in
`commandMutex.lock()`), `send`, `wait`, `abandon`, `release`, `settle`, `done`.
`previous` is the local variable that `setBaseAddress` reads before it queues for
the mutex. `toRelay` and `toNode` are the bus. `verdict` is a history variable:
what the relay made of each command. The telemetry snapshot keeps, for each
periodic message, only whose it was. The four plain settings behave alike and are
one operation; one with a delay or an address that cannot be encoded (`BadSetting`) is refused
before it is sent, as an invalid base address is.

**iAP2.** A link object is a record (`NewLink`), one field per member that
decides anything. Handlers are functions from record to record; `out` collects
what they write and the session moves it to the channel. A chunk stands for one
link packet's worth of a session message. Corruption is a packet that fails its
checksum, hence a loss. Timers are a set of armed names: a timer may fire at any
moment while it is armed, which covers every choice of timeout. Sequence numbers
are mod 256 as in the code, and start near the wrap.

**Bag.** A message is its arrival number and its topic. A part is the sequence of
its messages, how many of them are certain to be on disk (`flushed`), and whether
it was closed; a kill keeps any part of the rest that `Readable` allows. The
index on disk is what `loadMetadata` reads: the record `saveMetadata` writes, restricted to
counts, topics and parts, or, when the text was lost in the flush that nobody tests,
any beginning of it (`Torn`): nothing that can be read, the fields that are
there, the last of them cut short; `whole` is a ghost that says which. `scenario` chooses once, at the start, what may go wrong
in a behaviour, so that a property can be conditional on something that did not.
The main thread's `noteAdvertised` races with the writer thread over a
`std::map`; that is undefined behaviour (section 6), and the properties are checked
as if each map operation were atomic.

**Workers.** One place per thread (`pc`), the members of the class, and each
thread's own copies of `job` and `count`. A job is known by the number of the call
it belongs to, which is what makes "its captures are dead" expressible.

**Tile source.** Time is counted in units of `kFirstRetry`; a backoff is the
number of attempts and the time left, the timer the time left. A reply is
`Answer` (which learns the range) followed by one delivery per tile, in any order
and interleaved with everything else; the `mOnTilesReady()` that follows each
lock region is a step of its own (`owed` counts those not made yet). `list` is what a paint
asks for and `drawn` what it draws, both laid out when it begins. A drain is
two steps, the flag and the mailbox. How much the byte budget of the cache evicts
is a nondeterministic choice between `kMinTiles` and `kMaxTiles`.


**Agent control.** `thread[c]` is the thread of connection `c`: none yet, in
`recv()`, waiting for its promise, or finished (joined or to be joined); `clients`
is `clients_` and `joining` the copy that `stop()` takes. `backlog` holds what the
kernel has connected and `accept()` has not returned. `events` is the Qt event queue
restricted to posted tasks, `stack` the handlers on the GUI thread, more than one
only while a mutating handler settles the event loop. A task refers to its caller's
frame: `FrameAlive` says whether the caller is still in that wait, and a task that
runs without is undefined (`RunsLooseTask`): it may run the old handler, the one of
the caller's next request, none, or crash the process. The handlers of
`app.logs` and of one mutating method stand for all; a malformed or unknown request is
answered off the GUI thread and an oversized line not at all. A quit and a signal are one
step, `StopBegins`. In `AgentClient`, `sock` is `_sock`, `call` the call in progress
with its attempt; `handed`, `got`, `missed` and `passed` are history.

**BD992.** `pc[t]` is where a thread is in its pass; being in `reading`, `querying`
or `writing` is holding `mMutex`. A packet on the wire has an *age*, the number of
commands sent since the one it answers: the code cannot see it, the property
`OwnReply` can. A configuration is a function from outputs to rates, `Off` for one that is
listed as such and `Unlisted` for one that the receiver's file does not mention; what is wanted may be
`Off` too. Duplicated entries of a request, and a port other than the node's in
`set_output_config`, are left out. A file is two pages, and, at worst, all files bear the same
transmission number. A pass ends with an error when the file holds more than `MaxListed`
outputs, on all ports together (`CannotDecode`), or the plan more than `MaxRecords` records
(`IsTooLong`); both are 31 in the code, and a file or a record that is malformed otherwise is not modelled.
A receiver may drop from its file what it is told to turn off, or list it as `Off` (`Applied`).


## 3. Runs

Nine runs pass and three exhibit a disagreement between the code and what the
repository says of it.

| Run | Question | Bounds, and why they are enough |
|---|---|---|
| `relay_prompt` | With answers inside the timeout and one mover at a time, is each caller told about its own command, and does the decoder follow the relay and publish only its frames? | three calls, of any kind, refused ones included: one holding the mutex, one waiting, one arriving; one frame of telemetry on the bus at a time; addresses chosen so that the spans of a move overlap |
| `relay_any` | With no assumption at all (late answers, two movers, another device), is anything left armed or watched, does a call hang? | two calls, one frame at a time; an address the relay can move to and one that is never transmitted |
| `iap2_lossy` | Both ends sending over a link that corrupts: order, windows, acknowledgements, armed retransmission | window 2, four chunks per end, so that the window fills, drains and the numbers wrap (start 254); one corruption, at any packet; a timer fires only while fewer than two packets are on the two channels together; what it sends, or what a call or an answer adds, may be more, so that retransmissions overtake |
| `iap2_delivers` | Does every chunk arrive, those submitted before the negotiation included? | one sender, four chunks, one corruption; resets and a failing transport at any moment |
| `iap2_overtaken` | *violation* of `Concatenated`: a chunk overtakes queued ones | |
| `bag` | Everything about the recorder, while everything may fail | four messages through a queue of two, two topics, two parts: overruns, drops, a roll and a torn part all occur; three scenarios: writes, closes and index saves do not fail; they may, and say so; closes may, and the text of an index may be lost in its flush without a sign (1.3 million states) |
| `workers` | Parallel for, its liveness and its shutdown | two helpers and the caller, two calls (a straggler needs one to be left over from, and one to leak into), one to three indices: fewer, as many and more than threads |
| `tiles` | Is a tile ever forgotten, does the widget rest? | four tiles, two views, one of them past the archive; one tile per request, so that requests are cut short; a cache of two to three; one fault of four kinds, one camera move |
| `tiles_paint` | *violation* of `QuietMeansComplete` when a retry comes due during a paint | |
| `agent` | Does each call get its own answer and return, does the log lose nothing unreported, does `stop()` return and leave nothing running? | three requests over two connections: the first attempt, its retry and a call after it; a ring of two and a limit of one under three records, so that a poll is evicted from, clipped, and overtaken by a record in its logger's hand |
| `agent_skew` | *violation* of `AnswerIsOwn` when a retry fails too (`MayFailTwice`) | three connections, four requests: one more call than `agent`, which is the one that gets the wrong answer |
| `bd992` | Are replies matched on a healthy connection, is the port as configured once the trouble ends? | main loop and one service; three outputs, one of them on another port, one wanted on and one wanted off; pages of one record and files of two outputs, so that each limit is exceeded in some configurations and not in others; three disturbances of any kind (refusal, report, lost connection, deadline, drift, service call): one late reply, a command to receive it and a change that follows from it |

What the passing runs show, by property:

* **Relay.** `AnswerIsOwn`, `ReportsWhatHappened` (the refinement of
  `RelayCommands`), `DecoderAtRelay`, `TelemetryIsTheRelays` under `Prompt` and
  `OneMover`; `ArmedOnlyForHolder`, `WatchOnlyDuringMove`, `EveryCallReturns`
  without them.
* **iAP2.** `InOrder` (the refinement of `Iap2Stream` in both directions),
  `AcknowledgedWasReceived`, `RetransmissionArmed`, `EverythingArrives`.
* **Bag.** `EveryMessageAccountedFor`, `StopLosesNothing` (the index included), `FreshestKept`,
  `InArrivalOrder`, `IndexTellsTheTruth` (`IndexDescribesParts` and `IndexAddsUp`),
  `KillLeavesReadableBag` (`IndexedOnceRolled` and `OnlyLastPartTorn`),
  `RecordingEnds`.
* **Workers.** `RunsEachOnce` (the refinement of `ParallelFor`), `JobAlive`,
  `NoCallMissed`, `CallsReturn`, `PoolJoins`.
* **Tiles.** `InFlightIsAsked`, `QuietMeansComplete`, `Settles`.
* **Agent control.** `AnswerIsOwn`, `LogsAccounted`, `StoppedMeansQuiet`,
  `EveryCallReturns`, `StopReturns`.
* **BD992.** `OwnReply`, `EventuallySettled`: on from some point the port is as wanted and the
  main loop plans a write only for an output wanted off that is not listed, or every pass is
  `Blocked` by one of the two limits.

Each model has one type invariant, `TypeOK`, which also carries its capacity bounds
and, for `Bd992Bridge`, that a thread holds `mMutex` exactly while its command is out.

### 3.1 Assumptions of the models

| Assumption | Where | What happens without it |
|---|---|---|
| `Prompt`: an answer beats `command_timeout_ms` | relay | a late answer is taken for the next command's (section 6) |
| `OneMover`: callers do not overlap `set_base_address` | relay | the decoder is put back to an address the relay has left (section 6) |
| `MaxBus`, `MaxInFlight`, `MaxLoss`, `MaxChunks`, `MaxMessages`, `MaxParts`, `MaxCalls`, `MaxCount`, `MaxFaults`, `MaxMoves`, `Conns`, `MaxId`, `MaxSeq`, `MaxTrouble` | bounds of the models | guards that stop the environment, never the code |
| `WhenDrained`: a chunk is submitted only when none is queued | iAP2 | run `iap2_overtaken` |
| `NoReuse`: an end submits fewer chunks than there are sequence numbers (proofs) | iAP2 | a held copy comes out again one wrap later (section 6) |
| `FitsWindow`: `maxOutgoing + 1 <= maxAck + Slack` for the phone's parameters (proof of `AcknowledgedWasReceived`) | iAP2 | `handleAck` takes a lost packet far ahead of the acknowledgement for one behind it (section 6) |
| `waitNegotiated` does not expire | iAP2 | the node gives up on the phone; nothing is delivered then |
| `Capacity` is at least 1 | bag | `--queue-depth 0` pops an empty deque |
| a kill is of the process, not of the machine: nothing calls `fsync` | bag | after a power cut closed parts and a renamed index may be gone |
| a part that ends in its footer holds what mcap wrote before | bag | `hasCompleteEnding` looks at the last bytes only |
| the flush of an index does not fail unnoticed (`flush` not in the scenario), for `IndexedOnceRolled` and the second half of `StopLosesNothing` | bag | the old index is lost (section 6) |
| helpers exist, one caller at a time | workers | without helpers `runAll` is a loop; with two callers nothing holds |
| `InstantPaint`: no retry comes due between the request and the end of a paint | tiles | run `tiles_paint` |
| `MinTiles` is at least what a view asks for | tiles | a refetch loop, as `tile_cache.h` says |
| `MayFailTwice` is FALSE: a retry that was sent is answered before the client's timeout (unless its line is over the size limit, or the process goes) | agent | run `agent_skew` |
| the caller polls `app.logs` with the `next_seq` of its last poll | agent | a cursor of its own choice, for which `dropped` means what it says |
| a pass is repeated (`recheck_interval_s` above 0) | BD992 | with 0 a first pass that fails is the last |
| the receiver lists, and a plan takes, no more than the node can hold, or not for ever (`Blocked`, part of `EventuallySettled`) | BD992 | every pass fails and the port is never as configured (section 6) |

### 3.2 Fairness

* `relay_any`: the threads of calls, the relay and the bus keep going; nobody
  has to call. The scheduler and `wait_for`'s timeout justify it.
* `iap2_delivers`: both ends keep polling, so what has arrived is processed and a
  timer that stays armed fires. It is weak fairness of `Receive(e)` and
  `FireTimer(e, t)`, with their enabling conditions written out so that TLC need
  not evaluate `ENABLED` on large records. Losses are bounded: a link that loses
  everything never comes up.
* `bag`: the writer thread and the main thread keep going; nobody has to send,
  to interrupt or to kill. `RecordingEnds` speaks of recordings that are
  interrupted or whose writer failed.
* `workers`: threads that can run do; nobody has to call or to destroy the pool.
  `notify_all` is what makes asleep threads able to run, never fairness.
* `agent`: the accept thread, the client threads (whose `wait_for` has a deadline),
  the caller (whose socket has one) and `stop()` keep going. Nothing is asked of the
  GUI thread in `exec()`: it may hang, and calls must return all the same. `StopReturns`
  has the peers' hanging up as its hypothesis, because `stop()` does not make them.
* `bd992`: the main loop comes round, a thread that waits goes on (its reply or its
  deadline comes), the receiver answers. Disturbances are bounded, so
  `EventuallySettled` is about what follows the last one.
* `tiles`: the event loop serves paints, drains and the timer; queries end (zenoh
  has a timeout); time passes. Faults and camera moves are bounded, so `Settles`
  is about a camera that rests and a server that recovers.


## 4. Properties worth a word

* `AcknowledgedWasReceived` relates the sender's queue to what the receiver has
  handed up: what `handleAck` forgets was not lost. It needs the acknowledgement
  arithmetic of both ends, across the wrap.
* `EveryMessageAccountedFor` is a conservation law over callbacks, queue, writer
  and disk, whatever fails; `StopLosesNothing` says that the order of the shutdown
  turns it into a statement about the index.
* `JobAlive` is the reason `runAll` waits for two conditions and not for one
  (`tile_workers.cpp:151`).
* `LogsAccounted` is a conservation law over a cursor that moves in polls while the
  ring evicts: what lies behind the cursor was returned, counted as dropped, or passed
  over in one of the two ways the code passes records over in silence (section 6).
* `AnswerIsOwn` of the agent relates the ids of an answer and of its question, which no
  line of the client compares: it holds because of when connections are dropped.
* `IndexTellsTheTruth` is about what may be believed of an index: all of it when it is whole, and
  when its end was lost all entries but the last, which can call a torn part complete because that is
  the default of the field.
* `EventuallySettled` is what a configuration loop is for. It has to survive a
  late file taken for the current one, which makes the loop write the wrong thing once.
* `QuietMeansComplete` states the absence of a lost wake-up as an invariant: if
  nothing is pending, nothing is missing. `Settles` is its complement: nothing
  stays pending for ever.


## 5. Proofs

TLC checks an instance, the theorems hold for any number of calls, addresses,
topics, messages, connections, threads, outputs, chunks, any window and any capacity. All are statements of `Spec`, with no bound.

**Relay (`MselMasterRelayProofs`).**

* `Typing`: `[]TypeOK`, inductive as it stands, one step per action.
* `NothingArmedBetweenCommands`: `[]ArmedOnlyForHolder`. Not inductive alone: that
  the call between `send` and `release` is the holder of `commandMutex` (`Mutex`)
  has to be carried along (`WaiterInv`).
* `WatchEndsWithItsMove`: `[]WatchOnlyDuringMove`.
* `PromptAnswersAreOwn`: `Prompt => []AnswerIsOwn`. The strengthening says that
  commands and answers in flight belong to the call that is waiting
  (`OnlyForWaiting`), that there is at most one of them (`OnlyOnce`), and that an
  answer already taken is the waiter's (`AnswerTaken`): the assumption that an
  answer beats the timeout becomes the fact that the bus is silent about a call
  once it has left its wait.
* `DecoderFollows`: under `Prompt` and `OneMover`,
  `[]DecoderAtRelay`. There is at most one move at a time; while there is one, the node
  listens at both addresses and the relay is at the one that its verdict says (`Following`).
* `TelemetryIsTrue`: under the same hypotheses and two about the constants,
  `[]TelemetryIsTheRelays`: nobody else transmits where the relay may be (`NobodyThere`), and no
  two addresses in use are one up or two down from each other (`MovesApart`). Without either, the
  statement is false (section 6). The invariant says where every frame on the bus was sent
  from (`AirInv`): the relay's present address, or the one before the move under way if the answer to that
  move is still behind it, which is why a move that has settled leaves no old frame.
* `ReportsAreTrue`: under the same hypotheses, `ReportsWhatHappened`, the refinement of
  `RelayCommands`. `Waiting` says where the answer to a command that waits is: not decided,
  ignored for good, with the waiter, or on the bus at an address the node listens at, where its shape makes it a response and
  nothing else (`AnswerIsHeard`); so what
  a caller is told (`Told`) is the verdict. Each step of the service is then a `Decide`, a
  `Report`, a `Refuse`, or nothing.

**Recorder (`BagRecorderProofs`).**

* `Typing`: `[]TypeOK`, with what the disk (`PartsOK`) and the writer thread's
  hand (`HandOK`) look like.
* `EveryMessageCounted`: `[]EveryMessageAccountedFor`. `CountersMove` says, once
  for all actions, how the five counters can move together.
* `StoppingLosesNothing`: `[]StopLosesNothing`, from the former and from
  `DrainedOnce`: the main thread closes the writer only after the writer thread
  has found the queue stopped and empty. That the index says the same is `WrittenInv`: the
  writer's count is the sum over the parts, all closed at the end, so that a reindex finds it
  again (`ReindexFindsAll`).
* `FreshestAreKept`: `[]FreshestKept`. The queue is always the latest messages, in
  order (`QueueIsLatest`), so what is dropped is older than all of it.
* `RecordedInOrder`: `[]InArrivalOrder`, from the boundary between what is
  recorded, in hand, and queued (`Ordered`).
* `PartsAreDescribed`: `[]IndexDescribesParts`, and `KillsLeaveReadableBags`:
  `[]KillLeavesReadableBag`. Both come from `DiskInv`: an entry for a complete part is
  made when that part is closed (`Described`), a closed part is not written to, because
  the thread that closed it opens the next one before it writes, or has given up
  (`Finished`), and between the close of a part and the opening of the next the index is
  saved (`KillInv`). Of an index whose end was lost in the flush both speak of every entry
  but the last.
* `IndexesAreTrue`: `[]IndexTellsTheTruth`, which adds to `IndexDescribesParts` that the index
  adds up. `CountInv` is the argument: where writes do not fail, the writer's total is the
  sum over the parts it has listed and the messages of the part it has not (`Unlisted`), and
  the totals per topic that an index is saved with are up to date whenever the writer thread
  is in an open part. `reindex` sums what it read.

**iAP2 link (`Iap2SessionProofs`).** The loops of the link layer are folds over the packets
of a queue, so each handler is one step of the session whose loops have invariants of their own
(`FoldStays` of `FoldLemmas`, with what holds after k turns as a family of sets).

* `SessionTyped`: `[]TypeOK`, and `RetransmissionsAreArmed`: `[]RetransmissionArmed`, for any
  parameters the phone may dictate, any losses, resets and failures. The invariant,
  `SessionInv`, says of each end (`Sound`) that the packets it has unacknowledged and the
  acknowledgements it waits for are the same ones (`Tracked`) and that the timer runs while
  there are some (`Watched`); each handler takes a `Sound` link to a `Sound` link.
* `SessionConcatenates`: `[]Concatenated`, and `SessionStreams`: `InOrder`, the refinement of
  `Iap2Stream` in both directions. The hypotheses are `WhenDrained` (without it,
  `iap2_overtaken`) and that an end submits fewer chunks than there are sequence numbers
  (`NoReuse`): the code's out-of-order buffer keeps copies that come out again one wrap later
  (section 6), so without it the statement is false. The numbers still wrap: they may start
  anywhere. `OrderInv` says that the number of a packet is that of its chunk, in the queues of
  its sender (`InLine`, `Numbered`), on the wire (`Only`) and where it is held (`Receives`);
  that the last number received is that of the last chunk delivered (`Following`); and how far
  the handshake can be at one end when it is so far at the other (`Shaken`), which is why an
  acknowledgement that ends the negotiation finds the numbers agreed.
* `AcknowledgedIsReceived`: `[]AcknowledgedWasReceived`, under the same two hypotheses and
  `FitsWindow`. An end with `max_outgoing` numbers out sends one more
  (`enqueuePacket` tests with `>`, `:413`), and `handleAck` keeps a packet only if its number is
  within `max_ack + 10` of the acknowledgement (`:740`); `FitsWindow` says that the first fits
  into the second. It is needed: with `Slack = 0`, `maxAck = 1`, `maxOutgoing = 2` and four
  packets in flight (with the two of `iap2_lossy` it cannot happen), TLC finds a packet that is
  forgotten and was not delivered. The parameters of the repository's tests satisfy it
  (`max_outgoing` 4, `max_ack` 3, `test_framing.cpp:513`). `AckInv` is the argument. For each
  end `Told` says that the acknowledgements on their way to it stand for what the other end
  had delivered when it wrote them, and never fall from one to the next (`Hears`, `Rising`);
  that of the chunks it has sent the first `Base` are acknowledged, and every
  later one is within the window and still has a deadline (`Adopts`, `Windowed`); and that no
  packet is kept that was not sent (`Recent`). So an acknowledgement never moves back over what
  is on its way, and what `handleAck` forgets is what the other end has delivered. While a
  handler runs the link is in states that are none of the session's: `Careful` and `Answers`
  say the same of one call, from the state it began in, and each handler is shown to be careful.
  TLC checked `AckInv` as an invariant of the instance of `iap2_lossy` and of one with the wired
  link's zero-ack parameters before it was proved. Where retransmission is off
  (`maxRetransmissions = 0`), nothing is kept and the property says nothing.

**Folds (`FoldLemmas`).** The library defines `SumFunction`, `SumSeq` and `FoldLeft` by one
recursive function on sets. The module proves what can be known of it for an operator and a
choice of element left open: its value on the empty set, on a set and what is left without the chosen
element (`FoldNonempty`), on two functions that agree (`FoldSame`), that it stays in a family of
sets each turn preserves (`FoldStays`), that the choice does not matter when the operator
commutes (`FoldAny`), and over the prefixes of a sequence (`FoldPrefixes`). Induction is over
the least counterexample in `0 .. n` (`NatsIn`, `SubsetsIn`), which is a set and not an operator.

**Tile workers (`TileWorkersProofs`).**

* `JobsOutliveHelpers`: `[]JobAlive`, for any number of helpers. `PendingCounted`
  is the argument: `mActive` is the number of helpers that have the call in progress
  still to wake for, or have not left its claim loop. It is zero exactly when nobody
  is left who could touch the job, which is when `runAll` returns.
* `NoCallIsMissed`: `[]NoCallMissed`, from the same invariant: a call starts with
  every helper up to date, so that each is at most one generation behind.
* `Typing`: `[]TypeOK`, and `RunAllIsAParallelFor`: `RunsEachOnce`, the refinement of
  `ParallelFor`. `LoopInv` adds to the above that `mRemaining` is the number of indices
  unclaimed or being run (`Counts`), and that no two threads run the same one
  (`Distinct`), so that a claim is a `Begin`, the end of a job an `End`, and the
  return finds nothing left.

**Tile source (`TileSourceProofs`).**

* `Typing`: `[]TypeOK`, with the flag and the posted drain in step, for any tiles and any
  bounds of the cache; `NothingLeaks`: `[]InFlightIsAsked`.
* `NoLostWakeUp`: `InstantPaint => []QuietMeansComplete`, the absence of a lost wake-up.
  `Coming` names what will make the widget look again: a drain that will find a change or
  a range just learned, or a query that will end in one. The invariant, `WakeInv`, says of every
  tile the viewport wants that it is there, in flight, waiting its turn with the timer set
  or about to be (`WaitInv`), or that something is `Coming`, during a paint (`PaintInv`) and
  at rest (`RestInv`). That the cap on a request leaves nothing behind needs that a request
  with nothing in it means that nothing is missing, hence a least missing index
  (`Least`).

**Agent control (`AgentClientProofs`).**

* `Typing`: `[]TypeOK`, with what queries return (`QueryTyped`) and what a handler may.
* `QuietOnceStopped`: `[]StoppedMeansQuiet`, for any number of connections. The
  strengthening, `Joinable`, says where every thread that has not finished is to be found: in
  `clients_`, in `stop()`'s copy, or in the accept thread's hand; the last is why the
  accept thread is joined first.
* `AnswersAreOwn`: `~MayFailTwice => []AnswerIsOwn`. `OwnInv` says that a connection
  carries what belongs to the request in progress only: at most one request or answer
  (`OneOutstanding`), and none between calls, because a connection with an answer
  outstanding is closed before the next call.
* `LogsAreAccounted`: `~MayFailTwice => []LogsAccounted`, for any
  ring, limit and number of connections. The ring is the latest records without a gap but for
  the one in its logger's hand (`RingIsLatest`), so a query accounts for all between
  its cursor and its `next_seq` (`QueryAccounts`). That this answer is the one which reaches the
  caller needs `OwnInv`, and that a task without a frame never gets one back: ids grow along a
  connection and a task is of a line before those that are left (`InOrderOfIds`, `Past`).
  Each answer then adds, by cardinality, what it accounts for (`PollAddsUp`).

**BD992 (`Bd992BridgeProofs`).**

* `Typing`: `[]TypeOK`, mutual exclusion on the connection included.
* `RepliesAreOwn`: `[]OwnReply`, for any number of threads. `WireInv`: on a connection
  without an overdue command, the wire is empty between commands, and during one it holds the
  command, or reports and its replies alone.
* `PlanEnforces`, `PlanStaysOnPort`, `NothingToWrite`: what `plan_writes` returns brings the
  port to what is wanted (`AsWanted`) and touches no other port, whatever the receiver goes on
  listing (every member of `Applied`); and it is nothing exactly when the port is as wanted and lists every
  output that is wanted off (`OffUnlisted`).

Assumptions of the theorems are the ASSUMEs of the modules: the distinguished
values (`NoAnswer`, `Nobody`, `None`, `NoJob`) are not ordinary ones, addresses
are integers, the codes a relay refuses with are not the words for success, silence and
"undecided" (`CodeAssumption`), the helpers are finitely many and do not include the
caller, bounds are naturals, `Capacity` is positive, frames of other devices
(`OtherFrames`) are not responses (`OtherFramesAssumption`), and once the zoom range is known
a walk asks for levels of the archive or none (`LevelsAssumption`), topics are finitely many
(`TopicsAssumption`), sequence numbers are the numbers below a positive width
(`PsnAssumption`), and the parameters the phone and the node propose are of their type
(`SessionAssumption`). Some theorems have a switch
of the model as their hypothesis: `Prompt` and `OneMover` for the relay
(with `NobodyThere` and `MovesApart`, about its constants, for its telemetry),
`InstantPaint` for `NoLostWakeUp`, `~MayFailTwice` for `AnswersAreOwn` and
`LogsAreAccounted`, `WhenDrained` and `NoReuse` for the three about the order of chunks, and
`FitsWindow` for the one about acknowledgements. Sections 3.1 and 6 say what happens without.

**Only model-checked.** The liveness properties (`EveryCallReturns` twice, `EverythingArrives`,
`RecordingEnds`, `CallsReturn`, `PoolJoins`, `Settles`, `StopReturns`, `EventuallySettled`):
fairness and `ENABLED` are outside TLAPS. Every safety property and every refinement that a
passing run checks has its theorem.


## 6. Known divergences

Found while modelling. The first three are runs; the rest are stated here and kept
in the models, which follow the code.

1. `iap2_overtaken`: `enqueuePacket` compares the window with `<=`
   (`link_layer.cpp:413`), the drain with `<` (`:753`), so with exactly a window
   outstanding a new chunk overtakes queued ones.
2. `tiles_paint`: `nextRetryAt()` (`tile_source.cpp:440`) reads the clock again, a
   whole paint after `request()` did; a tile that comes due in between is neither
   asked for nor scheduled, and the timer is stopped.
3. `agent_skew`: when the retry raises as well, `call()` leaves its connection open
   with the answer outstanding (`client.py:67`), and the next call takes it for its own:
   no id is compared, although `server.cpp:130` echoes it "so a client can always
   correlate".
4. Relay: `setBaseAddress` reads `previous` before it waits for `commandMutex`
   (`main.cpp:635`), so a second call reverts to an address the first had tried
   and given up. `OneMover` excludes it.
5. Relay: an answer that arrives after its caller gave up is taken for the next
   command's once that one has armed the waiter (`docs/msel_master_relay.md:23`
   says "dropped, not saved for the next command"); `Prompt` excludes it.
6. Relay: during a move another device at the requested address, or a move up by
   one identifier or down by two (an info message is then at the new status or switch
   state identifier), is decoded as the relay until the move settles (`main.cpp:649`, against `decoder.h:90`).
7. iAP2: an acknowledged packet behind an unacknowledged one is retransmitted, and
   can end the link as "never acknowledged" (`link_layer.cpp:738`, `:1015`).
8. iAP2: the out-of-order buffer keeps copies; a copy is delivered one wrap later
   (`link_layer.cpp:805`).
9. iAP2: the queue is drained from `handleAck` only (`link_layer.cpp:753`); on a
   zero-acknowledgement link an old acknowledgement can close the window, and a
   chunk queued then waits for a packet the phone need not send.
10. Bag: the index that a failed writer saves counts messages no part holds
    (`writer.cpp:504`, against `metadata.h:72`); `bag reindex` repairs it.
11. Bag: an index saved during a recording always says 0 dropped (`writer.cpp:242`,
    `record.cpp:244`, against `docs/bag.md:221`).
12. Bag: part names sort lexically and are padded to four digits (`rebuild.cpp:42`).
13. Bag: a capacity of 0 pops an empty deque (`queue.h:63`).
14. Tiles: the zoom range is learned from the first reply before its status is
    looked at (`tile_source.cpp:169`); a refusal carries none
    (`map_server/services.cpp:127`) and fixes it at 0-0 for ever, although "one
    reply is enough and every later one says the same thing".
15. Tiles: a request that cannot be sent fails its batch twice (`tile_source.cpp:289`,
    against `zenoh_async_client.h`, which has called back already), so the first
    retry comes after 1000 ms.
16. Tiles: the destructor relies on the client holding the last session reference
    (`tile_source.cpp:69`); with another user of the session in the process, queries
    outlive the source and call back into it.
17. Bag: `noteAdvertised()` runs on the main thread while the writer thread
    is in `write()` (`record.cpp:216`, against `writer.h:48`).
18. iAP2: any ACK ends the negotiation (`link_layer.cpp:728`), also one that comes
    before the SYN with the parameters; and with a `max_outgoing` of `max_ack + 10` or more,
    packets more than `max_ack + 10` ahead of an acknowledgement are taken for acknowledged
    (`:740`), so one that was lost is never sent again.
19. Agent: a task whose caller timed out refers to the `entry` and `params` of a frame
    that is gone, or is that of the caller's next request (`server.cpp:192`), although
    `gui_thread.h` keeps the promise alive so that a late task writes to something that exists.
20. Agent: `TimeoutError` is an `OSError`, so a request that was slow is sent again on a new
    connection while the first is still queued: a mutating one runs twice. A "busy" answer does not
    mean that the request will not run.
21. Agent: a record that is numbered but not stored at the time of a poll is skipped by a caller that
    polls with `next_seq` (`log_sink.cpp:146`), and the records a limit clips are not
    counted as dropped: `dropped` reports one of the three ways a record is lost to the
    caller (`docs/agent_control.md:232`).
22. Agent: `stop()` joins threads that are in `recv()` and does not shut their sockets
    down (`control_socket.cpp:139`): a peer that stays connected keeps the application from exiting.
    `server_fd_` is a plain `int` shared by two threads.
23. BD992: a reply that comes after its deadline is taken by the next command
    (`control_client.cpp:117`). `EventuallySettled` shows that the loop gets over it.
24. BD992: with `recheck_interval_s` 0, a first pass that fails is never repeated.
25. Tiles: a tile in the mailbox is neither cached nor in flight, so a paint that
    comes before the drain asks for it again. Harmless, and modelled.
26. Bag: `saveMetadata` tests its stream before the buffer is flushed (`metadata.cpp:79`);
    what the destructor cannot write at `:84` is lost, and an empty or shortened
    temporary is renamed over a good index, although `metadata.h:111` promises the "previous index
    intact rather than a half-written one". A part's entry that was cut reads as complete
    (`metadata.h:44`). `bag reindex` repairs it, but for the drop count. The third scenario of
    `bag` has such saves: `IndexTellsTheTruth` says what is left of an index.
27. BD992: a plan of more than 31 records is refused before it is sent
    (`control_client.cpp:283`) at every pass; `commands.h:405` says that it "is sent as several APPFILE
    commands". A file with more than 31 outputs is refused likewise (`:254`). `bd992` has both.
28. BD992: an output of the node's configuration with rate off that the receiver does not list is
    Missing to `diff` (`output_config.cpp:107`) and, if the receiver does not list what is off, is
    written at every pass, although "Applying an application file restarts outputs"
    (`docs/bd992.md:176`).


## 7. Not modelled

Of the modelled components: byte framing and checksums, times and origins of
messages, the mcap format, the unstamped counter, formatting and logging; the
detect phase of the iAP2 link without `initiate_negotiate` (the node always
initiates) and the reassembly of control messages; the
destructor of `TileSource`, several sources per widget, stand-in tiles, decoding;
the handlers of agent control other than `app.logs` and its methods that use zenoh, the
supervisor that starts the application for the tool; of BD992 the `StreamClient`, `TcpStream`,
the publishers, the mock and the decoding of records, `get_output_config` (a dry run of a
pass) and `send_command`: a raw command may have a reply of several packets, of which
`exchangeLocked` takes one, so that `OwnReply` would not hold of the command after it.

Of the other components, see `PROJECT.json`: parsers, codecs, file formats and
geometry are pure and belong to unit tests; drawing is presentation; hardware
wrappers have the hardware's behaviour.


## 8. Plan

In order of what matters most.

1. Done: relay node, iAP2 link, recorder, tile workers, tile source, agent
   control with its client, BD992 bridge.
2. Extend the models: the `TileSource` destructor and several sources; the iAP2
   detect phase and a phone that acknowledges early; the BD992 stream.
3. New components: the CarPlay audio ring and the scope's sample ring (lock-free
   indices, overrun); the CANopen SDO client (late segments); the virtual CAN backend; the
   AirPlay receiver's teardown; the pub_sub topic directory.
4. Proofs. Done: all safety properties of the workers, the tile source, the recorder, agent
   control, the BD992 bridge, the relay and the iAP2 link. Left: what the extensions above
   will add.
