# TLA+ models of quiche-h3

`quiche-h3` bridges `h3` (an HTTP/3 stack that polls QUIC streams) to `tokio-quiche`, whose worker
task owns the `quiche` connection. Per connection there are two sides on different threads: the
*worker*, which runs `QuicheDriver` inside tokio-quiche's IO loop, and the *front end*
(`Connection`, `StreamOpener`, `H3SendStream`, `H3RecvStream`) polled by h3. They share an unbounded
command channel, one bounded byte channel per receive half, "terminal" cells, a reusable
write-completion cell per send half and a few atomic flags. A server endpoint has in addition a
registry of workers shared by acceptors, `close()` and `wait_idle()`.

All line numbers are in `src/quiche-h3/src/`.

## Inventory

| component | state | operations | interacts through | hard parts | what makes it correct |
|---|---|---|---|---|---|
| receive path: `driver.rs` read pump, `stream.rs` `H3RecvStream` | registry `recv`, cursors `pending_readable`, `pending_resume`, budgets; per stream `blocked`, `resume`, byte channel, terminal | `intake_readable`, `drain_resumed`, `phase1_registered_drain`, `drain_stream`; `poll_data`, `stop_sending`, drop | byte channel, flags, `RecvResume` / `StopSending` commands, terminal cell | parking on a full channel against a concurrent pop; ids leave quiche's queue for good; end after the last byte | bytes in order, end last, nothing forgotten, every end delivered |
| send path: `driver.rs` stages (a), (d), (e), `stream.rs` `H3SendStream` | registry `send` (`send_ops`, `held`, `pending_reset`, `terminal`, `finished`), `runnable_send`; front end's stash, generation, `finalized`, `local_terminal` | `poll_ready`, `poll_finish`, `reset`, drop; `apply_inbox`, `stage_writable`, `stage_send`, quiescent flush, `send_terminal_transition`, reclamation | `Send` / `Finish` / `Reset`, status cell, completion cell, finish oneshot | held writes, shared capacity, STOP_SENDING against reset, late commands, close | wire order, FIN complete, each operation answered once, no work or entry forgotten |
| endpoint: `endpoint.rs`, `listener.rs` | `EndpointState` behind a mutex, two `Notify`s, the acceptor's handshakes | `try_register`, `ConnRegistration::drop`, `close`, `wait_idle`, `accept` | mutex, notifications, `Close` commands | admission fence, lost notifications, racing closes | nothing admitted or yielded after close, exact count, first frame |
| `buffer.rs` `TerminalCell` | slot, waker | `set`, `get`, `poll` | – | registration against set | first writer wins, no lost wake |
| `buffer.rs` `WriteCompletion` | generation, slot, waker | `begin`, `completer`, `complete`, drop, `poll` | – | reuse over writes | a write reports its own outcome |
| `buffer.rs` `SendAccounting` | `resident`, waiter map | `try_reserve`, `register_waiter`, `unregister_waiter`, `release` | permits in commands and operations | release against park, oversize writes | exact residency, cap plus one unit, no lost wake |
| admission: `phase2_admission`, `promote_parked`, `admit_one`, `poll_accept_*` | `pending_admit` and its queues, `admit`, `parked_*`, accept channels, resume bits | `intake_readable`, `stage_writable`, admit, park, promote, `ConnectionDropped`; `poll_accept_*`, drop | bounded accept channels, resume bits, terminal cells | destructive cursors, STOP_SENDING before admission, lost resumes, undelivered streams | each peer stream delivered or shut down once, in order; the terminal last |
| opened streams: `stage_open`, `StreamOpener` | open queues, id counters, one slot per class and opener | `poll_open_*`, clone, drop; materialization, reply | command channel, oneshots, terminal cell | cancelled and undeliverable replies, open after the terminal, budgets | ids dense, no half left over, each request answered with the cause |
| close machine: `apply_close_barrier`, `wait_for_data`, `do_on_conn_close` | `pending_close`, `explicit_close_attempted`, `local_close`, `graceful_close_issued`, `last_handle_teardown` | staging, barrier, last-handle teardown, classification, publication, drain | cells, command channel | two closes, the peer's close, a timeout and the end of the channel in any order | first close wins, one cause for everybody, the worker ends |
| error mapping: `error.rs` | – | `conn_terminal_from_error`, `to_h3`, classification of stream errors | – | who closed | a local close is never shown as the peer's |
| connector: `connector.rs` | – | `connect` | driver handles | dropped or failed set-up | the worker does not outlive it |
| `QuicConn`, `lib.rs` | none | – | – | – | – |

## Modules

| module | models | checked by | proved in |
|---|---|---|---|
| `RecvPath` | receive path | `MCRecvPath`: `RecvOne`, `RecvStoreBuffer` | `RecvPathProofs` |
| `ByteStream` | abstract: what a receive half promises h3 | `RecvOne` (refinement) | – |
| `SendPath` | send path | `MCSendPath`: `SendOne`, `SendTwo`, `SendZombie` | `SendPathProofs` |
| `Admission` | admission, accept channels, handoff cleanup | `MCAdmission`: `Admission` | `AdmissionProofs` |
| `ConnWorker` | set-up, opened streams, close machine, error mapping | `MCConnWorker`: `ConnWorker`, `CloseSpin` | `ConnWorkerProofs` |
| `Endpoint` | endpoint and acceptors | `MCEndpoint`: `Endpoint` | `EndpointProofs` |
| `TerminalCell` | the cell | `TerminalCell` | `TerminalCellProofs` |
| `WriteCompletion` | the cell and its completers | `WriteCompletion` | `WriteCompletionProofs` |
| `SendAccounting` | the send-byte cap | `MCSendAccounting`: `SendAccounting` | `SendAccountingProofs` |

An operator whose name is that of another one with a suffix (`Fits_Current` for `Fits`) is a
plausible mistake in the same code, kept beside it; `PROJECT.json` pairs each with a property that
must fail once it takes the operator's place. No specification uses them.

### RecvPath

Data is reduced to chunk numbers: the peer sends chunks `1..qsent[s]`, quiche will return
`qnext[s]` next, the channel `chan[s]` and the application's `delivered[s]` hold numbers.
The worker is one process with a program counter (`wpc`): a *packet* iteration runs the pump and then
applies commands, a *no-packet* iteration applies commands first (`do_process_reads`,
`do_process_writes`). A step is one command, one readable id or one part of a `drain_stream` loop
turn (`DrainReserve`, `DrainRecheck`, `DrainChunk`, `PublishTerminal`, `SealRecv`, …). The front end
has its own counter (`cpc`) with one step for each access to shared state in `poll_data`,
`signal_resume`, `stop_sending` and drop. Every budget constant of the driver is a CONSTANT.

The worker's `Release` and `Relaxed` stores of `blocked` and `resume` go through `storebuf`. With
`SeqCst = TRUE` a load waits for the buffer, with `FALSE` the loads that find the channel full do
not; read-modify-writes, locks and successful reservations always wait. The channel's `try_reserve`
is a load when no permit is left, which is what lets the second look at the channel pass the store.

### SendPath

A write is its number and its size in units the transport may split; `wire[s]` is what quiche
accepted, with `FIN` and `RESET` as units of their own. `cap` is the connection's send capacity, shared by
all streams, which grows in `GrantCredit`. The registry is a function whose domain is the set of
entries, since creating one afresh in `enqueue_send_op` is observable; `shared` says whether the entry's status
cell is the one the handle reads. A round-robin turn is one step, or two when a held write is flushed
before the head operation. The front end's
reservation of bytes is `SendAccounting`'s subject; the default configuration has no cap.
A receive half only exists here as a member of `recv` that ends at some point (`mark_recv_done`).
Init leaves open which bidirectional streams still have theirs, which of those the peer opened
(`admit` holds their `Registered` state), and which of these it stopped before they were admitted: `build_send` gives such a
half a preset status cell and no entry (`BuildSend`). quiche surfaces no id at zero connection capacity, stopped or not
(`SPIKE_OUTCOMES.md:319`). On a stream that was shut it refuses data (`Answers`); a FIN is not offered there, since a handle that
resets is finalized (`Handle` and `Half` in the proofs).

`WorkIsCovered` and `WriteResolvesOrCollected` set apart streams that quiche has collected while operations
for them were still on their way. There are two ways to get there. An entry that `enqueue_send_op` creates again for a stream whose
first entry was reclaimed has no terminal and a status cell nobody reads (`SendZombie`). And a stopped stream that is collected before the
writable scan reaches it (the scan is bounded by `WRITABLE_BUDGET` and finds nothing at zero capacity) never gets its STOP_SENDING reported; this one was found
when the proof of an exemption for the first way alone failed. In both, quiche answers as for an unknown stream
(`StreamSendClass::ConnGone`), which leaves the operations queued until the connection ends.

### Admission

A stream is a model value with a class; the peer opens streams with data and may stop the bidirectional ones
(`Packets`), before any data too. `readable` and `writable` are quiche's cursors, from which a scan takes ids
for good. The worker runs `intake_readable`, `phase2_admission` and `promote_parked` (bidi, then
uni) before or after `apply_inbox` as the iteration has a packet or not, then `stage_writable` and
`stage_send`. Each look at an accept channel or a resume bit is a step, and so is each of `poll_accept_*`:
the poll, the swap of the bit, the nudge, the read of the terminal cell, the sealing recheck. A dropped
`Connection` sends its command first; then each receiver closes (`DropReceiver`) and the handoffs queued in it are dropped
one at a time with their cleanup (`DropHandoff`), the bidi receiver first, while the worker goes on.
A scan takes a set of ids, and the new ones among them are queued in some order (`Discover`): quiche's own order is
not relied on.

What is taken from quiche: an id whose directions have all ended is not reported again. The
design calls this the premise of contract A (`quiche-h3-bridge.md:790`) and names one doubtful path, a late STOP_SENDING.
`LateStop = TRUE` lets it happen, and `OnePlace` then fails: the stream is admitted a second time. The runs,
and the theorems about `OnePlace`, `StopKept` and `InClassOrder`, have `LateStop = FALSE`. A stream is `Stranded` when an iteration that falls between the command of
`Connection::drop` and the end of the receivers parks it: the command has been applied, no resume can come, and it
stays until the connection ends. The code does not promise otherwise, and `StreamsSettle` sets it apart. Flags and
channels are sequentially consistent here, so `NoLostAcceptResume` says that the protocol is right, not that its memory
orders are: `promote_parked` clears its bit with a Relaxed store and then, on a full channel, only loads the
permit count, the pattern that `RecvStoreBuffer` shows to be too weak for `blocked`.

### ConnWorker

The front end is the set-up task and a set of `StreamOpener`s (`First` is the one inside the `Connection`),
each with two slots that hold its request (`send`, `queued`) or the reply. The worker applies commands one at
a time, then works through the open queues with separate steps for the check of a request and its reply
(`stage_open`, `deliver`), which is the window in which a poller can go away. `HasHandles` is the strong count
of the command sender, with the handoffs nobody has polled. A dropped stream or handoff sends the commands of
`HandoffCleanup`. `peer_error`, `local_error` and `timed_out` are quiche's; `close_bug` is
the answer of `qconn.close` the code calls a bug, which may be given at any call. `on_conn_close` publishes
the terminal and `drain_on_close` answers what is left, as two steps, since openers run in between.

What is taken from quiche: `stream_priority` succeeds within the credit it reported; the empty FIN of the `Finish` that follows
`cleanup_undeliverable_open` is accepted, the stream having been shut at that same offset and not collected yet (were it collected before the command is
applied, the answer would be `ConnGone` and the new entry would stay until the connection ends, as in `SendZombie`); `close` answers `Done` on a
connection that is closing; an idle timeout ends the loop at once; a closing connection takes nothing but the peer's close.

### Endpoint

Each lock section of `EndpointState` is a step, each `notify_waiters`, send and await another. A
turn of `accept` arms its `Notified`, reads `closing`, and selects. A `Notified` that was enabled receives
a notification, whether or not it is awaited yet (tokio's contract). Workers are reduced to their states (handshake,
established, closing, notify, exited) and the `Close` commands in their channel. The weak sender in
the registry can be upgraded while the front end or a `close()` in progress holds a strong one.

### The three cells

`TerminalCell`, `WriteCompletion` and `SendAccounting` separate lock sections, atomic updates, waker registration and
wakes. Polls may happen at any time, not only after a wake. `poll_ready` begins a write only after the report of the last one;
the generation check of `WriteCompletion` is for clients that do not wait, as its unit tests are (`buffer.rs:650`), and `Supersedes = TRUE` has them:
`Supersede` begins a write with the old completer still out, which may then complete, be dropped or wake at any later time. `RecvPath` and `SendPath` use the first two as atomic cells, which is what
their own modules justify.

## Runs

Deadlock checking is off everywhere: a connection that is idle, or closed, has nothing left to do.

| run | shows | bounds |
|---|---|---|
| `RecvOne` | every byte in order and before the end, no forgotten stream, refinement of `ByteStream`; an end is delivered, a drop releases the entry | one stream, channel depth 1, 4 chunks: enough to fill, park, resume and park again; budgets of 1 and 2, so that each runs out in the middle of a stream |
| `SendOne` | wire order, complete FIN, accounting of every operation, no forgotten work, reset and STOP_SENDING, reclamation, everything answered | one stream, send-only or bidirectional; two writes of 0 or 2 units, chunks of 1, capacity 1 growing to 4: held, partial and blocked writes all happen; budgets of 1 |
| `SendTwo` | every write is answered and every held write leaves with shared capacity | two streams, two writes of 2 units each; capacity 1 growing to 8, all that is written |
| `Admission` | one place for every stream, stops kept, order within a class, no lost accept-resume, terminal last, every stream settles | two bidirectional streams, accept channel of 1, ADMIT and PROMOTE budgets of 1, the other budgets 2: one stream is parked while the other is in the channel, and a budget ends between them. `InClassOrder` is about the pending queue here; two parked streams take a third one (below) |
| `ConnWorker` | one cause for all, first close wins, dense ids, no half left over, requests answered, the end of a connection without handles | two openers for bidirectional streams, credit for one, two explicit closes, OPEN_BUDGET 1: a backlog, a request without credit, and both orders of every race. With one id `IdsDense` catches a burned one; that none is given twice is left to the proof and to the larger instance below |
| `Endpoint` | fence, count, delivery of the close; `wait_idle` returns, `accept` ends | one acceptor, closer and waiter, two connections, one handshake in flight |
| `TerminalCell` | one winner, no lost wake | three setters |
| `WriteCompletion` | every report is the outcome of its own write, a write not given up is reported | three writes of one cell, two results and cancellation, any of them superseded: two stale completers at once |
| `SendAccounting` | exact residency, cap plus one unit, no lost wake, no waker left over, a parked sender gets on | three streams with one write each, cap 2, writes of 1 and 3: two small ones fit together, the large one only alone. Zero-byte writes are not in the run (they never wait); the theorems have them |

Each of these takes between some seconds and two minutes. Other instances, too long for a run or without its liveness part, were
checked and passed: in `Admission` a uni stream beside the two bidirectional ones (14.8 million states, invariants) and three
uni streams, of which two are parked at once (885,100 states, the invariants and `InClassOrder`); in `ConnWorker` one opener for each class with credit for both and one
close (937,430 states, all six properties) and the instance of the run with credit for two streams (2.8 million states, the invariants, `IdsDense` among them); in
`SendAccounting` zero-byte writes beside the other two sizes (1.1 million states, all properties). Two closers and two connections together with liveness are out of
reach in `Endpoint`; what two closers could break (`FirstFrameWins`) is proved.

Three runs state what a comment or the design says and show that the code does otherwise (quoted in
`PROJECT.json`, `findings`):

* `RecvStoreBuffer`: "we never park with a slot already free" (`driver.rs:1358`) does not follow from
  a Release store followed by a load; with the store delayed both sides miss each other. With
  sequentially consistent flags (`RecvOne`) it holds.
* `SendZombie`: a `Send` after the terminal is completed "immediately once" (`driver.rs:2180`): not
  when the entry was reclaimed while the command was queued.
* `CloseSpin`: the design marks `graceful_close_issued` "as the one-shot EOF consumption" (`quiche-h3-bridge.md:929`)
  whether or not it then closes. `apply_close_barrier` sets it only when it calls `qconn.close`; if the peer
  has closed by then it makes no call, and `wait_for_data` returns at once, again and again, until quiche's
  drain timer fires. `WindsDown` shows that the worker ends all the same.

Four more places where the text promises more than the code does, visible in the models and left
without a run of their own:

* `driver.rs:2612`, "park it (do not requeue — no spin)": the quiescent flush puts a held write that
  parked back into the round robin with no capacity gained.
* `stream.rs:129`, "its absence is an adapter bug": polling after one's own `stop_sending` finds a
  closed channel without a terminal. `ByteStream` allows that one way to it and no other.
* `driver.rs:2423`, "bytes are guaranteed sendable": another stream may use the capacity first. The
  bytes still leave later (`HeldLeaves` in `SendTwo`).
* `driver.rs:2260`, the drop-driven cleanup: it does not remove the entry of a send-only stream that
  was reset. `FinishedIsReclaimed` is about the paths that do reclaim.

## Fairness

* `RecvPath`: weak fairness of the worker's step, of the store buffer, of each reader that has not
  ended, and of completing a drop in progress: tokio schedules a woken task, stores
  become visible, and h3 polls a stream it reads. Arrivals, closes, `stop_sending` and the start of a drop
  are not fair.
* `SendPath`: weak fairness of the worker and of the front end's pending poll; strong fairness of
  `GrantCredit`, i.e. the peer goes on granting capacity up to the bound, without which no blocked write
  could end; strong fairness of `ClosePublish`, because a
  closing connection is ended by quiche's drain timer, and the IO loop looks at that timer however
  often the worker has iterations to run (the quiescent flush may repeat for as long as nothing else happens).
* `Endpoint`: each worker that is closing ends, a handshake ends one way or the other (the
  documentation of `close` asks for a finite handshake timeout), `close()` and `wait_idle()` calls go on, and the
  application keeps calling `accept`. The arm that takes a finished handshake is strongly fair: an `accept` future may be
  cancelled and called again for ever, but each call polls that arm before it can park.
* `Admission`: weak fairness of the worker, of a poll that has begun and of a destructor; strong fairness of polling an
  accept channel that has a stream, as h3 keeps accepting while it holds the `Connection`. A connection without handles is closed, which
  is `WindsDown` of `ConnWorker`. Packets, drops and closes are not fair.
* `ConnWorker`: weak fairness of the worker, of a destructor and of a poll between its check and its send;
  strong fairness of `on_conn_close`, since tokio-quiche's select is biased towards the timers, so that the
  drain timer of a closing connection is seen however often `wait_for_data` is ready (the point of `CloseSpin`).
* The cells: completers, permits in hand and woken pollers take their next step. `ParkedLeaves`
  holds for a bounded number of writes; the waiter map has no order, and nothing here says that a large write
  cannot be overtaken for ever by an endless supply of small ones.

## Proofs

The proofs hold for every number of streams, openers, writers, waiters and connections and for every budget, cap and credit that
the assumption of the module allows. Each inductive invariant `IInv` was checked by TLC on small instances before it was proved.

* `EndpointProofs`, from `EndpointAssumption` alone: the ids are an interval, so the registry is finite and can be
  counted (`RegistryFinite`). `LiveCountsWorkers` needs to know which ids were never used (those from
  `next_id` on) and that only running workers are registered; `DrainedIsFinal` needs that a
  waiter which saw a closed and empty endpoint keeps seeing one, i.e. the fence; `FirstFrameWins` needs
  that every frame on its way (in a `close()` call, in a worker's channel) is `close_frame`.
  `IInv` adds these (`Fresh`, `Drained`, `FrameCopies`) to the types and the two invariants. `CloseReachesWorkers` needs to follow a
  `close()` from its snapshot on: a registered worker is in the rest of somebody's snapshot or has been told
  (`Told`). The lost-wakeup parts are invariants of their own: `NoLostIdleWake` and `NoLostAcceptWake` are the safety half of
  `WaitIdleReturns` and `AcceptEnds`. The action properties `NoAdmissionAfterClose`
  and `NoYieldAfterClose` follow from the guards re-read under the lock.
* `TerminalCellProofs`: `IInv` adds to the types and `OneWinner` that a poller past its registration
  has its waker in place or was woken (`Covered`), and that the waker of a poller asleep on a value
  that is there is still to be taken by the winner's wake (`WakerIsTaken`).
* `WriteCompletionProofs`: `ReportsOwnOutcome` needs that a reported write is over and one that has begun is reported, given up or in progress (`Counted`), that later ones have not begun,
  and that what is in the slot belongs to the current generation, save in `begin` before the slot is cleared (`Current`); `NoLostWake` needs that a front end past its registration
  has its waker in place, or was woken, or a completer still has its wake to give (`Covered`). Completers of superseded writes may be out for as long as they like:
  `Stores` refuses what they bring.
* `SendAccountingProofs`: `NoLostWake` is not inductive alone. `Owned` says which permits
  exist and which one `poll_ready` still holds, `DrainedOnly` that wakers are in hand only while a release hands
  them out, `Listening` that a sender between registration and park is in the map, or in such a hand, or woken. `FitsIsMonotone`
  is what makes a release, and nothing else, able to turn a rejected reservation into one that fits. `NothingLeaks` is about the sum of the permits' bytes. The community
  module defines it by a recursion that picks an element; that it unfolds at any element (`SumUnfolds`) and grows or shrinks by one permit
  (`TotalFacts`) is shown with a smallest set where the claim would fail (`SmallestSubset`), in place of an induction.
* `ConnWorkerProofs`: `IInv` has a part for each thing that a request, an id or a half can meet. `Front` relates the slots, the
  requests in the channel and in the queues and the program counters of the openers; `Once` says that a request is in one of those places; `Orphan` that nobody
  has a handle once the command channel has ended. `Closes` orders the close commands against `pending_close` and the barrier, and gives `FirstCloseWins`;
  `Cause` ties the published terminal to quiche's errors and gives `TellsTheCause`. `Dense` and `Owners` say which ids have been given and who has
  them (`IdsDense`); `Halves` accounts for each entry of the registry by an owner or a command that will remove it (`NoLeakedHalf`).
* `AdmissionProofs`: `Nudged` (what wakes the worker for a parked stream, in every state of the worker and the acceptor) gives
  `NoLostAcceptResume`; `Sealed` gives `TerminalIsLast`. These two need no premise about quiche (`BaseInv`). `OnePlace` does, and with it the other parts: `Places` is the
  partition of the found streams; it is kept by a scan only if no cursor returns a stream the worker has forgotten. That is `Ends`: a forgotten stream has ended
  in both directions and is on no cursor, which depends on `Paired`, the Finish of a dropped bidirectional stream being taken before its StopSending (so Write has been ended
  by the time the entry goes). `StopKept` is then inductive. `Aged` says that the pending and the parked queue of a class
  are in the order of discovery and that what is parked is older than what is pending; it gives `InClassOrder`. The theorems that
  rest on `Ends` are stated for `LateStop = FALSE`; the premise is contract A, and TLC shows that `OnePlace` fails without it.
* `RecvPathProofs`. The runs have one stream; the theorems hold for any set of them, with the cursors, the commands and the budgets they share.
  The steps are first sorted by the effect they have (`StepCases`): bookkeeping of the worker that no reader sees, effects
  on one stream, and steps of one reader. *Delivery*, for both memory orders: `NothingLost` has to know when no byte can follow any more. That is `Closed`
  (no entry, or the drain that has it is sealing, or the connection is being torn down), which no step undoes. `Told` relates the
  cell, the registry and the reader to it: a terminal is published only into a closed stream, it is the end quiche reported, and a reader past
  its second look has an empty channel; `Flow` numbers the delivered and the waiting chunks. `IInv` also carries the refinement of `ByteStream`: without
  it, a reader could be told "internal" with nobody having stopped the stream. *Parking*, for both memory orders too: `ParkInv` follows the flag.
  `Buffered` lists what the worker can have stored, and not yet published, at each point of a drain; `Offered` says that between the store of `blocked` and the second look
  the flag is still there, or in the buffer, or a reader that took it has got as far as the resume, the command or the cursor; `Requested` says that a set `resume` bit stands for a
  resume that has not been served, or for a clear that is in the buffer, which is why a reader that finds it set may send nothing. `Parked` is the claim itself. Its weak half is
  `FlagIsNeverLost`: the flag is set, on its way or taken. That the channel is also full does not follow from the code's memory orders (`RecvStoreBuffer`); it holds in every behaviour
  in which no second look finds the channel full with the store of `blocked` still in the buffer (`Overtakes`), which is `ParksWithFreeSlotOnlyByOvertaking`: the
  counterexample of the run is the only kind there is. With sequentially consistent flags no step overtakes.
  *Cursors*: `CursorsExactOnce` justifies that `Without` removes one place only.
* `SendPathProofs`, for any finite set of streams. `IInv` is about one stream at a time (`Chain`), beside the types and what the worker's program counter says of the
  stream it serves (`Stage`). `Queues` says that the commands of a stream and the operations in its entry are, in order, at most one write, one finish and one reset, and
  that a write among them is the current generation; `Handle` relates the front end's program counter to them; `EntryState` gives the shapes an entry can have
  (live, ending with a reset, stopped, finished) with what quiche has seen in each; `Reported` says what the front end has been told.
  A step disturbs one stream: the others keep everything their part mentions (`Same`), and the turn steps are first reduced to what they do to the entry
  (`Updated`, `Removed`). `InFlightAccounted`, `AnswersAreTrue` and `FinishedIsReclaimed` follow from `IInv`. `WorkIsCovered` needs in addition `Turns`: the round robin has an id at most once (`Robin`),
  a live stream with queued operations has its turn or an armed mark (`Covered`), an id in the round robin has work (`Useful`), and quiche's half is finished
  by a FIN and shut by a reset only (`Half`). `WireIsBody` needs `BodyInv`: for a live entry the units on the wire, the held write and the rest of the head
  operation add up to the write's size (`Carried`). That a transmission keeps the order is `BodyGrows`; the counts of units are handled by lemmas on
  `Count`, with the cardinality theorems of the library.

The lemmas about sequences (`AppendElems`, `ConcatElems`, `TailElems`) are stated in each module that needs them, in the form it needs.

Every safety invariant and action property of the passing runs is proved. Model-checked only: the liveness properties (fairness and `ENABLED` are out of the prover's reach).

## Not modelled

* A failure of `stream_priority` within the peer's credit, which `stage_open` answers with an internal error.
* `pending_recv_terminal` of a `PeerStream`: no code sets it. The branches of `phase2_admission` and
  `promote_parked` for an id that is in two queues: `OnePlace` shows that there is none.
* The eviction of a stale id in `service_send_turn` (`driver.rs:2321`): `WorkIsCovered` shows that
  every path that ends a stream's work also takes the id out of the round robin.
* `StreamRecvClass::Bug`, `StreamSendClass::Limit` and `Bug`: answers quiche does not give on a
  registered stream; the code maps them to an internal connection terminal.
* Byte contents, the receive arena, error codes and reasons, logging: no property depends on them. A reset or
  stop code travels with the terminal it belongs to.
* `conn.rs`, `lib.rs`, the stream-level part of `error.rs`, and the configuration and socket calls of
  `connector.rs` and of `bind`: no state of the bridge.

## Plan

1. (done) `RecvPath`, `SendPath`, `Endpoint`, the three cells, the abstract `ByteStream`.
2. (done) `Admission`, with the writable-path discovery and `HandoffCleanup`.
3. (done) `ConnWorker`: opened streams and the close machine, in one module because the last handle, the
   queued requests and the published terminal are what makes either hard.
4. (done) Proofs: the three cells, `Endpoint`, `ConnWorker`, `Admission`, `RecvPath` with the refinement of `ByteStream`, `SendPath`.
5. A composition of `Endpoint`'s workers with `ConnWorker` in place of the reduced worker is not planned: each
   abstracts the other to one action (`ApplyClose` and `Teardown` there, `close` here), and the product is out of TLC's reach.

The project is kept to a dozen runs, each a few minutes at most.
