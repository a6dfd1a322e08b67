# Verification of Alyrn

TLA+ specifications of the Alyrn runtime (C++ coroutines over epoll and io_uring), checked with TLC
on small instances and, where it matters most, proved with TLAPS for every value of the constants.
`PROJECT.json` is the index: components, runs, mutants, the map from definitions to source lines,
findings, hazards and theorems. Paths below are relative to the repository root.

## 1. The system and its parts

| part | source | specification | state of the work |
|---|---|---|---|
| Spawn / JoinHandle | `include/alyrn/coro/spawn.h`, `coro/detail/spawn_*.h` | `SpawnJoin` | modelled, proved |
| RecvSource state machine | `net/detail/recv_source_state.h` | `RecvSourceMachine`, `SourceMachines` | modelled, proved |
| AcceptSource state machine | `net/detail/accept_source_state.h` | `AcceptSourceMachine`, `AcceptSourceState` | modelled, proved |
| RecvSource, epoll and io_uring | `src/{epoll,uring}/recv_source.cc` | `EpollRecvSource`, `UringRecvSource` | modelled (io_uring: partly) |
| Listener and AcceptSource, both | `src/{epoll,uring}/listener.cc` | `EpollListener`, `UringListener` | modelled (io_uring: partly) |
| Channel and Select | `coro/channel.h`, `coro/select.h` | `ChannelRing`, `ChannelSelect`, `ChannelFifo` | partly; the ring is proved |
| Loop, epoll and io_uring | `src/{epoll,uring}/loop.cc` | `LoopMailbox`, `EpollLoop`, `UringLoop` | partly, proved |
| Runtime, WorkerGroup, Worker | `src/{epoll,uring}/{runtime,worker_group,worker}.cc` | `RuntimeLifecycle` | partly, proved |
| Stream, both | `src/{epoll,uring}/stream.cc`, `net/detail/stream_lifecycle.h` | `StreamLifecycle`, `EpollStream`, `UringStream` | partly, proved |
| Channel and Poller of epoll | `src/epoll/{channel,epoll_poller}.cc` | `EpollStream` | partly: one descriptor |
| TimerQueue, epoll and io_uring | `src/{epoll,uring}/timer_queue.cc`, `detail/timer*.h` | `TimerIndex`, `EpollTimerQueue`, `UringTimerQueue` | modelled, proved |
| SleepFor, Timer, Ticker | `src/{epoll,uring}/timer.cc`, `detail/timer_channel.h` | `LoopTimers` | partly, proved |
| Connector, both | `src/{epoll,uring}/connector.cc` | `EpollConnector`, `UringConnector` | partly: one connect |
| Red-black tree | `detail/intrusive_rbtree.h` | `IntrusiveTree` | modelled |
| Intrusive list and queue | `detail/intrusive_{list,queue}.h` | `IntrusiveLinks` | modelled |
| Coroutine frame allocator | `coro/frame_allocator.h` | `FramePool` | partly: one size class |
| Object and memory pool | `detail/{object,memory}_pool.h` | `ObjectPool` | modelled |
| Buffer | `net/buffer.h` | `Buffer` | modelled |
| Provided buffers | `uring/detail/provided_buffer_*.h` | `ProvidedBuffers` | partly |
| result lifecycles | `detail/*_lifecycle.h` | within their users | partly |
| Ring set-up, Task, facade, endpoints, options, connection server | see `PROJECT.json` | - | not modelled: section 7 |

How they interact: a *Runtime* owns a *WorkerGroup*; every *Worker* runs one *Loop* on one thread.
All I/O objects belong to a loop and are used only on its thread, so their handlers are atomic with
respect to each other; what interleaves there is the order of callbacks, completions and coroutine
resumptions. True concurrency is at four places: `Post()`/`RequestStop()` of a loop, `Spawn` with its
`JoinHandle`, the control plane of the runtime, and the kernel behind io_uring.

## 2. The modules

**`SpawnJoin`**. The protocol over the one atomic word `phase_` of a `SpawnState`, which lives inside the
coroutine frame it decides the fate of. Producer (the root) and consumer (the handle: `Wait()`,
`co_await`, release) take one step per atomic access and per access to plain fields between two of
them. A failed `ALYRN_CHECK` is the step "panic".

**`RecvSourceMachine`, `AcceptSourceMachine`**. The backend-neutral state machines as operators from one
record to the next, because an adapter changes them several times in one handler.
`SourceMachines` (receive) and `AcceptSourceState` drive them by every legal sequence of calls. `DrainBarrier`
is the abstract specification both implement: a source that was asked to stop is over exactly when no
request, event or lease is outstanding, and then stays over. `AcceptSourceState` covers the one-shot
and the multishot form: its variable `multishot` is chosen in the initial state and never changes.

**`EpollRecvSource`, `UringRecvSource`, `EpollListener`, `UringListener`**. The adapters, which extend the
machines. Each member function of the class is an operator on a record of the object's fields, so that
a handler composes them in the order of the code (reentrant calls included), and each callback, awaiter
or public call is one action. In the io_uring modules the kernel is external: it processes requests
and fills the completion queue in any order it is free to choose. A cancel request may find its target
already executing (`EALREADY`): the target then completes later by itself. `EpollListener` has several
sources that take turns on the one channel.

**`ChannelRing`** is the ring buffer of a channel (`bit_ceil(capacity)` slots, masked indices),
**`ChannelSelect`** the channels, the awaiters with their registrations and the scheduler's queue.
**`ChannelFifo`** is what a channel promises: a value is accepted once, what was accepted is what was received followed by
what is buffered, in that order, and only a sender that still waits may withdraw its value. `ChannelSelect` keeps for it, as a history
variable, the values each channel has accepted.

**`LoopMailbox`** holds what both loops share (state, `Post()` queue, eventfd, scheduled work),
**`EpollLoop`** and **`UringLoop`** the two `Run()` functions. `UringLoop` adds the ring: requests prepared,
submitted (in part, if the kernel takes only some), completed, counted; the single-shot poll on the
eventfd; the bounded reaping; the drain that cancels everything at a stop.

**`RuntimeLifecycle`** has the control thread (`Run()`, or `Start()` and `Stop()`), threads that call
`RequestStop()`, and the workers' threads with hooks, drain, grace timer and connection handlers.
Of a loop it keeps only its state; that a stopping loop ends is what the loop modules show.

**`StreamLifecycle`** is the word that says what a stream still admits, shared by both streams.
**`EpollStream`** has the socket, the interest of its channel and what epoll has to report, edge- or
level-triggered; `epoll_wait()` and the dispatch of its events are two steps, since a timer of the same
batch may run in between. Its operations probe the socket first and wait only on `EAGAIN`. **`UringStream`** has, for each
direction, the pending request, its deadline timer, the cancel that a passed deadline submits and its retry, and the
convergence of the two completions; the notifications of zero-copy sends; the remainder that `Write()` sends again; and
`Close()`, which cancels by descriptor and waits for every completion. A completion schedules work, and
the coroutine goes on in a later step. A `Recv()` of `EpollStream` holds a reservation in its buffer while it waits, and
an idle stream may be moved, which takes its channel out of epoll.

**`EpollConnector`, `UringConnector`**. One `Connect()`. On epoll the batch of one poll may hold readiness, error and
timeout of the same connect; the first handler decides it and releases what the others are about. On io_uring a timeout submits a cancel, or
sets a timer to try again, and the completions of request and cancel come in either order.

**`TimerIndex`** is the ordered index both queues share, **`EpollTimerQueue`** the one behind a timerfd and
**`UringTimerQueue`** the one behind timeout requests: a driver, a control request that updates it, and a fallback
timeout where the kernel rejects updates. User code adds and cancels timers between turns and inside callbacks, where the
timer that runs may cancel itself. **`LoopTimers`** has what coroutines wait on, above what a queue promises:
`SleepFor()`, and the one-slot channel of a `Timer` or `Ticker` with `Stop()`, `Reset()`, destruction and loop stop.

**`IntrusiveTree`** and **`IntrusiveLinks`** are the containers on their links: rotations, both fixups, splices, and walks
whose callback unlinks the element it is given. They are compared with the set or sequence of what was put in.
**`FramePool`** has the owner's free list, the remote stack that foreign threads push freed frames on, one
compare-and-swap at a time, and the packed header of heap frames. **`ObjectPool`** has the windows between its critical
sections in which constructors and destructors run. **`Buffer`** keeps two buffers as blocks beside the text that
they should read as. **`ProvidedBuffers`** has the shared pool of a loop, its growth, and the ring from which the kernel picks.

**`MCRecvSources`, `MCWorkers`, `MCLoops`, `MCStreams`, `MCTimers`, `MCStructures`** instantiate them for
TLC. Each puts several parts in one run: a variable (`part`, `backend` or its like) chosen in the initial
state says which part moves, and the others keep their initial state. The parts of a run share nothing, so the
run is the union of theirs. `MCRecvSources` extends `SourceMachines`, which also puts the two state machines side by side: they are its third part.
`MCStreams` extends `EpollStream` and `MCTimers` extends `EpollTimerQueue`, whose constants and variables are thus those of the
epoll part; the other parts are instances.

**`LifecycleProofs`, `LoopProofs`, `TimerIndexProofs`, `UringTimerProofs`, `TimerProofs`, `EpollStreamProofs`,
`UringStreamProofs`, `StreamProofs`** hold the theorems: section 5.

Definitions whose names begin with `Bug` are the mutated forms the `mutants` list refers to. They are
not used by any specification.

## 3. The runs

| run | states | what it shows |
|---|---|---|
| `recv_sources` | 31,923 | the adapters: `RecvInOrder`, `RecvAccounted` (queue, buffers, leases and requests agree; an ended source may be destroyed), `RecvCallsReturn` (with one exception on io_uring: section 6); the machines under all call sequences: `SourceInv` (bounds; no state whose wait is over), `AcceptHasRoom` (the same, and a resumed source can arm), `ImplementsBarrier`, `AcceptImplementsBarrier`, `StopsConverge` |
| `workers` | 221,657 | listeners: `ListenersInOrder`, `ListenersAccounted`, `ListenersEndQuiet`, `AcceptCallsReturn`; spawned roots: `JoinInv` (what each phase says of both actors, fields, result, frame; no check fails), `FrameFreedOnce`, `JoinReturns`; the runtime: `GroupOutlivesStop`, `WorkersEndInOrder` (hooks pair, a drain ends), `StopReachesWorkers` |
| `loops` | 280,180 | `NoLostWakeup`, `AcceptedRunInOrder`, `UringCountsAreTrue` (the wake poll is armed when the loop sleeps, a drained loop has no request), `StopsAndRuns` |
| `streams` | 91,991 | `ReadinessKept` (epoll loses no readiness), `StreamEndsQuiet` (nothing names a frame or stream that is gone, no buffer keeps a reservation), `WritesOnce`, `TimeoutsAreDue`, `StreamCallsEnd` (overdue operations end, `Close()` returns, a stopping loop leaves no call pending; an unread remainder does not spin the loop); connects: `ConnectDecidedOnce`, `ConnectEnds` |
| `timers` | 341,592 | `TimersAreOwned` (index, registry, callbacks and requests agree), `EarliestIsArmed` (a loop that waits will be woken for its earliest timer; on io_uring, or by a fallback: section 6), `RunsAreDue` (not early, in order, once, not after `Cancel()`), `TimersRun` |
| `structures` | 553,246 | `ImplementsFifo`, `NoMissedMatch`, `DecidedOnce` (channels and Select); `ContainersHoldElements` (tree, lists, queues); `SlotsHaveOneOwner` (both pools); `BufferReadsAsText`; `BuffersPublishedOnce` (provided buffers) |
| `epoll_recv_stall` and five more | - | violations: section 6 |

Bounds and why they are enough:

* Sources: the capacities are the smallest for which queue, overflow, pause and resume are all reached
  and the threshold differs from 0 and from the capacity (epoll: 4 with threshold 3; io_uring: 2 with
  the default). There are more payloads than the queue and the buffers together hold, so that the queue fills,
  drains and fills again. `EpollHeld`/`UringHeld` bound the leases a consumer has when it asks for more, below
  the number of buffers; with `UringHeld = 2` a `Next()` may wait while a lease is out. What happens when every buffer is
  leased is the subject of two violation runs.
* Accept machines: depth 3, capacity 9, threshold 8 reach every side of the rearm rule
  (`kMaxRearmWorkingSet` = 8). `BadConns` makes one connection fail in the middle of a burst.
* Channel: capacity 3 in a ring of 4, and four sends, so that indices wrap while capacity and ring size differ;
  the unbuffered channel covers rendezvous; three coroutines allow two waiters beside a select.
  The coroutines are symmetric.
* Loops: one foreign thread, two callbacks, two user requests, a submission queue of two slots, of which the
  poll on the eventfd takes one. A limit of two completions per turn (`kMaxCqesPerTurn`)
  makes `Reap()` end early. The theorems remove all of these bounds.
* Streams: one reader and one writer, which is what the contract allows. `mode` says which directions are in use: one, with
  deadlines and failing submissions, or both, without them, since the directions meet only in `Close()`, the
  half closes, the socket's error and the loop's stop. The deadline is set twice only for reads; the code for
  writes is a copy. One submission may fail, so that a cancel is retried. A buffer of three bytes (epoll) or
  two (io_uring) makes a send partial more than once or followed by a fallback.
* Connects: one of each backend, in every order of readiness, timeout, cancel, retry and stop. Two connects of a loop have no state in common but the loop.
* Timers: three on epoll, two on io_uring, with intervals 0 and 1 and three points of time, so that two are due in one turn, one
  repeats, one is added or cancelled by the callback of another, and an update finds an earlier deadline.
* Tree: eight nodes, 1,657 trees; TLC's coverage shows every branch of both fixups taken. Lists:
  four nodes on two lists, so that a splice has something on both sides.
* Frame pool: two foreign threads, chunks of two slots, two chunks: a push that loses its compare-and-swap to another or to
  the owner, who takes the whole stack; growth. Object pool: two threads, three slots, two overflow nodes.
* Buffer: blocks of two bytes, hints up to three, two buffers, three bytes in all: a reservation over two blocks, one that is
  aborted with blocks added, a search and a `Linearize()` across blocks. `MaxBlocks` bounds what
  aborted reservations leave behind: each one whose hint exceeds what is free in the last block adds a block, and an abort keeps
  it (`buffer.h:400-419,438-447`).
* Runtime: two workers, so that the second can fail after the first has started; two requesters, so that a
  second request exists; one connection per worker, since only "none" and "some" are told apart.

Deadlock is not checked: the systems may really stop, as a peer that sends nothing more, a
consumer that never calls again, a loop or runtime that has ended. That nobody is stuck is what the liveness properties say.

## 4. Fairness

* A thread that can take its next step eventually does: weak fairness of producer and consumer steps in
  `SpawnJoin`, of the loop thread and of threads inside `Post()` or `RequestStop()` in the loop modules, of
  control thread, requesters past their first step, and workers in `RuntimeLifecycle`. Nobody is obliged to begin a call.
* The loop handles what is ready: `Readable` and `LoopStop` (level-triggered epoll), `HandleCqe`/`Reap`.
* The kernel completes what it can: receives with data and buffers, accepts with a backlog, cancels.
* `epoll_wait()` with nothing to report is not fair: its ten-second timeout must not be what saves a
  lost wakeup.
* In `UringLoop` one strong fairness: the bounded wait of the drain is not for ever interrupted by
  submissions that fail before it blocks. The kernel may otherwise refuse every submission for ever.
* Receive sources: the consumer goes on calling `Next()` and releases its leases (`Next_`, `Release`).
  `RecvCallsReturn` says of a `Stop()` that it returns *once the consumer has taken and released*
  what it has; the code waits for exactly that.
* Streams: the loop polls, dispatches, reaps and resumes; timers fire while the loop runs; the kernel
  answers cancels, ends the requests a cancel has found and delivers zero-copy notifications. The peer need never
  send or read anything. In `EpollStream` a loop that stops calls `Close()` of its streams.
* Connects: the same; and of a cancel that is retried by a timer, strong fairness that one of its submissions succeeds or the
  loop stops (a full submission queue is emptied every turn).
* Timers: time passes, the timerfd or the kernel's timeouts expire, and the loop handles them. The structures
  have no liveness property.
* A connection handler need not end: `StopReachesWorkers` holds on the grace timer alone.

## 5. What is proved

All proofs are checked by TLAPS from the named assumptions on the constants, for every value of them: valid options
(`OptionsValid`, `AcceptOptionsValid`), any sets of threads, roots, workers or requests, any number of timers, times, intervals and
delays (`TimerConstants`, `MoreTimerConstants`: they are natural numbers), any number of readers and any sizes (`StreamConstants`,
`UringConstants`: a write has at least one byte).
TLC evaluates each assumption in the runs. The theorems that name a run's property state it of the
run's own definition.

* `LifecycleProofs`, spawned roots. `JoinInv` is inductive: it says, for each value of `phase`, where both actors can be,
  whether waiter fields and result are set and whether the frame lives. The weaker statements are not inductive,
  as the frame's state is safe only because of who has yet to pass its compare-exchange. From it:
  `JoinNeverPanics`, `FrameIsSafe` (freed once, after the last use, and not leaked), `WaiterFieldsAreRaceFree`.
* `LifecycleProofs`, the runtime. `GroupOutlives` and `WorkersEnd` for any set of workers. The invariant relates the control thread's step
  to how far every worker's thread is: before the group is published no worker behind the one being started has
  a thread, from then on all have one until `Stop()` has joined them, and a roll back joins what it started. What a worker
  counts (connections, grace timer, hooks) is an invariant of that worker alone.
* `LifecycleProofs`, the ring of a channel. For every capacity and ring size of at least that: a push appends and overwrites
  nothing, a pop returns the oldest and keeps the order of the rest. The proofs go through the masked index
  as a remainder, with `Wrap` the fact about one wrap-around.
* `LifecycleProofs`, the state machines of the sources. The bounds and "no state whose wait is over" (`SourceInv`,
  `AcceptInv`) follow because every operation that can end a wait goes through `Reconcile()`
  (`ReconcileEstablishes`). For one-shot accepts the invariant also keeps room for every armed request. Then
  each step is a step of `DrainBarrier` or a stutter, under a refinement mapping that sums requests, events and
  leases. `AcceptKeepsRoom` includes an action property: a resumed accept source can arm.
* `LoopProofs`, epoll. `IInv` strengthens both properties with where the loop thread is: a callback in the queue, or
  a stop not yet seen, implies that the eventfd is readable, that a thread owes it a write, or that the loop thread is
  at a step that looks again before it sleeps; and what ran, the batch and the queue concatenate to all that was
  accepted, in order. From it `WakeupsAreNotLost` and `PostsRunInOrder`.
* `LoopProofs`, io_uring. `UringIInv` adds the ring: a request is in at most one of the submission queue, the kernel and the final
  completions (`Once`), the in-flight count is the number of those in the last two (`Counted`), the flags of the wake-up
  poll and of the cancel that drains the loop say where those requests are (`Flagged`), and a written eventfd has its completion queued or will
  have (`Announces`). `Armed` says at which steps the poll may be missing. From it `UringCountsHold` and `UringPostsRunInOrder`.
* `TimerIndexProofs` has the facts about the ordered index that both queues use: the earliest timer exists and is unique, and `Book`,
  the bookkeeping of index, registry, running timer and cancelled timers, is kept by adding, cancelling, running and restarting a timer.
* `UringTimerProofs`. `RequestInv` says of driver and control request in which one place each is (queue, kernel, completion), that the arm
  precedes its update, and that the kernel's deadline is the one the flags remember. `Reconciled` says that
  `Reconcile()` has left nothing to do whenever the loop waits.
* `TimerProofs` has the invariants of the epoll queue (`EpollArmed`: the timerfd is set early enough whenever the loop waits) and of the sleeps and
  channels, takes those of the io_uring queue from an instance of `UringTimerProofs`, and puts all parts together for the specification
  of the run: `TimersOwned`, `EarliestArmed`, and the action property `RunsDue`.
* `EpollStreamProofs`. `EInv` has two halves. `EGood`: a coroutine that owns a direction is neither resumable nor has a result, a timer is set
  only with an owner and a deadline it agrees with, what is sent and what is left of a write add up, and a closed
  stream has nothing. `EHeard`: whatever the socket has for a pending direction is in the batch being dispatched, or epoll will report it.
  Every helper of a handler is shown to keep both halves, with the directions that are still
  to be handled as a parameter. From it `ReadinessIsKept`, `ClosedStreamIsQuiet`, `RecvBuffersHandedBack`, `WritesAcceptedOnce` and the action property
  `TimeoutsOnlyWhenDue`.
* `UringStreamProofs`. That a frame outlives its requests is not inductive: it holds because the loop, the kernel and the completion queue agree on
  who still has an operation. `UInv` says how. `UGood`: a lane's flags, timer and deadline agree, and every work that is
  scheduled is the only one of a coroutine that is not suspended. `QueueOk`: an operation is with the kernel or has
  its final completion queued, never both; the notification of a zero-copy send comes last and once; a cancel is in one
  place. `Names`: what the kernel or a completion names is pending, so `CompleteOperation()` finds its coroutine. `Owed`: an operation that has not completed
  is with the kernel or has a completion queued. `USent`: what the socket has accepted, what `Write()` has left and what the send's result says add up, wherever
  that result stands. From it `RequestsInFrames`, `WriteSendsOnce` and `DeadlineStands`, for any number of readers
  and with deadlines that move while a cancel is retried (`MoveWhileRetrying` is not assumed to be `FALSE`). `WorkHasHandle` needs one
  reader: with two it is false, which is the finding of `uring_cancel_handle`.
* `StreamProofs` puts both streams together for the specification of the run. It takes the io_uring half from an instance of `UringStreamProofs`;
  `SameUring` shows, action by action, that this instance and the run's speak of the same stream. From both invariants
  `StreamsEndQuiet` (with one reader, as the contract has it) and the action properties `StreamsWriteOnce` and `StreamTimeoutsAreDue`.

Only model-checked: the adapters and the listeners, the connectors, Select, the containers, pools and
buffers; and all liveness (TLAPS has no support for it, nor for ENABLED). Statements that need induction over data, and anything that
depends on RECURSIVE operators (the containers, `FramePool`, `Buffer`, the receive adapters and the listeners), are out of the prover's
reach. The connectors have no constants but bounds: their runs cover all there is.

## 6. Where the code disagrees with its documentation

Runs that end in a violation; `findings` in `PROJECT.json` quotes the lines.

| run | property | what happens |
|---|---|---|
| `epoll_recv_stall` | `NextProgress` | a source that paused because every buffer was leased, with an empty queue, is not resumed when the leases come back |
| `uring_recv_drop` | `NeverDrop` | with `Next()` waiting and every buffer leased, the next payload is dropped and the source fails |
| `uring_listener_reentry` | `AnsweredOnce` | a `Next()` is answered from inside its own delivery when the loop has just been stopped; the outer call completes a null awaiter |
| `runtime_grace` | `GraceKept` | a single `RequestStop()` counts as two and cuts the grace period short |
| `uring_cancel_handle` | `ReadyKeepsHandle` | a second coroutine that reads before the first is resumed from its timeout clears the handle that would resume it |
| `ticker_latest` | `SeesLatestTick` | a `Ticker` whose receiver falls behind keeps the oldest tick and drops the new ones |

Further disagreements, which the models show when their constants are set accordingly:

* `SpawnJoin!NotifyBeforeDestroy`: `Finish()` publishes `phase_` and then calls `notify_one()` on it
  (`spawn_state.h:111`), when the other side may already have freed the frame. Check it as an invariant of
  `SpawnJoin!Spec`. The notification only wakes by address, so nothing is read from the frame.
* `UringListener` with `StopRacesCancel = TRUE`, `MaxConns = 3`, `BadConns = {2}`, `MaxAccepts = 2`: a `Stop()` while a
  pause's cancel is outstanding leaves the waiting `Next()` unanswered (`src/uring/listener.cc:551-560`;
  `accept-source-contract.md:62` promises an answer). `workers` has `StopRacesCancel = FALSE`.
* `UringRecvSource` with `StopWhileWaiting = TRUE`: a stop that makes the source terminal at once does not answer the
  `Next()` that waits (`src/uring/recv_source.cc:363-377`). `recv_sources` has it `FALSE`.
* `RuntimeLifecycle!FailedStartIsRetryable`: a thread that cannot be created throws through `Start()`, which leaves the
  runtime in `kStarting` for good (`src/epoll/runtime.cc:104`; `runtime-builder.md:89,121` let a failed start be repeated).
* `UringStream` with `MoveWhileRetrying = TRUE`: setting a deadline while a failed cancel waits for its retry takes the
  retry's timer away (`src/uring/stream.cc:1306-1314`), and the operation that timed out is not cancelled any more;
  `async-stream-contract.md:841-842` promises `ETIMEDOUT`. `streams` has it `FALSE`.
* `async-stream-contract.md:840` says that an operation begun after its deadline does no I/O. The epoll stream probes the
  socket first and returns what it finds; `EpollStream` does the same.
* `timer_queue.h:32-34` of io_uring says that one timeout "is used to wake the loop for the earliest timer". After a rejected
  update `Reconcile()` leaves the fallback timeout alone while it is armed (`src/uring/timer_queue.cc:155-162,206-224`), so an
  earlier timer that is added meanwhile runs late. `EarliestIsArmed` allows for this case; `TimersRun` shows that the timer still runs.
* The documentation of `Timer` says of `Stop()` and `Reset()` that "both discard a firing that was not received"
  (`epoll/timer.h:53-54`, `uring/timer.h:85-86`). After a loop stop has closed the channel they do not (`timer_channel.h:137-144`).
  `LoopTimers!DiscardsUnreceived` states what the documentation says; with the constants of `TickerLatest.cfg` TLC finds it
  violated. `RunsAreDue` and the theorem `RunsDue` say what the code keeps: on an open channel no firing from before the
  last `Stop()` or `Reset()` is received; a closed one may still hand over the value it closed with, and takes no other.
* `async-stream-contract.md:822-823` says that a waiting `Next()` is resumed once a logical event is ready. When an io_uring source
  drains with a lease out and a `Next()` waiting, the lease's return makes it terminal without `DeliverNextIfReady()`
  (`src/uring/recv_source.cc:742-751`), and the `Next()` stays suspended. `UringRecvSource!Stranded` is that
  state. `RecvCallsReturn` says that every other due `Next()` returns, and that only such a return of the last lease strands one.
* `worker.h:75-76` says that the drain hook runs after the listener has closed; `BeginDrain()` only spawns
  `CloseListener` before it runs the hook. In `RuntimeLifecycle`, `CloseListener` is a later step.

## 7. What is left out of the modules

* Payload contents, addresses, error numbers that no branch distinguishes, logging, statistics.
* Construction of I/O objects, and moves, which require an idle object (only the epoll stream's is modelled, as it changes
  what epoll knows); malformed completions (`EPROTO`), and results of a
  cancel that its submitter does not expect (`src/uring/listener.cc:554-556`, `src/uring/recv_source.cc:564-566`).
* Submissions that a *running* loop refuses because its queue is full and cannot be flushed (`include/alyrn/uring/loop.h:168-178`):
  the stream, the timers, the connector and the loop have them; the io_uring receive source and listener are refused only by a
  loop that stops.
* `UringLoop` has no stream deadline cancels, which `SubmitOp()` accepts also when the loop stops (`loop.h:159-164`): they are in `UringStream`.
* A `Stream` of epoll destroyed by a timer callback while the same batch still holds its channel's event. `Close()` itself
  runs in a coroutine and thus after the batch, and so do the closes of a shutdown.
* Several threads in `Stop()` at once: the second returns at once (`joining_`), while the first joins. The back-off of
  accept loops after an error, and the close of the listener after the io_uring loop has ended (`src/uring/worker.cc:318`),
  which only checks that nothing is left.
* Task, promises, `SyncWait`: sequential code that one awaiter drives on one thread, with nothing to interleave. Ring set-up and
  submission entries: system calls and layout. Endpoints, options, `Result`, facade: values and aliases. The connection
  server: the same shape as the accept loop of the workers in `RuntimeLifecycle`.
* `IntrusiveLinks`: a walk's callback that unlinks the element *after* its own, which the walk has saved. The two walks of a
  channel (`channel.h:466,480`) have callbacks that unlink nothing themselves; the shutdown registry (`loop_shutdown.h:45-50`) calls
  participants, which unregister themselves.
* `ProvidedBuffers`: a registration that fails half way. `SizeMax` is small there, so that `StorageFits` refuses something; in a
  64-bit build the limits on count and size keep the product from wrapping before it is asked.
* Of streams: how buffers are filled, socket options, errors of `shutdown(2)`, the address
  accessors.
* `SelectDefault()`, and two cases of one select that do the same to one channel.
* Thread-confinement checks: calls come from the right thread.
* Program-ending misuse (sending on a closed channel, destroying a scheduled coroutine) is guarded against.
* The weak memory model: atomics are sequentially consistent in the models. The code's acquire/release pairs on
  `phase_` and the mutexes elsewhere order the plain fields the models check.

## 8. Plan

Proofs of what is only model-checked and within reach: `NoMissedMatch` and `DecidedOnce` of
`ChannelSelect`; `ObjectPool`'s `PoolHandsOutOnce`.
