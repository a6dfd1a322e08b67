---------------------------- MODULE RuntimeLifecycle ----------------------------
(***************************************************************************)
(* RuntimeControl, WorkerGroup and Worker of both backends                 *)
(* (src/epoll/runtime.cc, worker_group.cc, worker.cc and their twins under *)
(* src/uring), which differ only in what happens when the timer of the     *)
(* grace period cannot be set.                                             *)
(*                                                                         *)
(* One thread controls the runtime: it calls Run(), or Start() and later   *)
(* Stop().  Others call RequestStop(), each once.  Every worker has a      *)
(* thread that runs a loop; of the loop only its state is kept, and that a *)
(* stopping loop ends (EpollLoop, UringLoop).                              *)
(***************************************************************************)
EXTENDS Naturals, FiniteSets

CONSTANTS
  N,            \* worker_count_
  Requesters,   \* threads that call RequestStop()
  Grace,        \* shutdown_grace_ > 0
  Uring,        \* the backend is io_uring: setting a timer may fail
  MaxLive       \* bound: connections a worker handles at a time

ASSUME NAssumption == N \in Nat

VARIABLES
  state,           \* state_
  stopRequested,   \* stop_requested_
  workers,         \* workers_ # nullptr
  control,         \* what the control thread does next
  running,         \* whether it is in Run(), rather than in Start() or Stop()
  next,            \* the worker WorkerGroup::Start() starts next
  request,         \* per requester, how far its RequestStop() is
  wk               \* the workers

runtime == <<state, stopRequested, workers>>
runtimeVars == <<runtime, control, running, next, request, wk>>

Workers == 1..N

(* A worker, by the place of its thread: "none", "init", "published", "registered", "run",
   "gone". *)
NewWorker ==
  [thread |-> "none", ok |-> TRUE, started |-> FALSE, stopped |-> FALSE, drained |-> FALSE,
   loop |-> "created", stopToken |-> FALSE, drainToken |-> FALSE, posted |-> FALSE,
   listening |-> FALSE, draining |-> FALSE, live |-> 0, timer |-> FALSE]

RuntimeInit ==
  /\ state = "created" /\ stopRequested = FALSE /\ workers = FALSE
  /\ control = "idle" /\ running = FALSE /\ next = 1
  /\ request = [r \in Requesters |-> "idle"]
  /\ wk = [w \in Workers |-> NewWorker]

-----------------------------------------------------------------------------
(* Requests to a worker, from any thread.                                  *)

StopLoop(k) == [k EXCEPT !.loop = IF @ \in {"created", "running"} THEN "stopping" ELSE @]

(* Worker::Stop(): the stop token, which loop.Run() turns into Loop::RequestStop(). *)
Stopped(k) ==
  IF k.thread = "run" THEN StopLoop([k EXCEPT !.stopToken = TRUE])
                      ELSE [k EXCEPT !.stopToken = k.thread # "none"]

(* Worker::RequestDrain(): the drain token, whose callback posts BeginDrain() to the loop
   once WorkLoop() has registered it. *)
DrainAsked(k) == [k EXCEPT !.drainToken = TRUE, !.posted = @ \/ k.thread \in {"registered", "run"}]

AllStopped == [w \in Workers |-> Stopped(wk[w])]

(* BeginStopLocked() *)
BeginStopLocked ==
  /\ state' = IF Grace THEN "draining" ELSE "stopping"
  /\ wk' = IF Grace THEN [w \in Workers |-> DrainAsked(wk[w])] ELSE AllStopped

(* The locked part of RequestStop(). *)
RequestStopLocked ==
  \/ state = "running" /\ BeginStopLocked
  \/ state = "draining" /\ state' = "stopping" /\ wk' = AllStopped
  \/ state \notin {"running", "draining"} /\ UNCHANGED <<state, wk>>

CallRequestStop(r) ==
  /\ request[r] = "idle"
  /\ request' = [request EXCEPT ![r] = "stored"]
  /\ stopRequested' = TRUE
  /\ UNCHANGED <<state, workers, control, running, next, wk>>

RequestStopLock(r) ==
  /\ request[r] = "stored"
  /\ request' = [request EXCEPT ![r] = "done"]
  /\ RequestStopLocked
  /\ UNCHANGED <<stopRequested, workers, control, running, next>>

-----------------------------------------------------------------------------
(* The control thread.                                                     *)

Goto(from, to) == control = from /\ control' = to /\ UNCHANGED <<running, request>>

(* Start(), on its own or from Run(). *)
Start ==
  /\ control = "idle" /\ state = "created"
  /\ control' = "starting" /\ running' \in BOOLEAN
  /\ state' = "starting" /\ stopRequested' = FALSE
  /\ next' = 1 /\ wk' = [w \in Workers |-> NewWorker]
  /\ UNCHANGED <<workers, request>>

(* WorkerGroup::Start() starts a worker and waits until its thread has published; the
   constructor of the thread may throw. *)
StartWorker ==
  /\ next <= N
  /\ \/ Goto("starting", "waiting") /\ wk' = [wk EXCEPT ![next].thread = "init"]
     \/ Goto("starting", "caught") /\ UNCHANGED wk
  /\ UNCHANGED <<runtime, next>>

WorkerStarted ==
  /\ control = "waiting" /\ wk[next].thread \notin {"none", "init"}
  /\ control' = IF wk[next].ok THEN "starting" ELSE "rollback"
  /\ next' = IF wk[next].ok THEN next + 1 ELSE next
  /\ UNCHANGED <<runtime, running, request, wk>>

(* Rollback: every worker is asked to stop, then all are joined. *)
Rollback ==
  /\ Goto("rollback", "unwind") \/ Goto("caught", "rethrow")
  /\ wk' = AllStopped
  /\ UNCHANGED <<runtime, next>>

AllGone == \A w \in Workers : wk[w].thread \in {"none", "gone"}

StartFails ==
  /\ Goto("unwind", "idle")
  /\ AllGone
  /\ state' = "created" /\ stopRequested' = FALSE
  /\ UNCHANGED <<workers, next, wk>>

(* WorkerGroup::Start() throws again, and RuntimeControl::Start() does not catch. *)
StartThrows ==
  /\ Goto("rethrow", "idle")
  /\ AllGone
  /\ UNCHANGED <<runtime, next, wk>>

StartSucceeds ==
  /\ Goto("starting", "recheck")
  /\ next > N
  /\ state' = "running" /\ workers' = TRUE
  /\ UNCHANGED <<stopRequested, next, wk>>

(* Forgets a stop that was requested while it started. *)
BugRecheck ==
  /\ Goto("recheck", "started")
  /\ UNCHANGED <<runtime, next, wk>>

(* A stop that was requested in the meantime. *)
Recheck ==
  \/ /\ Goto("recheck", "started") /\ ~stopRequested
     /\ UNCHANGED <<runtime, next, wk>>
  \/ /\ Goto("recheck", "started") /\ stopRequested
     /\ RequestStopLocked
     /\ UNCHANGED <<stopRequested, workers, next>>

(* Run() waits for a stop request; otherwise the application calls Stop() when it likes. *)
Stop ==
  /\ Goto("started", "joining")
  /\ running => stopRequested
  /\ stopRequested' = TRUE
  /\ \/ state = "running" /\ BeginStopLocked
     \/ state # "running" /\ UNCHANGED <<state, wk>>
  /\ UNCHANGED <<workers, next>>

(* Does not wait for the threads. *)
BugJoined ==
  /\ Goto("joining", "idle")
  /\ state' = "stopped" /\ workers' = FALSE
  /\ UNCHANGED <<stopRequested, next, wk>>

Joined ==
  /\ Goto("joining", "idle")
  /\ AllGone
  /\ state' = "stopped" /\ workers' = FALSE
  /\ UNCHANGED <<stopRequested, next, wk>>

-----------------------------------------------------------------------------
(* A worker thread: WorkLoop().                                            *)

Worker(w, k) == wk' = [wk EXCEPT ![w] = k] /\ UNCHANGED <<runtime, control, running, next, request>>

(* The loop, the listener or the connector cannot be made. *)
SetupFails(w) ==
  /\ wk[w].thread = "init"
  /\ Worker(w, [wk[w] EXCEPT !.thread = "gone", !.ok = FALSE])

(* The start hook runs; if it fails the loop is stopped before it runs. *)
StartHook(w) ==
  /\ wk[w].thread = "init"
  /\ \/ Worker(w, [wk[w] EXCEPT !.thread = "published", !.started = TRUE, !.listening = TRUE])
     \/ Worker(w, StopLoop([wk[w] EXCEPT !.thread = "published", !.ok = FALSE]))

(* The callback of the drain token runs here if the drain came first. *)
RegisterDrain(w) ==
  /\ wk[w].thread = "published"
  /\ Worker(w, [wk[w] EXCEPT !.thread = "registered", !.posted = wk[w].drainToken])

RunLoop(w) ==
  LET k == [wk[w] EXCEPT !.thread = "run", !.loop = IF @ = "created" THEN "running" ELSE @]
  IN  /\ wk[w].thread = "registered"
      /\ Worker(w, IF k.stopToken THEN StopLoop(k) ELSE k)

Running(w) == wk[w].thread = "run" /\ wk[w].loop = "running"

(* AcceptLoop() spawns a handler. *)
Accept(w) ==
  /\ Running(w) /\ wk[w].listening /\ wk[w].live < MaxLive
  /\ Worker(w, [wk[w] EXCEPT !.live = @ + 1])

(* Forgets to look whether this was the last handler of a drain. *)
BugOnConnectionDone(w) ==
  /\ Running(w) /\ wk[w].live # 0
  /\ Worker(w, [wk[w] EXCEPT !.live = @ - 1])

OnConnectionDone(w) ==
  LET k == [wk[w] EXCEPT !.live = @ - 1]
  IN  /\ Running(w) /\ wk[w].live # 0
      /\ Worker(w, IF k.draining /\ k.live = 0 THEN StopLoop(k) ELSE k)

(* BeginDrain(), posted once: it closes the listener through a coroutine, runs the drain
   hook, and stops the loop now or after the grace period. *)
BeginDrain(w) ==
  LET k == [wk[w] EXCEPT !.posted = FALSE, !.draining = TRUE, !.drained = wk[w].started]
  IN  /\ Running(w) /\ wk[w].posted
      /\ \/ k.live = 0 /\ Worker(w, StopLoop(k))
         \/ k.live # 0 /\ Worker(w, [k EXCEPT !.timer = TRUE])
         \/ k.live # 0 /\ Uring /\ Worker(w, StopLoop(k))

CloseListener(w) ==
  /\ Running(w) /\ wk[w].draining /\ wk[w].listening
  /\ Worker(w, [wk[w] EXCEPT !.listening = FALSE])

GraceElapses(w) ==
  /\ Running(w) /\ wk[w].timer
  /\ Worker(w, StopLoop([wk[w] EXCEPT !.timer = FALSE]))

(* A stop hook that does not care whether the start hook succeeded. *)
BugLoopEnds(w) ==
  /\ wk[w].thread = "run" /\ wk[w].loop = "stopping"
  /\ Worker(w, [wk[w] EXCEPT !.loop = "stopped", !.thread = "gone", !.stopped = TRUE])

(* Run() returns: what is posted runs and finds the loop stopping, handlers end or are
   abandoned.  Then the stop hook runs, if the start hook succeeded. *)
LoopEnds(w) ==
  /\ wk[w].thread = "run" /\ wk[w].loop = "stopping"
  /\ Worker(w, [wk[w] EXCEPT !.loop = "stopped", !.thread = "gone", !.stopped = wk[w].started])

-----------------------------------------------------------------------------
ControlStep ==
  \/ StartWorker \/ WorkerStarted \/ Rollback \/ StartFails \/ StartThrows
  \/ StartSucceeds
  \/ Recheck \/ (running /\ Stop) \/ Joined

WorkerStep(w) ==
  \/ SetupFails(w) \/ StartHook(w) \/ RegisterDrain(w) \/ RunLoop(w)
  \/ BeginDrain(w) \/ CloseListener(w) \/ GraceElapses(w) \/ LoopEnds(w)

RuntimeNext ==
  \/ ControlStep \/ Start \/ (~running /\ Stop)
  \/ \E r \in Requesters : CallRequestStop(r) \/ RequestStopLock(r)
  \/ \E w \in Workers : WorkerStep(w) \/ Accept(w) \/ OnConnectionDone(w)

(* Threads run, timers fire, and a call that began ends.  Nobody has to call Start(),
   Stop() or RequestStop(), and a handler may never end. *)
RuntimeFairness ==
  /\ WF_runtimeVars(ControlStep)
  /\ \A r \in Requesters : WF_runtimeVars(RequestStopLock(r))
  /\ \A w \in Workers : WF_runtimeVars(WorkerStep(w))

RuntimeSpec == RuntimeInit /\ [][RuntimeNext]_runtimeVars /\ RuntimeFairness

-----------------------------------------------------------------------------
(* RequestStop() may reach the workers whenever the state says so: the group exists while
   the runtime runs, drains or stops, and Stop() keeps it while it joins.  When Start()
   has failed or the Stop() that joins has returned, no worker thread is left. *)
GroupOutlivesStop ==
  /\ state \in {"running", "draining", "stopping"} <=> workers
  /\ control = "idle" => AllGone

(* The hooks of a worker pair: the stop hook has run on a thread that is gone exactly if
   its start hook succeeded, and a drain hook ran only between the two. *)
HooksPair ==
  \A w \in Workers :
    /\ wk[w].thread = "gone" => (wk[w].stopped <=> wk[w].started)
    /\ wk[w].drained => wk[w].started

(* A drain never waits for nothing: a worker that drains and has no connection has stopped
   its loop, and one that has some has set the timer that will. *)
DrainEnds ==
  \A w \in Workers : Running(w) /\ wk[w].draining => wk[w].live # 0 /\ wk[w].timer

(* How a worker ends, in both respects. *)
WorkersEndInOrder == HooksPair /\ DrainEnds

(* A stop that is requested while the runtime starts or runs is not lost: all workers end,
   even if no handler does and nobody calls Stop(). *)
StopReachesWorkers ==
  stopRequested /\ state \notin {"created", "stopped"}
    ~> AllGone /\ control \notin {"starting", "waiting"}

(* runtime-builder.md: thread creation errors are returned by Start(), and "启动失败不会消耗
   Runtime，因此仍可重试" (a failed start does not consume the runtime, it may be retried):
   between calls a runtime that does not run may be started, or was stopped. *)
FailedStartIsRetryable ==
  control = "idle" => state \in {"created", "stopped"}

(* README.md: "a second `RequestStop()` cancels at once".  A single one leaves every worker
   its grace period. *)
GraceKept ==
  Grace /\ state = "stopping" => Cardinality({r \in Requesters : request[r] # "idle"}) >= 2
================================================================================
