---------------------------- MODULE UringTimerQueue ----------------------------
(***************************************************************************)
(* uring::detail::TimerQueue (src/uring/timer_queue.cc): the timers of one *)
(* loop and the timeout requests that wake it.                             *)
(*                                                                         *)
(* The driver request is a timeout for the earliest timer.  For an earlier *)
(* one it is updated by a control request; where the kernel rejects the    *)
(* update, the control request becomes a second timeout, the fallback.     *)
(* The kernel takes requests in order, and a timeout may expire while a    *)
(* request that concerns it is on its way.                                 *)
(***************************************************************************)
EXTENDS TimerIndex, Sequences, FiniteSets

NoTimer == Timer(0, 0, 0)
Ids == 1..MaxTimers

VARIABLES
  clock,      \* time::SteadyNow()
  queue,      \* timers       timers_
              \* active       keys of active_
              \* running      the timer whose callback runs
              \* cancelled    processing_timer_cancelled_
              \* now          the time ProcessExpired() has read
              \* and driverArmed, controlPending, ... as in the class
  kernel,     \* sq           requests on their way
              \* driver, fallback   deadlines of timeouts in the kernel, or 0
              \* cq           completions
              \* updates      whether it knows IORING_TIMEOUT_UPDATE
  at,         \* where the loop thread is: "loop", "pop", "callback", "stopped"
  stopping,   \* the loop has been asked to stop
  ran,        \* per timer, how often its callback has been called
  gone        \* timers that have been cancelled

vars == <<clock, queue, kernel, at, stopping, ran, gone>>

NoRequests ==
  [driverArmed |-> FALSE, driverDeadline |-> 0, controlPending |-> FALSE,
   controlIsFallback |-> FALSE, fallbackArmed |-> FALSE, requested |-> 0]

Init ==
  /\ clock = 0 /\ at = "loop" /\ stopping = FALSE
  /\ queue = [timers |-> {}, active |-> {}, running |-> NoTimer, cancelled |-> FALSE,
              now |-> 0, added |-> 0, updateSupported |-> TRUE, req |-> NoRequests]
  /\ \E u \in BOOLEAN :
       kernel = [sq |-> <<>>, driver |-> 0, fallback |-> 0, cq |-> <<>>, updates |-> u]
  /\ ran = [i \in Ids |-> 0] /\ gone = {}

-----------------------------------------------------------------------------
(* The kernel.                                                             *)

Complete(k, op, result) == [k EXCEPT !.cq = Append(@, [op |-> op, result |-> result])]

Kernel == UNCHANGED <<clock, queue, at, stopping, ran, gone>>

(* An update finds no driver if it has expired. *)
KernelTakes ==
  LET r == Head(kernel.sq)
      k == [kernel EXCEPT !.sq = Tail(@)]
  IN  /\ kernel.sq # <<>>
      /\ kernel' = CASE r.op = "arm" -> [k EXCEPT !.driver = r.when]
                     [] r.op = "fallback" -> [k EXCEPT !.fallback = r.when]
                     [] r.op = "update" ->
                          IF kernel.updates /\ kernel.driver # 0
                          THEN Complete([k EXCEPT !.driver = r.when], "control", "ok")
                          ELSE Complete(k, "control", "error")
      /\ Kernel

DriverExpires ==
  /\ kernel.driver # 0 /\ clock >= kernel.driver
  /\ kernel' = Complete([kernel EXCEPT !.driver = 0], "driver", "ETIME")
  /\ Kernel

FallbackExpires ==
  /\ kernel.fallback # 0 /\ clock >= kernel.fallback
  /\ kernel' = Complete([kernel EXCEPT !.fallback = 0], "control", "ETIME")
  /\ Kernel

(* The stop drain cancels every request. *)
KernelCancels ==
  /\ stopping
  /\ \/ /\ kernel.driver # 0
        /\ kernel' = Complete([kernel EXCEPT !.driver = 0], "driver", "ECANCELED")
     \/ /\ kernel.fallback # 0
        /\ kernel' = Complete([kernel EXCEPT !.fallback = 0], "control", "ECANCELED")
  /\ Kernel

Idle == kernel.sq = <<>> /\ kernel.driver = 0 /\ kernel.fallback = 0 /\ kernel.cq = <<>>

(* Some timer is to run before the end of time. *)
Overdue == \E t \in queue.timers : t.expiration <= MaxTime

(* The clock stops after MaxTime, but not while such a timer needs it. *)
Tick ==
  /\ at # "stopped" /\ clock' = clock + 1
  /\ clock <= MaxTime \/ (at = "loop" /\ Overdue /\ clock < kernel.driver)
  /\ UNCHANGED <<queue, kernel, at, stopping, ran, gone>>

-----------------------------------------------------------------------------
(* Reconcile().                                                            *)

(* Leaves the driver alone although a timer before it was added. *)
BugNeeds(q) ==
  IF q.req.controlPending \/ q.req.driverArmed \/ q.timers = {} THEN "nothing" ELSE "arm"

(* The request that it makes. *)
Needs(q) ==
  IF q.req.controlPending \/ q.timers = {} THEN "nothing"
  ELSE IF ~q.req.driverArmed THEN "arm"
  ELSE IF Earliest(q.timers).expiration >= q.req.driverDeadline THEN "nothing"
  ELSE IF q.updateSupported THEN "update"
  ELSE IF ~q.req.fallbackArmed THEN "fallback"
  ELSE "nothing"

(* Arm() *)
Arm(r, deadline) == [r EXCEPT !.driverArmed = TRUE, !.driverDeadline = deadline]

(* ArmFallback() *)
ArmFallback(r, deadline) ==
  [r EXCEPT !.controlIsFallback = TRUE, !.controlPending = TRUE, !.fallbackArmed = TRUE]

(* Update() *)
Update(r, deadline) ==
  [r EXCEPT !.requested = deadline, !.controlIsFallback = FALSE, !.controlPending = TRUE]

(* Every request that is needed is submitted. *)
ReconcileOk(q, k) ==
  LET deadline == Earliest(q.timers).expiration
  IN  IF Needs(q) = "nothing" THEN queue' = q /\ kernel' = k
      ELSE /\ ~stopping
           /\ kernel' = [k EXCEPT !.sq = Append(@, [op |-> Needs(q), when |-> deadline])]
           /\ queue' = [q EXCEPT !.req = CASE Needs(q) = "arm" -> Arm(@, deadline)
                                           [] Needs(q) = "fallback" -> ArmFallback(@, deadline)
                                           [] Needs(q) = "update" -> Update(@, deadline)]

(* SubmitOp() fails: the submission queue is full or the loop is stopping. *)
NotSubmitted(q) ==
  [q.req EXCEPT !.requested = IF Needs(q) = "update" THEN 0 ELSE @,
                !.controlIsFallback = @ /\ Needs(q) = "arm"]

ReconcileFails(q) == Needs(q) # "nothing"

ReconcileOrStop(q, k) ==
  \/ ReconcileOk(q, k) /\ UNCHANGED stopping
  \/ /\ ReconcileFails(q) /\ stopping' = TRUE
     /\ queue' = [q EXCEPT !.req = NotSubmitted(q)] /\ kernel' = k

-----------------------------------------------------------------------------
(* User code.                                                              *)

UserCode == at \in {"loop", "callback"} /\ clock <= MaxTime

(* Loop::RunAt(), RunAfter() and RunEvery(); a timer that cannot be covered is taken back. *)
AddTimer(when, interval) ==
  LET t == Timer(queue.added + 1, when, interval)
      q == [queue EXCEPT !.timers = @ \cup {t}, !.active = @ \cup {t.sequence}, !.added = @ + 1]
  IN  /\ UserCode /\ queue.added < MaxTimers
      /\ \/ ReconcileOk(q, kernel)
         \/ /\ ReconcileFails(q)
            /\ queue' = [queue EXCEPT !.added = @ + 1, !.req = NotSubmitted(q)]
            /\ UNCHANGED kernel
      /\ UNCHANGED <<clock, at, stopping, ran, gone>>

(* Only a repeating timer that runs can be told not to run again. *)
Cancel(id) ==
  LET q == [queue EXCEPT !.timers = {t \in @ : t.sequence # id}, !.active = @ \ {id}]
  IN  /\ UserCode /\ id <= queue.added
      /\ gone' = gone \cup {id}
      /\ \/ /\ id \notin queue.active
            /\ queue' = [queue EXCEPT
                 !.cancelled = @ \/ (queue.running.sequence = id /\ Repeat(queue.running))]
            /\ UNCHANGED <<kernel, stopping>>
         \/ id \in queue.active /\ ReconcileOrStop(q, kernel)
      /\ UNCHANGED <<clock, at, ran>>

RequestStop ==
  /\ UserCode /\ stopping' = TRUE
  /\ UNCHANGED <<clock, queue, kernel, at, ran, gone>>

-----------------------------------------------------------------------------
(* Completions.                                                            *)

Seen(op) == at = "loop" /\ kernel.cq # <<>> /\ Head(kernel.cq).op = op
Result == Head(kernel.cq).result
Rest == [kernel EXCEPT !.cq = Tail(@)]

(* A timeout has completed: expired timers run first if it has expired. *)
TimeoutOver(q) ==
  /\ \/ /\ Result = "ETIME" /\ at' = "pop"
        /\ queue' = [q EXCEPT !.now = clock] /\ kernel' = Rest
        /\ UNCHANGED stopping
     \/ Result # "ETIME" /\ at' = "loop" /\ ReconcileOrStop(q, Rest)
  /\ UNCHANGED <<clock, ran, gone>>

HandleDriverComplete ==
  /\ Seen("driver")
  /\ TimeoutOver([queue EXCEPT !.req.driverArmed = FALSE, !.req.driverDeadline = 0])

HandleFallbackComplete ==
  /\ Seen("control") /\ queue.req.controlIsFallback
  /\ TimeoutOver([queue EXCEPT !.req.controlPending = FALSE, !.req.controlIsFallback = FALSE,
                               !.req.fallbackArmed = FALSE])

(* An update that fails leaves controlPending set. *)
BugHandleUpdateComplete ==
  /\ Seen("control") /\ ~queue.req.controlIsFallback /\ at' = at
  /\ LET q == [queue EXCEPT !.req.controlPending = Result # "ok"]
     IN  ReconcileOrStop(IF Result = "ok" THEN [q EXCEPT !.req.driverDeadline = q.req.requested]
                                          ELSE [q EXCEPT !.updateSupported = FALSE], Rest)
  /\ UNCHANGED <<clock, ran, gone>>

(* Any failure, also that the driver has just expired, ends the use of updates for good. *)
HandleUpdateComplete ==
  /\ Seen("control") /\ ~queue.req.controlIsFallback /\ at' = at
  /\ LET q == [queue EXCEPT !.req.controlPending = FALSE]
     IN  ReconcileOrStop(IF Result = "ok" THEN [q EXCEPT !.req.driverDeadline = q.req.requested]
                                          ELSE [q EXCEPT !.updateSupported = FALSE], Rest)
  /\ UNCHANGED <<clock, ran, gone>>

(* ProcessExpired() takes the earliest timer and its callback starts. *)
RunTimer ==
  LET t == Earliest(queue.timers)
  IN  /\ at = "pop" /\ HasExpired(queue.timers, queue.now)
      /\ at' = "callback"
      /\ queue' = [queue EXCEPT !.timers = @ \ {t}, !.active = @ \ {t.sequence},
                                !.running = t, !.cancelled = FALSE]
      /\ ran' = [ran EXCEPT ![t.sequence] = @ + 1]
      /\ UNCHANGED <<clock, kernel, stopping, gone>>

(* Inserts a repeating timer again although its callback has cancelled it. *)
BugCallbackReturns ==
  LET t == queue.running
      again == IF Repeat(t) THEN {Restart(t, queue.now)} ELSE {}
  IN  /\ at = "callback" /\ at' = "pop"
      /\ queue' = [queue EXCEPT !.timers = @ \cup again, !.active = @ \cup Sequences(again),
                                !.running = NoTimer, !.cancelled = FALSE]
      /\ UNCHANGED <<clock, kernel, stopping, ran, gone>>

(* The callback returns: the timer is inserted again or destroyed. *)
CallbackReturns ==
  LET t == queue.running
      again == IF Repeat(t) /\ ~queue.cancelled THEN {Restart(t, queue.now)} ELSE {}
  IN  /\ at = "callback" /\ at' = "pop"
      /\ queue' = [queue EXCEPT !.timers = @ \cup again, !.active = @ \cup Sequences(again),
                                !.running = NoTimer, !.cancelled = FALSE]
      /\ UNCHANGED <<clock, kernel, stopping, ran, gone>>

ExpiredDone ==
  /\ at = "pop" /\ ~HasExpired(queue.timers, queue.now)
  /\ at' = "loop" /\ ReconcileOrStop(queue, kernel)
  /\ UNCHANGED <<clock, ran, gone>>

(* The drain of a stopping loop is over. *)
DiscardAll ==
  /\ at = "loop" /\ stopping /\ Idle
  /\ at' = "stopped"
  /\ queue' = [queue EXCEPT !.timers = {}, !.active = {}, !.req = NoRequests]
  /\ UNCHANGED <<clock, kernel, stopping, ran, gone>>

KernelStep == KernelTakes \/ DriverExpires \/ FallbackExpires \/ KernelCancels

LoopStep ==
  \/ HandleDriverComplete \/ HandleFallbackComplete \/ HandleUpdateComplete
  \/ RunTimer \/ CallbackReturns \/ ExpiredDone \/ DiscardAll

Next ==
  \/ Tick \/ KernelStep \/ LoopStep \/ RequestStop
  \/ \E when \in 1..MaxTime, interval \in Intervals : AddTimer(when, interval)
  \/ \E id \in Ids : Cancel(id)

(* The clock and the kernel go on, and so does a loop that runs. *)
Fairness == WF_vars(Tick) /\ WF_vars(KernelStep) /\ WF_vars(LoopStep)

Spec == Init /\ [][Next]_vars /\ Fairness

-----------------------------------------------------------------------------
(* How many requests name an operation, wherever they are. *)
Naming(op, submitted, deadline) ==
  Cardinality({i \in DOMAIN kernel.sq : kernel.sq[i].op \in submitted})
    + (IF deadline # 0 THEN 1 ELSE 0)
    + Cardinality({i \in DOMAIN kernel.cq : kernel.cq[i].op = op})

(* The driver and the control operation are each used for one request at a *)
(* time, the one that driver_armed_ and control_pending_ speak of; and a   *)
(* timer is in the index and in the registry, or running.                  *)
RequestsMatchFlags ==
  /\ Naming("driver", {"arm"}, kernel.driver) = IF queue.req.driverArmed THEN 1 ELSE 0
  /\ Naming("control", {"update", "fallback"}, kernel.fallback)
       = IF queue.req.controlPending THEN 1 ELSE 0
  /\ queue.active = Sequences(queue.timers)
  /\ queue.running.sequence \notin queue.active

Waiting == at = "loop" /\ kernel.sq = <<>> /\ kernel.cq = <<>> /\ ~stopping

Covered ==
  \E d \in {kernel.driver, kernel.fallback} :
     d # 0 /\ d <= Earliest(queue.timers).expiration

(* While the loop waits, a timeout will wake it for its earliest timer, or *)
(* a fallback will, which may come later than that timer.                  *)
EarliestIsArmed == Waiting /\ queue.timers # {} => Covered \/ kernel.fallback # 0

(* A callback is called when its timer has expired and no timer before it  *)
(* waits, once unless it repeats, and never after its timer was cancelled, *)
(* by whichever callback or coroutine.                                     *)
RunsAreDue ==
  [][\A t \in queue.timers : ran'[t.sequence] # ran[t.sequence] =>
       /\ t.expiration <= clock
       /\ \A u \in queue.timers \ {t} : TimerLess(t, u)
       /\ t.sequence \notin gone
       /\ Repeat(t) \/ ran[t.sequence] = 0]_vars

(* Every timer that is due leaves the queue or is set to a later time, and *)
(* a loop that stops discards the others.                                  *)
TimersRun == (Overdue \/ stopping) ~> (queue.timers = {} \/ ~(Overdue \/ stopping))
================================================================================
