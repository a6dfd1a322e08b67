--------------------------- MODULE RecvSourceMachine ---------------------------
(***************************************************************************)
(* RecvSourceStateMachine (include/alyrn/net/detail/recv_source_state.h):  *)
(* the backend-neutral admission and lease accounting of a receive source. *)
(* It is a value that an adapter changes several times within one handler, *)
(* so each operation is an operator from one machine record to the next:   *)
(*                                                                         *)
(*   state    state_                                                       *)
(*   queued   queued_events_, events that wait for Next()                  *)
(*   armed    armed_requests_, requests the kernel (or epoll) still owns   *)
(*   leases   outstanding_leases_, buffers queued or held by the consumer  *)
(*                                                                         *)
(* An operation that the code refuses with an error or `false` leaves the  *)
(* machine alone; the predicate next to it says when that happens.         *)
(***************************************************************************)
EXTENDS Integers

CONSTANTS
  PendingDepth,     \* RecvSourceOptions::pending_depth
  EventCapacity,    \* RecvSourceOptions::event_capacity
  BufferCapacity,   \* RecvSourceOptions::buffer_capacity
  ThresholdOption   \* RecvSourceOptions::resume_threshold, 0 for the default

(* RecvSourceOptions::Valid(), which Create() demands. *)
ASSUME OptionsValid ==
  /\ PendingDepth \in Nat \ {0}
  /\ EventCapacity \in Nat \ {0}
  /\ BufferCapacity \in Nat /\ BufferCapacity >= EventCapacity
  /\ ThresholdOption \in 0..(EventCapacity - 1)

(* RecvSourceOptions::ResumeThreshold(). *)
ResumeThreshold(option) ==
  IF option = 0 THEN EventCapacity \div 2 ELSE option

kMaxRearmWorkingSet == 8

SourceStates == {"Idle", "Active", "Pausing", "Paused", "Stopping",
                 "Draining", "Terminal"}

(* What a completion says of the event and of the request behind it. *)
EventDispositions == {"None", "Produced", "Delivered"}
RequestDispositions == {"More", "Terminal"}

NewMachine == [state |-> "Idle", queued |-> 0, armed |-> 0, leases |-> 0]

CanDeliverEvent(m) == m.leases < BufferCapacity

CanQueueEvent(m) == m.queued < EventCapacity /\ m.leases < BufferCapacity

CanArm(m) ==
  /\ m.state = "Active"
  /\ m.armed < PendingDepth
  /\ CanQueueEvent(m)
  /\ m.leases + m.armed < BufferCapacity
  /\ LET free == BufferCapacity - (m.leases + m.armed)
     IN  free >= ResumeThreshold(ThresholdOption) \/ free >= kMaxRearmWorkingSet

(* A reconciliation that takes an empty queue for the end of the source. *)
BugReconcile(m) ==
  [m EXCEPT !.state =
     IF m.armed # 0 THEN @
     ELSE IF @ = "Pausing" THEN "Paused"
     ELSE IF @ \notin {"Stopping", "Draining"} THEN @
     ELSE IF m.queued = 0 THEN "Terminal" ELSE "Draining"]

(* ReconcileStopping(), which starts with ReconcilePause(). *)
Reconcile(m) ==
  [m EXCEPT !.state =
     IF m.armed # 0 THEN @
     ELSE IF @ = "Pausing" THEN "Paused"
     ELSE IF @ \notin {"Stopping", "Draining"} THEN @
     ELSE IF m.queued = 0 /\ m.leases = 0 THEN "Terminal" ELSE "Draining"]

Started(m) == [m EXCEPT !.state = "Active"]

TryArm(m) == IF CanArm(m) THEN [m EXCEPT !.armed = @ + 1] ELSE m

RequestPause(m) ==
  IF m.state = "Active" THEN Reconcile([m EXCEPT !.state = "Pausing"]) ELSE m

CanResume(m) == m.state = "Paused" /\ m.queued <= ResumeThreshold(ThresholdOption)

TryResume(m) == IF CanResume(m) THEN [m EXCEPT !.state = "Active"] ELSE m

(* The error returns of CompleteMultishotEvent(): EINVAL and ENOBUFS. *)
CanComplete(m, event) ==
  /\ m.armed # 0
  /\ event = "Produced" => CanQueueEvent(m)
  /\ event = "Delivered" => CanDeliverEvent(m)

CompleteMultishotEvent(m, event, request) ==
  IF ~CanComplete(m, event) THEN m
  ELSE Reconcile(
         [state  |-> m.state,
          queued |-> IF event = "Produced" THEN m.queued + 1 ELSE m.queued,
          armed  |-> IF request = "Terminal" THEN m.armed - 1 ELSE m.armed,
          leases |-> IF event = "None" THEN m.leases ELSE m.leases + 1])

(* AcquireEvent(), and DiscardQueuedEvent(), which does the same. *)
AcquireEvent(m) ==
  IF m.queued = 0 THEN m ELSE Reconcile([m EXCEPT !.queued = @ - 1])

(* A release that does not look at the state behind the last lease. *)
BugReleaseLease(m) ==
  IF m.leases = 0 THEN m ELSE [m EXCEPT !.leases = @ - 1]

ReleaseLease(m) ==
  IF m.leases = 0 THEN m ELSE Reconcile([m EXCEPT !.leases = @ - 1])

RequestStop(m) ==
  IF m.state \in {"Stopping", "Draining", "Terminal"} THEN m
  ELSE IF m.state = "Idle" THEN [m EXCEPT !.state = "Terminal"]
  ELSE Reconcile([m EXCEPT !.state = "Stopping"])
=============================================================================
