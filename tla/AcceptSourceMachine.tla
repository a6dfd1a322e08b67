-------------------------- MODULE AcceptSourceMachine --------------------------
(***************************************************************************)
(* AcceptSourceStateMachine (include/alyrn/net/detail/accept_source_state. *)
(* h): the backend-neutral admission of an accept source.  As in           *)
(* RecvSourceMachine each operation is an operator from one machine record *)
(* to the next, and one that the code refuses leaves the machine alone.    *)
(*                                                                         *)
(*   state    state_                                                       *)
(*   queued   queued_events_, accepted streams that wait for Next()        *)
(*   armed    armed_requests_, requests the kernel (or epoll) still owns   *)
(***************************************************************************)
EXTENDS Integers

CONSTANTS
  PendingDepth,     \* AcceptSourceOptions::pending_depth
  EventCapacity,    \* AcceptSourceOptions::event_capacity
  ThresholdOption   \* AcceptSourceOptions::resume_threshold, 0 for the default

(* AcceptSourceOptions::Valid(), which Create() demands. *)
ASSUME OptionsValid ==
  /\ PendingDepth \in Nat \ {0}
  /\ EventCapacity \in Nat /\ EventCapacity >= PendingDepth
  /\ ThresholdOption \in 0..(EventCapacity - 1)

(* AcceptSourceOptions::ResumeThreshold(). *)
ResumeThreshold(option) ==
  IF option = 0 THEN EventCapacity \div 2 ELSE option

SourceStates == {"Idle", "Active", "Pausing", "Paused", "Stopping",
                 "Draining", "Terminal"}

NewMachine == [state |-> "Idle", queued |-> 0, armed |-> 0]

(* An admission that does not reserve queue slots for pending requests. *)
BugCanArm(m) ==
  m.state = "Active" /\ m.armed < PendingDepth /\ m.queued < EventCapacity

CanArm(m) ==
  /\ m.state = "Active"
  /\ m.armed < PendingDepth
  /\ m.queued + m.armed < EventCapacity

(* A reconciliation that ends a stop before its requests are over. *)
BugReconcile(m) ==
  [m EXCEPT !.state =
     IF @ = "Pausing" THEN IF m.armed = 0 THEN "Paused" ELSE @
     ELSE IF @ \notin {"Stopping", "Draining"} THEN @
     ELSE IF m.queued = 0 THEN "Terminal" ELSE "Draining"]

(* ReconcileStopping(), which starts with ReconcilePause(). *)
Reconcile(m) ==
  [m EXCEPT !.state =
     IF m.armed # 0 THEN @
     ELSE IF @ = "Pausing" THEN "Paused"
     ELSE IF @ \notin {"Stopping", "Draining"} THEN @
     ELSE IF m.queued = 0 THEN "Terminal" ELSE "Draining"]

Started(m) == [m EXCEPT !.state = "Active"]

TryArm(m) == IF CanArm(m) THEN [m EXCEPT !.armed = @ + 1] ELSE m

RequestPause(m) ==
  IF m.state = "Active" THEN Reconcile([m EXCEPT !.state = "Pausing"]) ELSE m

(* A resume with the comparison the wrong way round. *)
BugCanResume(m) == m.state = "Paused" /\ m.queued >= ResumeThreshold(ThresholdOption)

CanResume(m) == m.state = "Paused" /\ m.queued <= ResumeThreshold(ThresholdOption)

TryResume(m) == IF CanResume(m) THEN [m EXCEPT !.state = "Active"] ELSE m

(* The error returns of CompleteRequest() and CompleteMultishotEvent().     *)
CanComplete(m, produced) ==
  m.armed # 0 /\ (produced => m.queued < EventCapacity)

(* CompleteMultishotEvent(); CompleteRequest() is the case ~more. *)
Completed(m, produced, more) ==
  IF ~CanComplete(m, produced) THEN m
  ELSE Reconcile([state  |-> m.state,
                  queued |-> IF produced THEN m.queued + 1 ELSE m.queued,
                  armed  |-> IF more THEN m.armed ELSE m.armed - 1])

ConsumeEvent(m) ==
  IF m.queued = 0 THEN m ELSE Reconcile([m EXCEPT !.queued = @ - 1])

RequestStop(m) ==
  IF m.state \in {"Stopping", "Draining", "Terminal"} THEN m
  ELSE IF m.state = "Idle" THEN [m EXCEPT !.state = "Terminal"]
  ELSE Reconcile([m EXCEPT !.state = "Stopping"])
=============================================================================
