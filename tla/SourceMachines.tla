---------------------------- MODULE SourceMachines ----------------------------
(***************************************************************************)
(* The state machines of the receive and the accept sources, driven by     *)
(* every sequence of calls an adapter may make.  The one obligation of the *)
(* receive adapter: a lease that is still in the event queue is not        *)
(* released (the queue owns it), so only the leases beyond `queued` come   *)
(* back.                                                                   *)
(*                                                                         *)
(* They move one at a time: `subject` says which one, the other stays new. *)
(* The accept machine (AcceptSourceState) has one-shot or multishot        *)
(* requests.                                                               *)
(***************************************************************************)
EXTENDS RecvSourceMachine

VARIABLE machine

SourceInit == machine = NewMachine

SourceStart == machine.state = "Idle" /\ machine' = Started(machine)

Arm == CanArm(machine) /\ machine' = TryArm(machine)

Pause == machine.state = "Active" /\ machine' = RequestPause(machine)

Resume == CanResume(machine) /\ machine' = TryResume(machine)

(* A completion of the kernel, or of a readiness request. *)
Complete(event, request) ==
  /\ CanComplete(machine, event)
  /\ <<event, request>> # <<"None", "More">>
  /\ machine' = CompleteMultishotEvent(machine, event, request)

(* Next() takes a queued event; its lease passes to the consumer. *)
Acquire == machine.queued # 0 /\ machine' = AcquireEvent(machine)

(* The consumer lets go of a BufferLease. *)
Release ==
  /\ machine.leases > machine.queued
  /\ machine' = ReleaseLease(machine)

(* An event just produced could not be stored: its lease and its queue slot *)
(* roll back.                                                               *)
Discard ==
  /\ machine.state = "Active"
  /\ machine.queued # 0
  /\ machine' = AcquireEvent(ReleaseLease(machine))

SourceStop ==
  /\ machine.state \notin {"Stopping", "Draining", "Terminal"}
  /\ machine' = RequestStop(machine)

SourceNext ==
  \/ SourceStart \/ Arm \/ Pause \/ Resume \/ Acquire \/ Release \/ Discard \/ SourceStop
  \/ \E event \in EventDispositions, request \in RequestDispositions :
       Complete(event, request)

(* After a stop the kernel ends every armed request, the consumer takes the *)
(* queued events and returns its leases.                                    *)
SourceFairness ==
  /\ WF_machine(Complete("None", "Terminal"))
  /\ WF_machine(Acquire)
  /\ WF_machine(Release)

SourceSpec == SourceInit /\ [][SourceNext]_machine /\ SourceFairness

-----------------------------------------------------------------------------
(* Properties.                                                             *)

SourceTypeOK ==
  machine \in [state : SourceStates, queued : Nat, armed : Nat, leases : Nat]

(* The accounting of RecvSourceStateMachine: an event in the queue holds a  *)
(* buffer, and neither the queue, the buffers nor the pending requests ever *)
(* exceed the options, multishot completions included.                      *)
Bounded ==
  /\ machine.queued <= machine.leases
  /\ machine.queued <= EventCapacity
  /\ machine.leases <= BufferCapacity
  /\ machine.armed <= PendingDepth

(* No state outlives what it waits for: Pausing and Stopping wait for a     *)
(* request, Draining for an event or a lease; Paused and Draining have none *)
(* armed, and Idle and Terminal own nothing.  A transition that forgets     *)
(* ReconcileStopping() would leave the source waiting for nothing.          *)
NoStaleWait ==
  /\ machine.state \in {"Pausing", "Stopping"} => machine.armed > 0
  /\ machine.state \in {"Paused", "Draining", "Idle", "Terminal"} => machine.armed = 0
  /\ machine.state = "Draining" => machine.leases > 0
  /\ machine.state \in {"Idle", "Terminal"} => machine.leases = 0

(* The inductive invariant: the accounting and the waiting conditions. *)
SourceInv == SourceTypeOK /\ Bounded /\ NoStaleWait

(* How far a source is on its way to the end. *)
Phase ==
  CASE machine.state \in {"Stopping", "Draining"} -> "closing"
    [] machine.state = "Terminal" -> "over"
    [] OTHER -> "open"

Outstanding == machine.armed + machine.queued + machine.leases

Barrier == INSTANCE DrainBarrier WITH phase <- Phase, outstanding <- Outstanding

(* The machine implements the drain barrier: it is Terminal exactly from    *)
(* the moment a stop was requested and no request, event or lease is left.  *)
ImplementsBarrier == Barrier!Spec

(* A stopped source ends: once stopping, Terminal is reached when requests  *)
(* complete, events are taken and leases are returned.                      *)
StopConverges == (machine.state = "Stopping") ~> (machine.state = "Terminal")

-----------------------------------------------------------------------------
(* Next to the accept machine.                                             *)

CONSTANTS AcceptDepth, AcceptCapacity, AcceptThreshold

(* The options of the accept source, as AcceptSourceMachine demands them. *)
ASSUME AcceptOptionsValid ==
  /\ AcceptDepth \in Nat \ {0}
  /\ AcceptCapacity \in Nat /\ AcceptCapacity >= AcceptDepth
  /\ AcceptThreshold \in 0..(AcceptCapacity - 1)

VARIABLES subject, accepting, multishot

svars == <<subject, machine, accepting, multishot>>

AcceptState == INSTANCE AcceptSourceState WITH
  PendingDepth <- AcceptDepth, EventCapacity <- AcceptCapacity,
  ThresholdOption <- AcceptThreshold, machine <- accepting

StatesInit ==
  /\ subject \in {"recv", "accept"} /\ SourceInit /\ AcceptState!Init
  /\ subject = "recv" => ~multishot

StatesNext ==
  /\ \/ subject = "recv" /\ SourceNext /\ UNCHANGED <<accepting, multishot>>
     \/ subject = "accept" /\ AcceptState!Next /\ UNCHANGED machine
  /\ UNCHANGED subject

StatesFairness == SourceFairness /\ AcceptState!Fairness

StatesSpec == StatesInit /\ [][StatesNext]_svars /\ StatesFairness

-----------------------------------------------------------------------------
(* The accept machine keeps room, with both kinds of requests: bounds, no   *)
(* stale wait, a queue slot reserved for every one-shot request (TryArm(),  *)
(* CompleteRequest()), and a source that TryResume() makes active can arm   *)
(* at once.                                                                 *)
AcceptHasRoom == []AcceptState!AcceptInv /\ AcceptState!ResumeHasRoom

(* The accept machine, too, is Terminal exactly from the moment a stop was  *)
(* requested and no request and no event is left (ReconcileStopping()).     *)
AcceptImplementsBarrier == AcceptState!AcceptImplementsBarrier

(* A stopped source ends, once its requests complete, its events are taken  *)
(* and its leases are returned: no operation forgets ReconcileStopping().   *)
StopsConverge == StopConverges /\ AcceptState!AcceptStopConverges
===============================================================================
