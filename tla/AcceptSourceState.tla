--------------------------- MODULE AcceptSourceState ---------------------------
(***************************************************************************)
(* An accept source's state machine driven by every sequence of calls an   *)
(* adapter may make, with one-shot requests only (epoll, and io_uring      *)
(* without multishot accept) or with multishot ones as well.               *)
(***************************************************************************)
EXTENDS AcceptSourceMachine

VARIABLES
  machine,    \* the state machine of the source
  multishot   \* whether a request may produce more than one event, fixed at first

sourceVars == <<machine, multishot>>

Init == machine = NewMachine /\ multishot \in BOOLEAN

Start == machine.state = "Idle" /\ machine' = Started(machine)

Arm == CanArm(machine) /\ machine' = TryArm(machine)

Pause == machine.state = "Active" /\ machine' = RequestPause(machine)

Resume == CanResume(machine) /\ machine' = TryResume(machine)

(* A completion of the kernel, or of a readiness request. *)
Complete(produced, more) ==
  /\ CanComplete(machine, produced)
  /\ more => multishot /\ produced
  /\ machine' = Completed(machine, produced, more)

(* Next() takes a queued stream. *)
Consume == machine.queued # 0 /\ machine' = ConsumeEvent(machine)

Stop ==
  /\ machine.state \notin {"Stopping", "Draining", "Terminal"}
  /\ machine' = RequestStop(machine)

Next ==
  /\ \/ Start \/ Arm \/ Pause \/ Resume \/ Consume \/ Stop
     \/ \E produced, more \in BOOLEAN : Complete(produced, more)
  /\ UNCHANGED multishot

(* After a stop the kernel ends every armed request and the consumer takes  *)
(* the queued streams.                                                      *)
Fairness ==
  /\ WF_machine(Complete(FALSE, FALSE))
  /\ WF_machine(Consume)

Spec == Init /\ [][Next]_sourceVars /\ Fairness

-----------------------------------------------------------------------------
(* Properties.                                                             *)

TypeOK == machine \in [state : SourceStates, queued : Nat, armed : Nat]

Bounded ==
  /\ machine.queued <= EventCapacity
  /\ machine.armed <= PendingDepth

(* No state outlives what it waits for, as for SourceMachines. *)
NoStaleWait ==
  /\ machine.state \in {"Pausing", "Stopping"} => machine.armed > 0
  /\ machine.state \in {"Paused", "Draining", "Idle", "Terminal"} => machine.armed = 0
  /\ machine.state = "Draining" => machine.queued > 0
  /\ machine.state \in {"Idle", "Terminal"} => machine.queued = 0

(* TryArm() reserves a queue slot for every one-shot request, so that the   *)
(* CHECKs "failed to record accepted stream" never fire: CompleteRequest()  *)
(* cannot be refused with ENOBUFS.                                          *)
RoomReserved ==
  ~multishot => machine.queued + machine.armed <= EventCapacity

(* The inductive invariant. *)
AcceptInv == TypeOK /\ Bounded /\ NoStaleWait /\ RoomReserved

(* AcceptSourceOptions: "The threshold must stay below the admission        *)
(* capacity so a paused source has room to re-arm safely": a source that    *)
(* TryResume() makes active can arm at once.                                *)
ResumeHasRoom == [][Resume => CanArm(machine)']_machine

Phase ==
  CASE machine.state \in {"Stopping", "Draining"} -> "closing"
    [] machine.state = "Terminal" -> "over"
    [] OTHER -> "open"

Outstanding == machine.armed + machine.queued

Barrier == INSTANCE DrainBarrier WITH phase <- Phase, outstanding <- Outstanding

(* The machine implements the drain barrier: it is Terminal exactly from    *)
(* the moment a stop was requested and no request and no event is left.     *)
AcceptImplementsBarrier == Barrier!Spec

(* A stopped source ends: Terminal is reached once its requests complete    *)
(* and its streams are taken.                                               *)
AcceptStopConverges == (machine.state = "Stopping") ~> (machine.state = "Terminal")
=============================================================================
