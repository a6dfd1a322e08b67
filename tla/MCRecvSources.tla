---------------------------- MODULE MCRecvSources ----------------------------
(***************************************************************************)
(* The receive sources of both backends for TLC, and the state machines of *)
(* SourceMachines, one at a time: `backend` says which one moves, the      *)
(* others stay new.                                                        *)
(***************************************************************************)
EXTENDS SourceMachines

CONSTANTS
  SourceDepth, EpollCapacity, EpollThreshold, EpollData, EpollHeld,
  UringCapacity, UringThreshold, UringData, UringHeld, RingSlots

VARIABLES
  backend,
  esrc, esent, eeof, broken, estopping,    \* of EpollRecvSource
  usrc, kernel, usent, ueof, ustopping     \* of UringRecvSource

evars == <<esrc, esent, eeof, broken, estopping>>
uvars == <<usrc, kernel, usent, ueof, ustopping>>

Epoll == INSTANCE EpollRecvSource WITH
  PendingDepth <- SourceDepth,
  EventCapacity <- EpollCapacity, BufferCapacity <- EpollCapacity,
  ThresholdOption <- EpollThreshold, MaxData <- EpollData, MaxHeld <- EpollHeld,
  src <- esrc, sent <- esent, eof <- eeof, stopping <- estopping

Uring == INSTANCE UringRecvSource WITH
  PendingDepth <- SourceDepth,
  EventCapacity <- UringCapacity, BufferCapacity <- UringCapacity,
  ThresholdOption <- UringThreshold, MaxData <- UringData, MaxHeld <- UringHeld,
  StopWhileWaiting <- FALSE,
  src <- usrc, sent <- usent, eof <- ueof, stopping <- ustopping

IsEpoll == backend = "epoll"
IsUring == backend = "uring"

MCInit ==
  /\ backend \in {"epoll", "uring", "none"}
  /\ Epoll!Init /\ Uring!Init /\ StatesInit
  /\ backend # "none" => subject = "recv"

MCNext ==
  /\ \/ IsEpoll /\ Epoll!Next /\ UNCHANGED <<uvars, svars>>
     \/ IsUring /\ Uring!Next /\ UNCHANGED <<evars, svars>>
     \/ backend = "none" /\ StatesNext /\ UNCHANGED <<evars, uvars>>
  /\ UNCHANGED backend

(* Epoll!Fairness if it is epoll that moves, and Uring!Fairness if it is uring. *)
EpollFairness ==
  /\ WF_evars(IsEpoll /\ Epoll!Readable)
  /\ WF_evars(IsEpoll /\ Epoll!Next_) /\ WF_evars(IsEpoll /\ Epoll!Release)

UringFairness ==
  /\ WF_uvars(IsUring /\ (Uring!KernelRecv \/ Uring!KernelNoBuffers \/ Uring!KernelEof))
  /\ WF_uvars(IsUring /\ Uring!KernelCancel) /\ WF_uvars(IsUring /\ Uring!KernelDie)
  /\ WF_uvars(IsUring /\ Uring!KernelCancelAll) /\ WF_uvars(IsUring /\ Uring!HandleCqe)
  /\ WF_uvars(IsUring /\ Uring!Next_) /\ WF_uvars(IsUring /\ Uring!Release)

MCSpec ==
  /\ MCInit /\ [][MCNext]_<<backend, evars, uvars, svars>>
  /\ EpollFairness /\ UringFairness /\ StatesFairness

-----------------------------------------------------------------------------
(* Nothing is duplicated or reordered between the socket and Next(), across *)
(* queue, overflow and completions, and nothing is lost but the payload a   *)
(* failed OnReady() of epoll could not queue.  The consumer of the uring    *)
(* source has fewer than UringHeld leases when it asks for the next event.  *)
RecvInOrder == Epoll!InOrder /\ Uring!InOrder /\ Uring!NeverDrop

(* Queue, buffers, leases and requests agree with the state machine at      *)
(* every return to the loop: the CHECKs of TryTakeNext(), ReturnBuffer(),   *)
(* TakeCopySlot() and OnCompletion() rest on it.  A source whose consumer   *)
(* saw the end, or whose Stop() returned, may be destroyed: the CHECKs of   *)
(* ~RecvSource() hold.                                                      *)
RecvAccounted ==
  /\ Epoll!PoolAccounted /\ Uring!Accounted
  /\ Epoll!EndIsDestroyable /\ Uring!StoppedIsQuiet

(* A Next() that there is something for is answered, and a Stop() returns   *)
(* once the consumer has taken what was queued and released what it held.   *)
(* The exception is an io_uring Next() that waits while the consumer still  *)
(* holds leases and the source drains: the last release ends the source     *)
(* without an answer (ReturnQueuedPayload()), and nothing else does.        *)
RecvCallsReturn ==
  /\ (Epoll!NextDue \/ Uring!NextDue) ~> (~esrc.next /\ (usrc.next => Uring!Stranded))
  /\ [][~Uring!Stranded /\ Uring!Stranded' =>
          /\ usrc.m.state = "Draining" /\ usrc.next
          /\ usrc.held > 0 /\ usrc'.held = 0]_uvars
  /\ (esrc.stop \/ usrc.stop) ~> (~esrc.stop /\ ~usrc.stop)
===============================================================================
