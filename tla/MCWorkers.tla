------------------------------- MODULE MCWorkers -------------------------------
(***************************************************************************)
(* What a worker thread lives from, for TLC, one at a time: the listener   *)
(* of either backend, the roots it spawns, and the runtime that starts and *)
(* stops it.  `part` says which one moves; the others stay new.            *)
(***************************************************************************)
EXTENDS AcceptSourceMachine, SpawnJoin, RuntimeLifecycle

CONSTANTS
  EpollDepth, EpollCapacity, Sources, NoHolder, EpollConns, EpollBad,
  UringConns, UringBad, MaxAccepts

VARIABLES
  part,
  elst, emade, estopping,           \* of EpollListener
  ulst, kernel, umade, ustopping    \* of UringListener

evars == <<elst, emade, estopping>>
uvars == <<ulst, kernel, umade, ustopping>>

EpollSide == INSTANCE EpollListener WITH
  PendingDepth <- EpollDepth, EventCapacity <- EpollCapacity,
  NoSource <- NoHolder, MaxConns <- EpollConns, BadConns <- EpollBad,
  lst <- elst, made <- emade, stopping <- estopping

UringSide == INSTANCE UringListener WITH
  MaxConns <- UringConns, BadConns <- UringBad, StopRacesCancel <- FALSE,
  lst <- ulst, made <- umade, stopping <- ustopping

IsEpoll == part = "epoll"
IsUring == part = "uring"
IsSpawn == part = "spawn"
IsRuntime == part = "runtime"

MCInit ==
  /\ part \in {"epoll", "uring", "spawn", "runtime"}
  /\ EpollSide!Init /\ UringSide!Init /\ (~IsUring => kernel.supported)
  /\ Init /\ RuntimeInit

MCNext ==
  /\ \/ IsEpoll /\ EpollSide!Next /\ UNCHANGED <<uvars, vars, runtimeVars>>
     \/ IsUring /\ UringSide!Next /\ UNCHANGED <<evars, vars, runtimeVars>>
     \/ IsSpawn /\ Next /\ UNCHANGED <<evars, uvars, runtimeVars>>
     \/ IsRuntime /\ RuntimeNext /\ UNCHANGED <<evars, uvars, vars>>
  /\ UNCHANGED part

(* The Fairness of the one that moves. *)
EpollFairness ==
  WF_evars(IsEpoll /\ EpollSide!Readable) /\ WF_evars(IsEpoll /\ EpollSide!LoopStop)

UringFairness ==
  /\ WF_kernel(IsUring /\ UringSide!Reap)
  /\ WF_uvars(IsUring /\ UringSide!KernelAccept)
  /\ WF_uvars(IsUring /\ UringSide!KernelUnsupported)
  /\ WF_uvars(IsUring /\ UringSide!KernelFind) /\ WF_uvars(IsUring /\ UringSide!KernelFound)
  /\ WF_uvars(IsUring /\ UringSide!KernelCanceled)

SpawnFairness ==
  \A r \in Roots : WF_vars(IsSpawn /\ Producer(r)) /\ WF_vars(IsSpawn /\ Consumer(r))

WorkerFairness ==
  /\ WF_runtimeVars(IsRuntime /\ ControlStep)
  /\ \A r \in Requesters : WF_runtimeVars(IsRuntime /\ RequestStopLock(r))
  /\ \A w \in Workers : WF_runtimeVars(IsRuntime /\ WorkerStep(w))

MCSpec ==
  /\ MCInit /\ [][MCNext]_<<part, evars, uvars, vars, runtimeVars>>
  /\ EpollFairness /\ UringFairness /\ SpawnFairness /\ WorkerFairness

-----------------------------------------------------------------------------
(* Connections are handed out once each and in order, by Accept() and by    *)
(* Next() across queue, overflow and completions; only those that failed or *)
(* were closed with their source are missing.                               *)
ListenersInOrder == EpollSide!HandedOutInOrder /\ UringSide!HandedOutInOrder

(* The Channel of epoll serves one party at a time, and pending_accepts_ of *)
(* uring counts what is in flight: the underflow CHECKs never fire, and a   *)
(* source alone uses the listener while it holds it.                        *)
ListenersAccounted == EpollSide!ChannelHasOneUser /\ UringSide!Accounted

(* A source of epoll that ended leaves the listener free, the fd of uring   *)
(* is closed only when no request refers to it, and "Stop() must not resume *)
(* (and let the source be destroyed) until both operations have left the    *)
(* ring" (uring::AcceptSource).                                             *)
ListenersEndQuiet ==
  [](EpollSide!EndFreesListener /\ UringSide!FdOutlivesRequests) /\ UringSide!StoppedIsQuiet

(* A Next() or an Accept() is answered once there is a connection for it or *)
(* the source, the listener or the loop ends; a Stop() that was accepted    *)
(* returns, and a Close() that was accepted closes the fd.                  *)
AcceptCallsReturn ==
  /\ \A i \in Sources : EpollSide!NextDue(i) ~> ~elst.src[i].next
  /\ (EpollSide!AcceptDue \/ UringSide!NextDue)
       ~> ~elst.accept /\ (~ulst.src.next \/ ulst.crashed)
  /\ ulst.src.stop ~> (~ulst.src.stop \/ ulst.crashed)
  /\ (ulst.close # "none") ~> (~ulst.fd \/ ulst.crashed)
===============================================================================
