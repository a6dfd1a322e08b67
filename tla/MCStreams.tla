------------------------------ MODULE MCStreams ------------------------------
(***************************************************************************)
(* The streams of both backends for TLC, one at a time: `backend` says     *)
(* which one moves, the other one stays new.  `mode` says which directions *)
(* are used: one, with deadlines and failures, or both, without them; or   *)
(* that it is the connector of the backend that moves, not its stream.     *)
(***************************************************************************)
EXTENDS EpollStream

CONSTANTS
  MaxFails, UringWriteSize   \* of UringStream

(* Its Write() answers an empty buffer before it sends anything. *)
ASSUME UringConstants == UringWriteSize \in Nat \ {0}

VARIABLES
  backend, mode,
  ust, kernel, out, fails, umoves, ustopping, \* of UringStream
  eloop, batch, econn, wire,                  \* of EpollConnector
  uloop, uring, uconn                         \* of UringConnector

uvars == <<ust, kernel, out, fails, umoves, ustopping>>

Uring == INSTANCE UringStream WITH
  WriteSize <- UringWriteSize, MoveWhileRetrying <- FALSE,
  st <- ust, moves <- umoves, stopping <- ustopping

ecvars == <<eloop, batch, econn, wire>>
ucvars == <<uloop, uring, uconn>>

EpollConnect == INSTANCE EpollConnector WITH loop <- eloop, conn <- econn
UringConnect == INSTANCE UringConnector WITH loop <- uloop, kernel <- uring, conn <- uconn

Connects == mode = "connect"
IsEpoll == backend = "epoll"

MCInit ==
  /\ backend \in {"epoll", "uring"} /\ mode \in {"read", "write", "both", "connect"}
  /\ Init /\ Uring!Init /\ (~IsEpoll \/ Connects => st.edge)
  /\ EpollConnect!Init /\ UringConnect!Init

(* A direction that is not used stays as it is in a new stream.  The        *)
(* deadline is set again and again in the read direction, whose code is     *)
(* that of the other one.                                                   *)
Unused(s, d) ==
  /\ s.lane[d].owner = NoOne /\ s.lane[d].deadline = "none"
  /\ s.life[d] = IF d = "read" THEN "Readable" ELSE "Writable"

Used(s, set) ==
  CASE mode = "read" -> Unused(s, "write")
    [] mode = "write" -> Unused(s, "read") /\ set <= 1
    [] mode = "both" -> set = 0

MCNext ==
  /\ \/ /\ IsEpoll /\ ~Connects /\ Next /\ Used(st', moves')
        /\ UNCHANGED <<uvars, ecvars, ucvars>>
     \/ /\ ~IsEpoll /\ ~Connects /\ Uring!Next /\ Used(ust', umoves')
        /\ mode = "both" => fails' = 0
        /\ UNCHANGED <<vars, ecvars, ucvars>>
     \/ IsEpoll /\ Connects /\ EpollConnect!Next /\ UNCHANGED <<vars, uvars, ucvars>>
     \/ ~IsEpoll /\ Connects /\ UringConnect!Next /\ UNCHANGED <<vars, uvars, ecvars>>
  /\ UNCHANGED <<backend, mode>>

(* The Fairness of the one that moves. *)
EpollFairness ==
  /\ WF_vars(IsEpoll /\ Poll) /\ WF_vars(IsEpoll /\ Dispatch)
  /\ WF_vars(IsEpoll /\ Resume)
  /\ WF_vars(IsEpoll /\ stopping /\ Close)
  /\ \A d \in Dirs : WF_vars(IsEpoll /\ ~stopping /\ DeadlineTimer(d))

UringFairness ==
  /\ WF_uvars(~IsEpoll /\ Uring!HandleCqe) /\ WF_uvars(~IsEpoll /\ Uring!Resume)
  /\ WF_uvars(~IsEpoll /\ Uring!KernelNotify) /\ WF_uvars(~IsEpoll /\ Uring!KernelSweep)
  /\ WF_uvars(~IsEpoll /\ Uring!KernelCancelAll)
  /\ \A d \in Dirs :
       /\ WF_uvars(~IsEpoll /\ Uring!KernelCancel(d))
       /\ WF_uvars(~IsEpoll /\ Uring!KernelEnd(d))
       /\ WF_uvars(~IsEpoll /\ ~ustopping /\ Uring!DeadlineTimer(d))
       /\ WF_uvars(~IsEpoll /\ ~ustopping /\ Uring!RetryTimer(d))

EpollConnectFairness ==
  /\ WF_ecvars(IsEpoll /\ Connects /\ EpollConnect!Poll)
  /\ WF_ecvars(IsEpoll /\ Connects /\ EpollConnect!RunHandler)
  /\ WF_ecvars(IsEpoll /\ Connects /\ EpollConnect!Resume)
  /\ WF_ecvars(IsEpoll /\ Connects /\ EpollConnect!BeginShutdown)

UringConnects(A) == ~IsEpoll /\ Connects /\ A

UringConnectFairness ==
  /\ WF_ucvars(UringConnects(UringConnect!DrainCancels))
  /\ WF_ucvars(UringConnects(UringConnect!KernelCancels))
  /\ WF_ucvars(UringConnects(UringConnect!OnComplete))
  /\ WF_ucvars(UringConnects(UringConnect!OnCancelComplete))
  /\ WF_ucvars(UringConnects(UringConnect!Resume))
  /\ WF_ucvars(UringConnects(UringConnect!Drained))
  /\ WF_ucvars(UringConnects(uring.connect = "cancelled" /\ UringConnect!KernelConnects))
  /\ WF_ucvars(UringConnects(UringConnect!TimerRuns))
  /\ SF_ucvars(UringConnects(UringConnect!TimerRuns
                               /\ (uconn'.cancelSubmitted \/ uloop' # "running")))

MCSpec ==
  /\ MCInit /\ [][MCNext]_<<backend, mode, vars, uvars, ecvars, ucvars>>
  /\ EpollFairness /\ UringFairness /\ EpollConnectFairness /\ UringConnectFairness

-----------------------------------------------------------------------------
(* An operation lives in its coroutine's frame and a timer captures its     *)
(* stream: the kernel, a completion or a timer names neither of them after  *)
(* the coroutine goes on or the stream is closed; and the work that resumes *)
(* a coroutine after its deadline still has its handle when it runs (the    *)
(* CHECK of Work::Run()), as long as one coroutine reads.  And a Recv() of  *)
(* an epoll stream hands its buffer back without a reservation.             *)
StreamEndsQuiet ==
  /\ ClosedIsQuiet /\ BuffersHandedBack
  /\ Uring!FrameOutlivesRequests /\ Uring!ReadyKeepsHandle

(* Write() sends its buffer once: it succeeds when the socket has accepted  *)
(* all of it and no more, across partial sends, zero-copy notifications and *)
(* fallbacks.                                                               *)
WritesOnce == []EpollWritesOnce /\ Uring!WritesOnce

(* An operation is timed out only by a deadline that has passed and still   *)
(* stands: no timer of a deadline that was moved or cleared does it.        *)
TimeoutsAreDue == EpollTimeoutsAreDue /\ Uring!TimeoutsAreDue

(* An operation ends once its deadline has passed, although its cancel may  *)
(* have to be retried; Close() returns; a loop that stops leaves no         *)
(* operation behind; and a level-triggered stream that nobody reads loses   *)
(* its interest, so that "an unread remainder" does not keep the loop       *)
(* spinning (HandleRead()).                                                 *)
StreamCallsEnd ==
  /\ \A d \in Dirs : (Due(d) \/ Uring!Due(d)) ~> ~(Due(d) \/ Uring!Due(d))
  /\ ust.closing ~> ~ust.closing
  /\ (stopping \/ ustopping)
       ~> \A d \in Dirs : st.lane[d].owner = NoOne /\ ust.lane[d].owner = NoOne
  /\ Unread ~> ~Unread

(* Readiness or completion, timeout and loop stop race for the one result   *)
(* of a connect: the first one stays, and none that failed or timed out     *)
(* succeeds.  It has its socket, its timer and its entries with the loop    *)
(* only while it waits: nothing finds the awaiter of one that has ended.    *)
ConnectDecidedOnce ==
  /\ [](EpollConnect!ConnectOwnsOnce /\ UringConnect!ConnectOwnsOnce)
  /\ EpollConnect!ConnectDecidedOnce /\ UringConnect!ConnectDecidedOnce

(* A connect with a timeout ends, though its cancel may have to be retried, *)
(* and every connect ends once it is answered or the loop stops.            *)
ConnectEnds == EpollConnect!ConnectEnds /\ UringConnect!ConnectEnds
===============================================================================
