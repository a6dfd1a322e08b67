------------------------------ MODULE StreamProofs ------------------------------
(***************************************************************************)
(* What is proved of the streams of both backends together, in the terms   *)
(* of MCStreams and for every value of its constants: the theorems of      *)
(* EpollStreamProofs and UringStreamProofs, brought to the specification   *)
(* in which one of them moves at a time.                                   *)
(***************************************************************************)
EXTENDS MCStreams, EpollStreamProofs

UringProof == INSTANCE UringStreamProofs WITH
  WriteSize <- UringWriteSize, MoveWhileRetrying <- FALSE,
  st <- ust, moves <- umoves, stopping <- ustopping

(* UringProof and the Uring of MCStreams are instances of the same module.  This says it of
   the calls that begin operations and submit their requests ... *)
LEMMA SameCalls ==
  /\ \A s, c, d, copy, fail :
       UringProof!Start(s, c, d, copy, fail) = Uring!Start(s, c, d, copy, fail)
  /\ \A s, copy, fail : UringProof!Send(s, copy, fail) = Uring!Send(s, copy, fail)
  /\ \A s, copy, fail : UringProof!WriteResumed(s, copy, fail) = Uring!WriteResumed(s, copy, fail)
  /\ \A s, c : UringProof!Taken(s, c) = Uring!Taken(s, c)
  /\ \A c : UringProof!Idle(c) <=> Uring!Idle(c)
  /\ \A fail : UringProof!Failing(fail) <=> Uring!Failing(fail)
  /\ \A s, q : UringProof!Handle(s, q) <=> Uring!Handle(s, q)
  <1>1. ASSUME NEW s, NEW c, NEW d, NEW copy, NEW fail
        PROVE  UringProof!Start(s, c, d, copy, fail) = Uring!Start(s, c, d, copy, fail)
    <2>1. UringProof!Begin(s, c, d, copy) = Uring!Begin(s, c, d, copy)
      BY Zenon DEF UringProof!Begin, Uring!Begin, UringProof!NewLane, Uring!NewLane
    <2>2. \A x : UringProof!Release(x, d) = Uring!Release(x, d)
      BY Zenon
         DEF UringProof!Release, Uring!Release, UringProof!TryComplete, Uring!TryComplete,
             UringProof!NewLane, Uring!NewLane, UringProof!Dirs, Uring!Dirs,
             UringProof!MarkClosed, Uring!MarkClosed, UringProof!Work, Uring!Work
    <2>3. \A x, kind : UringProof!Answer(x, c, kind) = Uring!Answer(x, c, kind)
      BY Zenon DEF UringProof!Answer, Uring!Answer, UringProof!Result, Uring!Result
    <2>4. UringProof!Validate(s, d) = Uring!Validate(s, d)
      BY Zenon
         DEF UringProof!Validate, Uring!Validate, UringProof!ValidateRead, Uring!ValidateRead,
             UringProof!ValidateWrite, Uring!ValidateWrite, UringProof!ValidateResource,
             Uring!ValidateResource
    <2>5. UringProof!IsReadShutdown(s.life) <=> Uring!IsReadShutdown(s.life)
      BY Zenon DEF UringProof!IsReadShutdown, Uring!IsReadShutdown
    <2>6. QED
      BY <2>1, <2>2, <2>3, <2>4, <2>5, SMTT(20) DEF UringProof!Start, Uring!Start
  <1>2. \A s, c : UringProof!Waiting(s, c) <=> Uring!Waiting(s, c)
    BY Zenon DEF UringProof!Waiting, Uring!Waiting, UringProof!Dirs, Uring!Dirs
  <1>3. \A s, kind : UringProof!WriteEnds(s, kind) = Uring!WriteEnds(s, kind)
    BY Zenon DEF UringProof!WriteEnds, Uring!WriteEnds, UringProof!Result, Uring!Result
  <1>4. ASSUME NEW s, NEW copy, NEW fail
        PROVE  UringProof!Send(s, copy, fail) = Uring!Send(s, copy, fail)
    BY <1>1, <1>2, <1>3, Zenon DEF UringProof!Send, Uring!Send
  <1>5. ASSUME NEW s, NEW copy, NEW fail
        PROVE  UringProof!WriteResumed(s, copy, fail) = Uring!WriteResumed(s, copy, fail)
    BY <1>3, <1>4, Zenon DEF UringProof!WriteResumed, Uring!WriteResumed
  <1>6. \A s, c : UringProof!Taken(s, c) = Uring!Taken(s, c)
    BY Zenon
       DEF UringProof!Taken, Uring!Taken, UringProof!Waiting, Uring!Waiting, UringProof!Dirs,
           Uring!Dirs, UringProof!Result, Uring!Result
  <1>7. /\ \A c : UringProof!Idle(c) <=> Uring!Idle(c)
        /\ \A fail : UringProof!Failing(fail) <=> Uring!Failing(fail)
    BY Zenon
       DEF UringProof!Idle, Uring!Idle, UringProof!Waiting, Uring!Waiting, UringProof!Dirs,
           Uring!Dirs, UringProof!Failing, Uring!Failing
  <1>8. \A s, q : UringProof!Handle(s, q) <=> Uring!Handle(s, q)
    BY Zenon DEF UringProof!Handle, Uring!Handle, UringProof!Dirs, Uring!Dirs
  <1>9. QED
    BY <1>1, <1>4, <1>5, <1>6, <1>7, <1>8, Zenon

(* Both are instances of UringStream. *)
LEMMA SameUring ==
  /\ UringProof!Init <=> Uring!Init
  /\ UringProof!Next <=> Uring!Next
  /\ UringProof!FrameOutlivesRequests <=> Uring!FrameOutlivesRequests
  /\ UringProof!ReadyKeepsHandle <=> Uring!ReadyKeepsHandle
  <1>1. UringProof!Init <=> Uring!Init
    BY Zenon
       DEF UringProof!Init, Uring!Init, UringProof!NewStream, Uring!NewStream, UringProof!Dirs,
           Uring!Dirs, UringProof!NewLifecycle, Uring!NewLifecycle, UringProof!NewLane,
           Uring!NewLane, UringProof!Users, Uring!Users, UringProof!Result, Uring!Result
  <1>2. UringProof!Next <=> Uring!Next
    <2>1. UringProof!HandleCqe <=> Uring!HandleCqe
      BY Zenon
         DEF UringProof!HandleCqe, Uring!HandleCqe, UringProof!Handle, Uring!Handle,
             UringProof!Dispatch, Uring!Dispatch, UringProof!Dirs, Uring!Dirs,
             UringProof!OnComplete, Uring!OnComplete, UringProof!OnNotification,
             Uring!OnNotification, UringProof!CompleteDeadlineCancel,
             Uring!CompleteDeadlineCancel, UringProof!OnCancelComplete, Uring!OnCancelComplete,
             UringProof!Result, Uring!Result, UringProof!CompleteOperation,
             Uring!CompleteOperation, UringProof!Schedule, Uring!Schedule, UringProof!Release,
             Uring!Release, UringProof!Work, Uring!Work, UringProof!TryComplete,
             Uring!TryComplete, UringProof!NewLane, Uring!NewLane, UringProof!MarkClosed,
             Uring!MarkClosed
    <2>2. UringProof!Write <=> Uring!Write
      BY SameCalls, SMTT(20) DEF UringProof!Write, Uring!Write
    <2>3. UringProof!Resume <=> Uring!Resume
      BY SameCalls, SMTT(20) DEF UringProof!Resume, Uring!Resume
    <2>4. UringProof!CloseRead <=> Uring!CloseRead
      BY Zenon
         DEF UringProof!CloseRead, Uring!CloseRead, UringProof!MayCloseRead, Uring!MayCloseRead,
             UringProof!Handle, Uring!Handle, UringProof!CloseReadSide, Uring!CloseReadSide,
             UringProof!ValidateRead, Uring!ValidateRead, UringProof!Dirs, Uring!Dirs,
             UringProof!ValidateResource, Uring!ValidateResource
    <2>5. UringProof!CloseWrite <=> Uring!CloseWrite
      BY Zenon
         DEF UringProof!CloseWrite, Uring!CloseWrite, UringProof!MayShutdown, Uring!MayShutdown,
             UringProof!Handle, Uring!Handle, UringProof!ShutdownSide, Uring!ShutdownSide,
             UringProof!ValidateResource, Uring!ValidateResource, UringProof!Dirs, Uring!Dirs
    <2>6. UringProof!Close <=> Uring!Close
      BY Zenon
         DEF UringProof!Close, Uring!Close, UringProof!MayClose, Uring!MayClose,
             UringProof!Failing, Uring!Failing, UringProof!Dirs, Uring!Dirs, UringProof!CloseNow,
             Uring!CloseNow, UringProof!AbortClosePreparation, Uring!AbortClosePreparation,
             UringProof!PrepareClose, Uring!PrepareClose, UringProof!Handle, Uring!Handle,
             UringProof!MarkClosed, Uring!MarkClosed
    <2>7. \A c : UringProof!Read(c) <=> Uring!Read(c)
      BY SameCalls, Zenon DEF UringProof!Read, Uring!Read
    <2>8. \A d : UringProof!DeadlineTimer(d) <=> Uring!DeadlineTimer(d)
      BY Zenon
         DEF UringProof!DeadlineTimer, Uring!DeadlineTimer, UringProof!Failing, Uring!Failing,
             UringProof!Handle, Uring!Handle, UringProof!HandleDeadline, Uring!HandleDeadline,
             UringProof!Dirs, Uring!Dirs, UringProof!CancelPending, Uring!CancelPending
    <2>9. \A d : UringProof!RetryTimer(d) <=> Uring!RetryTimer(d)
      BY Zenon
         DEF UringProof!RetryTimer, Uring!RetryTimer, UringProof!Failing, Uring!Failing,
             UringProof!Handle, Uring!Handle, UringProof!CancelPending, Uring!CancelPending,
             UringProof!Dirs, Uring!Dirs
    <2>10. \A d : UringProof!CallSetDeadline(d) <=> Uring!CallSetDeadline(d)
      BY Zenon
         DEF UringProof!CallSetDeadline, Uring!CallSetDeadline, UringProof!Failing, Uring!Failing,
             UringProof!Handle, Uring!Handle, UringProof!SetDeadline, Uring!SetDeadline,
             UringProof!Dirs, Uring!Dirs
    <2>11. \A d : UringProof!Expire(d) <=> Uring!Expire(d)
      BY Zenon
         DEF UringProof!Expire, Uring!Expire
    <2>12. \A d : UringProof!KernelFail(d) <=> Uring!KernelFail(d)
      BY Zenon
         DEF UringProof!KernelFail, Uring!KernelFail, UringProof!Post, Uring!Post, UringProof!Cqe,
             Uring!Cqe, UringProof!Result, Uring!Result
    <2>13. \A d : UringProof!KernelCancel(d) <=> Uring!KernelCancel(d)
      BY Zenon
         DEF UringProof!KernelCancel, Uring!KernelCancel, UringProof!Doom, Uring!Doom,
             UringProof!Post, Uring!Post, UringProof!Cqe, Uring!Cqe, UringProof!Result,
             Uring!Result, UringProof!Dirs, Uring!Dirs
    <2>14. UringProof!KernelRecv <=> Uring!KernelRecv
      BY Zenon
         DEF UringProof!KernelRecv, Uring!KernelRecv, UringProof!Post, Uring!Post, UringProof!Cqe,
             Uring!Cqe, UringProof!Result, Uring!Result
    <2>15. UringProof!KernelSend <=> Uring!KernelSend
      BY Zenon
         DEF UringProof!KernelSend, Uring!KernelSend, UringProof!Post, Uring!Post, UringProof!Cqe,
             Uring!Cqe, UringProof!Result, Uring!Result
    <2>16. UringProof!KernelNotify <=> Uring!KernelNotify
      BY Zenon
         DEF UringProof!KernelNotify, Uring!KernelNotify, UringProof!Post, Uring!Post,
             UringProof!Cqe, Uring!Cqe, UringProof!Result, Uring!Result
    <2>17. UringProof!KernelSweep <=> Uring!KernelSweep
      BY Zenon
         DEF UringProof!KernelSweep, Uring!KernelSweep, UringProof!Doom, Uring!Doom,
             UringProof!Post, Uring!Post, UringProof!Cqe, Uring!Cqe, UringProof!Result,
             Uring!Result, UringProof!Dirs, Uring!Dirs
    <2>18. UringProof!KernelCancelAll <=> Uring!KernelCancelAll
      BY Zenon
         DEF UringProof!KernelCancelAll, Uring!KernelCancelAll, UringProof!Doom, Uring!Doom,
             UringProof!Dirs, Uring!Dirs
    <2>19. UringProof!LoopRequestStop <=> Uring!LoopRequestStop
      BY Zenon
         DEF UringProof!LoopRequestStop, Uring!LoopRequestStop
    <2>20. QED
      BY <2>1, <2>2, <2>3, <2>4, <2>5, <2>6, <2>7, <2>8, <2>9, <2>10, <2>11, <2>12, <2>13, <2>14,
         <2>15, <2>16, <2>17, <2>18, <2>19, Zenon
      DEF UringProof!Next, Uring!Next, UringProof!Dirs, Uring!Dirs
  <1>3. UringProof!FrameOutlivesRequests <=> Uring!FrameOutlivesRequests
    BY Zenon
       DEF UringProof!FrameOutlivesRequests, Uring!FrameOutlivesRequests, UringProof!Dirs,
           Uring!Dirs, UringProof!Named, Uring!Named
  <1>4. UringProof!ReadyKeepsHandle <=> Uring!ReadyKeepsHandle
    BY Zenon DEF UringProof!ReadyKeepsHandle, Uring!ReadyKeepsHandle
  <1>5. QED
    BY <1>1, <1>2, <1>3, <1>4, SMTT(20)
-----------------------------------------------------------------------------
(* One stream at a time.                                                   *)

allVars == <<backend, mode, vars, uvars, ecvars, ucvars>>

(* The invariants of both streams. *)
StreamsInv == EInv /\ UringProof!UInv

(* A step of the whole is a step of each stream, or leaves it alone. *)
LEMMA StepOfEach ==
  ASSUME [MCNext]_allVars
  PROVE  [Next]_vars /\ (UringProof!Next \/ UNCHANGED UringProof!vars)
  <1>1. CASE Next /\ UNCHANGED uvars
    BY <1>1, SMTT(20) DEF uvars, UringProof!vars
  <1>2. CASE Uring!Next /\ UNCHANGED vars
    BY <1>2, SameUring, SMTT(20)
  <1>3. CASE UNCHANGED <<vars, uvars>>
    BY <1>3, SMTT(20) DEF uvars, UringProof!vars
  <1>4. QED
    BY <1>1, <1>2, <1>3, SMTT(20) DEF MCNext, allVars

(* Each step keeps both invariants and does what each stream's steps may do. *)
LEMMA StepOfBoth ==
  ASSUME StreamsInv, [MCNext]_allVars
  PROVE  /\ StreamsInv' /\ ETimely(st, st')
         /\ UringProof!StepOk \/ UNCHANGED UringProof!vars
  <1>1. [Next]_vars /\ (UringProof!Next \/ UNCHANGED UringProof!vars)
    BY StepOfEach, SMTT(20)
  <1>2. EInv' /\ ETimely(st, st')
    BY <1>1, StepKeeps, SMTT(20) DEF StreamsInv
  <1>3. CASE UringProof!Next
    BY <1>2, <1>3, UringProof!NextInv, SMTT(20) DEF StreamsInv
  <1>4. CASE UNCHANGED UringProof!vars
    BY <1>2, <1>4, UringProof!StutterInv, SMTT(20) DEF StreamsInv
  <1>5. QED
    BY <1>1, <1>3, <1>4, <1>2, SMTT(20)

(* Both streams keep their invariants. *)
LEMMA StreamsInvariant == MCSpec => []StreamsInv
  <1>1. MCInit => StreamsInv
    <2> SUFFICES ASSUME MCInit PROVE StreamsInv
      BY SMTT(20)
    <2>1. EInv
      BY NewStreamGood, SMTT(20) DEF MCInit
    <2>2. UringProof!Init /\ UringProof!ValidConstants
      BY SameUring, StreamConstants, UringConstants, SMTT(20) DEF MCInit, UringProof!ValidConstants
    <2>3. QED
      BY <2>1, <2>2, UringProof!InitInv, SMTT(20) DEF StreamsInv
  <1>2. StreamsInv /\ [MCNext]_allVars => StreamsInv'
    BY StepOfBoth, SMTT(20)
  <1>3. QED
    BY <1>1, <1>2, PTL DEF MCSpec, allVars

(* For any sizes, deadlines and failures: once a coroutine goes on or its stream is closed,
   neither the kernel nor a completion nor a timer names what was in its frame
   (CompleteReadOperation(), CloseNow()), its buffer is its own again, and, with one reader,
   the work that resumes it has its handle (the CHECK of Work::Run()). *)
THEOREM StreamsEndQuiet == (\A a, b \in Readers : a = b) /\ MCSpec => []StreamEndsQuiet
  <1> SUFFICES ASSUME \A a, b \in Readers : a = b
               PROVE  MCSpec => []StreamEndsQuiet
    BY SMTT(20)
  <1>1. StreamsInv => StreamEndsQuiet
    <2> SUFFICES ASSUME StreamsInv PROVE StreamEndsQuiet
      BY SMTT(20)
    <2>1. ClosedIsQuiet /\ BuffersHandedBack
      BY ClosedQuiet, BuffersBack, SMTT(20) DEF StreamsInv
    <2>2. Uring!FrameOutlivesRequests
      BY UringProof!FramesOutlive, SameUring, SMTT(20) DEF StreamsInv
    <2>3. Uring!ReadyKeepsHandle
      BY UringProof!HandlesKept, SameUring, SMTT(20) DEF StreamsInv, UringProof!OneReader
    <2>4. QED
      BY <2>1, <2>2, <2>3, SMTT(20) DEF StreamEndsQuiet
  <1>2. QED
    BY <1>1, StreamsInvariant, PTL

(* For any size of the buffer and any sequence of partial sends, zero-copy notifications,
   fallbacks and timeouts: a Write() that succeeds has had the socket accept its buffer,
   once (TryWrite() of epoll, Write() of uring). *)
THEOREM StreamsWriteOnce == MCSpec => WritesOnce
  <1>1. StreamsInv => EpollWritesOnce
    BY SentOnce, SMTT(20) DEF StreamsInv
  <1>2. StreamsInv /\ [MCNext]_allVars =>
          [ust.left # 0 /\ ust'.left = 0 /\ ust'.res[Writer].kind = "ok" =>
             out = UringWriteSize]_(Uring!vars)
    <2> SUFFICES ASSUME StreamsInv, [MCNext]_allVars, ~UNCHANGED Uring!vars
                 PROVE  ust.left # 0 /\ ust'.left = 0 /\ ust'.res[Writer].kind = "ok" =>
                          out = UringWriteSize
      BY SMTT(20)
    <2>1. UringProof!StepOk
      BY StepOfBoth, SMTT(20) DEF UringProof!vars, Uring!vars
    <2>2. QED
      BY <2>1, SMTT(20) DEF UringProof!StepOk
  <1>3. QED
    BY <1>1, <1>2, StreamsInvariant, PTL DEF MCSpec, allVars, WritesOnce, Uring!WritesOnce

(* However deadlines are set, moved and cleared while operations run and their cancels are
   retried: one that is timed out has a deadline that has passed and still stands
   (HandleReadDeadline(), HandleWriteDeadline()). *)
THEOREM StreamTimeoutsAreDue == MCSpec => TimeoutsAreDue
  <1>1. StreamsInv /\ [MCNext]_allVars =>
          [\A d \in Dirs : LET c == st.lane[d].owner IN
             (c # NoOne /\ st'.lane[d].owner = NoOne /\ st'.res[c] = "ETIMEDOUT") =>
               st'.lane[d].deadline = "past"]_vars
    <2> SUFFICES ASSUME StreamsInv, [MCNext]_allVars, NEW d \in Dirs,
                        st.lane[d].owner # NoOne, st'.lane[d].owner = NoOne,
                        st'.res[st.lane[d].owner] = "ETIMEDOUT"
                 PROVE  st'.lane[d].deadline = "past"
      BY SMTT(20)
    <2>1. ETimely(st, st')
      BY StepOfBoth, SMTT(20)
    <2>2. QED
      BY <2>1, SMTT(20) DEF ETimely, Pending
  <1>2. StreamsInv /\ [MCNext]_allVars =>
          [\A d \in Uring!Dirs : ~ust.lane[d].late /\ ust'.lane[d].late =>
             ust.lane[d].deadline = "past"]_(Uring!vars)
    <2> SUFFICES ASSUME StreamsInv, [MCNext]_allVars, ~UNCHANGED Uring!vars,
                        NEW d \in Uring!Dirs, ~ust.lane[d].late, ust'.lane[d].late
                 PROVE  ust.lane[d].deadline = "past"
      BY SMTT(20)
    <2>1. UringProof!StepOk
      BY StepOfBoth, SMTT(20) DEF UringProof!vars, Uring!vars
    <2>2. QED
      BY <2>1, SMTT(20) DEF UringProof!StepOk, UringProof!LateOk, UringProof!Dirs, Uring!Dirs
  <1>3. QED
    BY <1>1, <1>2, StreamsInvariant, PTL
       DEF MCSpec, allVars, TimeoutsAreDue, EpollTimeoutsAreDue, Uring!TimeoutsAreDue
=================================================================================
