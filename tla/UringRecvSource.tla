--------------------------- MODULE UringRecvSource ---------------------------
(***************************************************************************)
(* uring::RecvSource (src/uring/recv_source.cc): a receive source driven   *)
(* by the completions of one multishot receive and of the request that     *)
(* cancels it.  The kernel fills the completion queue concurrently; every  *)
(* handler runs on the loop thread and is one step.  As in EpollRecvSource *)
(* a member is an operator from one source record to the next:             *)
(*                                                                         *)
(*   m         state_, the RecvSourceMachine                               *)
(*   events    the bounded ring events_                                    *)
(*   overflow  overflow_, payloads that arrived while there was no room    *)
(*   copies    how many slots are in copy_free_                            *)
(*   recv      recv_submitted_                                             *)
(*   cancel    cancel_submitted_                                           *)
(*   error     whether terminal_error_ is set                              *)
(*   next      whether pending_next_ waits                                 *)
(*   stop      whether pending_stop_ waits                                 *)
(*   got       payloads Next() has returned so far                         *)
(*   lost      payloads a completion carried and the source dropped        *)
(*   last      the kind of the last result of Next()                       *)
(*   held      how many counted leases the consumer has                    *)
(*   misfire   Complete() was called on a Next() that was already answered *)
(*                                                                         *)
(* The kernel (external) is the record kernel: sock, the socket's receive  *)
(* queue; armed, whether the multishot receive is live, and dying, whether *)
(* its next completion is its last; cancel, whether it has a cancel        *)
(* request to process; cq, the completion queue.  It gives a receive one   *)
(* provided buffer until its completion is handled; there are RingSlots of *)
(* them.                                                                   *)
(***************************************************************************)
EXTENDS RecvSourceMachine, Sequences

CONSTANTS
  MaxData,          \* how many payloads the peer sends
  MaxHeld,          \* how many counted leases the consumer may hold
  RingSlots,        \* published provided buffers
  StopWhileWaiting  \* whether Stop() may be called while a Next() waits

VARIABLES
  src,      \* the source, as above
  kernel,   \* the kernel's side, as above
  sent,     \* how many payloads the peer has sent
  eof,      \* whether the peer has shut its side down
  stopping  \* LoopState is kStopping: SubmitOp() answers ECANCELED

vars == <<src, kernel, sent, eof, stopping>>

NewSource ==
  [m |-> NewMachine, events |-> <<>>, overflow |-> <<>>,
   copies |-> BufferCapacity, recv |-> FALSE, cancel |-> FALSE,
   error |-> FALSE, next |-> FALSE, stop |-> FALSE, got |-> <<>>,
   lost |-> <<>>, last |-> "none", held |-> 0, misfire |-> FALSE]

Init ==
  /\ src = NewSource
  /\ kernel = [sock |-> <<>>, armed |-> FALSE, dying |-> FALSE,
               cancel |-> FALSE, cq |-> <<>>]
  /\ sent = 0 /\ eof = FALSE /\ stopping = FALSE

(* A completion: its kind, its payload, and whether F_MORE is set. *)
Cqe(kind, payload, more) == [kind |-> kind, payload |-> payload, more |-> more]

-----------------------------------------------------------------------------
(* Members of RecvSource.                                                  *)

RequestBackendStop(s, error) ==
  LET t == [s EXCEPT !.error = @ \/ error, !.m = RequestStop(@)]
  IN  IF ~t.recv \/ t.cancel THEN t
      ELSE IF stopping THEN [t EXCEPT !.error = TRUE]
      ELSE [t EXCEPT !.cancel = TRUE]

RequestBackendPause(s) ==
  LET t == [s EXCEPT !.m = RequestPause(@)]
  IN  IF ~t.recv \/ t.cancel THEN t
      ELSE IF stopping THEN RequestBackendStop(t, TRUE)
      ELSE [t EXCEPT !.cancel = TRUE]

(* A BeginStop() whose cancel SQE cannot be prepared fails. *)
BeginStopFails(s) == s.recv /\ ~s.cancel /\ stopping

BeginStop(s) ==
  [s EXCEPT !.m = RequestStop(@), !.cancel = @ \/ (s.recv /\ ~stopping)]

HasNext(s) == s.events # <<>> \/ s.overflow # <<>> \/ s.m.state = "Terminal"

(* The early return of MaybeResume(). *)
MayResume(s) == ~s.error /\ ~s.cancel /\ s.overflow = <<>>

(* TryTakeNext() may resume the source, which submits, which may fail and   *)
(* then deliver: the calls are mutually recursive in the code.              *)
RECURSIVE TakeNext(_)
DeliverNextIfReady(s) ==
  IF ~s.next \/ ~HasNext(s) THEN s
  ELSE LET t == TakeNext(s)
       IN  [t EXCEPT !.next = FALSE, !.misfire = @ \/ ~t.next]

EnsureSubmission(s) ==
  IF s.recv \/ s.cancel \/ ~CanArm(s.m) THEN s
  ELSE IF stopping THEN DeliverNextIfReady(RequestBackendStop(s, TRUE))
  ELSE [s EXCEPT !.m = TryArm(@), !.recv = TRUE]

MaybeResume(s) ==
  IF MayResume(s) /\ CanResume(s.m)
  THEN EnsureSubmission([s EXCEPT !.m = TryResume(@)]) ELSE s

TakeNext(s) ==
  IF s.events # <<>>
  THEN LET t == [s EXCEPT !.m = AcquireEvent(@), !.events = Tail(@),
                          !.got = Append(@, Head(s.events)),
                          !.held = @ + 1, !.last = "event"]
       IN  IF t.m.state = "Paused" THEN MaybeResume(t) ELSE t
  ELSE IF s.overflow # <<>>
  THEN LET t == [s EXCEPT !.overflow = Tail(@),
                          !.got = Append(@, Head(s.overflow)), !.last = "event"]
       IN  IF t.m.state = "Paused" THEN MaybeResume(t) ELSE t
  ELSE [s EXCEPT !.last = IF s.error THEN "error" ELSE "end"]

CompleteStopIfReady(s) ==
  IF s.m.state = "Terminal" /\ ~s.recv /\ ~s.cancel
  THEN [s EXCEPT !.stop = FALSE] ELSE s

(* A queue that takes a payload although older ones overflowed. *)
BugQueueJumper(s) == ~CanQueueEvent(s.m)

(* A payload must be kept aside when there is no room, or behind others.    *)
MustOverflow(s) == s.overflow # <<>> \/ ~CanQueueEvent(s.m)

(* The part of OnCompletion() that takes a payload: hand it to the waiting  *)
(* Next(), queue it, keep it as overflow, or, when the direct delivery is   *)
(* refused with ENOBUFS, drop it and fail.                                  *)
TakePayload(s, cqe) ==
  LET direct == s.next /\ s.events = <<>> /\ s.overflow = <<>>
                /\ s.m.state = "Active"
      event == IF direct THEN "Delivered" ELSE "Produced"
      request == IF cqe.more THEN "More" ELSE "Terminal"
      Unrecorded(t) == [t EXCEPT !.m = CompleteMultishotEvent(@, "None", request)]
  IN  IF ~direct /\ MustOverflow(s)
      THEN Unrecorded(RequestBackendPause(
             [s EXCEPT !.overflow = Append(@, cqe.payload)]))
      ELSE IF ~CanComplete(s.m, event)
      THEN Unrecorded(RequestBackendStop(
             [s EXCEPT !.lost = Append(@, cqe.payload)], TRUE))
      ELSE LET t == [s EXCEPT !.m = CompleteMultishotEvent(@, event, request),
                              !.copies = @ - 1]
           IN  IF direct
               THEN [t EXCEPT !.next = FALSE, !.got = Append(@, cqe.payload),
                              !.held = @ + 1, !.last = "event"]
               ELSE [t EXCEPT !.events = Append(@, cqe.payload)]

(* ... and the part that takes the end of the stream or an error.  A        *)
(* receive that ran out of provided buffers is no error.                    *)
TakeEnd(s, cqe) ==
  LET t == IF cqe.kind = "eof" THEN RequestBackendStop(s, FALSE)
           ELSE IF s.m.state = "Active" /\ cqe.kind # "nobufs"
           THEN RequestBackendStop(s, TRUE) ELSE s
  IN  [t EXCEPT !.m = CompleteMultishotEvent(@, "None", "Terminal")]

OnCompletion(s, cqe) ==
  LET s1 == [s EXCEPT !.recv = cqe.more]
      s2 == IF cqe.kind = "data" THEN TakePayload(s1, cqe) ELSE TakeEnd(s1, cqe)
      s3 == IF s2.m.state = "Active" /\ s2.m.queued >= EventCapacity
            THEN RequestBackendPause(s2) ELSE s2
      s4 == IF ~cqe.more /\ s3.m.state = "Active" /\ ~s3.error
            THEN EnsureSubmission(s3) ELSE s3
  IN  CompleteStopIfReady(MaybeResume(DeliverNextIfReady(s4)))

(* An OnCancelComplete() that does not look whether somebody waits for it. *)
BugOnCancelComplete(s) == [s EXCEPT !.cancel = FALSE]

OnCancelComplete(s) ==
  CompleteStopIfReady(MaybeResume([s EXCEPT !.cancel = FALSE]))

(* A ReturnQueuedPayload() that forgets the copy slot. *)
BugReturnQueuedPayload(s) ==
  LET t == [s EXCEPT !.m = ReleaseLease(@), !.held = @ - 1]
  IN  CompleteStopIfReady(EnsureSubmission(t))

ReturnQueuedPayload(s) ==
  LET t == [s EXCEPT !.copies = @ + 1, !.m = ReleaseLease(@), !.held = @ - 1]
  IN  IF t.m.state = "Active" /\ t.recv /\ ~t.stop THEN t
      ELSE CompleteStopIfReady(EnsureSubmission(t))

-----------------------------------------------------------------------------
(* Steps of the loop thread.                                               *)

(* A handler replaces the source, and what it submitted reaches the kernel:  *)
(* a request the source owns is live unless its last completion is queued.  *)
Handle(result, cq) ==
  LET Queued(kinds) == \E i \in DOMAIN cq : cq[i].kind \in kinds /\ ~cq[i].more
  IN  \E s \in {result} :
      /\ src' = s
      /\ kernel' = [kernel EXCEPT
           !.cq = cq,
           !.armed = s.recv /\ ~Queued({"data", "eof", "nobufs", "canceled"}),
           !.dying = @ /\ kernel.armed,
           !.cancel = s.cancel /\ ~Queued({"cancel"})]
      /\ UNCHANGED <<sent, eof, stopping>>

(* HandleCqe() dispatches the oldest completion. *)
HandleCqe ==
  /\ kernel.cq # <<>>
  /\ LET cqe == Head(kernel.cq)
     IN  Handle(IF cqe.kind = "cancel" THEN OnCancelComplete(src)
                ELSE OnCompletion(src, cqe), Tail(kernel.cq))

(* co_await source.Next().  The first call starts the source; if its        *)
(* receive cannot be submitted the source fails at once.                    *)
Next_ ==
  /\ ~src.next
  /\ src.held < MaxHeld
  /\ LET s == IF src.m.state = "Idle"
              THEN EnsureSubmission([src EXCEPT !.m = Started(@)]) ELSE src
     IN  Handle(IF HasNext(s) THEN TakeNext(s) ELSE [s EXCEPT !.next = TRUE],
                kernel.cq)

(* A coroutine destroys a RecvEvent whose lease is counted. *)
Release == src.held > 0 /\ Handle(ReturnQueuedPayload(src), kernel.cq)

(* source.RequestStop(). *)
CallRequestStop ==
  /\ src.m.state \notin {"Stopping", "Draining", "Terminal"}
  /\ src.next => StopWhileWaiting
  /\ Handle(BeginStop(src), kernel.cq)

(* co_await source.Stop(): it fails if the cancel cannot be submitted, and  *)
(* may then be called again; a second one meanwhile is refused with EBUSY.  *)
CallStop ==
  /\ ~src.stop
  /\ src.next => StopWhileWaiting
  /\ LET s == BeginStop(src)
     IN  Handle([s EXCEPT !.stop = /\ ~BeginStopFails(src)
                                   /\ s.m.state # "Terminal" \/ s.recv \/ s.cancel],
                kernel.cq)

-----------------------------------------------------------------------------
(* The kernel, the peer, and whoever stops the loop.                       *)

Post(cqe, k) ==
  /\ kernel' = [k EXCEPT !.cq = Append(@, cqe)]
  /\ UNCHANGED <<src, sent, eof, stopping>>

SlotsInUse == Len(SelectSeq(kernel.cq, LAMBDA cqe : cqe.kind = "data"))

(* The live receive takes a payload; the kernel may end the multishot.      *)
KernelRecv ==
  /\ kernel.armed /\ kernel.sock # <<>> /\ SlotsInUse < RingSlots
  /\ \E more \in BOOLEAN :
       /\ more => ~kernel.dying
       /\ Post(Cqe("data", Head(kernel.sock), more),
               [kernel EXCEPT !.sock = Tail(@), !.armed = more])

KernelNoBuffers ==
  /\ kernel.armed /\ kernel.sock # <<>> /\ SlotsInUse = RingSlots
  /\ Post(Cqe("nobufs", 0, FALSE), [kernel EXCEPT !.armed = FALSE])

KernelEof ==
  /\ kernel.armed /\ kernel.sock = <<>> /\ eof
  /\ Post(Cqe("eof", 0, FALSE), [kernel EXCEPT !.armed = FALSE])

(* The cancel request finds its target and ends it (its own completion      *)
(* follows or precedes the target's), finds none (ENOENT), or finds it at   *)
(* work (EALREADY): then the target "converges independently".              *)
KernelCancel ==
  LET mine == Cqe("cancel", 0, FALSE)
      target == Cqe("canceled", 0, FALSE)
  IN  /\ kernel.cancel
      /\ \/ /\ kernel.armed
            /\ \E ends \in {<<target, mine>>, <<mine, target>>} :
                 kernel' = [kernel EXCEPT !.cancel = FALSE, !.armed = FALSE,
                                          !.cq = @ \o ends]
         \/ kernel' = [kernel EXCEPT !.cancel = FALSE, !.dying = kernel.armed,
                                     !.cq = Append(@, mine)]
      /\ UNCHANGED <<src, sent, eof, stopping>>

(* A target that was at work finds out that it was cancelled. *)
KernelDie ==
  /\ kernel.armed /\ kernel.dying
  /\ Post(Cqe("canceled", 0, FALSE), [kernel EXCEPT !.armed = FALSE])

(* DrainStoppedOperations() cancels every request of a stopping loop. *)
KernelCancelAll ==
  /\ stopping /\ kernel.armed
  /\ Post(Cqe("canceled", 0, FALSE), [kernel EXCEPT !.armed = FALSE])

PeerSend ==
  /\ ~eof /\ sent < MaxData
  /\ sent' = sent + 1
  /\ kernel' = [kernel EXCEPT !.sock = Append(@, sent')]
  /\ UNCHANGED <<src, eof, stopping>>

PeerClose == ~eof /\ eof' = TRUE /\ UNCHANGED <<src, kernel, sent, stopping>>

LoopRequestStop ==
  ~stopping /\ stopping' = TRUE /\ UNCHANGED <<src, kernel, sent, eof>>

Kernel ==
  KernelRecv \/ KernelNoBuffers \/ KernelEof \/ KernelCancel \/ KernelDie
    \/ KernelCancelAll

Next ==
  \/ HandleCqe \/ Next_ \/ Release \/ CallRequestStop \/ CallStop
  \/ Kernel \/ PeerSend \/ PeerClose \/ LoopRequestStop

(* The kernel makes progress, the loop reaps, and the consumer comes back    *)
(* for more and lets its events go; peers and stops are free.                *)
Fairness ==
  /\ WF_vars(KernelRecv \/ KernelNoBuffers \/ KernelEof)
  /\ WF_vars(KernelCancel) /\ WF_vars(KernelDie) /\ WF_vars(KernelCancelAll)
  /\ WF_vars(HandleCqe) /\ WF_vars(Next_) /\ WF_vars(Release)

Spec == Init /\ [][Next]_vars /\ Fairness

-----------------------------------------------------------------------------
(* Properties.                                                             *)

Interval(a, b) == [i \in 1..(b - a + 1) |-> a + i - 1]

Payloads(cq) ==
  LET data == SelectSeq(cq, LAMBDA cqe : cqe.kind = "data")
  IN  [i \in DOMAIN data |-> data[i].payload]

(* "Its bytes are gone from the socket: keep them, never drop them": no     *)
(* payload whose completion the source handled is dropped.                  *)
NeverDrop == src.lost = <<>>

(* The stream stays in order across the queue, the overflow, the            *)
(* completion queue and the socket: TryTakeNext() and the direct delivery   *)
(* of OnCompletion() never overtake one another.                            *)
InOrder ==
  src.lost = <<>> =>
    src.got \o src.events \o src.overflow \o Payloads(kernel.cq) \o kernel.sock
      = Interval(1, sent)

(* Queue, copy slots, leases and requests agree with the state machine      *)
(* whenever the loop is between handlers: the CHECKs of TryTakeNext(),      *)
(* TakeCopySlot(), ReturnQueuedPayload() and OnCompletion() rest on it, and *)
(* the reentrant DeliverNextIfReady() of a failed submission answers no     *)
(* Next() twice.  Data goes past the bounded queue only while the receive   *)
(* that brought it is being cancelled.                                      *)
Accounted ==
  /\ src.m.queued = Len(src.events)
  /\ src.m.leases = Len(src.events) + src.held
  /\ src.copies = BufferCapacity - src.m.leases
  /\ src.recv <=> src.m.armed = 1
  /\ ~src.misfire
  /\ src.overflow # <<>> => src.m.state # "Active"

(* A source whose Stop() has returned may be destroyed: the CHECKs of       *)
(* ~RecvSource() hold and the kernel has no request of it.                  *)
StoppedIsQuiet ==
  src.m.state = "Terminal" /\ ~src.recv /\ ~src.cancel =>
    /\ src.events = <<>> /\ src.held = 0 /\ src.copies = BufferCapacity
    /\ ~kernel.armed /\ ~kernel.cancel /\ kernel.cq = <<>>

(* A Next() waits and there is something for it: data, the end of the       *)
(* stream or of the source.                                                 *)
NextDue ==
  src.next /\ (kernel.sock # <<>> \/ eof \/ stopping \/ src.m.state = "Terminal")

(* A Next() that waits at a source that has ended.  ReturnQueuedPayload()   *)
(* does not look for one: if it waits while leases are out and the source   *)
(* drains, the release of the last of them ends the source without an       *)
(* answer (epoll's ReturnBuffer() delivers the end).                        *)
Stranded == src.next /\ src.m.state = "Terminal"
=============================================================================
