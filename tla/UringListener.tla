---------------------------- MODULE UringListener ----------------------------
(***************************************************************************)
(* uring::Listener and uring::AcceptSource (src/uring/listener.cc), with   *)
(* the close convergence of uring/detail/fd_close_convergence.h.  The      *)
(* listening fd is used by one-shot Accept() operations or by the one      *)
(* AcceptSource that holds accept_source_; Close() cancels them all and    *)
(* waits for them.  A member is an operator from one record to the next:   *)
(*                                                                         *)
(*   holds     accept_source_ is the source                                *)
(*   pending   pending_accepts_                                            *)
(*   accepts   one-shot Accept() operations in flight                      *)
(*   closed    closed_                                                     *)
(*   fd        whether fd_ is open                                         *)
(*   close     "none", "waiting", or "canceled" once the cancel request of *)
(*             the pending Close() is terminal                             *)
(*   src       the source: m (state_), events, overflow, accept            *)
(*             (accept_submitted_), cancel (cancel_submitted_), error, next *)
(*             and stop (whether pending_next_, pending_stop_ wait),       *)
(*             multishot (multishot_enabled_), last (the kind of Next()'s  *)
(*             last result), alive                                         *)
(*   got       connections Next() returned, in order                       *)
(*   accepted  connections Accept() returned                               *)
(*   dropped   connections that were closed instead                        *)
(*   crashed   Complete() was called on a null awaiter: nothing follows    *)
(*                                                                         *)
(* The kernel (external): backlog, connections to accept; cq, completions; *)
(* supported, whether it knows multishot accept; hit, the requests a       *)
(* cancel has reached ("source", "accepts"); found, the cancel requests    *)
(* ("cancel", "close") that have looked for their targets.                 *)
(***************************************************************************)
EXTENDS AcceptSourceMachine, Sequences, FiniteSets

CONSTANTS
  MaxConns,         \* how many connections peers open
  BadConns,         \* those that fail before they become a Stream
  MaxAccepts,       \* how many Accept() calls wait at a time
  StopRacesCancel   \* whether Stop() may be called while a Next() waits for
                    \* the cancel of a pause

VARIABLES
  lst,       \* the listener and its source, as above
  kernel,    \* the kernel's side, as above
  made,      \* how many connections peers have opened
  stopping   \* LoopState is past kRunning: SubmitOp() answers ECANCELED

vars == <<lst, kernel, made, stopping>>

NoSource ==
  [m |-> NewMachine, events |-> <<>>, overflow |-> <<>>, accept |-> FALSE,
   cancel |-> FALSE, error |-> FALSE, next |-> FALSE, stop |-> FALSE,
   multishot |-> TRUE, last |-> "none", alive |-> FALSE]

Init ==
  /\ lst = [holds |-> FALSE, pending |-> 0, accepts |-> 0, closed |-> FALSE,
            fd |-> TRUE, close |-> "none", src |-> NoSource, got |-> <<>>,
            accepted |-> {}, dropped |-> {}, crashed |-> FALSE]
  /\ \E supported \in BOOLEAN :
       kernel = [backlog |-> <<>>, cq |-> <<>>, hit |-> {}, found |-> {},
                 supported |-> supported]
  /\ made = 0 /\ stopping = FALSE

Cqe(kind, conn, more) == [kind |-> kind, conn |-> conn, more |-> more]

-----------------------------------------------------------------------------
(* Members of AcceptSource.                                                *)

State(s) == s.src.m.state

RequestBackendStop(s) ==
  [s EXCEPT !.src.error = TRUE, !.src.m = RequestStop(@),
            !.src.cancel = @ \/ (s.src.accept /\ ~stopping)]

RequestBackendPause(s) ==
  LET t == [s EXCEPT !.src.m = RequestPause(@)]
  IN  IF ~t.src.accept \/ t.src.cancel THEN t
      ELSE IF stopping THEN RequestBackendStop(t)
      ELSE [t EXCEPT !.src.cancel = TRUE]

(* BeginStop(), which fails if its cancel cannot be submitted. *)
BeginStopFails(s) == s.src.accept /\ ~s.src.cancel /\ stopping

BeginStop(s) ==
  [s EXCEPT !.src.m = RequestStop(@), !.src.cancel = @ \/ (s.src.accept /\ ~stopping)]

ReleaseListenerReservation(s) ==
  [s EXCEPT !.holds = @ /\ State(s) # "Terminal"]

HasNext(s) == s.src.events # <<>> \/ s.src.overflow # <<>> \/ State(s) = "Terminal"

(* As in the receive source, TryTakeNext() may submit, which may fail and   *)
(* deliver: the outer delivery then finds its awaiter gone.                 *)
RECURSIVE TakeNext(_)
DeliverNextIfReady(s) ==
  IF ~s.src.next \/ ~HasNext(s) THEN s
  ELSE LET t == TakeNext(s)
       IN  [t EXCEPT !.src.next = FALSE, !.crashed = @ \/ ~t.src.next]

(* A submission that is not counted among the pending accepts. *)
BugEnsureSubmission(s) ==
  IF s.closed \/ State(s) # "Active" \/ s.src.accept \/ s.src.cancel THEN s
  ELSE IF stopping THEN DeliverNextIfReady(RequestBackendStop(s))
  ELSE IF ~CanArm(s.src.m) THEN s
  ELSE [s EXCEPT !.src.m = TryArm(@), !.src.accept = TRUE]

EnsureSubmission(s) ==
  IF s.closed \/ State(s) # "Active" \/ s.src.accept \/ s.src.cancel THEN s
  ELSE IF stopping THEN DeliverNextIfReady(RequestBackendStop(s))
  ELSE IF ~CanArm(s.src.m) THEN s
  ELSE [s EXCEPT !.src.m = TryArm(@), !.src.accept = TRUE, !.pending = @ + 1]

MaybeResume(s) ==
  IF \/ s.src.error \/ s.closed \/ s.src.cancel
     \/ s.src.overflow # <<>> \/ ~CanResume(s.src.m)
  THEN s ELSE EnsureSubmission([s EXCEPT !.src.m = TryResume(@)])

(* A TryTakeNext() that looks into the overflow first. *)
BugTakeNext(s) ==
  IF s.src.overflow # <<>>
  THEN [s EXCEPT !.src.overflow = Tail(@), !.src.last = "event",
                 !.got = Append(@, Head(s.src.overflow))]
  ELSE IF s.src.events # <<>>
  THEN LET t == [s EXCEPT !.src.m = ConsumeEvent(@), !.src.events = Tail(@),
                          !.src.last = "event",
                          !.got = Append(@, Head(s.src.events))]
       IN  IF State(t) = "Paused" THEN MaybeResume(t) ELSE EnsureSubmission(t)
  ELSE ReleaseListenerReservation(
         [s EXCEPT !.src.last = IF s.src.error THEN "error" ELSE "end"])

TakeNext(s) ==
  IF s.src.events # <<>>
  THEN LET t == [s EXCEPT !.src.m = ConsumeEvent(@), !.src.events = Tail(@),
                          !.src.last = "event",
                          !.got = Append(@, Head(s.src.events))]
       IN  IF State(t) = "Paused" THEN MaybeResume(t) ELSE EnsureSubmission(t)
  ELSE IF s.src.overflow # <<>>
  THEN LET t == [s EXCEPT !.src.overflow = Tail(@), !.src.last = "event",
                          !.got = Append(@, Head(s.src.overflow))]
       IN  IF State(t) = "Paused" THEN MaybeResume(t) ELSE t
  ELSE ReleaseListenerReservation(
         [s EXCEPT !.src.last = IF s.src.error THEN "error" ELSE "end"])

(* A Stop() that returns when the accept is over, its cancel or not. *)
BugCompleteStopIfReady(s) ==
  IF s.src.accept THEN s ELSE [s EXCEPT !.src.stop = FALSE]

CompleteStopIfReady(s) ==
  IF s.src.accept \/ s.src.cancel THEN s ELSE [s EXCEPT !.src.stop = FALSE]

(* A Close() that does not wait for its own cancel request. *)
BugNotifyCloseProgress(s) ==
  IF s.close # "none" /\ s.pending = 0 THEN [s EXCEPT !.close = "none", !.fd = FALSE]
  ELSE s

(* TryComplete() of a pending Close(), for which NotifyCloseProgress() asks.*)
NotifyCloseProgress(s) ==
  IF s.close = "canceled" /\ s.pending = 0
  THEN [s EXCEPT !.close = "none", !.fd = FALSE] ELSE s

MustOverflow(s) == s.src.overflow # <<>> \/ s.src.m.queued >= EventCapacity

(* The first half of OnCompletion(): what the completion brought, and       *)
(* whether it produced an event.  A connection that cannot be set up is     *)
(* dropped; `oom`: one that cannot be stored is dropped and fails.          *)
TakeCompletion(s, cqe, oom) ==
  LET failed == State(s) = "Active" /\ ~cqe.more
      result ==
        CASE cqe.kind \in {"conn", "connerr"} /\ cqe.conn \in BadConns ->
               [s EXCEPT !.dropped = @ \cup {cqe.conn}]
          [] cqe.kind = "conn" /\ cqe.conn \notin BadConns /\ oom ->
               RequestBackendStop([s EXCEPT !.dropped = @ \cup {cqe.conn}])
          [] cqe.kind = "conn" /\ cqe.conn \notin BadConns /\ ~oom ->
               IF MustOverflow(s)
               THEN RequestBackendPause(
                      [s EXCEPT !.src.overflow = Append(@, cqe.conn)])
               ELSE [s EXCEPT !.src.events = Append(@, cqe.conn)]
          [] cqe.kind = "unsupported" /\ failed -> [s EXCEPT !.src.multishot = FALSE]
          [] cqe.kind \in {"canceled", "fail"} /\ failed -> RequestBackendStop(s)
          [] OTHER -> s
      produced == Len(result.src.events) > Len(s.src.events)
  IN  [result EXCEPT !.src.m = Completed(@, produced, cqe.more)]

OnCompletion(s, cqe, oom) ==
  LET s1 == [s EXCEPT !.src.accept = cqe.more,
                      !.pending = IF cqe.more THEN @ ELSE @ - 1]
      s2 == TakeCompletion(s1, cqe, oom)
      s3 == IF State(s2) = "Active" /\ s2.src.m.queued >= EventCapacity
            THEN RequestBackendPause(s2) ELSE s2
      s4 == IF ~cqe.more /\ State(s3) = "Active" /\ ~s3.src.error
            THEN EnsureSubmission(s3) ELSE s3
      s5 == MaybeResume(DeliverNextIfReady(s4))
  IN  CompleteStopIfReady(IF cqe.more THEN s5 ELSE NotifyCloseProgress(s5))

(* An OnCancelComplete() that leaves a paused source to its next event. *)
BugOnCancelComplete(s) == CompleteStopIfReady([s EXCEPT !.src.cancel = FALSE])

OnCancelComplete(s) ==
  CompleteStopIfReady(MaybeResume([s EXCEPT !.src.cancel = FALSE]))

OnListenerClosed(s) ==
  CompleteStopIfReady(DeliverNextIfReady([s EXCEPT !.src.m = RequestStop(@)]))

-----------------------------------------------------------------------------
(* Steps of the loop thread.  A refused call changes nothing and is no step.*)

Call(result) ==
  /\ ~lst.crashed
  /\ lst' = result
  /\ UNCHANGED <<kernel, made, stopping>>

(* The loop takes the oldest completion off the queue. *)
Reap ==
  /\ ~lst.crashed /\ kernel.cq # <<>>
  /\ kernel' = [kernel EXCEPT !.cq = Tail(@)]

(* OnComplete() of an AcceptAwaiter, and ReleaseListenerReservation(). *)
AcceptOnComplete(s, cqe) ==
  LET t == [s EXCEPT !.accepts = @ - 1, !.pending = @ - 1]
  IN  NotifyCloseProgress(
        IF cqe.kind # "aconn" THEN t
        ELSE IF cqe.conn \in BadConns THEN [t EXCEPT !.dropped = @ \cup {cqe.conn}]
        ELSE [t EXCEPT !.accepted = @ \cup {cqe.conn}])

HandleCqe ==
  /\ Reap
  /\ LET cqe == Head(kernel.cq)
     IN  \/ cqe.kind \in {"aconn", "acanceled"} /\ lst' = AcceptOnComplete(lst, cqe)
         \/ cqe.kind = "cancel" /\ lst' = OnCancelComplete(lst)
         \/ /\ cqe.kind = "close"
            /\ lst' = NotifyCloseProgress([lst EXCEPT !.close = "canceled"])
         \/ /\ cqe.kind \in {"conn", "connerr", "unsupported", "canceled", "fail"}
            /\ \E oom \in BOOLEAN : lst' = OnCompletion(lst, cqe, oom)
  /\ UNCHANGED <<made, stopping>>

(* co_await listener.Accept(). *)
Accept ==
  /\ ~lst.closed /\ ~lst.holds /\ ~stopping /\ lst.accepts < MaxAccepts
  /\ Call([lst EXCEPT !.accepts = @ + 1, !.pending = @ + 1])

CreateAcceptSource ==
  /\ ~lst.src.alive
  /\ ~stopping /\ ~lst.closed /\ lst.pending = 0 /\ lst.close = "none" /\ ~lst.holds
  /\ Call([lst EXCEPT !.src = [NoSource EXCEPT !.alive = TRUE]])

(* co_await source.Next(): the first call starts the source, and fails it   *)
(* at once if the accept cannot be submitted.                               *)
Next_ ==
  LET s == lst.src
      started == [lst EXCEPT !.src.m = TryArm(Started(@)), !.src.accept = TRUE,
                             !.pending = @ + 1, !.holds = TRUE]
      failed == RequestBackendStop([lst EXCEPT !.src.m = Started(@), !.holds = TRUE,
                                               !.src.last = "error"])
      Take(t) == IF HasNext(t) THEN TakeNext(t) ELSE [t EXCEPT !.src.next = TRUE]
  IN  /\ s.alive /\ ~s.next
      /\ \/ s.m.state # "Idle" /\ Call(Take(lst))
         \/ /\ s.m.state = "Idle"
            /\ ~lst.closed /\ lst.pending = 0 /\ ~lst.holds
            /\ Call(IF stopping THEN failed ELSE Take(started))

(* co_await source.Stop(). *)
Stop ==
  LET s == lst.src
  IN  /\ s.alive /\ ~s.stop
      /\ s.next /\ ~s.accept /\ s.cancel => StopRacesCancel
      /\ Call(IF ~s.accept /\ ~s.cancel
              THEN ReleaseListenerReservation(DeliverNextIfReady(
                     [lst EXCEPT !.src.m = RequestStop(@)]))
              ELSE [BeginStop(lst) EXCEPT !.src.stop = ~BeginStopFails(lst)])

(* ~AcceptSource(), when its CHECKs hold; queued streams are closed. *)
Destroy ==
  LET s == lst.src
      unread == s.events \o s.overflow
  IN  /\ s.alive /\ ~s.next /\ ~s.stop /\ ~s.accept /\ ~s.cancel
      /\ s.m.state \in {"Idle", "Draining", "Terminal"}
      /\ Call([lst EXCEPT !.src = NoSource, !.holds = FALSE,
                          !.dropped = @ \cup {unread[k] : k \in DOMAIN unread}])

(* co_await listener.Close(): it waits for a cancel of everything on the fd.*)
Close ==
  /\ ~lst.closed /\ lst.close = "none"
  /\ lst.pending # 0 => ~stopping
  /\ LET s == [lst EXCEPT !.closed = TRUE,
                          !.close = IF lst.pending = 0 THEN @ ELSE "waiting"]
         t == IF s.holds THEN OnListenerClosed(s) ELSE s
     IN  Call([t EXCEPT !.fd = lst.pending # 0])

-----------------------------------------------------------------------------
(* The kernel, the peers, and whoever stops the loop.                      *)

Queued(kinds) ==
  \E k \in DOMAIN kernel.cq : kernel.cq[k].kind \in kinds /\ ~kernel.cq[k].more

(* What the kernel still has of what the listener submitted. *)
SourceLive ==
  lst.src.accept /\ ~Queued({"conn", "connerr", "unsupported", "canceled", "fail"})
AcceptsLive ==
  lst.accepts > Len(SelectSeq(kernel.cq, LAMBDA c : c.kind \in {"aconn", "acanceled"}))
CancelLive == lst.src.cancel /\ ~Queued({"cancel"})
CloseLive == lst.close = "waiting" /\ ~Queued({"close"})

Post(cqe, k) ==
  /\ ~lst.crashed
  /\ kernel' = [k EXCEPT !.cq = Append(@, cqe)]
  /\ UNCHANGED <<lst, made, stopping>>

(* The source's accept ends with this completion. *)
PostLast(cqe, k) == Post(cqe, [k EXCEPT !.hit = @ \ {"source"}])

KernelAccept ==
  /\ kernel.backlog # <<>>
  /\ LET conn == Head(kernel.backlog)
         k == [kernel EXCEPT !.backlog = Tail(@)]
         multi == lst.src.multishot /\ "source" \notin kernel.hit
     IN  \/ /\ SourceLive
            /\ lst.src.multishot => kernel.supported
            /\ \/ multi /\ Post(Cqe("conn", conn, TRUE), k)
               \/ PostLast(Cqe("conn", conn, FALSE), k)
               \/ conn \in BadConns /\ PostLast(Cqe("connerr", conn, FALSE), k)
         \/ AcceptsLive /\ Post(Cqe("aconn", conn, FALSE), k)

KernelUnsupported ==
  /\ SourceLive /\ lst.src.multishot /\ ~kernel.supported
  /\ PostLast(Cqe("unsupported", 0, FALSE), kernel)

(* A request fails with the listener's error (EMFILE and the like). *)
KernelFail == SourceLive /\ PostLast(Cqe("fail", 0, FALSE), kernel)

(* A cancel request looks for its targets, and completes before or after    *)
(* them.  A target it hits ends with its next completion, canceled or not.  *)
KernelFind ==
  /\ ~lst.crashed
  /\ \/ /\ CancelLive /\ "cancel" \notin kernel.found
        /\ kernel' = [kernel EXCEPT
             !.found = @ \cup {"cancel"},
             !.hit = @ \cup IF SourceLive THEN {"source"} ELSE {}]
     \/ /\ CloseLive /\ "close" \notin kernel.found
        /\ kernel' = [kernel EXCEPT
             !.found = @ \cup {"close"},
             !.hit = @ \cup (IF SourceLive THEN {"source"} ELSE {})
                       \cup {"accepts"}]
  /\ UNCHANGED <<lst, made, stopping>>

KernelFound ==
  \E kind \in kernel.found :
    Post(Cqe(kind, 0, FALSE), [kernel EXCEPT !.found = @ \ {kind}])

KernelCanceled ==
  \/ /\ SourceLive /\ ("source" \in kernel.hit \/ stopping)
     /\ PostLast(Cqe("canceled", 0, FALSE), kernel)
  \/ /\ AcceptsLive /\ ("accepts" \in kernel.hit \/ stopping)
     /\ Post(Cqe("acanceled", 0, FALSE), kernel)

PeerConnect ==
  /\ made < MaxConns /\ lst.fd /\ ~lst.crashed
  /\ made' = made + 1
  /\ kernel' = [kernel EXCEPT !.backlog = Append(@, made')]
  /\ UNCHANGED <<lst, stopping>>

LoopRequestStop == ~stopping /\ stopping' = TRUE /\ UNCHANGED <<lst, kernel, made>>

Next ==
  \/ HandleCqe \/ Accept \/ CreateAcceptSource \/ Next_ \/ Stop \/ Destroy \/ Close
  \/ KernelAccept \/ KernelUnsupported \/ KernelFail \/ KernelFind \/ KernelFound
  \/ KernelCanceled \/ PeerConnect \/ LoopRequestStop

(* The kernel makes progress and the loop reaps (which HandleCqe alone      *)
(* does); everybody else is free.                                           *)
Fairness ==
  /\ WF_kernel(Reap)
  /\ WF_vars(KernelAccept) /\ WF_vars(KernelUnsupported)
  /\ WF_vars(KernelFind) /\ WF_vars(KernelFound) /\ WF_vars(KernelCanceled)

Spec == Init /\ [][Next]_vars /\ Fairness

-----------------------------------------------------------------------------
(* Properties.                                                             *)

Conns(kind) ==
  LET found == SelectSeq(kernel.cq, LAMBDA c : c.kind = kind)
  IN  [k \in DOMAIN found |-> found[k].conn]

ElementsOf(seq) == {seq[k] : k \in DOMAIN seq}

(* "Next() must deliver what was queued before": a source hands its         *)
(* connections out in the order the kernel accepted them, across queue,     *)
(* overflow and completions, and no connection is lost or handed out twice  *)
(* whoever accepted it.                                                     *)
HandedOutInOrder ==
  LET stream == lst.got \o lst.src.events \o lst.src.overflow \o Conns("conn")
      others == Conns("aconn") \o Conns("connerr") \o kernel.backlog
  IN  /\ \A j, k \in DOMAIN stream : j < k => stream[j] < stream[k]
      /\ ElementsOf(stream) \cup ElementsOf(others) \cup lst.accepted
           \cup lst.dropped = 1..made
      /\ Len(stream) + Len(others) + Cardinality(lst.accepted)
           + Cardinality(lst.dropped) = made

(* pending_accepts_, the flags and the state machine agree between          *)
(* handlers: the underflow CHECKs never fire, and the source alone uses the *)
(* listener while it holds it.  Connections go past the bounded queue only  *)
(* while the accept is being cancelled: an active source has no overflow.   *)
Accounted ==
  /\ lst.pending = lst.accepts + IF lst.src.accept THEN 1 ELSE 0
  /\ lst.src.accept <=> lst.src.m.armed = 1
  /\ lst.src.m.queued = Len(lst.src.events)
  /\ lst.src.accept => lst.holds /\ lst.accepts = 0
  /\ lst.src.m.state \notin {"Idle", "Terminal"} => lst.holds
  /\ lst.src.overflow # <<>> => lst.src.m.state # "Active"

(* "every operation that could still reference the fd has drained": the fd  *)
(* is closed only when no accept and no cancel of the close is in flight.   *)
FdOutlivesRequests ==
  ~lst.fd => /\ ~SourceLive /\ ~AcceptsLive /\ lst.pending = 0
             /\ "close" \notin kernel.found /\ ~Queued({"close"})

(* "Stop() must not resume (and let the source be destroyed) until both     *)
(* operations have left the ring": a source without a stop in progress      *)
(* that ~AcceptSource() accepts is referenced by no completion to come.     *)
StoppedIsQuiet ==
  [][lst.src.stop /\ ~lst'.src.stop =>
       /\ lst'.src.m.state \in {"Draining", "Terminal"}
       /\ ~SourceLive' /\ ~CancelLive'
       /\ ~Queued({"cancel", "conn", "connerr", "canceled", "fail"})']_vars

(* The doc of accept-source-contract: "Next() must deliver queued           *)
(* connections before the terminal result": no delivery finds its awaiter   *)
(* answered by a reentrant one.                                             *)
AnsweredOnce == ~lst.crashed

Good == \E k \in DOMAIN kernel.backlog : kernel.backlog[k] \notin BadConns

(* A Next() waits, and there is a connection for it, or the source, the     *)
(* listener or the loop ends.                                               *)
NextDue ==
  lst.src.next /\ (Good \/ lst.closed \/ stopping \/ State(lst) = "Terminal")
=============================================================================
