---------------------------- MODULE EpollListener ----------------------------
(***************************************************************************)
(* epoll::Listener and epoll::AcceptSource (src/epoll/listener.cc).  One   *)
(* listening socket, whose one Channel serves either a single Accept() or  *)
(* the AcceptSource that holds accept_source_; several sources may exist   *)
(* and take turns.  Everything runs on the loop thread, so a handler is    *)
(* one step, and a member is an operator from one listener record to the   *)
(* next:                                                                   *)
(*                                                                         *)
(*   reading   channel_.IsReading()                                        *)
(*   accept    whether pending_accept_ waits                               *)
(*   holder    accept_source_, or NoSource                                 *)
(*   closed    closed_                                                     *)
(*   src       the sources: m (state_), events (events_), error (whether   *)
(*             terminal_error_ is set), next (whether pending_next_        *)
(*             waits), last (the kind of Next()'s last result), alive      *)
(*   backlog   connections the kernel has for accept() (external)          *)
(*   got       connections that Accept() and Next() returned, in order     *)
(*   dropped   connections that were closed instead                        *)
(***************************************************************************)
EXTENDS AcceptSourceMachine, Sequences

CONSTANTS
  Sources,   \* the AcceptSource objects
  NoSource,  \* accept_source_ == nullptr
  MaxConns,  \* how many connections peers open
  BadConns   \* those whose accept() fails with a per-connection error

VARIABLES
  lst,       \* the listener and its sources, as above
  made,      \* how many connections peers have opened
  stopping   \* LoopState is past kRunning

vars == <<lst, made, stopping>>

NoSuchSource ==
  [m |-> NewMachine, events |-> <<>>, error |-> FALSE, next |-> FALSE,
   last |-> "none", alive |-> FALSE]

NewSource == [NoSuchSource EXCEPT !.alive = TRUE]

Init ==
  /\ lst = [reading |-> FALSE, accept |-> FALSE, holder |-> NoSource,
            closed |-> FALSE, src |-> [i \in Sources |-> NoSuchSource],
            backlog |-> <<>>, got |-> <<>>, dropped |-> {}]
  /\ made = 0 /\ stopping = FALSE

-----------------------------------------------------------------------------
(* Members of AcceptSource.                                                *)

State(s, i) == s.src[i].m.state

EnsureAdmission(s, i) ==
  LET arm == s.src[i].m.armed = 0 /\ CanArm(s.src[i].m)
  IN  IF s.closed THEN s
      ELSE IF arm THEN [s EXCEPT !.src[i].m = TryArm(@), !.reading = TRUE]
      ELSE IF State(s, i) # "Active" \/ s.src[i].m.armed = 0
      THEN [s EXCEPT !.reading = FALSE]
      ELSE s

(* A reservation given up while the source still has streams to hand out. *)
BugReleaseReservation(s, i) ==
  IF s.holder = i /\ s.src[i].m.armed = 0 THEN [s EXCEPT !.holder = NoSource] ELSE s

(* A reservation that outlives the end of the source. *)
BugKeepReservation(s, i) == s

ReleaseListenerReservation(s, i) ==
  IF State(s, i) = "Terminal" /\ s.holder = i
  THEN [s EXCEPT !.holder = NoSource] ELSE s

HasNext(s, i) == s.src[i].events # <<>> \/ State(s, i) = "Terminal"

(* A TryTakeNext() that leaves a paused source paused. *)
BugTakeNext(s, i) ==
  IF s.src[i].events # <<>>
  THEN EnsureAdmission(
         [s EXCEPT !.src[i].m = ConsumeEvent(@), !.src[i].events = Tail(@),
                   !.src[i].last = "event",
                   !.got = Append(@, Head(s.src[i].events))], i)
  ELSE ReleaseListenerReservation(
         [s EXCEPT !.src[i].last = IF s.src[i].error THEN "error" ELSE "end"], i)

TakeNext(s, i) ==
  IF s.src[i].events # <<>>
  THEN EnsureAdmission(
         [s EXCEPT !.src[i].m = TryResume(ConsumeEvent(@)),
                   !.src[i].events = Tail(@), !.src[i].last = "event",
                   !.got = Append(@, Head(s.src[i].events))], i)
  ELSE ReleaseListenerReservation(
         [s EXCEPT !.src[i].last = IF s.src[i].error THEN "error" ELSE "end"], i)

DeliverNextIfReady(s, i) ==
  IF ~s.src[i].next THEN ReleaseListenerReservation(s, i)
  ELSE IF HasNext(s, i) THEN [TakeNext(s, i) EXCEPT !.src[i].next = FALSE]
  ELSE s

(* Stop reading, complete the armed readiness request, and request a stop:  *)
(* the common part of Stop(), OnError(), OnListenerClosed() and Fail().     *)
EndRequests(s, i) ==
  [s EXCEPT !.reading = FALSE, !.src[i].m = RequestStop(Completed(@, FALSE, FALSE))]

Fail(s, i) == DeliverNextIfReady(EndRequests([s EXCEPT !.src[i].error = TRUE], i), i)

(* The loop of OnReady().  A connection error costs that connection only;   *)
(* after `left` more calls accept() fails as `failure` says: "EMFILE", or   *)
(* "ENOMEM" for a stream that does not fit in the queue.                    *)
RECURSIVE AcceptAll(_, _, _, _)
AcceptAll(s, i, left, failure) ==
  LET m == s.src[i].m
      conn == Head(s.backlog)
      taken == [s EXCEPT !.backlog = Tail(@)]
      retried == TryArm(Completed(m, FALSE, FALSE))
      queued == Completed(m, TRUE, FALSE)
      Done(t) == DeliverNextIfReady(EnsureAdmission(t, i), i)
  IN  IF s.backlog = <<>>
      THEN Done([s EXCEPT !.src[i].m = Completed(@, FALSE, FALSE)])
      ELSE IF left = 0 /\ failure = "EMFILE" THEN Fail(s, i)
      ELSE IF conn \in BadConns
      THEN AcceptAll([taken EXCEPT !.dropped = @ \cup {conn}, !.src[i].m = retried],
                     i, IF left > 0 THEN left - 1 ELSE 0, failure)
      ELSE IF left = 0 THEN Fail([taken EXCEPT !.dropped = @ \cup {conn}], i)
      ELSE LET t == [taken EXCEPT !.src[i].events = Append(@, conn)]
           IN  IF CanArm(queued)
               THEN AcceptAll([t EXCEPT !.src[i].m = TryArm(queued)], i, left - 1, failure)
               ELSE Done([t EXCEPT !.src[i].m = RequestPause(queued)])

OnReady(s, i, left, failure) ==
  IF State(s, i) # "Active" THEN s
  ELSE IF s.src[i].m.armed = 0 /\ ~CanArm(s.src[i].m) THEN [s EXCEPT !.reading = FALSE]
  ELSE AcceptAll([s EXCEPT !.src[i].m = IF @.armed = 0 THEN TryArm(@) ELSE @],
                 i, left, failure)

OnError(s, i) == IF State(s, i) = "Active" THEN Fail(s, i) ELSE s

OnListenerClosed(s, i) == DeliverNextIfReady(EndRequests(s, i), i)

-----------------------------------------------------------------------------
(* Members of Listener.                                                    *)

(* accept() on behalf of an Accept(): what is left of the backlog. *)
TakeConnection(s) ==
  LET conn == Head(s.backlog)
  IN  IF conn \in BadConns
      THEN [s EXCEPT !.backlog = Tail(@), !.dropped = @ \cup {conn}]
      ELSE [s EXCEPT !.backlog = Tail(@), !.got = Append(@, conn)]

(* A CompleteAccept() that keeps the channel registered. *)
BugCompleteAccept(s) == [s EXCEPT !.accept = FALSE]

CompleteAccept(s) == [s EXCEPT !.accept = FALSE, !.reading = FALSE]

(* HandleRead(); for an Accept() `left` = 0 is a failing accept(). *)
HandleRead(s, left, failure) ==
  IF s.accept
  THEN IF s.backlog = <<>> THEN s
       ELSE IF left = 0 /\ failure = "EMFILE" THEN CompleteAccept(s)
       ELSE CompleteAccept(TakeConnection(s))
  ELSE IF s.holder # NoSource THEN OnReady(s, s.holder, left, failure)
  ELSE s

HandleError(s) ==
  IF s.accept THEN CompleteAccept(s)
  ELSE IF s.holder # NoSource THEN OnError(s, s.holder) ELSE s

CloseNow(s) ==
  LET t == IF s.accept THEN CompleteAccept(s) ELSE s
      u == [t EXCEPT !.closed = TRUE]
      v == IF u.holder # NoSource THEN OnListenerClosed(u, u.holder) ELSE u
  IN  IF s.closed THEN s ELSE [v EXCEPT !.reading = FALSE]

-----------------------------------------------------------------------------
(* Steps of the loop thread, and the peers.  A call that is refused with an *)
(* error changes nothing and is no step.                                    *)

Step(s) == lst' = s /\ UNCHANGED <<made, stopping>>

(* co_await listener.Accept(). *)
Accept ==
  /\ ~stopping /\ ~lst.closed /\ lst.holder = NoSource /\ ~lst.accept
  /\ Step(IF lst.backlog # <<>> THEN TakeConnection(lst)
          ELSE [lst EXCEPT !.accept = TRUE, !.reading = TRUE])

CreateAcceptSource(i) ==
  /\ ~lst.src[i].alive
  /\ ~stopping /\ ~lst.closed /\ lst.holder = NoSource /\ ~lst.accept
  /\ Step([lst EXCEPT !.src[i] = NewSource])

(* co_await source.Next(). *)
Next_(i) ==
  LET s == lst.src[i]
      reserved == [lst EXCEPT !.src[i].m = Started(@), !.holder = i]
      Take(t) == IF HasNext(t, i) THEN TakeNext(t, i)
                 ELSE EnsureAdmission([t EXCEPT !.src[i].next = TRUE], i)
  IN  /\ s.alive /\ ~s.next
      /\ \/ s.m.state # "Idle" /\ Step(Take(lst))
         \/ /\ s.m.state = "Idle" /\ ~stopping /\ lst.closed
            /\ Step([lst EXCEPT !.src[i].m = RequestStop(@), !.src[i].last = "end"])
         \/ /\ s.m.state = "Idle" /\ ~stopping /\ ~lst.closed
            /\ ~lst.accept /\ lst.holder = NoSource
            /\ Step(Take(reserved))

(* co_await source.Stop(), which never suspends. *)
Stop(i) ==
  LET s == lst.src[i]
      running == s.m.state \in {"Active", "Pausing", "Paused", "Stopping"}
  IN  /\ s.alive
      /\ Step(IF s.m.state = "Idle"
              THEN ReleaseListenerReservation([lst EXCEPT !.src[i].m = RequestStop(@)], i)
              ELSE DeliverNextIfReady(IF running THEN EndRequests(lst, i) ELSE lst, i))

(* ~AcceptSource(), in the states it accepts; queued streams are closed. *)
Destroy(i) ==
  LET s == lst.src[i]
  IN  /\ s.alive /\ ~s.next
      /\ s.m.state \in {"Idle", "Draining", "Terminal"} /\ s.m.armed = 0
      /\ Step([lst EXCEPT
                 !.src[i] = NoSuchSource,
                 !.holder = IF @ = i THEN NoSource ELSE @,
                 !.dropped = @ \cup {s.events[k] : k \in DOMAIN s.events}])

(* EPOLLIN, which may be stale, and EPOLLERR. *)
Readable ==
  /\ lst.reading
  /\ \E left \in 0..(EventCapacity + 1), failure \in {"EMFILE", "ENOMEM"} :
       Step(HandleRead(lst, left, failure))

Erroneous == lst.reading /\ Step(HandleError(lst))

(* co_await listener.Close(). *)
Close == ~lst.closed /\ Step(CloseNow(lst))

LoopRequestStop ==
  ~stopping /\ stopping' = TRUE /\ UNCHANGED <<lst, made>>

(* BeginShutdown() of the loop reaches the listener: DispatchLoopStop(). *)
LoopStop == stopping /\ ~lst.closed /\ Step(CloseNow(lst))

PeerConnect ==
  /\ made < MaxConns /\ ~lst.closed
  /\ made' = made + 1
  /\ lst' = [lst EXCEPT !.backlog = Append(@, made')]
  /\ UNCHANGED stopping

Next ==
  \/ Accept \/ Readable \/ Erroneous \/ Close \/ LoopRequestStop \/ LoopStop
  \/ PeerConnect
  \/ \E i \in Sources : CreateAcceptSource(i) \/ Next_(i) \/ Stop(i) \/ Destroy(i)

(* The loop polls, and stops when it is asked to; everybody else is free. *)
Fairness == WF_vars(Readable) /\ WF_vars(LoopStop)

Spec == Init /\ [][Next]_vars /\ Fairness

-----------------------------------------------------------------------------
(* Properties.                                                             *)

Interval(a, b) == [k \in 1..(b - a + 1) |-> a + k - 1]

Queued == IF lst.holder = NoSource THEN <<>> ELSE lst.src[lst.holder].events

(* Connections are handed out once each, in the order they were made, over  *)
(* Accept() and all sources together: what was delivered, what waits in the *)
(* source that holds the listener and what is in the backlog are the        *)
(* connections made, without those closed on account of an error.           *)
HandedOutInOrder ==
  lst.got \o Queued \o lst.backlog =
    SelectSeq(Interval(1, made), LAMBDA c : c \notin lst.dropped)

(* The one Channel serves one party at a time, and is registered exactly    *)
(* while that party has an accept outstanding: a source that pauses, stops  *)
(* or ends never takes the registration of another one away.                *)
ChannelHasOneUser ==
  /\ ~(lst.accept /\ lst.holder # NoSource)
  /\ lst.reading <=>
       \/ lst.accept
       \/ lst.holder # NoSource /\ lst.src[lst.holder].m.armed = 1
  /\ \A i \in Sources :
       /\ lst.src[i].m.queued = Len(lst.src[i].events)
       /\ lst.src[i].m.state \notin {"Idle", "Terminal"} => lst.holder = i

(* A consumer that has seen the end leaves the listener free: "Listener     *)
(* destroyed with an active AcceptSource" cannot fire, another source or    *)
(* Accept() may start, and the ended source may be destroyed.               *)
EndFreesListener ==
  \A i \in Sources : lst.src[i].last \in {"end", "error"} =>
    lst.holder # i /\ lst.src[i].m.state = "Terminal" /\ lst.src[i].events = <<>>

Good == {k \in DOMAIN lst.backlog : lst.backlog[k] \notin BadConns} # {}

(* A Next(), an Accept() waits, and there is a connection it can have or    *)
(* the loop stops.                                                          *)
NextDue(i) == lst.src[i].next /\ (Good \/ stopping)
AcceptDue == lst.accept /\ (lst.backlog # <<>> \/ stopping)
=============================================================================
