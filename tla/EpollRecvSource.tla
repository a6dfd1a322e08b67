--------------------------- MODULE EpollRecvSource ---------------------------
(***************************************************************************)
(* epoll::RecvSource (src/epoll/recv_source.cc): a receive source driven   *)
(* by readiness.  Everything runs on the loop thread, so a handler is one  *)
(* step; the interleaving is between readiness callbacks, the coroutine in *)
(* Next(), the coroutines that hold BufferLeases, and Stop().              *)
(*                                                                         *)
(* A handler calls members that call each other, so each member is an      *)
(* operator from one source record to the next; the record holds           *)
(*                                                                         *)
(*   m        state_, the RecvSourceMachine                                *)
(*   events   events_, payloads that wait for Next()                       *)
(*   avail    how many buffers are in available_buffers_                   *)
(*   reading  whether channel_ is registered for EPOLLIN                   *)
(*   error    whether terminal_error_ is set                               *)
(*   next     whether pending_next_ waits                                  *)
(*   stop     whether pending_stop_ waits                                  *)
(*   sock     payloads in the kernel's receive queue (external)            *)
(*   lost     the payload dropped because the queue could not grow         *)
(*   got      payloads Next() has returned so far                          *)
(*   last     the kind of the last result of Next()                        *)
(*   held     how many of the leases behind `got` are not yet released     *)
(*                                                                         *)
(* A payload is its number in the peer's byte stream.  A coroutine resumed *)
(* by Complete() has its result at once: until it runs it does nothing.    *)
(***************************************************************************)
EXTENDS RecvSourceMachine, Sequences

CONSTANTS
  MaxData,  \* how many payloads the peer sends
  MaxHeld   \* how many leases the consumer may hold at a time

VARIABLES
  src,      \* the source, as above
  sent,     \* how many payloads the peer has sent
  eof,      \* whether the peer has shut its side down
  broken,   \* whether the connection has failed (RST and the like)
  stopping  \* whether the loop was asked to stop: LoopState past kRunning

env == <<sent, eof, broken, stopping>>
vars == <<src, env>>

NewSource ==
  [m |-> NewMachine, events |-> <<>>, avail |-> BufferCapacity,
   reading |-> FALSE, error |-> FALSE, next |-> FALSE, stop |-> FALSE,
   sock |-> <<>>, lost |-> <<>>, got |-> <<>>, last |-> "none", held |-> 0]

Init ==
  /\ src = NewSource
  /\ sent = 0 /\ eof = FALSE /\ broken = FALSE /\ stopping = FALSE

-----------------------------------------------------------------------------
(* Members of RecvSource.                                                  *)

EnsureAdmission(s) ==
  IF s.m.armed = 0 /\ CanArm(s.m)
  THEN [s EXCEPT !.m = TryArm(@), !.reading = TRUE]
  ELSE s

(* A CompleteReadiness() that leaves the channel registered. *)
BugCompleteReadiness(s) ==
  [s EXCEPT !.m = CompleteMultishotEvent(@, "None", "Terminal")]

CompleteReadiness(s) ==
  [s EXCEPT !.reading = FALSE, !.m = CompleteMultishotEvent(@, "None", "Terminal")]

RequestBackendPause(s) == CompleteReadiness([s EXCEPT !.m = RequestPause(@)])

(* Whether TryTakeNext() has a result, and the source behind it. *)
HasNext(s) == s.events # <<>> \/ s.m.state = "Terminal"

TakeNext(s) ==
  IF s.events # <<>>
  THEN EnsureAdmission(
         [s EXCEPT !.m = TryResume(AcquireEvent(@)), !.events = Tail(@),
                   !.got = Append(@, Head(s.events)), !.held = @ + 1,
                   !.last = "event"])
  ELSE [s EXCEPT !.last = IF s.error THEN "error" ELSE "end"]

DeliverNextIfReady(s) ==
  IF s.next /\ HasNext(s) THEN [TakeNext(s) EXCEPT !.next = FALSE] ELSE s

CompleteStopIfReady(s) ==
  IF s.m.state = "Terminal" THEN [s EXCEPT !.stop = FALSE] ELSE s

RequestBackendStop(s, error) ==
  CompleteStopIfReady(DeliverNextIfReady(CompleteReadiness(
    [s EXCEPT !.error = @ \/ error, !.m = RequestStop(@)])))

BeginStop(s) ==
  DeliverNextIfReady(CompleteReadiness([s EXCEPT !.m = RequestStop(@)]))

(* An OnReady() that reads before it looks for room. *)
BugOnReady(s, oom) ==
  IF s.m.state # "Active" \/ s.m.armed = 0 \/ s.sock = <<>> THEN s
  ELSE IF ~CanQueueEvent(s.m) \/ s.avail = 0
       THEN RequestBackendPause([s EXCEPT !.sock = Tail(@)])
  ELSE DeliverNextIfReady(
         [s EXCEPT !.m = CompleteMultishotEvent(@, "Produced", "More"),
                   !.events = Append(@, Head(s.sock)), !.sock = Tail(@),
                   !.avail = @ - 1])

(* The loop of OnReady(): read until there is no room, no data, or a        *)
(* waiting Next() has been served.  When the queue cannot grow (oom) the    *)
(* payload just read is dropped, its buffer goes back through               *)
(* ReturnBuffer(), and the source fails.                                    *)
RECURSIVE OnReady(_, _)
OnReady(s, oom) ==
  IF s.m.state # "Active" \/ s.m.armed = 0 THEN s
  ELSE IF ~CanQueueEvent(s.m) \/ s.avail = 0 THEN RequestBackendPause(s)
  ELSE IF s.sock # <<>> /\ oom
       THEN LET recorded == CompleteMultishotEvent(s.m, "Produced", "More")
                returned == EnsureAdmission(
                              [s EXCEPT !.m = ReleaseLease(recorded),
                                        !.lost = <<Head(s.sock)>>,
                                        !.sock = Tail(@)])
            IN  RequestBackendStop([returned EXCEPT !.m = AcquireEvent(@)], TRUE)
  ELSE IF s.sock # <<>>
       THEN LET t == [s EXCEPT !.m = CompleteMultishotEvent(@, "Produced", "More"),
                               !.events = Append(@, Head(s.sock)),
                               !.sock = Tail(@), !.avail = @ - 1]
            IN  IF t.next THEN DeliverNextIfReady(t) ELSE OnReady(t, FALSE)
  ELSE IF broken THEN RequestBackendStop(s, TRUE)
  ELSE IF eof THEN RequestBackendStop(s, FALSE)
  ELSE s

(* A ReturnBuffer() that only restocks the pool. *)
BugReturnBuffer(s) ==
  CompleteStopIfReady(DeliverNextIfReady(
    [s EXCEPT !.avail = @ + 1, !.m = ReleaseLease(@), !.held = @ - 1]))

ReturnBuffer(s) ==
  CompleteStopIfReady(DeliverNextIfReady(EnsureAdmission(
    [s EXCEPT !.avail = @ + 1, !.m = ReleaseLease(@), !.held = @ - 1])))

-----------------------------------------------------------------------------
(* What happens on the loop thread, and the peer.                          *)

(* co_await source.Next().  The first call starts the source, unless the    *)
(* loop is stopping (ECANCELED); a second Next() meanwhile is refused with  *)
(* EBUSY.  A refused call changes nothing and is no step.                   *)
Next_ ==
  LET s == IF src.m.state = "Idle"
           THEN EnsureAdmission([src EXCEPT !.m = Started(@)]) ELSE src
  IN  /\ ~src.next
      /\ src.m.state = "Idle" => ~stopping
      /\ src.held < MaxHeld
      /\ src' = IF HasNext(s) THEN TakeNext(s)
                ELSE EnsureAdmission([s EXCEPT !.next = TRUE])
      /\ UNCHANGED env

(* A coroutine destroys a RecvEvent it got from Next(). *)
Release ==
  /\ src.held > 0
  /\ src' = ReturnBuffer(src)
  /\ UNCHANGED env

(* source.RequestStop(). *)
CallRequestStop ==
  /\ src.m.state # "Terminal"
  /\ src' = BeginStop(src)
  /\ UNCHANGED env

(* co_await source.Stop(); a second one meanwhile is refused with EBUSY. *)
CallStop ==
  /\ ~src.stop
  /\ src.m.state # "Terminal"
  /\ LET s == BeginStop(src)
     IN  src' = [s EXCEPT !.stop = s.m.state # "Terminal"]
  /\ UNCHANGED env

(* EPOLLIN: data, the end of the stream, or an error to read. *)
Readable ==
  /\ src.reading
  /\ src.sock # <<>> \/ eof \/ broken
  /\ \E oom \in BOOLEAN : src' = OnReady(src, oom)
  /\ UNCHANGED env

(* EPOLLERR, and EPOLLHUP without EPOLLIN: OnError() and OnClose(). *)
HangUp ==
  /\ src.reading
  /\ \/ broken /\ src' = RequestBackendStop(src, TRUE)
     \/ eof /\ src.sock = <<>> /\ src' = RequestBackendStop(src, FALSE)
  /\ UNCHANGED env

LoopRequestStop ==
  ~stopping /\ stopping' = TRUE /\ UNCHANGED <<src, sent, eof, broken>>

(* BeginShutdown() of the loop reaches the source: DispatchLoopStop(). *)
LoopStop ==
  /\ stopping
  /\ src.m.state # "Terminal"
  /\ src' = RequestBackendStop(src, FALSE)
  /\ UNCHANGED env

PeerSend ==
  /\ ~eof /\ ~broken /\ sent < MaxData
  /\ sent' = sent + 1
  /\ src' = [src EXCEPT !.sock = Append(@, sent')]
  /\ UNCHANGED <<eof, broken, stopping>>

PeerClose == ~eof /\ ~broken /\ eof' = TRUE /\ UNCHANGED <<src, sent, broken, stopping>>

Reset == ~broken /\ broken' = TRUE /\ UNCHANGED <<src, sent, eof, stopping>>

Stops == CallRequestStop \/ CallStop \/ LoopRequestStop \/ LoopStop

Next ==
  \/ Next_ \/ Release \/ Stops \/ Readable \/ HangUp
  \/ PeerSend \/ PeerClose \/ Reset

(* The loop polls, and the consumer comes back for more and lets its events *)
(* go; peers and stops are free.                                            *)
Fairness == WF_vars(Readable) /\ WF_vars(Next_) /\ WF_vars(Release)

Spec == Init /\ [][Next]_vars /\ Fairness

-----------------------------------------------------------------------------
(* Properties.                                                             *)

Interval(a, b) == [i \in 1..(b - a + 1) |-> a + i - 1]

(* Nothing is duplicated or reordered between the socket and Next(), and    *)
(* nothing is lost but the payload a failed OnReady() could not queue: what *)
(* Next() returned, what is queued, that payload and what is in the socket  *)
(* are consecutive pieces of what the peer sent.                            *)
InOrder ==
  /\ src.got \o src.events \o src.lost \o src.sock = Interval(1, sent)
  /\ src.lost # <<>> => src.error

(* The queue, the buffer pool and the consumer agree with the state machine *)
(* at every return to the loop: the CHECKs of TryTakeNext(), ReturnBuffer() *)
(* and of the destructor rest on it.                                        *)
PoolAccounted ==
  /\ src.m.queued = Len(src.events)
  /\ src.m.leases = Len(src.events) + src.held
  /\ src.avail = BufferCapacity - src.m.leases
  /\ src.reading <=> src.m.armed = 1

(* A consumer that has seen the end (or the error) may destroy the source:  *)
(* the CHECKs of ~RecvSource() hold, although the leases it returned and    *)
(* the queue are not something Next() waited for explicitly.                *)
EndIsDestroyable ==
  src.last \in {"end", "error"} =>
    /\ src.m.state = "Terminal" /\ ~src.reading
    /\ src.events = <<>> /\ src.held = 0 /\ src.avail = BufferCapacity
    /\ ~src.next /\ ~src.stop

NextDue == src.next /\ (src.sock # <<>> \/ eof \/ broken)

(* "consumer 的 Next() 将队列降到 resume_threshold 后回到 Active": a Next()   *)
(* that waits while the socket has something for it is served, whatever     *)
(* pauses the queue or the pool went through.                               *)
NextProgress == NextDue ~> ~src.next
=============================================================================
