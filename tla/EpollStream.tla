----------------------------- MODULE EpollStream -----------------------------
(***************************************************************************)
(* epoll::Stream (src/epoll/stream.cc) with its Channel and the poller:    *)
(* reads and writes of a connected socket with sticky deadlines, half      *)
(* closes and Close(), edge- or level-triggered.  Every handler runs on    *)
(* the loop thread and is one step; epoll_wait() and the dispatch of what  *)
(* it reported are two, because timers of the same batch may come between. *)
(* A member is an operator from one stream record to the next:             *)
(*                                                                         *)
(*   life      lifecycle_; the socket is open until it is Closed           *)
(*   edge      whether the Channel is edge-triggered                       *)
(*   on        events_ of the Channel: the directions it has interest in   *)
(*   lane[d]   the members of direction d: the coroutine whose operation   *)
(*             is pending (owner), read_deadline_ ("none", "ahead" or      *)
(*             "past") and read_timer_ ("off", "set" or "due")             *)
(*   ready     the coroutines the loop has to resume                       *)
(*   res[c]    the result in c's awaiter                                   *)
(*   reserved  the coroutines whose Recv() has a reservation in its buffer *)
(*   left      what Write() still has to send, 0 if none runs              *)
(*   batch     revents_ of the Channel, if it waits for its dispatch       *)
(*   sock      the socket (external): bytes to read, whether the reading   *)
(*             and the writing side is shut down, room to write, sk_err,   *)
(*             and what it accepted of the current Write()                 *)
(*   listed    whether epoll has an edge to report (external)              *)
(*                                                                         *)
(* A timer that is cancelled or has fired is out of the loop's queue, so   *)
(* its generation always matches and is left out.                          *)
(***************************************************************************)
EXTENDS StreamLifecycle, Naturals, Sequences, FiniteSetsExt

CONSTANTS
  Readers, Writer,   \* the coroutines that read, and the one that writes
  NoOne,             \* no coroutine
  WriteSize,         \* how much one Write() sends
  MaxData,           \* how much the socket buffers in either direction
  MaxMoves           \* how many times a deadline is set

ASSUME StreamConstants ==
  /\ Writer \notin Readers /\ NoOne \notin Readers \cup {Writer}
  /\ WriteSize \in Nat /\ MaxData \in Nat

Dirs == {"read", "write"}
Users == Readers \cup {Writer}

VARIABLES
  st,       \* the stream, as above
  moves,    \* calls that set a deadline
  stopping  \* LoopState is kStopping

vars == <<st, moves, stopping>>

NewLane == [owner |-> NoOne, deadline |-> "none", timer |-> "off"]

NewSocket ==
  [data |-> 0, eof |-> FALSE, shut |-> FALSE, room |-> MaxData, err |-> FALSE,
   out |-> 0]

NewStream(edge) ==
  [life |-> NewLifecycle, edge |-> edge, on |-> {},
   lane |-> [d \in Dirs |-> NewLane], ready |-> <<>>,
   res |-> [c \in Users |-> "none"], reserved |-> {}, left |-> 0, batch |-> {},
   listed |-> FALSE, sock |-> NewSocket]

Init == (\E edge \in BOOLEAN : st = NewStream(edge)) /\ moves = 0 /\ stopping = FALSE

-----------------------------------------------------------------------------
(* epoll.                                                                  *)

(* What epoll_wait() would report of the socket now. *)
Events(s) ==
  (IF "read" \in s.on /\ (s.sock.data > 0 \/ s.sock.eof) THEN {"in"} ELSE {})
    \cup (IF "write" \in s.on /\ (s.sock.room > 0 \/ s.sock.shut) THEN {"out"} ELSE {})
    \cup (IF s.on # {} /\ s.sock.err THEN {"err"} ELSE {})
    \cup (IF s.on # {} /\ s.sock.eof /\ s.sock.shut THEN {"hup"} ELSE {})

(* The socket wakes epoll up for the given events. *)
Wake(s, events) ==
  [s EXCEPT !.listed = @ \/ (s.edge /\ Events(s) \cap events # {})]

AllEvents == {"in", "out", "err", "hup"}

(* Channel::Update(): a socket that is ready when its interest is modified  *)
(* is reported again; one without interest is deleted from epoll.           *)
Update(s, on) ==
  LET t == Wake([s EXCEPT !.on = on], AllEvents)
  IN  IF on = s.on THEN s ELSE [t EXCEPT !.listed = @ /\ on # {}]

-----------------------------------------------------------------------------
(* The end of an operation.                                                *)

(* A FinishAttempt() that leaves the reservation of an operation that failed. *)
BugFinishAttempt(s, c, kind) ==
  IF kind \in {"data", "eof"} THEN [s EXCEPT !.reserved = @ \ {c}] ELSE s

(* The buffer of a Recv() takes what was read, or drops its reservation. *)
FinishAttempt(s, c, kind) == [s EXCEPT !.reserved = @ \ {c}]

Complete(s, d, kind) ==
  LET l == s.lane[d]
      t == FinishAttempt(s, l.owner, kind)
      quiet == IF kind = "data" THEN t ELSE Update(t, t.on \ {d})
  IN  IF l.owner = NoOne THEN s
      ELSE [quiet EXCEPT !.lane[d] = [NewLane EXCEPT !.deadline = l.deadline],
                         !.res[l.owner] = kind, !.ready = Append(@, l.owner)]

(* CompleteRead() keeps the interest after data, CompleteWrite() never does. *)
CompleteRead(s, kind) == Complete(s, "read", kind)

CompleteWrite(s, kind) == Complete(s, "write", kind)

(* CloseNow(), with DetachChannel().  It is not repeated. *)
CloseNow(s) ==
  LET ended == CompleteWrite(CompleteRead(s, "ECANCELED"), "ECANCELED")
  IN  IF ~MayClose(s.life) THEN s
      ELSE [Update(ended, {}) EXCEPT !.life = MarkClosed(PrepareClose(@)),
                                     !.sock = [NewSocket EXCEPT !.out = s.sock.out]]

-----------------------------------------------------------------------------
(* Attempts on the socket.                                                 *)

(* TryRead(): what it answers, and the socket after a read of up to n. *)
TryRead(s) ==
  IF s.sock.data > 0 THEN "data"
  ELSE IF s.sock.err THEN "error"
  ELSE IF s.sock.eof THEN "eof" ELSE "block"

AfterRead(s, n) ==
  IF s.sock.data > 0 THEN [s EXCEPT !.sock.data = @ - Min({n, s.sock.data})]
  ELSE [s EXCEPT !.sock.err = FALSE]

(* The loop of TryWrite() until all is sent, the socket is full, or an error. *)
TryWrite(s) ==
  IF s.sock.err THEN "error"
  ELSE IF s.sock.shut THEN "EPIPE"
  ELSE IF s.left <= s.sock.room THEN "ok" ELSE "block"

AfterWrite(s) ==
  LET n == Min({s.left, s.sock.room})
  IN  IF TryWrite(s) \in {"ok", "block"}
      THEN [s EXCEPT !.left = @ - n, !.sock.room = @ - n, !.sock.out = @ + n]
      ELSE [s EXCEPT !.sock.err = FALSE]

-----------------------------------------------------------------------------
(* Deadlines.                                                              *)

(* ArmReadDeadline(); without memory for the timer its callers complete the *)
(* operation.                                                               *)
ArmDeadline(s, d, nomem) ==
  LET l == s.lane[d]
  IN  IF l.owner = NoOne \/ l.deadline = "none" THEN s
      ELSE IF l.deadline = "past" THEN Complete(s, d, "ETIMEDOUT")
      ELSE IF nomem THEN Complete(s, d, "ENOMEM")
      ELSE [s EXCEPT !.lane[d].timer = "set"]

(* A SetReadDeadline() that leaves the timer of the deadline before. *)
BugSetDeadline(s, d, due, nomem) ==
  ArmDeadline([s EXCEPT !.lane[d].deadline = due], d, nomem)

SetDeadline(s, d, due, nomem) ==
  ArmDeadline([s EXCEPT !.lane[d].timer = "off", !.lane[d].deadline = due], d, nomem)

HandleDeadline(s, d) == Complete([s EXCEPT !.lane[d].timer = "off"], d, "ETIMEDOUT")

-----------------------------------------------------------------------------
(* The start of an operation: the await_suspend() members.                 *)

Suspend(s, c, d, nomem) ==
  ArmDeadline([Update(s, s.on \cup {d}) EXCEPT !.lane[d].owner = c], d, nomem)

(* Whether a read goes on to the socket, or is answered without it. *)
BeginRead(s) ==
  /\ ~stopping /\ ValidateRead(s.life) = "ok" /\ ~IsReadShutdown(s.life)
  /\ s.lane["read"].owner = NoOne

(* A read that waits for readiness without a probe of the socket. *)
BugStartRead(s, c, n, nomem) ==
  IF ~BeginRead(s) THEN s ELSE Suspend(s, c, "read", nomem)

(* An operation that is answered at once leaves nothing behind but what it  *)
(* did to the socket.                                                       *)
StartRead(s, c, n, nomem) ==
  IF ~BeginRead(s) THEN s
  ELSE IF TryRead(s) # "block" THEN AfterRead(s, n)
  ELSE Suspend(s, c, "read", nomem)

(* Recv() is a Read() into a reservation of its buffer (without memory for  *)
(* it nothing is read), which is over when it is answered at once, and held *)
(* while it waits.                                                          *)
StartRecv(s, c, n, nomem) ==
  IF ~BeginRead(s) THEN s
  ELSE IF TryRead(s) # "block" THEN AfterRead(s, n)
  ELSE Suspend([s EXCEPT !.reserved = @ \cup {c}], c, "read", nomem)

(* The end of Write() and of its awaiter. *)
WriteEnds(s) == [s EXCEPT !.left = 0, !.sock.out = 0, !.res[Writer] = "none"]

StartWrite(s, nomem) ==
  LET t == [s EXCEPT !.left = WriteSize]
  IN  IF stopping \/ ValidateWrite(s.life) # "ok" THEN s
      ELSE IF TryWrite(t) # "block" THEN WriteEnds(AfterWrite(t))
      ELSE Suspend(AfterWrite(t), Writer, "write", nomem)

-----------------------------------------------------------------------------
(* The callbacks of the Channel.                                           *)

(* A HandleRead() that leaves the interest of a level-triggered Channel. *)
BugHandleRead(s, n) ==
  IF s.lane["read"].owner = NoOne \/ TryRead(s) = "block" THEN s
  ELSE CompleteRead(AfterRead(s, n), TryRead(s))

(* A level-triggered Channel with nobody to read loses its interest. *)
HandleRead(s, n) ==
  IF s.lane["read"].owner = NoOne
  THEN IF s.edge THEN s ELSE Update(s, s.on \ {"read"})
  ELSE IF TryRead(s) = "block" THEN s
  ELSE CompleteRead(AfterRead(s, n), TryRead(s))

(* A HandleWrite() that tries once, not until the socket is full. *)
BugHandleWrite(s) ==
  IF s.lane["write"].owner = NoOne THEN s
  ELSE IF TryWrite(s) = "block"
       THEN LET n == Min({1, s.sock.room})
            IN  [s EXCEPT !.left = @ - n, !.sock.room = @ - n, !.sock.out = @ + n]
       ELSE CompleteWrite(AfterWrite(s), TryWrite(s))

HandleWrite(s) ==
  IF s.lane["write"].owner = NoOne THEN s
  ELSE IF TryWrite(s) = "block" THEN AfterWrite(s)
  ELSE CompleteWrite(AfterWrite(s), TryWrite(s))

HandleClose(s) == CompleteWrite(CompleteRead(s, "eof"), "EPIPE")

(* SO_ERROR is taken, and answers both operations. *)
HandleError(s) ==
  CompleteWrite(CompleteRead([s EXCEPT !.sock.err = FALSE], "error"), "error")

(* HandleEventUnchecked(): close, error, read, write, in this order. *)
HandleEvent(s, n) ==
  LET b == s.batch
      s1 == IF "hup" \in b /\ "in" \notin b THEN HandleClose(s) ELSE s
      s2 == IF "err" \in b THEN HandleError(s1) ELSE s1
      s3 == IF "in" \in b THEN HandleRead(s2, n) ELSE s2
      s4 == IF "out" \in b THEN HandleWrite(s3) ELSE s3
  IN  [s4 EXCEPT !.batch = {}]

-----------------------------------------------------------------------------
(* Steps of the loop thread.                                               *)

Idle(c) ==
  /\ \A d \in Dirs : st.lane[d].owner # c
  /\ \A i \in DOMAIN st.ready : st.ready[i] # c

(* co_await stream.Read(): one of a coroutine the loop runs, so outside a   *)
(* batch.                                                                   *)
Read(c) ==
  /\ Idle(c) /\ st.batch = {}
  /\ \E n \in 1..MaxData, nomem \in BOOLEAN : st' = StartRead(st, c, n, nomem)
  /\ UNCHANGED <<moves, stopping>>

(* co_await stream.Recv(), whose buffer can be reserved. *)
Recv(c) ==
  /\ Idle(c) /\ st.batch = {}
  /\ \E n \in 1..MaxData, nomem \in BOOLEAN : st' = StartRecv(st, c, n, nomem)
  /\ UNCHANGED <<moves, stopping>>

Write ==
  /\ Idle(Writer) /\ st.batch = {}
  /\ \E nomem \in BOOLEAN : st' = StartWrite(st, nomem)
  /\ UNCHANGED <<moves, stopping>>

(* DoPendingWork() resumes the oldest coroutine, which takes its result. *)
Resume ==
  /\ st.ready # <<>> /\ st.batch = {}
  /\ LET c == Head(st.ready)
         s == [st EXCEPT !.ready = Tail(@), !.res[c] = "none"]
     IN  st' = IF c = Writer THEN WriteEnds(s) ELSE s
  /\ UNCHANGED <<moves, stopping>>

(* The awaiter of a suspended operation is destroyed with its coroutine. *)
Abandon(d) ==
  /\ st.lane[d].owner # NoOne
  /\ LET s == [Update(st, st.on \ {d}) EXCEPT
                 !.reserved = @ \ {st.lane[d].owner},
                 !.lane[d] = [NewLane EXCEPT !.deadline = st.lane[d].deadline]]
     IN  st' = IF d = "write" THEN WriteEnds(s) ELSE s
  /\ UNCHANGED <<moves, stopping>>

DeadlineTimer(d) ==
  /\ st.lane[d].timer = "due"
  /\ st' = HandleDeadline(st, d)
  /\ UNCHANGED <<moves, stopping>>

(* stream.SetReadDeadline() or SetWriteDeadline(), from a coroutine or from *)
(* another timer of the batch.                                              *)
CallSetDeadline(d) ==
  /\ \E due \in {"none", "ahead", "past"}, nomem \in BOOLEAN :
       st' = SetDeadline(st, d, due, nomem)
  /\ moves < MaxMoves /\ moves' = moves + 1
  /\ UNCHANGED stopping

(* The clock passes a deadline, and the timer that was set for it. *)
Expire(d) ==
  /\ st.lane[d].deadline = "ahead" \/ st.lane[d].timer = "set"
  /\ st' = [st EXCEPT !.lane[d].deadline = IF @ = "ahead" THEN "past" ELSE @,
                      !.lane[d].timer = IF @ = "set" THEN "due" ELSE @]
  /\ UNCHANGED <<moves, stopping>>

(* stream.CloseRead() and CloseWrite(): shutdown(2) wakes epoll up. *)
CloseRead ==
  /\ st.batch = {} /\ MayCloseRead(st.life, st.lane["read"].owner # NoOne)
  /\ LET s == Wake([st EXCEPT !.sock.eof = TRUE, !.life = CloseReadSide(@)], AllEvents)
     IN  st' = Update(s, s.on \ {"read"})
  /\ UNCHANGED <<moves, stopping>>

CloseWrite ==
  /\ st.batch = {} /\ MayShutdown(st.life, st.lane["write"].owner # NoOne)
  /\ st' = Wake([st EXCEPT !.sock.shut = TRUE, !.life = ShutdownSide(@)], AllEvents)
  /\ UNCHANGED <<moves, stopping>>

(* co_await stream.Close(), ~Stream(), or the shutdown of the loop. *)
Close ==
  /\ st.batch = {} /\ MayClose(st.life)
  /\ st' = CloseNow(st)
  /\ UNCHANGED <<moves, stopping>>

(* The stream is moved, which demands that no operation is pending: its     *)
(* Channel is detached, and the new stream has it without interest.         *)
Move ==
  /\ st.batch = {} /\ \A d \in Dirs : st.lane[d].owner = NoOne
  /\ st' = Update(st, {})
  /\ UNCHANGED <<moves, stopping>>

(* epoll_wait() reports the socket: an edge once, a level again and again. *)
Poll ==
  /\ st.batch = {} /\ IF st.edge THEN st.listed ELSE Events(st) # {}
  /\ st' = [st EXCEPT !.batch = Events(st), !.listed = FALSE]
  /\ UNCHANGED <<moves, stopping>>

Dispatch ==
  /\ st.batch # {}
  /\ \E n \in 1..MaxData : st' = HandleEvent(st, n)
  /\ UNCHANGED <<moves, stopping>>

-----------------------------------------------------------------------------
(* The peer, and whoever stops the loop.                                   *)

Arrives(s, events) ==
  /\ st.life.resource # "Closed" /\ st' = Wake(s, events)
  /\ UNCHANGED <<moves, stopping>>

PeerSends ==
  /\ ~st.sock.eof /\ st.sock.data < MaxData
  /\ Arrives([st EXCEPT !.sock.data = @ + 1], {"in"})

PeerReads ==
  /\ ~st.sock.shut /\ st.sock.room < MaxData
  /\ Arrives([st EXCEPT !.sock.room = @ + 1], {"out"})

PeerCloses == ~st.sock.eof /\ Arrives([st EXCEPT !.sock.eof = TRUE], AllEvents)

PeerResets ==
  /\ ~(st.sock.eof /\ st.sock.shut)
  /\ Arrives([st EXCEPT !.sock.eof = TRUE, !.sock.shut = TRUE, !.sock.err = TRUE],
             AllEvents)

LoopRequestStop == ~stopping /\ stopping' = TRUE /\ UNCHANGED <<st, moves>>

Next ==
  \/ Write \/ Resume \/ CloseRead \/ CloseWrite \/ Close \/ Move \/ Poll \/ Dispatch
  \/ (\E c \in Readers : Read(c) \/ Recv(c))
  \/ (\E d \in Dirs : Abandon(d) \/ DeadlineTimer(d) \/ CallSetDeadline(d) \/ Expire(d))
  \/ PeerSends \/ PeerReads \/ PeerCloses \/ PeerResets \/ LoopRequestStop

(* The loop polls, dispatches and resumes; while it runs its timers fire,   *)
(* and when it stops it closes its streams.                                 *)
Fairness ==
  /\ WF_vars(Poll) /\ WF_vars(Dispatch) /\ WF_vars(Resume)
  /\ WF_vars(stopping /\ Close)
  /\ \A d \in Dirs : WF_vars(~stopping /\ DeadlineTimer(d))

Spec == Init /\ [][Next]_vars /\ Fairness

-----------------------------------------------------------------------------
(* Properties.                                                             *)

(* No readiness is lost: a pending operation has its interest, and if the   *)
(* socket is ready for it, epoll will report that or has done so, across    *)
(* edges that were consumed while nobody waited (HandleRead()), interest    *)
(* that is kept after data (CompleteRead()) and the probe that every        *)
(* operation begins with.                                                   *)
ReadinessKept ==
  LET event == [read |-> "in", write |-> "out"]
  IN  \A d \in Dirs : st.lane[d].owner # NoOne =>
        /\ d \in st.on
        /\ event[d] \in Events(st) =>
             ~st.edge \/ st.listed \/ event[d] \in st.batch

(* A closed stream has no operation, no interest and no timer left.  The    *)
(* timers capture the stream, and epoll names its Channel.                  *)
ClosedIsQuiet ==
  st.life.resource = "Closed" =>
    st.on = {} /\ \A d \in Dirs : st.lane[d].owner = NoOne /\ st.lane[d].timer = "off"

(* A buffer has a reservation only while its Recv() waits: it is committed  *)
(* or aborted before the coroutine gets its buffer back, whoever answers.   *)
BuffersHandedBack == st.reserved \subseteq {st.lane["read"].owner}

(* Write() succeeds when the socket has accepted its buffer, once. *)
EpollWritesOnce == st.res[Writer] = "ok" => st.left = 0 /\ st.sock.out = WriteSize

(* An operation is timed out only by a deadline that has passed and still   *)
(* stands when it is.                                                       *)
EpollTimeoutsAreDue ==
  [][\A d \in Dirs : LET c == st.lane[d].owner IN
       (c # NoOne /\ st'.lane[d].owner = NoOne /\ st'.res[c] = "ETIMEDOUT") =>
         st'.lane[d].deadline = "past"]_vars

(* An operation whose deadline has passed. *)
Due(d) == st.lane[d].owner # NoOne /\ st.lane[d].deadline = "past"

(* A level that nobody waits for. *)
Unread == ~st.edge /\ Events(st) # {} /\ \A d \in Dirs : st.lane[d].owner = NoOne
=============================================================================
