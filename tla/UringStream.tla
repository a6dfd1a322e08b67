----------------------------- MODULE UringStream -----------------------------
(***************************************************************************)
(* uring::Stream (src/uring/stream.cc): reads, sends and zero-copy sends   *)
(* of a connected socket with sticky deadlines, half closes and Close().   *)
(* A direction is a lane: at most one operation is pending in it, and its  *)
(* deadline cancels that operation with a request of its own.  The kernel  *)
(* fills the completion queue concurrently; every handler runs on the loop *)
(* thread and is one step.  A member is an operator from one stream record *)
(* to the next:                                                            *)
(*                                                                         *)
(*   life      lifecycle_                                                  *)
(*   fd        whether fd_ is open                                         *)
(*   lane[d]   the members of direction d, below                           *)
(*   closing   whether pending_close_ waits                                *)
(*   swept     whether its cancel request is terminal                      *)
(*   ready     completion_ready_ of the loop: works to run                 *)
(*   res[c]    the result in c's awaiter                                   *)
(*   left      what Write() still has to send, 0 if none runs              *)
(*   copied    whether its send is a zero-copy one                         *)
(*                                                                         *)
(* and a lane is                                                           *)
(*                                                                         *)
(*   owner     the coroutine whose operation holds the slot (pending_read_ *)
(*             and read_deadline_target_), or NoOne                        *)
(*   copy      whether the operation is a zero-copy send                   *)
(*   requested, submitted, terminal   read_cancel_requested_ and so on     *)
(*   primary   read_primary_terminal_                                      *)
(*   late      read_timed_out_                                             *)
(*   handle    the coroutine in the cancel operation's resume_work         *)
(*   deadline  read_deadline_: "none", "ahead" or "past"                   *)
(*   timer     read_timer_: "off", "set", "due" (about to fire) or         *)
(*             "retry"                                                     *)
(*                                                                         *)
(* A timer that is cancelled or has fired is out of the loop's queue, so   *)
(* its generation always matches and is left out.                          *)
(*                                                                         *)
(* The kernel (external) is the record kernel: op[d] is "none", "armed",   *)
(* "doomed" (found by a cancel request) or "borrowed" (a zero-copy send    *)
(* whose notification is due); cancel[d] and sweep, the deadline cancel    *)
(* and Close()'s cancel by descriptor, are "none", "sent" or "applied";    *)
(* cq is the completion queue.                                             *)
(***************************************************************************)
EXTENDS StreamLifecycle, Naturals, Sequences

CONSTANTS
  Readers, Writer,   \* the coroutines that read, and the one that writes
  NoOne,             \* no coroutine
  WriteSize,         \* how much one Write() sends
  MaxFails,          \* how many submissions fail
  MaxMoves,          \* how many times a deadline is set
  MoveWhileRetrying  \* whether a deadline may be set while a cancel is retried

Dirs == {"read", "write"}
Users == Readers \cup {Writer}

VARIABLES
  st,       \* the stream, as above
  kernel,   \* the kernel's side, as above
  out,      \* how much the socket has accepted from the current Write()
  fails,    \* submissions that failed
  moves,    \* calls that set a deadline
  stopping  \* LoopState is kStopping

vars == <<st, kernel, out, fails, moves, stopping>>

NewLane ==
  [owner |-> NoOne, copy |-> FALSE, requested |-> FALSE, submitted |-> FALSE,
   terminal |-> FALSE, primary |-> FALSE, late |-> FALSE, handle |-> NoOne,
   deadline |-> "none", timer |-> "off"]

(* A result: its kind, and how much a send moved. *)
Result(kind, n) == [kind |-> kind, n |-> n]

NewStream ==
  [life |-> NewLifecycle, fd |-> TRUE, lane |-> [d \in Dirs |-> NewLane],
   closing |-> FALSE, swept |-> FALSE, ready |-> <<>>,
   res |-> [c \in Users |-> Result("none", 0)], left |-> 0, copied |-> FALSE]

Init ==
  /\ st = NewStream
  /\ kernel = [op |-> [d \in Dirs |-> "none"], cancel |-> [d \in Dirs |-> "none"],
               sweep |-> "none", cq |-> <<>>]
  /\ out = 0 /\ fails = 0 /\ moves = 0 /\ stopping = FALSE

-----------------------------------------------------------------------------
(* The slot, the close convergence, and the end of an operation.           *)

(* Work in the ready queue: whose it is, and the operation that carries it. *)
Work(slot, d, who) == [slot |-> slot, dir |-> d, who |-> who]

(* CloseAwaiter::TryComplete(): both directions have drained and the cancel *)
(* by descriptor is terminal.                                               *)
TryComplete(s) ==
  IF s.closing /\ s.swept /\ \A d \in Dirs : s.lane[d].owner = NoOne
  THEN [s EXCEPT !.closing = FALSE, !.fd = FALSE, !.life = MarkClosed(@),
                 !.ready = Append(@, Work("close", "read", NoOne))]
  ELSE s

(* A release that also clears the resume_work of the cancel operation. *)
BugRelease(s, d) ==
  TryComplete([s EXCEPT !.lane[d] = [NewLane EXCEPT !.deadline = s.lane[d].deadline]])

(* StreamOperationSlot::Release() with the reset of the deadline members by *)
(* AbortReadOperation() or FinalizeReadOperation().  The resume_work of the *)
(* cancel operation keeps its handle.                                       *)
Release(s, d) ==
  TryComplete([s EXCEPT !.lane[d] =
    [NewLane EXCEPT !.handle = s.lane[d].handle, !.deadline = s.lane[d].deadline]])

Schedule(s, work) == [s EXCEPT !.ready = Append(@, work)]

(* A CompleteReadOperation() that does not wait for the cancel request. *)
BugCompleteOperation(s, d) ==
  Schedule(Release(s, d), Work("frame", d, s.lane[d].owner))

(* CompleteReadOperation(): while the deadline cancel is in flight it still *)
(* names the operation, so the continuation moves to the cancel operation.  *)
CompleteOperation(s, d) ==
  LET l == s.lane[d]
  IN  IF l.submitted /\ ~l.terminal
      THEN [s EXCEPT !.lane[d].primary = TRUE, !.lane[d].timer = "off",
                     !.lane[d].handle = l.owner]
      ELSE Schedule(Release(s, d), Work("frame", d, l.owner))

CompleteDeadlineCancel(s, d) ==
  IF ~s.lane[d].primary THEN [s EXCEPT !.lane[d].terminal = TRUE]
  ELSE Schedule(Release(s, d), Work("cancel", d, s.lane[d].owner))

-----------------------------------------------------------------------------
(* Completions.                                                            *)

(* A completion names the operation it belongs to: the one of a direction,  *)
(* the notification of a zero-copy send, a deadline cancel, or Close()'s.   *)
Cqe(what, d, res, more) == [what |-> what, dir |-> d, res |-> res, more |-> more]

(* OnComplete() of the awaiters: a deadline that was observed first fixes   *)
(* the result.  The first completion of a zero-copy send ends it unless a   *)
(* notification follows.                                                    *)
OnComplete(s, d, cqe) ==
  LET l == s.lane[d]
      t == [s EXCEPT !.res[l.owner] =
              IF l.late THEN Result("ETIMEDOUT", 0) ELSE cqe.res]
  IN  IF cqe.more THEN t ELSE CompleteOperation(t, d)

OnNotification(s, d) == CompleteOperation(s, d)

(* An OnCancelComplete() that leaves it to the operations to end the close. *)
BugOnCancelComplete(s) == [s EXCEPT !.swept = TRUE]

OnCancelComplete(s) == TryComplete([s EXCEPT !.swept = TRUE])

Dispatch(s, cqe) ==
  CASE cqe.what = "op" -> OnComplete(s, cqe.dir, cqe)
    [] cqe.what = "notify" -> OnNotification(s, cqe.dir)
    [] cqe.what = "cancel" -> CompleteDeadlineCancel(s, cqe.dir)
    [] cqe.what = "sweep" -> OnCancelComplete(s)

-----------------------------------------------------------------------------
(* The start of an operation: the await_suspend() members.                 *)

Answer(s, c, kind) == [s EXCEPT !.res[c] = Result(kind, 0)]

(* BeginReadOperation(): the cancel operation is made ready for reuse, and  *)
(* a deadline ahead gets its timer.                                         *)
Begin(s, c, d, copy) ==
  LET due == s.lane[d].deadline
  IN  [s EXCEPT !.lane[d] =
         [NewLane EXCEPT !.owner = c, !.copy = copy, !.deadline = due,
                         !.timer = IF due = "ahead" THEN "set" ELSE "off"]]

Validate(s, d) ==
  IF stopping THEN "ECANCELED"
  ELSE IF d = "read" THEN ValidateRead(s.life) ELSE ValidateWrite(s.life)

(* fail is what goes wrong: "timer", "sqe" or "none". *)
Start(s, c, d, copy, fail) ==
  LET begun == Begin(s, c, d, copy)
      Abort(kind) == Answer(Release(begun, d), c, kind)
  IN  IF Validate(s, d) # "ok" THEN Answer(s, c, Validate(s, d))
      ELSE IF s.lane[d].owner # NoOne THEN Answer(s, c, "EBUSY")
      ELSE IF d = "read" /\ IsReadShutdown(s.life) THEN Answer(s, c, "eof")
      ELSE IF s.lane[d].deadline = "past" THEN Abort("ETIMEDOUT")
      ELSE IF s.lane[d].deadline = "ahead" /\ fail = "timer" THEN Abort("ENOMEM")
      ELSE IF fail = "sqe" THEN Abort("ENOSPC")
      ELSE begun

Waiting(s, c) == \E d \in Dirs : s.lane[d].owner = c

WriteEnds(s, kind) ==
  [s EXCEPT !.left = 0, !.copied = FALSE, !.res[Writer] = Result(kind, 0)]

(* The loop of Write(), from where it has a send to issue or a result r of  *)
(* one in hand.  A zero-copy send that fails with ENOMEM, for the kernel's  *)
(* or for its timer's sake, is sent again as an ordinary one (whose own     *)
(* timer is to be had); any other error ends Write().                       *)
Send(s, copy, fail) ==
  LET t == Start(s, Writer, "write", copy, fail)
      u == IF copy /\ ~Waiting(t, Writer) /\ t.res[Writer].kind = "ENOMEM"
           THEN Start(s, Writer, "write", FALSE, "none") ELSE t
  IN  IF Waiting(u, Writer) THEN [u EXCEPT !.copied = u.lane["write"].copy]
      ELSE WriteEnds(u, "failed")

(* A Write() that sends all of its buffer again after a partial send. *)
BugWriteResumed(s, copy, fail) ==
  IF s.res[Writer].kind # "ok" THEN WriteEnds(s, "failed")
  ELSE IF s.res[Writer].n = s.left THEN WriteEnds(s, "ok")
  ELSE Send(s, copy, fail)

WriteResumed(s, copy, fail) ==
  LET r == s.res[Writer]
  IN  IF r.kind = "ENOMEM" /\ s.copied THEN Send(s, FALSE, fail)
      ELSE IF r.kind # "ok" THEN WriteEnds(s, "failed")
      ELSE IF r.n = s.left THEN WriteEnds(s, "ok")
      ELSE Send([s EXCEPT !.left = @ - r.n], copy, fail)

-----------------------------------------------------------------------------
(* Deadlines.                                                              *)

(* A deadline cancel that is not retried. *)
BugCancelPending(s, d, fail) ==
  [s EXCEPT !.lane[d].submitted = fail = "none", !.lane[d].timer = "off"]

(* SubmitReadDeadlineCancel(); when it fails, a timer retries it, and when  *)
(* there is none to be had either, the loop is stopped.                     *)
CancelPending(s, d, fail) ==
  [s EXCEPT !.lane[d].submitted = fail = "none",
            !.lane[d].timer = IF fail = "sqe" THEN "retry" ELSE "off"]

HandleDeadline(s, d, fail) ==
  CancelPending([s EXCEPT !.lane[d].late = TRUE, !.lane[d].requested = TRUE],
                d, fail)

(* A SetReadDeadline() that leaves the timer of the deadline before. *)
BugSetDeadline(s, d, due, fail) ==
  LET l == s.lane[d]
  IN  [s EXCEPT !.lane[d].deadline = due,
                !.lane[d].timer =
                   IF l.owner = NoOne \/ l.requested \/ due = "none" THEN @
                   ELSE IF due = "past" THEN "due" ELSE "set"]

(* SetReadDeadline(), with ArmReadDeadlineTimer(): a deadline that has      *)
(* passed gets a timer that is due.                                         *)
SetDeadline(s, d, due, fail) ==
  LET l == s.lane[d]
      arms == l.owner # NoOne /\ ~l.requested /\ due # "none" /\ fail = "none"
  IN  [s EXCEPT !.lane[d].deadline = due,
                !.lane[d].timer = IF ~arms THEN "off"
                                  ELSE IF due = "past" THEN "due" ELSE "set"]

-----------------------------------------------------------------------------
(* Steps of the loop thread.                                               *)

(* A handler replaces the stream, and what it submitted reaches the kernel. *)
Handle(result, cq) ==
  LET Queued(kinds, d) == \E i \in DOMAIN cq : cq[i].what \in kinds /\ cq[i].dir = d
  IN  \E s \in {result} :
      /\ st' = s
      /\ kernel' =
           [op |-> [d \in Dirs |->
              IF s.lane[d].owner # NoOne /\ ~s.lane[d].primary
                 /\ kernel.op[d] = "none" /\ ~Queued({"op", "notify"}, d)
              THEN "armed" ELSE kernel.op[d]],
            cancel |-> [d \in Dirs |->
              IF s.lane[d].submitted /\ ~s.lane[d].terminal
                 /\ kernel.cancel[d] = "none" /\ ~Queued({"cancel"}, d)
              THEN "sent" ELSE kernel.cancel[d]],
            sweep |-> IF s.closing /\ ~s.swept /\ kernel.sweep = "none"
                         /\ ~Queued({"sweep"}, "read")
                      THEN "sent" ELSE kernel.sweep,
            cq |-> cq]

(* A submission may fail, MaxFails times: the submission queue is full and  *)
(* cannot be flushed.  One that nothing goes wrong with is "none".          *)
Failing(fail) == fails' = fails + (IF fail = "none" THEN 0 ELSE 1) /\ fails' <= MaxFails

HandleCqe ==
  /\ kernel.cq # <<>>
  /\ Handle(Dispatch(st, Head(kernel.cq)), Tail(kernel.cq))
  /\ UNCHANGED <<out, fails, moves, stopping>>

Idle(c) == ~Waiting(st, c) /\ \A i \in DOMAIN st.ready : st.ready[i].who # c

(* A reader takes its result when it goes on. *)
Taken(s, c) == IF Waiting(s, c) THEN s ELSE [s EXCEPT !.res[c] = Result("none", 0)]

(* co_await stream.Read() or Recv(). *)
Read(c) ==
  /\ Idle(c)
  /\ \E fail \in {"none", "timer", "sqe"} :
       /\ Failing(fail)
       /\ Handle(Taken(Start(st, c, "read", FALSE, fail), c), kernel.cq)
  /\ UNCHANGED <<out, moves, stopping>>

(* co_await stream.Write(): with zero-copy writes enabled or not. *)
Write ==
  /\ Idle(Writer)
  /\ \E copy \in BOOLEAN, fail \in {"none", "timer", "sqe"} :
       /\ Failing(fail)
       /\ Handle(Send([st EXCEPT !.left = WriteSize], copy, fail), kernel.cq)
  /\ UNCHANGED <<out, moves, stopping>>

(* DrainCompletionReady() runs the oldest work. *)
Resume ==
  /\ st.ready # <<>>
  /\ LET work == Head(st.ready)
         s == [st EXCEPT !.ready = Tail(@)]
     IN  IF work.who = Writer
         THEN \E copy \in BOOLEAN, fail \in {"none", "timer", "sqe"} :
                Failing(fail) /\ Handle(WriteResumed(s, copy, fail), kernel.cq)
         ELSE /\ Handle(IF work.who = NoOne THEN s ELSE Taken(s, work.who), kernel.cq)
              /\ UNCHANGED fails
  /\ out' = IF st'.left = 0 THEN 0 ELSE out
  /\ UNCHANGED <<moves, stopping>>

(* The timer of a deadline fires: HandleReadDeadline(), or, if the cancel   *)
(* could not be submitted then, RetryReadDeadlineCancel().                  *)
DeadlineTimer(d) ==
  /\ st.lane[d].timer = "due"
  /\ \E fail \in {"none", "sqe", "both"} :
       /\ Failing(fail)
       /\ Handle(HandleDeadline(st, d, fail), kernel.cq)
       /\ stopping' = (stopping \/ fail = "both")
  /\ UNCHANGED <<out, moves>>

RetryTimer(d) ==
  /\ st.lane[d].timer = "retry"
  /\ \E fail \in {"none", "sqe", "both"} :
       /\ Failing(fail)
       /\ Handle(CancelPending(st, d, fail), kernel.cq)
       /\ stopping' = (stopping \/ fail = "both")
  /\ UNCHANGED <<out, moves>>

(* stream.SetReadDeadline() or SetWriteDeadline(). *)
CallSetDeadline(d) ==
  /\ st.lane[d].timer = "retry" => MoveWhileRetrying
  /\ \E due \in {"none", "ahead", "past"}, fail \in {"none", "timer"} :
       /\ Failing(fail)
       /\ Handle(SetDeadline(st, d, due, fail), kernel.cq)
  /\ moves < MaxMoves /\ moves' = moves + 1
  /\ UNCHANGED <<out, stopping>>

(* The clock passes a deadline, and the timer that was set for it. *)
Expire(d) ==
  /\ st.lane[d].deadline = "ahead" \/ st.lane[d].timer = "set"
  /\ st' = [st EXCEPT !.lane[d].deadline = IF @ = "ahead" THEN "past" ELSE @,
                      !.lane[d].timer = IF @ = "set" THEN "due" ELSE @]
  /\ UNCHANGED <<kernel, out, fails, moves, stopping>>

(* stream.CloseRead() and CloseWrite(). *)
CloseRead ==
  /\ MayCloseRead(st.life, st.lane["read"].owner # NoOne)
  /\ Handle([st EXCEPT !.life = CloseReadSide(@)], kernel.cq)
  /\ UNCHANGED <<out, fails, moves, stopping>>

CloseWrite ==
  /\ MayShutdown(st.life, st.lane["write"].owner # NoOne)
  /\ Handle([st EXCEPT !.life = ShutdownSide(@)], kernel.cq)
  /\ UNCHANGED <<out, fails, moves, stopping>>

(* co_await stream.Close(): at once if nothing is pending; otherwise after  *)
(* a cancel by descriptor, or not at all if that cannot be submitted.       *)
CloseNow(s) == [s EXCEPT !.fd = FALSE, !.life = MarkClosed(@)]

Close ==
  /\ MayClose(st.life)
  /\ \E fail \in {"none", "sqe"} :
       /\ Failing(fail)
       /\ LET idle == \A d \in Dirs : st.lane[d].owner = NoOne
              s == IF idle THEN CloseNow(st)
                   ELSE IF stopping \/ fail = "sqe"
                   THEN [st EXCEPT !.life = AbortClosePreparation(PrepareClose(@))]
                   ELSE [st EXCEPT !.life = PrepareClose(@), !.closing = TRUE,
                                   !.swept = FALSE]
          IN  Handle(s, kernel.cq)
  /\ UNCHANGED <<out, moves, stopping>>

-----------------------------------------------------------------------------
(* The kernel, and whoever stops the loop.                                 *)

Post(cqe, k) ==
  /\ kernel' = [k EXCEPT !.cq = Append(@, cqe)]
  /\ UNCHANGED <<st, fails, moves, stopping>>

(* A receive ends with data or the end of the stream. *)
KernelRecv ==
  /\ kernel.op["read"] \in {"armed", "doomed"}
  /\ \E kind \in {"data", "eof"} :
       Post(Cqe("op", "read", Result(kind, 0), FALSE),
            [kernel EXCEPT !.op["read"] = "none"])
  /\ UNCHANGED out

(* A send moves part of its buffer.  A zero-copy one may keep the buffer    *)
(* until a notification.                                                    *)
KernelSend ==
  /\ kernel.op["write"] \in {"armed", "doomed"}
  /\ \E n \in 1..st.left, more \in BOOLEAN :
       /\ more => st.lane["write"].copy
       /\ out' = out + n
       /\ Post(Cqe("op", "write", Result("ok", n), more),
               [kernel EXCEPT !.op["write"] = IF more THEN "borrowed" ELSE "none"])

(* ... or fails: a zero-copy one for want of memory. *)
KernelFail(d) ==
  /\ kernel.op[d] \in {"armed", "doomed"}
  /\ \E kind \in {"ECANCELED", "ENOMEM"}, more \in BOOLEAN :
       /\ kind = "ECANCELED" => kernel.op[d] = "doomed"
       /\ (kind = "ENOMEM" \/ more) => st.lane[d].copy
       /\ Post(Cqe("op", d, Result(kind, 0), more),
               [kernel EXCEPT !.op[d] = IF more THEN "borrowed" ELSE "none"])
  /\ UNCHANGED out

KernelNotify ==
  /\ kernel.op["write"] = "borrowed"
  /\ Post(Cqe("notify", "write", Result("none", 0), FALSE),
          [kernel EXCEPT !.op["write"] = "none"])
  /\ UNCHANGED out

Doom(ops) == [d \in Dirs |-> IF ops[d] = "armed" THEN "doomed" ELSE ops[d]]

(* A cancel request finds its target or not (ENOENT) and completes; what it *)
(* found completes on its own, before or after it.                          *)
KernelCancel(d) ==
  \/ /\ kernel.cancel[d] = "sent"
     /\ kernel' = [kernel EXCEPT !.cancel[d] = "applied",
                                 !.op[d] = Doom(kernel.op)[d]]
     /\ UNCHANGED <<st, out, fails, moves, stopping>>
  \/ /\ kernel.cancel[d] = "applied"
     /\ Post(Cqe("cancel", d, Result("none", 0), FALSE),
             [kernel EXCEPT !.cancel[d] = "none"])
     /\ UNCHANGED out

KernelSweep ==
  \/ /\ kernel.sweep = "sent"
     /\ kernel' = [kernel EXCEPT !.sweep = "applied", !.op = Doom(@)]
     /\ UNCHANGED <<st, out, fails, moves, stopping>>
  \/ /\ kernel.sweep = "applied"
     /\ Post(Cqe("sweep", "read", Result("none", 0), FALSE),
             [kernel EXCEPT !.sweep = "none"])
     /\ UNCHANGED out

(* DrainStoppedOperations() cancels every request of a stopping loop. *)
KernelCancelAll ==
  /\ stopping /\ Doom(kernel.op) # kernel.op
  /\ kernel' = [kernel EXCEPT !.op = Doom(@)]
  /\ UNCHANGED <<st, out, fails, moves, stopping>>

LoopRequestStop ==
  ~stopping /\ stopping' = TRUE /\ UNCHANGED <<st, kernel, out, fails, moves>>

Next ==
  \/ HandleCqe \/ Write \/ Resume \/ CloseRead \/ CloseWrite \/ Close
  \/ (\E c \in Readers : Read(c))
  \/ (\E d \in Dirs : DeadlineTimer(d) \/ RetryTimer(d) \/ CallSetDeadline(d)
                        \/ Expire(d) \/ KernelFail(d) \/ KernelCancel(d))
  \/ KernelRecv \/ KernelSend \/ KernelNotify \/ KernelSweep \/ KernelCancelAll
  \/ LoopRequestStop

(* What a cancel request found, the kernel ends. *)
KernelEnd(d) ==
  /\ kernel.op[d] = "doomed"
  /\ (d = "read" /\ KernelRecv) \/ (d = "write" /\ KernelSend) \/ KernelFail(d)

(* The kernel processes cancel requests and notifies, the loop reaps and    *)
(* runs what is ready, and while it runs its timers fire.  Peers need never *)
(* send or accept anything.                                                 *)
Fairness ==
  /\ WF_vars(HandleCqe) /\ WF_vars(Resume)
  /\ WF_vars(KernelNotify) /\ WF_vars(KernelSweep) /\ WF_vars(KernelCancelAll)
  /\ \A d \in Dirs : /\ WF_vars(KernelCancel(d)) /\ WF_vars(KernelEnd(d))
                     /\ WF_vars(~stopping /\ DeadlineTimer(d))
                     /\ WF_vars(~stopping /\ RetryTimer(d))

Spec == Init /\ [][Next]_vars /\ Fairness

-----------------------------------------------------------------------------
(* Properties.                                                             *)

Named(what, d) ==
  \/ what = "op" /\ kernel.op[d] # "none"
  \/ what = "cancel" /\ kernel.cancel[d] # "none"
  \/ \E i \in DOMAIN kernel.cq :
       /\ kernel.cq[i].dir = d
       /\ kernel.cq[i].what \in (IF what = "op" THEN {"op", "notify"} ELSE {what})

(* An operation lives in its coroutine's frame: as long as the kernel or a  *)
(* completion names it, be it by the cancel request that targets it, its    *)
(* coroutine is still suspended in it, and the descriptor is open.  A timer *)
(* captures the stream, and is in the loop's queue only for an operation    *)
(* that is pending.                                                         *)
FrameOutlivesRequests ==
  \A d \in Dirs :
    /\ Named("op", d) => st.lane[d].owner # NoOne /\ ~st.lane[d].primary /\ st.fd
    /\ Named("cancel", d) => /\ st.lane[d].owner # NoOne /\ st.fd
                             /\ st.lane[d].submitted /\ ~st.lane[d].terminal
    /\ st.lane[d].timer # "off" => st.lane[d].owner # NoOne /\ st.fd

(* The work of a coroutine that waits in the ready queue still has its      *)
(* handle when it runs: the CHECK of Work::Run().                           *)
ReadyKeepsHandle ==
  \A i \in DOMAIN st.ready :
    st.ready[i].slot = "cancel" => st.lane[st.ready[i].dir].handle = st.ready[i].who

(* Write() sends its buffer once: it succeeds when the socket has accepted  *)
(* all of it, no more and no less, across partial sends, notifications and  *)
(* the ENOMEM fallback.                                                     *)
WritesOnce ==
  [][(st.left # 0 /\ st'.left = 0 /\ st'.res[Writer].kind = "ok") =>
       out = WriteSize]_vars

(* An operation is timed out only by a deadline that has passed and still   *)
(* stands: no timer of a deadline that was moved or cleared does it.        *)
TimeoutsAreDue ==
  [][\A d \in Dirs : (~st.lane[d].late /\ st'.lane[d].late) =>
       st.lane[d].deadline = "past"]_vars

(* An operation that its deadline has to end.  SetReadDeadline() says so    *)
(* when it finds no memory for a timer; the operation then goes on.         *)
Due(d) ==
  LET l == st.lane[d]
  IN  /\ l.owner # NoOne
      /\ l.late \/ l.timer = "due" \/ (l.deadline = "past" /\ fails = 0)
=============================================================================
