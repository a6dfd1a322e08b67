------------------------------- MODULE UringLoop -------------------------------
(***************************************************************************)
(* uring::Loop::Run() (src/uring/loop.cc) among threads that post and stop,*)
(* with the requests it keeps count of.                                    *)
(*                                                                         *)
(* A request is prepared, submitted, and completed by the kernel with one  *)
(* or, if it is multishot, several completions.  Submitting may stop after *)
(* any number of requests.  The loop waits for completions only; a poll    *)
(* request on the eventfd, armed again after each use, turns Wake() into   *)
(* one.  ready_ and completion_ready_ are one queue of coroutines, always  *)
(* too short for the limits on how many of them one turn resumes.          *)
(***************************************************************************)
EXTENDS LoopMailbox, Functions

CONSTANTS
  Ops,          \* requests of user code
  Wake,         \* wake_op_
  CancelAll,    \* cancel_all_op_
  SqEntries,    \* slots of the submission queue
  MaxCqesPerTurn,   \* kMaxCqesPerTurn
  MaxCqes       \* bound: completions a multishot request leaves unreaped

ASSUME OpsDiffer == Wake \notin Ops /\ CancelAll \notin Ops /\ Wake # CancelAll

VARIABLES
  step,    \* what the loop thread does next
  reap,    \* who called Reap(), and how many completions it has handled
  ring     \* the ring and what the loop counts of it:
           \*   sq       prepared requests, oldest first; their number is pending_submit_
           \*   kernel   requests in the kernel, doomed those a cancel has hit
           \*   cq       completions, [op, more]
           \*   inflight, wakePending, wakeInflight, cancelPending   as in the class

ringVars == <<step, reap, ring>>
uvars == <<mailbox, ringVars>>

(* Init() has armed the poll on the eventfd. *)
NewRing ==
  [sq |-> <<Wake>>, kernel |-> {}, doomed |-> {}, cq |-> <<>>, inflight |-> 0,
   wakePending |-> TRUE, wakeInflight |-> FALSE, cancelPending |-> FALSE]

UringInit ==
  /\ MailboxInit /\ ring = NewRing
  /\ step = "start" /\ reap = [from |-> "start", count |-> 0]

-----------------------------------------------------------------------------
(* Counting requests.                                                      *)

BitOf(flag) == IF flag THEN 1 ELSE 0

PendingSubmitCount == Len(ring.sq) - BitOf(ring.wakePending)

InflightCount == ring.inflight - BitOf(ring.wakeInflight)

BugIsDrained == work = 0 /\ InflightCount = 0   \* forgets what is still to be submitted

IsDrained == work = 0 /\ PendingSubmitCount = 0 /\ InflightCount = 0

(* FlushSubmit() when the kernel takes the first n requests; it succeeds if these are all. *)
Flushed(r, n) ==
  [r EXCEPT
    !.sq = SubSeq(@, n + 1, Len(@)), !.kernel = @ \cup Range(SubSeq(r.sq, 1, n)),
    !.inflight = @ + n,
    !.wakePending = @ /\ n = 0, !.wakeInflight = @ \/ (r.wakePending /\ n # 0)]

Prepared(r, op) ==
  [r EXCEPT !.sq = Append(@, op), !.wakePending = @ \/ op = Wake,
            !.cancelPending = @ \/ op = CancelAll]

(* SubmitOp() when it gets a slot, after a flush if there is none. *)
Submitted(r, op) == Prepared(IF Len(r.sq) < SqEntries THEN r ELSE Flushed(r, Len(r.sq)), op)

(* SubmitOp() when the queue is full and the flush falls short. *)
NotSubmitted(r) == IF Len(r.sq) < SqEntries THEN {} ELSE {Flushed(r, n) : n \in 0..(Len(r.sq) - 1)}

Idle(op) ==
  /\ op \notin Range(ring.sq) \cup ring.kernel
  /\ \A k \in DOMAIN ring.cq : ring.cq[k].op # op

(* What callbacks and coroutines do: also start a request, unless the loop is stopping. *)
UringCode(scheduled) ==
  \/ UserCode(scheduled) /\ UNCHANGED ring
  \/ /\ state = "running"
     /\ \E op \in Ops :
          Idle(op) /\ ring' \in {Submitted(ring, op)} \cup NotSubmitted(ring)
     /\ work' = scheduled
     /\ UNCHANGED <<state, posted, closed, wakefd, owes, accepted>>

-----------------------------------------------------------------------------
(* Run().                                                                  *)

At(from, to) == step = from /\ step' = to

StopLoop ==
  /\ state' = IF state = "running" THEN "stopping" ELSE state
  /\ wakefd' = (wakefd \/ state = "running")
  /\ UNCHANGED <<posted, closed, owes, accepted, batch, ran, work>>

(* FlushSubmit() and where the loop goes on when it succeeds. *)
FlushOk(from, to) ==
  /\ At(from, to)
  /\ ring' = Flushed(ring, Len(ring.sq))

(* FlushSubmit() fails in a running loop, which asks itself to stop. *)
FlushFails(from, to) ==
  /\ At(from, to)
  /\ \E n \in 0..(Len(ring.sq) - 1) : ring' = Flushed(ring, n)

UStart ==
  /\ At("start", "swap")
  /\ state' = IF state = "created" THEN "running" ELSE state
  /\ UNCHANGED <<posted, closed, wakefd, owes, accepted, batch, ran, work, reap, ring>>

USwap == At("swap", "posted") /\ TakePosted /\ UNCHANGED <<reap, ring>>

UCallback ==
  /\ At("posted", "posted")
  /\ batch # <<>> /\ batch' = Tail(batch) /\ ran' = Append(ran, Head(batch))
  /\ UringCode(work)
  /\ UNCHANGED reap

(* Does not arm the poll again. *)
BugUPosted ==
  /\ step = "posted" /\ batch = <<>>
  /\ step' = IF reap.from = "start" THEN "top" ELSE "handled"
  /\ UNCHANGED <<mailbox, reap, ring>>

(* RunPosted() is done: at the start of Run(), or in HandleCqe() of the wake request,
   which is armed again while the loop runs. *)
UPosted ==
  /\ step = "posted" /\ batch = <<>>
  /\ \/ /\ reap.from = "start" /\ step' = "top"
        /\ UNCHANGED <<mailbox, ring>>
     \/ /\ reap.from # "start" /\ step' = "handled"
        /\ \/ /\ state = "running" /\ ring' = Submitted(ring, Wake)
              /\ UNCHANGED mailbox
           \/ state = "running" /\ ring' \in NotSubmitted(ring) /\ StopLoop
           \/ state # "running" /\ UNCHANGED <<mailbox, ring>>
  /\ UNCHANGED reap

UTop ==
  /\ step = "top"
  /\ step' = IF state = "running" THEN "poll" ELSE "shutdown"
  /\ UNCHANGED <<mailbox, reap, ring>>

(* PollCompletions() *)
UPoll ==
  \/ /\ FlushOk("poll", "reap")
     /\ reap' = [from |-> "poll", count |-> 0]
     /\ UNCHANGED mailbox
  \/ FlushFails("poll", "shutdown") /\ StopLoop /\ UNCHANGED reap

(* HandleCqe() of the oldest completion. *)
UHandleCqe ==
  LET cqe == Head(ring.cq)
      seen == [ring EXCEPT !.cq = Tail(@), !.inflight = @ - BitOf(~cqe.more)]
  IN  /\ step = "reap" /\ ring.cq # <<>> /\ reap.count < MaxCqesPerTurn
      /\ reap' = [reap EXCEPT !.count = @ + 1]
      /\ CASE cqe.op = Wake ->
                /\ step' = "swap" /\ wakefd' = FALSE
                /\ ring' = [seen EXCEPT !.wakeInflight = FALSE]
                /\ UNCHANGED work
           [] cqe.op = CancelAll ->
                /\ step' = "handled"
                /\ ring' = [seen EXCEPT !.cancelPending = FALSE]
                /\ UNCHANGED <<wakefd, work>>
           [] OTHER ->
                /\ step' = "handled"
                /\ ring' = seen
                /\ work' \in {work, work + 1}   \* with or without a continuation
                /\ UNCHANGED wakefd
      /\ UNCHANGED <<state, posted, closed, owes, accepted, batch, ran>>

(* OnCqeHandled(): flush, then DrainCompletionReady(). *)
UOnCqeHandled ==
  \/ FlushOk("handled", "completions") /\ UNCHANGED <<mailbox, reap>>
  \/ FlushFails("handled", "reap") /\ StopLoop /\ UNCHANGED reap

UCompletions ==
  \/ /\ At("completions", "completions")
     /\ work # 0 /\ UringCode(work - 1)
     /\ UNCHANGED <<batch, ran, reap>>
  \/ At("completions", "reap") /\ UNCHANGED <<mailbox, reap, ring>>

(* Reap() is done. *)
UReaped ==
  /\ step = "reap" /\ (ring.cq = <<>> \/ reap.count = MaxCqesPerTurn)
  /\ step' = CASE reap.from = "poll" -> IF state = "running" THEN "ready" ELSE "shutdown"
               [] reap.from = "wait" -> "top"
               [] reap.from = "drain" -> "drain"
  /\ UNCHANGED <<mailbox, reap, ring>>

(* RunReady(), and the test whether to wait. *)
URunReady ==
  \/ /\ At("ready", "ready")
     /\ work # 0 /\ UringCode(work - 1)
     /\ UNCHANGED <<batch, ran, reap>>
  \/ /\ step = "ready" /\ work = 0
     /\ step' = IF reap.count = 0 /\ ring.inflight > 0 THEN "wait" ELSE "top"
     /\ UNCHANGED <<mailbox, reap, ring>>

(* WaitCompletionsFor(): flush, then sleep until a completion or the timeout. *)
UWait ==
  \/ FlushOk("wait", "blocked") /\ UNCHANGED <<mailbox, reap>>
  \/ FlushFails("wait", "shutdown") /\ StopLoop /\ UNCHANGED reap

UWake ==
  /\ At("blocked", "reap")
  /\ ring.cq # <<>>
  /\ reap' = [from |-> "wait", count |-> 0]
  /\ UNCHANGED <<mailbox, ring>>

UTimeout ==
  /\ At("blocked", "top")
  /\ ring.cq = <<>>
  /\ UNCHANGED <<mailbox, reap, ring>>

-----------------------------------------------------------------------------
(* The shutdown of Run().                                                  *)

UBeginShutdown ==
  /\ At("shutdown", "drain")
  /\ work' \in work..(IF work > MaxWork THEN work ELSE MaxWork)
  /\ UNCHANGED <<state, posted, closed, wakefd, owes, accepted, batch, ran, reap, ring>>

(* A turn of DrainStoppedOperations(): RunReady(), then CancelPendingOperations(),
   then a bounded wait, whether the cancel could be submitted or not. *)
UDrain ==
  \/ At("drain", "close") /\ IsDrained /\ UNCHANGED <<mailbox, reap, ring>>
  \/ At("drain", "turn") /\ ~IsDrained /\ UNCHANGED <<mailbox, reap, ring>>
  \/ At("turn", "turn") /\ RunWork /\ UNCHANGED <<reap, ring>>

CancelPending ==
  /\ step = "turn" /\ work = 0
  /\ \/ IsDrained /\ step' = "close" /\ ring' = ring
     \/ /\ ~IsDrained
        /\ ring.cancelPending \/ (PendingSubmitCount = 0 /\ InflightCount = 0)
        /\ step' = IF PendingSubmitCount = 0 /\ InflightCount = 0 THEN "drain" ELSE "drainwait"
        /\ ring' = ring
     \/ /\ ~IsDrained /\ ~ring.cancelPending
        /\ PendingSubmitCount # 0 \/ InflightCount # 0
        /\ ring' \in {Submitted(ring, CancelAll)} \cup NotSubmitted(ring)
        /\ step' = "drainwait"
  /\ UNCHANGED <<mailbox, reap>>

UDrainWait ==
  \/ FlushOk("drainwait", "drainblocked") /\ UNCHANGED <<mailbox, reap>>
  \/ FlushFails("drainwait", "drain") /\ UNCHANGED <<mailbox, reap>>

UDrainWake ==
  /\ At("drainblocked", "reap")
  /\ ring.cq # <<>>
  /\ reap' = [from |-> "drain", count |-> 0]
  /\ UNCHANGED <<mailbox, ring>>

UDrainTimeout ==
  /\ At("drainblocked", "drain")
  /\ ring.cq = <<>>
  /\ UNCHANGED <<mailbox, reap, ring>>

UDrainPostedAndClose ==
  \/ At("close", "stop") /\ ClosePosted /\ UNCHANGED <<reap, ring>>
  \/ At("close", "closing") /\ posted # <<>> /\ TakePosted /\ UNCHANGED <<reap, ring>>
  \/ At("closing", "closing") /\ RunCallback /\ UNCHANGED <<reap, ring>>
  \/ At("closing", "pending") /\ batch = <<>> /\ UNCHANGED <<mailbox, reap, ring>>
  \/ At("pending", "pending") /\ RunWork /\ UNCHANGED <<reap, ring>>
  \/ At("pending", "close") /\ work = 0 /\ UNCHANGED <<mailbox, reap, ring>>

UStopped ==
  /\ At("stop", "done")
  /\ state' = "stopped"
  /\ UNCHANGED <<posted, closed, wakefd, owes, accepted, batch, ran, work, reap, ring>>

-----------------------------------------------------------------------------
(* The kernel.                                                             *)

Cqe(op, more) == [op |-> op, more |-> more]

Kernel(r) == ring' = r /\ UNCHANGED <<mailbox, step, reap>>

KernelComplete(op) ==
  /\ op \in ring.kernel
  /\ Kernel([ring EXCEPT !.kernel = @ \ {op}, !.doomed = @ \ {op},
                         !.cq = Append(@, Cqe(op, FALSE))])

(* A multishot request delivers and stays. *)
KernelDelivers(op) ==
  /\ op \in ring.kernel
  /\ Len(ring.cq) < MaxCqes /\ work < MaxWork
  /\ Kernel([ring EXCEPT !.cq = Append(@, Cqe(op, TRUE))])

(* The poll on the eventfd. *)
KernelWake == wakefd /\ KernelComplete(Wake)

(* The cancel is answered; what it hit completes in any order. *)
KernelCancelAll ==
  /\ CancelAll \in ring.kernel
  /\ Kernel([ring EXCEPT !.kernel = @ \ {CancelAll}, !.doomed = ring.kernel \ {CancelAll},
                         !.cq = Append(@, Cqe(CancelAll, FALSE))])

KernelCancels(op) == op \in ring.doomed /\ KernelComplete(op)

-----------------------------------------------------------------------------
UringStep ==
  \/ UStart \/ USwap \/ UCallback \/ UPosted \/ UTop \/ UPoll \/ UHandleCqe
  \/ UOnCqeHandled \/ UCompletions \/ UReaped \/ URunReady \/ UWait \/ UWake
  \/ UBeginShutdown \/ UDrain \/ CancelPending \/ UDrainWait \/ UDrainWake
  \/ UDrainPostedAndClose \/ UStopped

KernelStep ==
  \/ \E op \in Ops : KernelComplete(op) \/ KernelDelivers(op)
  \/ \E op \in Ops \cup {Wake} : KernelCancels(op)
  \/ KernelWake \/ KernelCancelAll

UringOther(t) == (Post(t) \/ RequestStop(t) \/ Wakeup(t)) /\ UNCHANGED ringVars

UringNext ==
  \/ UringStep \/ UTimeout \/ UDrainTimeout \/ KernelStep
  \/ \E t \in Threads : UringOther(t)

(* The loop thread runs, and submitting does not fail for ever.  The kernel completes what
   a cancel hit, the cancel itself, and the poll once the eventfd is readable; other
   requests may stay for ever.  The timeout of a wait in Run() is not relied on; that of
   the stop drain is, which tries the cancel again after it.  A coroutine does not
   reschedule itself for ever. *)
UringFairness ==
  /\ WF_uvars(UringStep) /\ WF_uvars(UDrainTimeout)
  /\ SF_uvars(step = "drainwait" /\ UDrainWait /\ step' = "drainblocked")
  /\ WF_uvars(KernelWake) /\ WF_uvars(KernelCancelAll)
  /\ \A op \in Ops \cup {Wake} : WF_uvars(KernelCancels(op))
  /\ \A t \in Threads : WF_uvars(Wakeup(t) /\ UNCHANGED ringVars)

UringSpec == UringInit /\ [][UringNext]_uvars /\ UringFairness

-----------------------------------------------------------------------------
(* The loop never sleeps on news: when it waits and no completion is there, the poll on
   the eventfd is armed, and the eventfd is readable or about to be if a callback was
   posted or a stop requested.  HandleCqe() arms the poll only after RunPosted(), and
   FlushSubmit() before every wait. *)
WakeIsArmed ==
  step = "blocked" /\ ring.cq = <<>> =>
    /\ Wake \in ring.kernel
    /\ posted # <<>> \/ state = "stopping" => wakefd \/ owes # {}

(* IsDrained() tells the truth, though FlushSubmit() guesses from any submission that the
   wake request was part of it: no request of user code, and no cancel, is prepared, in
   the kernel or unreaped when the loop calls itself drained, and so when it is stopped. *)
DrainedIsQuiet ==
  IsDrained \/ state = "stopped" =>
    /\ Range(ring.sq) \cup ring.kernel \subseteq {Wake}
    /\ \A k \in DOMAIN ring.cq : ring.cq[k].op = Wake

(* The loop of io_uring waits and stops on true counts. *)
UringCountsAreTrue == WakeIsArmed /\ DrainedIsQuiet
================================================================================
