---------------------------- MODULE UringConnector ----------------------------
(***************************************************************************)
(* One uring::Connector::Connect() (src/uring/connector.cc).  The CONNECT  *)
(* request and, after a timeout, the request that cancels it both name the *)
(* awaiter, and their completions arrive in either order; a submission may *)
(* fail while the submission queue is full, and does once the loop stops.  *)
(***************************************************************************)
EXTENDS Sequences, Naturals

VARIABLES
  loop,     \* "running", "stopping", "stopped" when the stop drain is over
  kernel,   \* connect   "none", "pending", "cancelled" while it is in the kernel
            \* cancel    whether the cancel request is in the kernel
            \* cq        completions
  conn      \* at        "idle", "suspended", "scheduled", "done"
            \* fd        "none", "open", "stream" (handed over), "closed"
            \* timer     "none", "timeout" or "retry"
            \* handle    the operation that will resume the coroutine, or "none"
            \* result    what await_resume() will return, or "none"
            \* timedOut, connectTerminal, cancelSubmitted, cancelTerminal

vars == <<loop, kernel, conn>>

Init ==
  /\ loop = "running"
  /\ kernel = [connect |-> "none", cancel |-> FALSE, cq |-> <<>>]
  /\ conn = [at |-> "idle", fd |-> "none", timer |-> "none", handle |-> "none",
             result |-> "none", timedOut |-> FALSE, connectTerminal |-> FALSE,
             cancelSubmitted |-> FALSE, cancelTerminal |-> FALSE]

RequestStop ==
  /\ loop = "running" /\ loop' = "stopping"
  /\ UNCHANGED <<kernel, conn>>

-----------------------------------------------------------------------------
(* The kernel.                                                             *)

Completes(k, op, result) == [k EXCEPT !.cq = Append(@, [op |-> op, result |-> result])]

(* The connect is settled; one that is being cancelled may still succeed. *)
KernelConnects ==
  /\ \/ /\ kernel.connect = "pending"
        /\ \E r \in {"ok", "refused"} :
             kernel' = Completes([kernel EXCEPT !.connect = "none"], "connect", r)
     \/ /\ kernel.connect = "cancelled"
        /\ \E r \in {"ok", "ECANCELED"} :
             kernel' = Completes([kernel EXCEPT !.connect = "none"], "connect", r)
  /\ UNCHANGED <<loop, conn>>

(* The cancel request is answered, with or without a request to cancel. *)
KernelCancels ==
  /\ kernel.cancel
  /\ kernel' = Completes([kernel EXCEPT !.cancel = FALSE,
                            !.connect = IF @ = "pending" THEN "cancelled" ELSE @],
                         "cancel", "any")
  /\ UNCHANGED <<loop, conn>>

(* The stop drain asks the kernel to cancel every request. *)
DrainCancels ==
  /\ loop = "stopping" /\ kernel.connect = "pending"
  /\ kernel' = [kernel EXCEPT !.connect = "cancelled"]
  /\ UNCHANGED <<loop, conn>>

-----------------------------------------------------------------------------
(* The awaiter.                                                            *)

(* MakeStream() after SetNonBlocking(): either may fail. *)
Made(c) == {[c EXCEPT !.result = "ok", !.fd = "stream"], [c EXCEPT !.result = "error"]}

(* Leaves the socket of a connect that failed open. *)
BugReleasePhysicalRequest(c) == [c EXCEPT !.timer = "none"]

(* Also closes the socket unless a stream owns it. *)
ReleasePhysicalRequest(c) ==
  [c EXCEPT !.timer = "none", !.fd = IF @ = "open" THEN "closed" ELSE @]

CompleteInline(c) == [ReleasePhysicalRequest(c) EXCEPT !.at = "done"]

(* await_suspend(): each of its steps may fail. *)
Connect ==
  /\ conn.at = "idle" /\ loop # "stopped"
  /\ \/ /\ loop = "stopping" /\ UNCHANGED kernel
        /\ conn' = CompleteInline([conn EXCEPT !.result = "ECANCELED"])
     \/ /\ loop = "running" /\ UNCHANGED kernel
        /\ \E fd \in {"none", "open"}, timer \in {"none", "timeout"} :
             conn' = CompleteInline([conn EXCEPT !.fd = fd, !.timer = timer, !.result = "error"])
     \/ /\ loop = "running"
        /\ kernel' = [kernel EXCEPT !.connect = "pending"]
        /\ \E timer \in {"none", "timeout"} :
             conn' = [conn EXCEPT !.at = "suspended", !.fd = "open", !.timer = timer,
                                  !.handle = "connect"]
  /\ UNCHANGED loop

(* The cancel request is submitted; or not: the drain of a stopping loop will *)
(* do; or the submission queue is full: again later, or stop the loop.        *)
SubmitCancel(c) ==
  \/ /\ loop = "running"
     /\ kernel' = [kernel EXCEPT !.cancel = TRUE]
     /\ conn' = [c EXCEPT !.cancelSubmitted = TRUE] /\ UNCHANGED loop
  \/ loop # "running" /\ conn' = c /\ UNCHANGED <<kernel, loop>>
  \/ /\ loop = "running" /\ UNCHANGED kernel
     /\ \/ conn' = [c EXCEPT !.timer = "retry"] /\ UNCHANGED loop
        \/ conn' = c /\ loop' = "stopping"

(* OnTimeout(), or the callback of the retry. *)
TimerRuns ==
  /\ conn.timer # "none" /\ loop # "stopped"
  /\ LET c == [conn EXCEPT !.timer = "none", !.timedOut = TRUE]
     IN  IF conn.connectTerminal \/ conn.cancelSubmitted
         THEN conn' = [conn EXCEPT !.timer = "none"] /\ UNCHANGED <<kernel, loop>>
         ELSE SubmitCancel(c)

Seen(op) == kernel.cq # <<>> /\ Head(kernel.cq).op = op

(* A connect that wins the race with its cancellation succeeds. *)
BugOutcomes(c, result) ==
  IF result = "ok" THEN Made(c)
  ELSE {[c EXCEPT !.result = IF c.timedOut THEN "ETIMEDOUT" ELSE result]}

(* What a completed connect is worth: nothing once the timeout has fired. *)
Outcomes(c, result) ==
  IF c.timedOut THEN {[c EXCEPT !.result = "ETIMEDOUT"]}
  ELSE IF result = "ok" THEN Made(c) ELSE {[c EXCEPT !.result = result]}

(* Resumes although the completion of the cancel request is still to come. *)
BugHandOver(c) == [c EXCEPT !.at = "scheduled", !.handle = "none"]

(* Hands the coroutine to a cancel operation that may have completed already. *)
BugHandOverLate(c) ==
  IF c.cancelSubmitted THEN [c EXCEPT !.handle = "cancel"]
  ELSE [c EXCEPT !.at = "scheduled", !.handle = "none"]

(* The cancel operation resumes the coroutine if it completes last. *)
HandOver(c) ==
  IF c.cancelSubmitted /\ ~c.cancelTerminal
  THEN [c EXCEPT !.handle = "cancel"]
  ELSE [c EXCEPT !.at = "scheduled", !.handle = "none"]

OnComplete ==
  /\ Seen("connect")
  /\ kernel' = [kernel EXCEPT !.cq = Tail(@)]
  /\ \E c \in Outcomes([conn EXCEPT !.connectTerminal = TRUE, !.timer = "none"],
                       Head(kernel.cq).result) :
       conn' = HandOver(ReleasePhysicalRequest(c))
  /\ UNCHANGED loop

OnCancelComplete ==
  /\ Seen("cancel")
  /\ kernel' = [kernel EXCEPT !.cq = Tail(@)]
  /\ conn' = IF conn.connectTerminal /\ conn.handle = "cancel"
             THEN [conn EXCEPT !.cancelTerminal = TRUE, !.at = "scheduled", !.handle = "none"]
             ELSE [conn EXCEPT !.cancelTerminal = TRUE]
  /\ UNCHANGED loop

(* The coroutine is resumed and its frame ends. *)
Resume ==
  /\ conn.at = "scheduled"
  /\ conn' = [conn EXCEPT !.at = "done"]
  /\ UNCHANGED <<loop, kernel>>

Drained ==
  /\ loop = "stopping" /\ conn.at # "scheduled"
  /\ kernel.connect = "none" /\ ~kernel.cancel /\ kernel.cq = <<>>
  /\ loop' = "stopped"
  /\ UNCHANGED <<kernel, conn>>

Next ==
  \/ RequestStop \/ Connect \/ KernelConnects \/ KernelCancels \/ DrainCancels
  \/ TimerRuns \/ OnComplete \/ OnCancelComplete \/ Resume \/ Drained

(* The loop goes on, and the kernel ends what is cancelled; a full submission *)
(* queue does not stay full for ever.                                         *)
Fairness ==
  /\ WF_vars(DrainCancels) /\ WF_vars(KernelCancels) /\ WF_vars(OnComplete)
  /\ WF_vars(OnCancelComplete) /\ WF_vars(Resume) /\ WF_vars(Drained)
  /\ WF_vars(kernel.connect = "cancelled" /\ KernelConnects)
  /\ WF_vars(TimerRuns)
  /\ SF_vars(TimerRuns /\ (conn'.cancelSubmitted \/ loop' # "running"))

Spec == Init /\ [][Next]_vars /\ Fairness

-----------------------------------------------------------------------------
(* Operations whose request or completion still names the awaiter. *)
Outstanding ==
  {c.op : c \in {kernel.cq[i] : i \in DOMAIN kernel.cq}}
    \cup {op \in {"connect"} : kernel.connect # "none"}
    \cup {op \in {"cancel"} : kernel.cancel}

(* The frame ends only when no timer, request or completion names it; until *)
(* then the operation that holds the coroutine's handle has a completion to *)
(* come.  The socket is open until the connect completes, and then belongs  *)
(* to the stream exactly if the connect succeeded.                          *)
ConnectOwnsOnce ==
  /\ conn.at \in {"scheduled", "done"} => Outstanding = {} /\ conn.timer = "none"
  /\ conn.at = "suspended" => conn.handle \in Outstanding
  /\ (conn.fd = "open") = ("connect" \in Outstanding)
  /\ (conn.fd = "stream") = (conn.result = "ok")
  /\ conn.timer # "none" => "connect" \in Outstanding

(* The first result stays, and a connect whose timeout fired never        *)
(* succeeds.                                                              *)
ConnectDecidedOnce ==
  [][/\ conn.result # "none" => conn'.result = conn.result /\ conn'.fd = conn.fd
     /\ conn.timedOut => conn'.result # "ok"]_vars

(* A connect with a timeout ends, and every connect ends once it has       *)
(* completed or the loop stops.                                            *)
ConnectEnds ==
  (conn.at = "scheduled" \/ (conn.at = "suspended" /\
     (conn.timer # "none" \/ conn.timedOut \/ kernel.connect # "pending" \/ loop # "running")))
    ~> (conn.at = "done")
================================================================================
