---------------------------- MODULE EpollConnector ----------------------------
(***************************************************************************)
(* One epoll::Connector::Connect() (src/epoll/connector.cc): the awaiter,  *)
(* its socket, its Channel with the poller, its timeout and its place in   *)
(* the loop's shutdown registry.                                           *)
(*                                                                         *)
(* The loop polls and then runs the handlers of a batch of events, in any  *)
(* order, before it resumes coroutines.  The awaiter resets its Channel    *)
(* inside the batch, which may hold further handlers of that Channel: they *)
(* are called with the values the Channel had.                             *)
(***************************************************************************)
EXTENDS SequencesExt, Naturals

VARIABLES
  loop,    \* "running", "stopping" once asked to, "stopped" after BeginShutdown()
  batch,   \* handlers of this turn that are still to be called
  conn,    \* at         "idle", "suspended", "scheduled", "done"
           \* fd         "none", "open", "stream" (handed over), "closed"
           \* timer, channel, participant: what the awaiter is entered in
           \* result     what await_resume() will return, or "none"
  wire     \* "none", "connecting", "ok" or "refused": what SO_ERROR tells

vars == <<loop, batch, conn, wire>>

Init ==
  /\ loop = "running" /\ batch = <<>> /\ wire = "none"
  /\ conn = [at |-> "idle", fd |-> "none", timer |-> FALSE, channel |-> FALSE,
             participant |-> FALSE, result |-> "none"]

RequestStop ==
  /\ loop = "running" /\ loop' = "stopping"
  /\ UNCHANGED <<batch, conn, wire>>

(* lifecycle_.ResultReady() *)
ResultReady == conn.result # "none"

(* MakeStream(): the socket options may be refused. *)
Made(c) == {[c EXCEPT !.result = "ok", !.fd = "stream"], [c EXCEPT !.result = "error"]}

(* Leaves the timer in the queue. *)
BugReleasePhysicalRequest(c) ==
  [c EXCEPT !.channel = FALSE, !.participant = FALSE, !.fd = IF @ = "open" THEN "closed" ELSE @]

(* Also closes the socket unless a stream owns it. *)
ReleasePhysicalRequest(c) ==
  [c EXCEPT !.timer = FALSE, !.channel = FALSE, !.participant = FALSE,
            !.fd = IF @ = "open" THEN "closed" ELSE @]

CompleteInline(c) == conn' = [ReleasePhysicalRequest(c) EXCEPT !.at = "done"]

(* Only the first of a connect, a timeout and a stop has an effect. *)
CompletePending(c) ==
  IF ResultReady THEN UNCHANGED conn
  ELSE conn' = [ReleasePhysicalRequest(c) EXCEPT !.at = "scheduled"]

(* await_suspend() *)
Connect ==
  LET opened == [conn EXCEPT !.fd = "open", !.participant = TRUE]
  IN  /\ conn.at = "idle" /\ batch = <<>> /\ loop # "stopped"
      /\ \/ /\ loop = "stopping"
            /\ CompleteInline([conn EXCEPT !.result = "ECANCELED"]) /\ UNCHANGED wire
         \/ /\ loop = "running"
            /\ \/ CompleteInline([conn EXCEPT !.participant = TRUE, !.result = "error"])
                    /\ UNCHANGED wire
               \/ \E c \in Made(opened) : CompleteInline(c) /\ wire' = "ok"
               \/ CompleteInline([opened EXCEPT !.result = "error"]) /\ wire' = "refused"
               \/ /\ wire' = "connecting"
                  /\ \E timeout \in BOOLEAN :
                       conn' = [opened EXCEPT !.at = "suspended", !.channel = TRUE,
                                              !.timer = timeout]
      /\ UNCHANGED <<loop, batch>>

WireSettles ==
  /\ wire = "connecting" /\ wire' \in {"ok", "refused"}
  /\ UNCHANGED <<loop, batch, conn>>

(* The handlers of the connect's Channel and of the timer descriptor. *)
ReadyHandlers ==
  (IF conn.channel /\ wire = "refused" THEN {<<"error", "write">>}
   ELSE IF conn.channel /\ wire = "ok" THEN {<<"write">>} ELSE {})
    \cup (IF conn.timer THEN {<<"timer">>} ELSE {})

(* epoll_wait() reports some of what is ready, in any order. *)
Poll ==
  /\ batch = <<>> /\ loop # "stopped"
  /\ \E ready \in (SUBSET ReadyHandlers) \ {{}} :
       \E order \in SetToSeqs(ready) : batch' = FlattenSeq(order)
  /\ UNCHANGED <<loop, conn, wire>>

(* Treats a connect that has settled as one that succeeded. *)
BugOnReady ==
  IF ResultReady THEN UNCHANGED conn ELSE \E c \in Made(conn) : CompletePending(c)

(* Completes although a timeout or a stop has decided. *)
BugOnReadyAgain ==
  \E c \in IF wire = "ok" THEN Made(conn) ELSE {[conn EXCEPT !.result = "error"]} :
     conn' = [ReleasePhysicalRequest(c) EXCEPT !.at = "scheduled"]

(* Reads SO_ERROR of the socket, which is closed once there is a result. *)
OnReady ==
  IF ResultReady THEN UNCHANGED conn
  ELSE \E c \in IF wire = "ok" THEN Made(conn) ELSE {[conn EXCEPT !.result = "error"]} :
         CompletePending(c)

(* The next handler of the batch; a timer that was cancelled is not in the queue. *)
RunHandler ==
  /\ batch # <<>> /\ batch' = Tail(batch)
  /\ \/ Head(batch) \in {"error", "write"} /\ OnReady
     \/ /\ Head(batch) = "timer"
        /\ IF conn.timer
           THEN CompletePending([conn EXCEPT !.timer = FALSE, !.result = "ETIMEDOUT"])
           ELSE UNCHANGED conn
  /\ UNCHANGED <<loop, wire>>

(* DoPendingWork() after the batch resumes the coroutine, whose frame ends. *)
Resume ==
  /\ conn.at = "scheduled" /\ batch = <<>>
  /\ conn' = [conn EXCEPT !.at = "done"]
  /\ UNCHANGED <<loop, batch, wire>>

(* DispatchLoopStop() *)
BeginShutdown ==
  /\ loop = "stopping" /\ batch = <<>> /\ loop' = "stopped"
  /\ IF conn.participant THEN CompletePending([conn EXCEPT !.result = "ECANCELED"])
     ELSE UNCHANGED conn
  /\ UNCHANGED <<batch, wire>>

LoopStep == Poll \/ RunHandler \/ Resume \/ BeginShutdown

Next == RequestStop \/ Connect \/ WireSettles \/ LoopStep

(* A loop goes on; the network need not. *)
Fairness == WF_vars(Poll) /\ WF_vars(RunHandler) /\ WF_vars(Resume) /\ WF_vars(BeginShutdown)

Spec == Init /\ [][Next]_vars /\ Fairness

-----------------------------------------------------------------------------
(* While it waits, and only then, the awaiter has an open socket and is    *)
(* entered with the poller and the registry; when its frame ends nothing   *)
(* names it: no timer, and no handler of the batch.  The stream has the    *)
(* socket exactly if the connect succeeded.                                *)
ConnectOwnsOnce ==
  /\ {conn.fd = "open", conn.channel, conn.participant} = {conn.at = "suspended"}
  /\ conn.timer => conn.at = "suspended"
  /\ conn.at = "done" => batch = <<>>
  /\ (conn.fd = "stream") = (conn.result = "ok")
  /\ (conn.result = "none") = (conn.at \in {"idle", "suspended"})

(* The first result stays, and a connect succeeds only if it was accepted. *)
ConnectDecidedOnce ==
  [][/\ conn.result # "none" => conn'.result = conn.result /\ conn'.fd = conn.fd
     /\ conn'.result = "ok" => wire' = "ok"]_vars

(* A connect with a timeout ends, and every connect ends once the network  *)
(* has answered or the loop stops.                                         *)
ConnectEnds ==
  (conn.at # "done" /\ (conn.timer \/ conn.at = "scheduled" \/
     (conn.at = "suspended" /\ (wire # "connecting" \/ loop # "running")))) ~> (conn.at = "done")
================================================================================
