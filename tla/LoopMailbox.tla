------------------------------ MODULE LoopMailbox ------------------------------
(***************************************************************************)
(* What epoll::Loop and uring::Loop share: the life cycle in state_, the   *)
(* queue of Post(), the eventfd that wakes the loop thread, and the work   *)
(* scheduled on the loop (src/epoll/loop.cc, src/uring/loop.cc, which have *)
(* this code twice).                                                       *)
(*                                                                         *)
(* Other threads Post() and RequestStop() at any time: each changes the    *)
(* shared state in one step and writes the eventfd in a later one.  The    *)
(* loop thread's own calls do both at once, since only it reads the        *)
(* eventfd.  Callbacks are numbered in the order Post() accepts them.      *)
(***************************************************************************)
EXTENDS Naturals, Sequences

CONSTANTS
  Threads,    \* threads other than the loop's
  MaxPosts,   \* bound: how many callbacks are ever accepted
  MaxWork     \* bound: how many coroutines are scheduled at a time

ASSUME LoopBounds == MaxPosts \in Nat /\ MaxWork \in Nat

VARIABLES
  state,      \* state_
  posted,     \* posted_
  closed,     \* post_closed_
  wakefd,     \* the eventfd is readable
  owes,       \* threads that have yet to write the eventfd
  accepted,   \* number of callbacks accepted
  batch,      \* callbacks swapped out of posted_, still to run
  ran,        \* callbacks that ran, in order
  work        \* number of coroutines scheduled

mailbox == <<state, posted, closed, wakefd, owes, accepted, batch, ran, work>>

MailboxInit ==
  /\ state = "created"
  /\ posted = <<>> /\ closed = FALSE
  /\ wakefd = FALSE /\ owes = {}
  /\ accepted = 0 /\ batch = <<>> /\ ran = <<>>
  /\ work = 0

MailboxType ==
  /\ state \in {"created", "running", "stopping", "stopped"}
  /\ posted \in Seq(Nat) /\ batch \in Seq(Nat) /\ ran \in Seq(Nat)
  /\ closed \in BOOLEAN /\ wakefd \in BOOLEAN
  /\ owes \subseteq Threads
  /\ accepted \in Nat /\ work \in Nat

-----------------------------------------------------------------------------
(* Other threads.                                                          *)

(* Wakes for the second callback in the queue, not for the first. *)
BugPost(t) ==
  /\ t \notin owes
  /\ accepted < MaxPosts
  /\ ~closed
  /\ accepted' = accepted + 1
  /\ posted' = Append(posted, accepted')
  /\ owes' = IF posted # <<>> THEN owes \cup {t} ELSE owes
  /\ UNCHANGED <<state, closed, wakefd, batch, ran, work>>

(* Only the callback that finds the queue empty wakes the loop.  A closed queue refuses,
   which changes nothing. *)
Post(t) ==
  /\ t \notin owes
  /\ accepted < MaxPosts
  /\ ~closed
  /\ accepted' = accepted + 1
  /\ posted' = Append(posted, accepted')
  /\ owes' = IF posted = <<>> THEN owes \cup {t} ELSE owes
  /\ UNCHANGED <<state, closed, wakefd, batch, ran, work>>

RequestStop(t) ==
  /\ t \notin owes
  /\ state \in {"created", "running"}
  /\ state' = "stopping"
  /\ owes' = owes \cup {t}
  /\ UNCHANGED <<posted, closed, wakefd, accepted, batch, ran, work>>

Wakeup(t) ==
  /\ t \in owes
  /\ owes' = owes \ {t}
  /\ wakefd' = TRUE
  /\ UNCHANGED <<state, posted, closed, accepted, batch, ran, work>>

-----------------------------------------------------------------------------
(* The loop thread.                                                        *)

PostHere ==
  /\ accepted < MaxPosts
  /\ ~closed
  /\ accepted' = accepted + 1
  /\ posted' = Append(posted, accepted')
  /\ wakefd' = (wakefd \/ posted = <<>>)
  /\ UNCHANGED state

StopHere ==
  /\ state \in {"created", "running"}
  /\ state' = "stopping"
  /\ wakefd' = TRUE
  /\ UNCHANGED <<posted, accepted>>

(* What a callback, an event handler or a coroutine does with its loop, when `scheduled`
   coroutines are in the queue: post, stop, schedule another one, or nothing. *)
UserCode(scheduled) ==
  /\ \/ work' = scheduled /\ (PostHere \/ StopHere)
     \/ /\ work' \in {scheduled} \cup (IF scheduled < MaxWork THEN {scheduled + 1} ELSE {})
        /\ UNCHANGED <<state, posted, wakefd, accepted>>
  /\ UNCHANGED <<closed, owes>>

(* The first callback of the batch. *)
RunCallback ==
  /\ batch # <<>>
  /\ batch' = Tail(batch)
  /\ ran' = Append(ran, Head(batch))
  /\ UserCode(work)

(* A coroutine of the queue, as RunPending() and RunReady() resume it. *)
RunWork ==
  /\ work # 0
  /\ UserCode(work - 1)
  /\ UNCHANGED <<batch, ran>>

(* RunPosted() swaps the queue out. *)
TakePosted ==
  /\ batch' = posted
  /\ posted' = <<>>
  /\ UNCHANGED <<state, closed, wakefd, owes, accepted, ran, work>>

(* DrainPostedAndClose() sees an empty queue and closes it under the same lock. *)
ClosePosted ==
  /\ posted = <<>>
  /\ closed' = TRUE
  /\ UNCHANGED <<state, posted, wakefd, owes, accepted, batch, ran, work>>

-----------------------------------------------------------------------------
(* Properties of both loops.                                               *)

(* The contract of Post(): whatever thread it comes from, and even when it races the
   stop, an accepted callback runs once and in the order of acceptance; it is either
   queued, swapped out, or has run.  Once the loop is stopped all of them have run. *)
AcceptedRunInOrder ==
  /\ ran \o batch \o posted = [k \in 1..accepted |-> k]
  /\ state = "stopped" => closed /\ Len(ran) = accepted

(* A stop that was requested ends Run(), which on io_uring needs every pending request
   cancelled and reaped, and a callback that was accepted runs.  Neither waits for the
   timeout of a poll or for another event to wake the loop. *)
StopsAndRuns ==
  /\ state = "stopping" ~> state = "stopped"
  /\ \A k \in 1..MaxPosts : accepted >= k ~> Len(ran) >= k
================================================================================
