------------------------------- MODULE LoopTimers -------------------------------
(***************************************************************************)
(* What coroutines use timers for, on either backend: SleepFor()           *)
(* (src/epoll/timer.cc, src/uring/timer.cc) and the Timer and Ticker       *)
(* channels (include/alyrn/detail/timer_channel.h).                        *)
(*                                                                         *)
(* One coroutine sleeps, one owns a Timer or a Ticker, one receives from   *)
(* it.  All run on the thread of one loop, which any thread may stop.  The *)
(* timer queue is what the loop's timer functions promise: a callback runs *)
(* once, at its time or later, unless it is cancelled before.              *)
(***************************************************************************)
EXTENDS Naturals

CONSTANTS
  MaxTime,   \* bound: the clock stops here
  Delays     \* delays and periods that are asked for

VARIABLES
  backend,   \* "epoll" or "uring"; only the latter may fail to arm a timer
  clock,     \* time::SteadyNow()
  loop,      \* "running", "stopping", and "stopped" after BeginShutdown()
  sleep,     \* the SleepAwaiter; timer and registered: what it is entered in
  chan,      \* the BasicTimerChannel; slot: the value its channel holds, or 0
  receiver,  \* the coroutine that receives: waiting, and what it got; 0: an empty optional
  due        \* the earliest time the last schedule may fire; 0: stopped (history)

vars == <<backend, clock, loop, sleep, chan, receiver, due>>

Init ==
  /\ backend \in {"epoll", "uring"} /\ clock = 1 /\ loop = "running"
  /\ sleep = [at |-> "idle", deadline |-> 0, result |-> "none",
              timer |-> FALSE, registered |-> FALSE]
  /\ chan = [alive |-> FALSE, closed |-> TRUE, slot |-> 0, timer |-> FALSE, next |-> 0,
             period |-> 0, registered |-> FALSE, fired |-> 0]
  /\ receiver = [waiting |-> FALSE, got |-> 0]
  /\ due = 0

Stopping == loop # "running"

Tick ==
  /\ clock < MaxTime /\ clock' = clock + 1
  /\ UNCHANGED <<backend, loop, sleep, chan, receiver, due>>

RequestStop ==
  /\ loop = "running" /\ loop' = "stopping"
  /\ UNCHANGED <<backend, clock, sleep, chan, receiver, due>>

(* RunAt() and RunAfter() when the loop stops or its ring is full, and the queue needs a
   request. *)
MayFail == backend = "uring"

-----------------------------------------------------------------------------
(* SleepFor().                                                             *)

(* Leaves the awaiter registered with the loop. *)
BugComplete(s, result) == [s EXCEPT !.at = "queued", !.result = result, !.timer = FALSE]

(* Complete(): ReleaseTimer() takes back the timer and the registration. *)
Complete(s, result) ==
  [s EXCEPT !.at = "queued", !.result = result, !.timer = FALSE, !.registered = FALSE]

(* await_suspend(): without suspending, or entered as a timer and a participant. *)
SleepFor(delay) ==
  /\ sleep.at = "idle" /\ loop # "stopped" /\ clock + delay <= MaxTime
  /\ \/ Stopping /\ sleep' = [sleep EXCEPT !.at = "done", !.result = "ECANCELED"]
     \/ ~Stopping /\ delay = 0 /\ sleep' = [sleep EXCEPT !.at = "done", !.result = "ok"]
     \/ /\ ~Stopping /\ delay > 0
        /\ sleep' = [sleep EXCEPT !.at = "suspended", !.deadline = clock + delay,
                                  !.timer = TRUE, !.registered = TRUE]
     \/ /\ ~Stopping /\ delay > 0 /\ MayFail
        /\ sleep' = [sleep EXCEPT !.at = "done", !.result = "error"]
  /\ UNCHANGED <<backend, clock, loop, chan, receiver, due>>

SleepExpires ==
  /\ sleep.timer /\ clock >= sleep.deadline /\ loop # "stopped"
  /\ sleep' = Complete(sleep, IF Stopping THEN "ECANCELED" ELSE "ok")
  /\ UNCHANGED <<backend, clock, loop, chan, receiver, due>>

(* await_resume() *)
SleepResumes ==
  /\ sleep.at = "queued"
  /\ sleep' = [sleep EXCEPT !.at = "done"]
  /\ UNCHANGED <<backend, clock, loop, chan, receiver, due>>

(* The frame is destroyed before its timer expires. *)
SleepDestroyed ==
  /\ sleep.at = "suspended"
  /\ sleep' = [sleep EXCEPT !.at = "done", !.timer = FALSE, !.registered = FALSE]
  /\ UNCHANGED <<backend, clock, loop, chan, receiver, due>>

-----------------------------------------------------------------------------
(* The channel of a Timer or Ticker.                                       *)

CloseChannel(c, r) ==
  /\ chan' = [c EXCEPT !.closed = TRUE]
  /\ receiver' = IF r.waiting THEN [waiting |-> FALSE, got |-> 0] ELSE r

(* Arm(): if the loop has no timer for it, as if the loop had stopped. *)
Arm(c, r, when) ==
  \/ /\ receiver' = r
     /\ chan' = [c EXCEPT !.next = when, !.timer = TRUE]
  \/ MayFail /\ CloseChannel([c EXCEPT !.next = when, !.registered = FALSE], r)

(* The constructor; a period is the delay of a Ticker, 0 is a Timer. *)
NewTimer(delay, period) ==
  LET c == [chan EXCEPT !.alive = TRUE, !.closed = FALSE, !.slot = 0, !.period = period,
                        !.fired = 0]
  IN  /\ ~chan.alive
      /\ \/ Stopping /\ CloseChannel(c, receiver) /\ due' = 0
         \/ /\ ~Stopping /\ Arm([c EXCEPT !.registered = TRUE], receiver, clock + delay)
            /\ due' = clock + delay
      /\ UNCHANGED <<backend, clock, loop, sleep>>

(* StopFiring() keeps the firing that was not received. *)
BugSilenced(c) == [c EXCEPT !.timer = FALSE]

(* StopFiring(): Disarm() and DiscardUnreceived(), which leaves a closed channel alone. *)
Silenced(c) ==
  [c EXCEPT !.timer = FALSE, !.slot = IF c.closed THEN @ ELSE 0]

StopFiring ==
  /\ chan.alive /\ chan' = Silenced(chan)
  /\ due' = 0
  /\ UNCHANGED <<backend, clock, loop, sleep, receiver>>

(* Reset(): a channel the loop has closed stays closed. *)
Rearm(delay) ==
  LET c == [Silenced(chan) EXCEPT !.period = IF @ = 0 THEN 0 ELSE delay]
  IN  /\ chan.alive /\ (chan.period > 0 => delay > 0)
      /\ \/ ~chan.registered /\ chan' = c /\ UNCHANGED receiver /\ due' = 0
         \/ chan.registered /\ Arm(c, receiver, clock + delay) /\ due' = clock + delay
      /\ UNCHANGED <<backend, clock, loop, sleep>>

(* Fire() with the periods it has missed still to come. *)
BugNextFiring(now) == chan.next + chan.period

(* Skips the periods that are over. *)
NextFiring(now) ==
  IF chan.next + chan.period <= now THEN now + chan.period ELSE chan.next + chan.period

(* The timer's callback: TrySend() gives the time to a receiver that waits, *)
(* puts it into an empty slot, or drops it.                                 *)
Fire ==
  LET now == clock
      c == [chan EXCEPT !.timer = FALSE, !.fired = now,
              !.slot = IF receiver.waiting THEN @ ELSE IF @ = 0 THEN now ELSE @]
      r == IF receiver.waiting THEN [waiting |-> FALSE, got |-> now] ELSE receiver
  IN  /\ chan.timer /\ clock >= chan.next /\ loop # "stopped"
      /\ \/ chan.period = 0 /\ chan' = c /\ receiver' = r
         \/ chan.period > 0 /\ Arm(c, r, NextFiring(now))
      /\ UNCHANGED <<backend, clock, loop, sleep, due>>

(* The destructor; no coroutine may wait for the channel then. *)
Destroy ==
  /\ chan.alive /\ ~receiver.waiting
  /\ chan' = [chan EXCEPT !.alive = FALSE, !.timer = FALSE, !.registered = FALSE,
                          !.closed = TRUE, !.slot = 0]
  /\ due' = 0
  /\ UNCHANGED <<backend, clock, loop, sleep, receiver>>

(* co_await (timer >> fired) *)
Receive ==
  /\ chan.alive /\ ~receiver.waiting
  /\ \/ /\ chan.slot # 0
        /\ receiver' = [receiver EXCEPT !.got = chan.slot] /\ chan' = [chan EXCEPT !.slot = 0]
     \/ /\ chan.slot = 0
        /\ receiver' = [waiting |-> ~chan.closed, got |-> 0] /\ UNCHANGED chan
  /\ UNCHANGED <<backend, clock, loop, sleep, due>>

-----------------------------------------------------------------------------
(* Of the channel. *)
OnLoopStop == CloseChannel([chan EXCEPT !.timer = FALSE, !.registered = FALSE], receiver)

(* The registry tells every participant; DispatchLoopStop() is Complete(). *)
BeginShutdown ==
  /\ loop = "stopping" /\ loop' = "stopped"
  /\ sleep' = IF sleep.registered THEN Complete(sleep, "ECANCELED") ELSE sleep
  /\ \/ chan.registered /\ OnLoopStop
     \/ ~chan.registered /\ UNCHANGED <<chan, receiver>>
  /\ UNCHANGED <<backend, clock, due>>

LoopStep == SleepExpires \/ SleepResumes \/ Fire \/ BeginShutdown

Next ==
  \/ Tick \/ RequestStop \/ LoopStep \/ SleepDestroyed
  \/ StopFiring \/ Destroy \/ Receive
  \/ \E delay \in Delays :
       SleepFor(delay) \/ Rearm(delay) \/ NewTimer(delay, 0)
         \/ (delay > 0 /\ NewTimer(delay, delay))

(* The clock and a loop that has something to do go on. *)
Fairness == WF_vars(Tick) /\ WF_vars(SleepExpires) /\ WF_vars(SleepResumes)
              /\ WF_vars(Fire) /\ WF_vars(BeginShutdown)

Spec == Init /\ [][Next]_vars /\ Fairness

-----------------------------------------------------------------------------
(* A callback of the loop finds the object it was given: an awaiter that   *)
(* is suspended, a channel that lives and is open.  Each is entered with   *)
(* the loop exactly as long as it needs to be told of the stop, and no     *)
(* receiver waits on a channel that is closed or holds a firing.           *)
CallbackFindsOwner ==
  /\ sleep.timer = (sleep.at = "suspended")
  /\ sleep.registered = (sleep.at = "suspended")
  /\ chan.timer => chan.registered
  /\ chan.registered = (chan.alive /\ ~chan.closed)
  /\ loop = "stopped" => ~chan.registered
  /\ receiver.waiting => chan.registered /\ chan.slot = 0

(* A firing is received only if it is not older than the last Stop() or    *)
(* Reset() and its delay is over, or from a channel that is closed, by the *)
(* loop's stop or a timer that could not be armed: DiscardUnreceived()     *)
(* leaves that one as it is.  What a closed channel holds was current when *)
(* it was closed.  A Ticker's next firing comes after its last; and a      *)
(* sleep succeeds only after its delay, with a result that no later stop   *)
(* changes.                                                                *)
FiringsAreCurrent ==
  [][/\ receiver'.got \notin {0, receiver.got} =>
          \/ due # 0 /\ receiver'.got >= due
          \/ chan.closed /\ receiver'.got = chan.slot
     /\ chan'.slot # 0 =>
          IF chan.closed THEN chan'.slot = chan.slot ELSE due' # 0 /\ chan'.slot >= due'
     /\ chan'.timer /\ chan'.period > 0 => chan'.next > chan'.fired
     /\ sleep'.result = "ok" /\ sleep'.at = "queued" => clock >= sleep.deadline
     /\ sleep.result # "none" => sleep'.result = sleep.result]_vars

(* "both discard a firing that was not received" (epoll/timer.h,           *)
(* uring/timer.h, of Stop() and Reset()), which FiringsAreCurrent does not *)
(* ask of a channel that is closed.                                        *)
DiscardsUnreceived ==
  [][receiver'.got \notin {0, receiver.got} => due # 0 /\ receiver'.got >= due]_vars

(* "a slow receiver sees the latest tick instead of a backlog"             *)
(* (epoll/timer.h, uring/timer.h).                                         *)
SeesLatestTick ==
  [][receiver'.got \notin {0, receiver.got} => receiver'.got = chan'.fired]_vars

(* The receiver's timer is due before the clock stops, or its loop stops. *)
ToBeWoken == receiver.waiting /\ (Stopping \/ (chan.timer /\ chan.next <= MaxTime))

(* A sleep ends, and a receiver is woken once its timer is due or the loop *)
(* stops, unless the timer is set to a later time.                         *)
WaitsEnd ==
  /\ (sleep.at \in {"suspended", "queued"}) ~> (sleep.at = "done")
  /\ ToBeWoken ~> ~ToBeWoken
================================================================================
