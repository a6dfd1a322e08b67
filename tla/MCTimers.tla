-------------------------------- MODULE MCTimers -------------------------------
(***************************************************************************)
(* The timers of both loops for TLC, one kind at a time: the queue of      *)
(* either loop, or the awaiters and channels that user code waits on.      *)
(* `part` says which one moves; the others stay new.                       *)
(***************************************************************************)
EXTENDS EpollTimerQueue

(* The bounds of the uring queue and of LoopTimers, the epoll queue having those of  *)
(* TimerIndex.                                                                       *)
CONSTANTS UringTimers, UringTime, Delays

ASSUME MoreTimerConstants == UringTimers \in Nat /\ UringTime \in Nat /\ Delays \subseteq Nat

VARIABLES
  part,
  uclock, uqueue, kernel, uat, ustopping, uran, ugone,  \* of UringTimerQueue
  backend, lclock, loop, sleep, chan, receiver, due     \* of LoopTimers

utimer == <<uclock, uqueue, kernel, uat, ustopping, uran, ugone>>
ltimer == <<backend, lclock, loop, sleep, chan, receiver, due>>

UringTimer == INSTANCE UringTimerQueue WITH
  MaxTimers <- UringTimers, MaxTime <- UringTime, clock <- uclock, queue <- uqueue, at <- uat, stopping <- ustopping,
  ran <- uran, gone <- ugone

Timers == INSTANCE LoopTimers WITH MaxTime <- UringTime, clock <- lclock

MCInit ==
  /\ part \in {"etimer", "utimer", "ltimer"}
  /\ Init /\ UringTimer!Init
  /\ Timers!Init /\ (part # "ltimer" => backend = "epoll")

MCNext ==
  /\ \/ part = "etimer" /\ Next /\ UNCHANGED <<utimer, ltimer>>
     \/ part = "utimer" /\ UringTimer!Next /\ UNCHANGED <<vars, ltimer>>
     \/ part = "ltimer" /\ Timers!Next /\ UNCHANGED <<vars, utimer>>
  /\ UNCHANGED part

(* The Fairness of the timers that move. *)
EpollTimerFairness ==
  /\ WF_vars(part = "etimer" /\ Tick)
  /\ WF_vars(part = "etimer" /\ Expire)
  /\ WF_vars(part = "etimer" /\ LoopStep)

UringTimerFairness ==
  /\ WF_utimer(part = "utimer" /\ UringTimer!Tick)
  /\ WF_utimer(part = "utimer" /\ UringTimer!KernelStep)
  /\ WF_utimer(part = "utimer" /\ UringTimer!LoopStep)

TimersFairness ==
  /\ WF_ltimer(part = "ltimer" /\ Timers!Tick)
  /\ WF_ltimer(part = "ltimer" /\ Timers!SleepExpires)
  /\ WF_ltimer(part = "ltimer" /\ Timers!SleepResumes)
  /\ WF_ltimer(part = "ltimer" /\ Timers!Fire)
  /\ WF_ltimer(part = "ltimer" /\ Timers!BeginShutdown)

MCSpec ==
  /\ MCInit /\ [][MCNext]_<<part, vars, utimer, ltimer>>
  /\ EpollTimerFairness /\ UringTimerFairness /\ TimersFairness

-----------------------------------------------------------------------------
(* A timer is in the index and the registry, or running, or given back; the *)
(* timeout requests are those the flags of uring::TimerQueue speak of; and  *)
(* a callback of the loop finds the awaiter or the channel it was given.    *)
TimersAreOwned ==
  TimerOwnedOnce /\ UringTimer!RequestsMatchFlags /\ Timers!CallbackFindsOwner

(* A loop that waits is woken for its earliest timer: AddTimer(), Cancel()  *)
(* and the end of HandleRead() or ProcessExpired() leave a timerfd or a     *)
(* timeout request that is early enough, or the fallback of uring.          *)
EarliestIsArmed == TimerfdIsArmed /\ UringTimer!EarliestIsArmed

(* Callbacks run when due, in order, once unless they repeat, and never     *)
(* after Cancel(); a Timer's or Ticker's firing is received only if it is   *)
(* not older than the last Stop() or Reset(), except that a closed channel  *)
(* (the loop stopped, or had no timer for it) still hands out the firing it *)
(* held when it was closed (DiscardUnreceived()); a sleep is not cut short. *)
RunsAreDue ==
  EpollRunsAreDue /\ UringTimer!RunsAreDue /\ Timers!FiringsAreCurrent

Pending ==
  \/ part = "etimer" /\ Overdue
  \/ part = "utimer" /\ (UringTimer!Overdue \/ ustopping) /\ uqueue.timers # {}
  \/ part = "ltimer" /\ Timers!ToBeWoken

(* A timer that is due leaves the queue or is set to a later time, a loop   *)
(* that stops discards its timers, a sleep ends, and a receiver is woken    *)
(* once its timer is due or its loop stops.                                 *)
TimersRun ==
  /\ Pending ~> ~Pending
  /\ (sleep.at \in {"suspended", "queued"}) ~> (sleep.at = "done")
================================================================================
