---------------------------- MODULE EpollTimerQueue ----------------------------
(***************************************************************************)
(* epoll::detail::TimerQueue (src/epoll/timer_queue.cc): the timers of one *)
(* loop and the timerfd that wakes it.                                     *)
(*                                                                         *)
(* The loop thread runs HandleRead() when a poll has found the timerfd     *)
(* readable, and other code, which adds and cancels timers, between polls  *)
(* and inside the callbacks HandleRead() runs.  Time passes meanwhile.     *)
(***************************************************************************)
EXTENDS TimerIndex

MinDelay == 1       \* the 100 us that SetTimerfd() waits at least
NoTimer == Timer(0, 0, 0)
Ids == 1..MaxTimers

VARIABLES
  clock,      \* time::SteadyNow()
  queue,      \* timers     timers_
              \* active     keys of active_timers_
              \* live       timers that timer_pool_ has given out
              \* running    processing_timer_
              \* cancelled  processing_timer_cancelled_
              \* now        the time HandleRead() has read
  timerfd,    \* deadline (0 if disarmed) and whether it is readable
  at,         \* where the loop thread is: "loop", "batch" with the timerfd
              \* among the active channels, "pop", "callback", or "destroyed"
  ran,        \* per timer, how often its callback has been called
  gone        \* timers that have been cancelled

vars == <<clock, queue, timerfd, at, ran, gone>>

Init ==
  /\ clock = 0 /\ at = "loop"
  /\ queue = [timers |-> {}, active |-> {}, live |-> {}, running |-> NoTimer,
              cancelled |-> FALSE, now |-> 0, added |-> 0]
  /\ timerfd = [deadline |-> 0, readable |-> FALSE]
  /\ ran = [i \in Ids |-> 0] /\ gone = {}

-----------------------------------------------------------------------------
(* The timerfd.                                                            *)

(* timerfd_settime() with a delay; a delay of zero disarms it. *)
SetTime(delay) ==
  [deadline |-> IF delay = 0 THEN 0 ELSE clock + delay, readable |-> FALSE]

(* An expiration that has passed is not clamped. *)
BugResetTimerfd(expiration) ==
  {SetTime(IF expiration < clock THEN 0 ELSE expiration - clock)}

(* The delay is truncated to microseconds, so it may end before the expiration. *)
ResetTimerfd(expiration) ==
  {SetTime(IF expiration < clock + lost + MinDelay
           THEN MinDelay ELSE expiration - clock - lost) : lost \in 0..1}

ReadTimerfd == [timerfd EXCEPT !.readable = FALSE]

(* Some timer is to run before the end of time. *)
Overdue == \E t \in queue.timers : t.expiration <= MaxTime

(* The clock stops after MaxTime, but not while such a timer needs it. *)
Tick ==
  /\ at # "destroyed" /\ clock' = clock + 1
  /\ clock <= MaxTime \/ (at = "loop" /\ Overdue /\ timerfd.deadline > clock)
  /\ UNCHANGED <<queue, timerfd, at, ran, gone>>

Expire ==
  /\ timerfd.deadline # 0 /\ clock >= timerfd.deadline
  /\ timerfd' = [deadline |-> 0, readable |-> TRUE]
  /\ UNCHANGED <<clock, queue, at, ran, gone>>

-----------------------------------------------------------------------------
(* User code.                                                              *)

UserCode == at \in {"loop", "batch", "callback"} /\ clock <= MaxTime

(* Loop::RunAt(), RunAfter() and RunEvery(). *)
AddTimer(when, interval) ==
  LET t == Timer(queue.added + 1, when, interval)
      earliestChanged == queue.timers = {} \/ when < Earliest(queue.timers).expiration
  IN  /\ UserCode /\ queue.added < MaxTimers
      /\ queue' = [queue EXCEPT !.timers = @ \cup {t}, !.active = @ \cup {t.sequence},
                                !.live = @ \cup {t.sequence}, !.added = @ + 1]
      /\ timerfd' \in IF earliestChanged THEN ResetTimerfd(when) ELSE {timerfd}
      /\ UNCHANGED <<clock, at, ran, gone>>

(* Takes the timer out of the index and leaves it in active_. *)
BugCancel(id) ==
  /\ UserCode /\ id \in queue.active
  /\ gone' = gone \cup {id}
  /\ queue' = [queue EXCEPT !.timers = {t \in @ : t.sequence # id}, !.live = @ \ {id}]
  /\ UNCHANGED <<clock, timerfd, at, ran>>

Cancel(id) ==
  /\ UserCode /\ id <= queue.added
  /\ gone' = gone \cup {id}
  /\ \/ /\ id \in queue.active
        /\ LET t == CHOOSE u \in queue.timers : u.sequence = id
               left == queue.timers \ {t}
           IN  /\ queue' = [queue EXCEPT !.timers = left, !.active = @ \ {id}, !.live = @ \ {id}]
               /\ timerfd' \in IF t = Earliest(queue.timers) /\ left # {}
                               THEN ResetTimerfd(Earliest(left).expiration) ELSE {timerfd}
     \/ /\ id \notin queue.active
        /\ queue' = [queue EXCEPT !.cancelled = @ \/ queue.running.sequence = id]
        /\ UNCHANGED timerfd
  /\ UNCHANGED <<clock, at, ran>>

-----------------------------------------------------------------------------
(* HandleRead().                                                           *)

Poll ==
  /\ at = "loop" /\ timerfd.readable /\ at' = "batch"
  /\ UNCHANGED <<clock, queue, timerfd, ran, gone>>

(* Reads the clock and the timerfd, which a later SetTimerfd() may have cleared. *)
HandleRead ==
  /\ at = "batch" /\ at' = "pop"
  /\ queue' = [queue EXCEPT !.now = clock]
  /\ timerfd' = ReadTimerfd
  /\ UNCHANGED <<clock, ran, gone>>

(* PopWhile() takes the earliest timer and its callback starts. *)
RunTimer ==
  LET t == Earliest(queue.timers)
  IN  /\ at = "pop" /\ HasExpired(queue.timers, queue.now)
      /\ at' = "callback"
      /\ queue' = [queue EXCEPT !.timers = @ \ {t}, !.active = @ \ {t.sequence},
                                !.running = t, !.cancelled = FALSE]
      /\ ran' = [ran EXCEPT ![t.sequence] = @ + 1]
      /\ UNCHANGED <<clock, timerfd, gone>>

(* Inserts a repeating timer again although its callback has cancelled it. *)
BugCallbackReturns ==
  LET t == queue.running
      again == IF Repeat(t) THEN {Restart(t, queue.now)} ELSE {}
  IN  /\ at = "callback" /\ at' = "pop"
      /\ queue' = [queue EXCEPT !.timers = @ \cup again, !.active = @ \cup Sequences(again),
                                !.live = @ \ ({t.sequence} \ Sequences(again)),
                                !.running = NoTimer, !.cancelled = FALSE]
      /\ UNCHANGED <<clock, timerfd, ran, gone>>

(* The callback returns: the timer is inserted again or given back to the pool. *)
CallbackReturns ==
  LET t == queue.running
      again == IF Repeat(t) /\ ~queue.cancelled THEN {Restart(t, queue.now)} ELSE {}
  IN  /\ at = "callback" /\ at' = "pop"
      /\ queue' = [queue EXCEPT !.timers = @ \cup again, !.active = @ \cup Sequences(again),
                                !.live = @ \ ({t.sequence} \ Sequences(again)),
                                !.running = NoTimer, !.cancelled = FALSE]
      /\ UNCHANGED <<clock, timerfd, ran, gone>>

(* PopWhile() is done; the timerfd is set for the next timer. *)
HandleReadDone ==
  /\ at = "pop" /\ ~HasExpired(queue.timers, queue.now)
  /\ at' = "loop"
  /\ timerfd' \in IF queue.timers = {} THEN {timerfd}
                  ELSE ResetTimerfd(Earliest(queue.timers).expiration)
  /\ UNCHANGED <<clock, queue, ran, gone>>

(* ~TimerQueue(), after the loop has ended. *)
Destroy ==
  /\ at = "loop" /\ at' = "destroyed"
  /\ queue' = [queue EXCEPT !.live = @ \ queue.active, !.active = @ \ Sequences(queue.timers),
                            !.timers = {}]
  /\ timerfd' = [deadline |-> 0, readable |-> FALSE]
  /\ UNCHANGED <<clock, ran, gone>>

LoopStep == Poll \/ HandleRead \/ RunTimer \/ CallbackReturns \/ HandleReadDone

Next ==
  \/ Tick \/ Expire \/ LoopStep \/ Destroy
  \/ \E when \in 1..MaxTime, interval \in Intervals : AddTimer(when, interval)
  \/ \E id \in Ids : Cancel(id)

(* The clock and the kernel go on, and so does a loop that runs. *)
Fairness == WF_vars(Tick) /\ WF_vars(Expire) /\ WF_vars(LoopStep)

Spec == Init /\ [][Next]_vars /\ Fairness

-----------------------------------------------------------------------------
(* A timer is in one place: in the index and in the registry, or running;  *)
(* and the pool gets back exactly the ones that are in neither.            *)
TimerOwnedOnce ==
  /\ queue.active = Sequences(queue.timers)
  /\ queue.running.sequence \notin queue.active
  /\ queue.live = queue.active \cup (Sequences({queue.running}) \ {0})

(* While the loop polls, the timerfd is readable or set early enough for   *)
(* the earliest timer.                                                     *)
TimerfdIsArmed ==
  at = "loop" /\ queue.timers # {} =>
    \/ timerfd.readable
    \/ LET t == Earliest(queue.timers)
       IN  timerfd.deadline # 0
           /\ \/ timerfd.deadline <= t.expiration
              \/ timerfd.deadline <= clock + MinDelay

(* A callback is called when its timer has expired and no timer before it  *)
(* waits, once unless it repeats, and never after its timer was cancelled, *)
(* by whichever callback or handler.                                       *)
EpollRunsAreDue ==
  [][\A t \in queue.timers : ran'[t.sequence] # ran[t.sequence] =>
       /\ t.expiration <= clock
       /\ \A u \in queue.timers \ {t} : TimerLess(t, u)
       /\ t.sequence \notin gone
       /\ Repeat(t) \/ ran[t.sequence] = 0]_vars
================================================================================
