------------------------------ MODULE TimerIndex ------------------------------
(***************************************************************************)
(* Timers (include/alyrn/detail/timer.h) and the index that orders them    *)
(* (timer_index.h), shared by the timer queues of both backends.  A timer  *)
(* is named by its sequence number, which is also its TimerId.  The index  *)
(* is a red-black tree; IntrusiveTree shows that the tree is the ordered   *)
(* set that is used here.                                                  *)
(***************************************************************************)
EXTENDS Naturals

CONSTANTS
  MaxTimers,   \* bound: timers that are added
  MaxTime,     \* bound: last expiration, and last time at which user code acts
  Intervals    \* intervals of timers; 0 is a timer that runs once

ASSUME TimerConstants == MaxTimers \in Nat /\ MaxTime \in Nat /\ Intervals \subseteq Nat

(* A positive interval makes a repeating timer. *)
Timer(sequence, when, interval) ==
  [sequence |-> sequence, expiration |-> when, interval |-> interval]

Repeat(timer) == timer.interval > 0

Restart(timer, now) == [timer EXCEPT !.expiration = now + timer.interval]

(* Compares expirations only: equal ones are in no order. *)
BugTimerLess(a, b) == a.expiration <= b.expiration

TimerLess(a, b) ==
  \/ a.expiration < b.expiration
  \/ a.expiration = b.expiration /\ a.sequence < b.sequence

Earliest(timers) == CHOOSE t \in timers : \A u \in timers \ {t} : TimerLess(t, u)

Sequences(timers) == {t.sequence : t \in timers}

(* The test of PopWhile(): the earliest timer has expired. *)
HasExpired(timers, now) == timers # {} /\ Earliest(timers).expiration <= now
===============================================================================
