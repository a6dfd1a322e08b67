------------------------------ MODULE TimerProofs ------------------------------
(***************************************************************************)
(* The timers of both loops: the queue of epoll, the one of uring, of      *)
(* which UringTimerProofs speaks, and the sleeps and the channels of       *)
(* LoopTimers, for any number of timers, any intervals and delays and any  *)
(* length of time.                                                         *)
(***************************************************************************)
EXTENDS MCTimers, TimerIndexProofs

-----------------------------------------------------------------------------
(* epoll::detail::TimerQueue.                                              *)

EpollQueueType ==
  [timers : SUBSET TimerType, active : SUBSET Nat, live : SUBSET Nat, running : TimerType,
   cancelled : BOOLEAN, now : Nat, added : Nat]

EpollPlaces == {"loop", "batch", "pop", "callback", "destroyed"}

EpollTypeOK ==
  /\ clock \in Nat /\ at \in EpollPlaces /\ queue \in EpollQueueType
  /\ timerfd \in [deadline : Nat, readable : BOOLEAN]

(* The pool has given out the timers of the registry and the one that runs, which is none
   outside a callback; HandleRead() has not read the future. *)
EpollLive ==
  /\ queue.live = queue.active \cup ({queue.running.sequence} \ {0})
  /\ at = "callback" <=> queue.running.sequence # 0
  /\ queue.now <= clock

(* The timerfd fd is readable, or set early enough for the index T. *)
Wakes(fd, T) ==
  \/ fd.readable
  \/ /\ fd.deadline # 0
     /\ fd.deadline <= Earliest(T).expiration \/ fd.deadline <= clock + 1

EpollArmed == at = "loop" /\ queue.timers # {} => Wakes(timerfd, queue.timers)

EpollBook ==
  Book(queue.timers, queue.active, queue.running, queue.cancelled, queue.added,
       ran, gone, MaxTimers)

EpollIInv == EpollTypeOK /\ EpollLive /\ EpollArmed /\ EpollBook

(* SetTimerfd() sets the timerfd for an expiration, or for the shortest delay. *)
LEMMA ResetWakes ==
  ASSUME clock \in Nat, NEW when \in Nat, NEW fd \in ResetTimerfd(when),
         NEW T, Earliest(T).expiration = when
  PROVE  fd \in [deadline : Nat, readable : BOOLEAN] /\ Wakes(fd, T)
  <1>1. PICK lost \in 0..1 :
          fd = SetTime(IF when < clock + lost + 1 THEN 1 ELSE when - clock - lost)
    BY DEF ResetTimerfd, MinDelay
  <1> DEFINE delay == IF when < clock + lost + 1 THEN 1 ELSE when - clock - lost
  <1>2. /\ delay \in Nat /\ delay # 0 /\ clock + delay \in Nat /\ clock + delay # 0
        /\ clock + delay <= when \/ clock + delay <= clock + 1
    OBVIOUS
  <1>3. fd = SetTime(delay)
    BY <1>1
  <1> HIDE DEF delay
  <1>4. fd = [deadline |-> clock + delay, readable |-> FALSE]
    BY <1>2, <1>3 DEF SetTime
  <1>5. QED
    BY <1>2, <1>4 DEF Wakes

(* A new queue. *)
LEMMA EpollInitIInv == Init => EpollIInv
  <1> SUFFICES ASSUME Init PROVE EpollIInv
    OBVIOUS
  <1> DEFINE none == Timer(0, 0, 0)
  <1>1. none \in TimerType /\ none.sequence = 0
    BY DEF Timer, TimerType
  <1>2. NoTimer = none
    BY DEF NoTimer
  <1> HIDE DEF none
  <1>3. /\ clock = 0 /\ at = "loop"
        /\ queue = [timers |-> {}, active |-> {}, live |-> {}, running |-> none,
                     cancelled |-> FALSE, now |-> 0, added |-> 0]
        /\ timerfd = [deadline |-> 0, readable |-> FALSE]
        /\ ran = [i \in 1..MaxTimers |-> 0] /\ gone = {}
    BY <1>2 DEF Init, Ids
  <1>4. EpollTypeOK
    BY <1>1, <1>3 DEF EpollTypeOK, EpollQueueType, EpollPlaces
  <1>5. EpollLive /\ EpollArmed
    BY <1>1, <1>3 DEF EpollLive, EpollArmed
  <1>6. EpollBook
    BY <1>1, <1>3, TimerConstants DEF EpollBook, Book, OneEach, Sequences
  <1>7. QED
    BY <1>4, <1>5, <1>6 DEF EpollIInv

(* AddTimer(): the timerfd is set again only if the new timer comes first. *)
LEMMA EpollAddKeeps ==
  ASSUME EpollIInv, NEW when \in Nat, NEW interval \in Nat, AddTimer(when, interval)
  PROVE  EpollIInv'
  <1> DEFINE T == queue.timers
             t == Timer(queue.added + 1, when, interval)
  <1>1. /\ EpollTypeOK /\ EpollLive /\ EpollArmed /\ EpollBook /\ queue \in EpollQueueType
        /\ T \in SUBSET TimerType /\ OneEach(T)
    BY DEF EpollIInv, EpollTypeOK, EpollBook, Book
  <1>2. /\ at # "destroyed" /\ queue.added < MaxTimers
        /\ queue' = [queue EXCEPT !.timers = T \cup {t}, !.active = @ \cup {t.sequence},
                                    !.live = @ \cup {t.sequence}, !.added = @ + 1]
        /\ UNCHANGED <<clock, at, ran, gone>>
    BY <1>1 DEF AddTimer, UserCode, EpollQueueType
  <1>3. /\ T = {} \/ when < Earliest(T).expiration => timerfd' \in ResetTimerfd(when)
        /\ ~(T = {} \/ when < Earliest(T).expiration) => timerfd' = timerfd
    BY DEF AddTimer
  <1>4. /\ t \in TimerType /\ t.expiration = when /\ t.sequence = queue.added + 1
        /\ \A u \in T : u.sequence < t.sequence
        /\ Book(T \cup {t}, queue.active \cup {t.sequence}, queue.running, queue.cancelled,
                queue.added + 1, ran, gone, MaxTimers)
    BY <1>1, <1>2, BookAdd, Zenon DEF EpollBook, Timer
  <1> HIDE DEF t
  <1>5. /\ queue'.timers = T \cup {t} /\ queue'.active = queue.active \cup {t.sequence}
        /\ queue'.live = queue.live \cup {t.sequence} /\ queue'.running = queue.running
        /\ queue'.cancelled = queue.cancelled /\ queue'.added = queue.added + 1
        /\ queue'.now = queue.now /\ queue' \in EpollQueueType
    BY <1>1, <1>2, <1>4, Zenon DEF EpollQueueType, TimerType
  <1>6. /\ T = {} \/ when < Earliest(T).expiration => Earliest(T \cup {t}) = t
        /\ ~(T = {} \/ when < Earliest(T).expiration) => Earliest(T \cup {t}) = Earliest(T)
    BY <1>1, <1>4, EarliestAdd
  <1>7. timerfd' \in [deadline : Nat, readable : BOOLEAN] /\ EpollArmed'
    <2>1. CASE T = {} \/ when < Earliest(T).expiration
      <3>1. timerfd' \in [deadline : Nat, readable : BOOLEAN] /\ Wakes(timerfd', T \cup {t})
        BY <1>1, <1>3, <1>4, <1>6, <2>1, ResetWakes DEF EpollTypeOK
      <3>2. QED
        BY <1>2, <1>5, <3>1 DEF EpollArmed, Wakes
    <2>2. CASE ~(T = {} \/ when < Earliest(T).expiration)
      BY <1>1, <1>2, <1>3, <1>5, <1>6, <2>2 DEF EpollTypeOK, EpollArmed, Wakes
    <2>3. QED
      BY <2>1, <2>2
  <1>8. EpollBook'
    BY <1>2, <1>4, <1>5 DEF EpollBook
  <1>9. EpollLive'
    BY <1>1, <1>2, <1>5 DEF EpollLive
  <1>10. EpollTypeOK'
    BY <1>1, <1>2, <1>5, <1>7 DEF EpollTypeOK
  <1>11. QED
    BY <1>7, <1>8, <1>9, <1>10 DEF EpollIInv

(* Cancel(): the timerfd is set again only if the first timer goes and another is left. *)
LEMMA EpollCancelKeeps ==
  ASSUME EpollIInv, NEW id \in Nat \ {0}, Cancel(id)
  PROVE  EpollIInv'
  <1> DEFINE T == queue.timers
             t == CHOOSE u \in T : u.sequence = id
  <1>1. /\ EpollTypeOK /\ EpollLive /\ EpollArmed /\ EpollBook /\ queue \in EpollQueueType
        /\ T \in SUBSET TimerType /\ OneEach(T)
    BY DEF EpollIInv, EpollTypeOK, EpollBook, Book
  <1>2. /\ id <= queue.added /\ gone' = gone \cup {id}
        /\ UNCHANGED <<clock, at, ran>>
    BY DEF Cancel
  <1>3. CASE id \in queue.active
    <2>1. /\ queue' = [queue EXCEPT !.timers = T \ {t}, !.active = @ \ {id}, !.live = @ \ {id}]
          /\ t = Earliest(T) /\ T \ {t} # {}
               => timerfd' \in ResetTimerfd(Earliest(T \ {t}).expiration)
          /\ ~(t = Earliest(T) /\ T \ {t} # {}) => timerfd' = timerfd
      BY <1>3 DEF Cancel
    <2>2. /\ t \in T /\ t.sequence = id
          /\ Book(T \ {t}, queue.active \ {id}, queue.running, queue.cancelled,
                  queue.added, ran, gone \cup {id}, MaxTimers)
      <3>1. queue.active = Sequences(T)
        BY <1>1 DEF EpollBook, Book
      <3>2. t \in T /\ t.sequence = id
        BY <1>3, <3>1 DEF Sequences
      <3> HIDE DEF t
      <3>3. QED
        BY <1>1, <1>3, <3>2, BookCancel DEF EpollBook
    <2> HIDE DEF t
    <2>3. /\ queue'.timers = T \ {t} /\ queue'.active = queue.active \ {id}
          /\ queue'.live = queue.live \ {id} /\ queue'.running = queue.running
          /\ queue'.cancelled = queue.cancelled /\ queue'.added = queue.added
          /\ queue'.now = queue.now /\ queue' \in EpollQueueType
      BY <1>1, <2>1, Zenon DEF EpollQueueType
    <2>4. timerfd' \in [deadline : Nat, readable : BOOLEAN] /\ EpollArmed'
      <3>1. CASE t = Earliest(T) /\ T \ {t} # {}
        <4> DEFINE e == Earliest(T \ {t})
        <4>1. e \in T
          <5>1. T \ {t} \in SUBSET TimerType /\ OneEach(T \ {t})
            BY <1>1 DEF OneEach
          <5>2. QED
            BY <3>1, <5>1, EarliestIs DEF IsEarliest
        <4>2. e.expiration \in Nat
          BY <1>1, <4>1 DEF TimerType
        <4>3. timerfd' \in [deadline : Nat, readable : BOOLEAN] /\ Wakes(timerfd', T \ {t})
          BY <1>1, <2>1, <3>1, <4>2, ResetWakes DEF EpollTypeOK
        <4>4. QED
          BY <1>2, <2>3, <4>3 DEF EpollArmed, Wakes
      <3>2. CASE ~(t = Earliest(T) /\ T \ {t} # {})
        <4>1. T \ {t} # {} => Earliest(T \ {t}) = Earliest(T)
          BY <1>1, <2>2, <3>2, EarliestRemove
        <4>2. QED
          BY <1>1, <1>2, <2>1, <2>3, <3>2, <4>1 DEF EpollTypeOK, EpollArmed, Wakes
      <3>3. QED
        BY <3>1, <3>2
    <2>5. EpollBook'
      BY <1>2, <2>2, <2>3 DEF EpollBook
    <2>6. EpollLive'
      <3>1. queue.running.sequence # id
        BY <1>1, <1>3 DEF EpollBook, Book
      <3>2. QED
        BY <1>1, <1>2, <2>3, <3>1 DEF EpollLive
    <2>7. EpollTypeOK'
      BY <1>1, <1>2, <2>3, <2>4 DEF EpollTypeOK
    <2>8. QED
      BY <2>4, <2>5, <2>6, <2>7 DEF EpollIInv
  <1>4. CASE id \notin queue.active
    <2> DEFINE d == queue.cancelled \/ queue.running.sequence = id
    <2>1. queue' = [queue EXCEPT !.cancelled = d] /\ UNCHANGED timerfd
      BY <1>1, <1>4 DEF Cancel, EpollQueueType
    <2>2. id \in 1..queue.added
      BY <1>1, <1>2 DEF EpollQueueType
    <2>3. Book(T, queue.active, queue.running, d, queue.added, ran, gone \cup {id},
               MaxTimers)
      <3>1. queue.cancelled => d
        OBVIOUS
      <3>2. queue.running.sequence = id /\ Repeat(queue.running) => d
        OBVIOUS
      <3> HIDE DEF d
      <3>3. QED
        BY <1>1, <1>4, <2>2, <3>1, <3>2, BookCancelRunning, Zenon DEF EpollBook
    <2>4. d \in BOOLEAN
      OBVIOUS
    <2> HIDE DEF d
    <2>5. /\ queue'.timers = T /\ queue'.active = queue.active
          /\ queue'.live = queue.live /\ queue'.running = queue.running
          /\ queue'.cancelled = d /\ queue'.added = queue.added
          /\ queue'.now = queue.now /\ queue' \in EpollQueueType
      BY <1>1, <2>1, <2>4 DEF EpollQueueType
    <2>6. EpollBook'
      BY <1>2, <2>3, <2>5 DEF EpollBook
    <2>7. EpollLive' /\ EpollArmed'
      BY <1>1, <1>2, <2>1, <2>5 DEF EpollLive, EpollArmed, Wakes
    <2>8. EpollTypeOK'
      BY <1>1, <1>2, <2>1, <2>5 DEF EpollTypeOK
    <2>9. QED
      BY <2>6, <2>7, <2>8 DEF EpollIInv
  <1>5. QED
    BY <1>3, <1>4

(* RunTimer calls the callback of the earliest timer, which was not cancelled. *)
LEMMA EpollRunKeeps ==
  ASSUME EpollIInv, RunTimer
  PROVE  EpollIInv'
  <1> DEFINE T == queue.timers
             t == Earliest(T)
  <1>1. /\ EpollTypeOK /\ EpollLive /\ EpollBook /\ queue \in EpollQueueType
        /\ T \in SUBSET TimerType /\ OneEach(T)
    BY DEF EpollIInv, EpollTypeOK, EpollBook, Book
  <1>2. /\ at = "pop" /\ HasExpired(T, queue.now) /\ at' = "callback"
        /\ queue' = [queue EXCEPT !.timers = @ \ {t}, !.active = @ \ {t.sequence},
                                    !.running = t, !.cancelled = FALSE]
        /\ ran' = [ran EXCEPT ![t.sequence] = @ + 1]
        /\ UNCHANGED <<clock, timerfd, gone>>
    BY DEF RunTimer
  <1>3. t \in T
    BY <1>1, <1>2, EarliestIs DEF HasExpired, IsEarliest
  <1> HIDE DEF t
  <1>4. Book(T \ {t}, queue.active \ {t.sequence}, t, FALSE, queue.added, ran', gone,
             MaxTimers)
    BY <1>1, <1>2, <1>3, BookRun, Zenon DEF EpollBook
  <1>5. /\ queue'.timers = T \ {t} /\ queue'.active = queue.active \ {t.sequence}
        /\ queue'.live = queue.live /\ queue'.running = t
        /\ queue'.cancelled = FALSE /\ queue'.added = queue.added
        /\ queue'.now = queue.now /\ queue' \in EpollQueueType
    BY <1>1, <1>2, <1>3, Zenon DEF EpollQueueType
  <1>6. t.sequence \in queue.active /\ t.sequence # 0
    BY <1>1, <1>3 DEF EpollBook, Book, Sequences
  <1>7. EpollLive'
    BY <1>1, <1>2, <1>5, <1>6 DEF EpollLive
  <1>8. EpollBook' /\ EpollArmed'
    BY <1>2, <1>4, <1>5, Zenon DEF EpollBook, EpollArmed
  <1>9. EpollTypeOK'
    BY <1>1, <1>2, <1>5 DEF EpollTypeOK, EpollPlaces
  <1>10. QED
    BY <1>7, <1>8, <1>9 DEF EpollIInv

(* The callback returns, and a repeating timer that nobody cancelled is entered again. *)
LEMMA EpollReturnKeeps ==
  ASSUME EpollIInv, CallbackReturns
  PROVE  EpollIInv'
  <1> DEFINE T == queue.timers
             t == queue.running
             again == IF Repeat(t) /\ ~queue.cancelled THEN {Restart(t, queue.now)} ELSE {}
             none == Timer(0, 0, 0)
  <1>1. EpollTypeOK /\ EpollLive /\ EpollBook /\ queue \in EpollQueueType /\ t \in TimerType
    BY DEF EpollIInv, EpollTypeOK, EpollQueueType
  <1>2. /\ at = "callback" /\ at' = "pop"
        /\ queue' = [queue EXCEPT !.timers = @ \cup again, !.active = @ \cup Sequences(again),
                                    !.live = @ \ ({t.sequence} \ Sequences(again)),
                                    !.running = none, !.cancelled = FALSE]
        /\ UNCHANGED <<clock, timerfd, ran, gone>>
    BY DEF CallbackReturns, NoTimer
  <1>3. t.sequence # 0 /\ queue.now \in Nat /\ queue.cancelled \in BOOLEAN
    BY <1>1, <1>2 DEF EpollLive, EpollQueueType
  <1>4. Book(T \cup again, queue.active \cup Sequences(again), none, FALSE, queue.added,
             ran, gone, MaxTimers)
    BY <1>1, <1>3, BookReturn, Zenon DEF EpollBook
  <1>5. /\ again \subseteq TimerType /\ Sequences(again) \subseteq {t.sequence}
        /\ Sequences(again) \subseteq Nat
    BY <1>1, <1>3 DEF Restart, TimerType, Sequences
  <1>6. none \in TimerType /\ none.sequence = 0
    BY DEF Timer, TimerType
  <1> HIDE DEF again, none
  <1>7. /\ queue'.timers = T \cup again /\ queue'.active = queue.active \cup Sequences(again)
        /\ queue'.live = queue.live \ ({t.sequence} \ Sequences(again))
        /\ queue'.running = none /\ queue'.cancelled = FALSE
        /\ queue'.added = queue.added /\ queue'.now = queue.now
        /\ queue' \in EpollQueueType
    BY <1>1, <1>2, <1>5, <1>6, Zenon DEF EpollQueueType
  <1>8. t.sequence \notin queue.active
    BY <1>1 DEF EpollBook, Book
  <1>9. EpollLive'
    BY <1>1, <1>2, <1>3, <1>5, <1>6, <1>7, <1>8 DEF EpollLive
  <1>10. EpollBook' /\ EpollArmed'
    BY <1>2, <1>4, <1>7, Zenon DEF EpollBook, EpollArmed
  <1>11. EpollTypeOK'
    BY <1>1, <1>2, <1>7 DEF EpollTypeOK, EpollPlaces
  <1>12. QED
    BY <1>9, <1>10, <1>11 DEF EpollIInv

(* The other steps of the queue, of the clock and of the kernel. *)
LEMMA EpollOtherKeeps ==
  ASSUME EpollIInv,
         \/ Tick \/ Expire \/ Poll \/ HandleRead
         \/ HandleReadDone \/ Destroy
  PROVE  EpollIInv'
  <1>1. /\ EpollTypeOK /\ EpollLive /\ EpollArmed /\ EpollBook /\ queue \in EpollQueueType
        /\ queue.timers \in SUBSET TimerType /\ OneEach(queue.timers)
    BY DEF EpollIInv, EpollTypeOK, EpollBook, Book
  <1>2. CASE Tick
    <2>1. clock' = clock + 1 /\ UNCHANGED <<queue, timerfd, at, ran, gone>>
      BY <1>2 DEF Tick
    <2>2. EpollTypeOK' /\ EpollLive' /\ EpollBook'
      BY <1>1, <2>1 DEF EpollTypeOK, EpollLive, EpollBook, EpollQueueType
    <2>3. EpollArmed'
      BY <1>1, <2>1 DEF EpollTypeOK, EpollArmed, Wakes
    <2>4. QED
      BY <2>2, <2>3 DEF EpollIInv
  <1>3. CASE Expire
    <2>1. /\ timerfd' = [deadline |-> 0, readable |-> TRUE]
          /\ UNCHANGED <<clock, queue, at, ran, gone>>
      BY <1>3 DEF Expire
    <2>2. QED
      BY <1>1, <2>1 DEF EpollIInv, EpollTypeOK, EpollLive, EpollArmed, EpollBook, Wakes
  <1>4. CASE Poll
    <2>1. /\ at = "loop" /\ at' = "batch"
          /\ UNCHANGED <<clock, queue, timerfd, ran, gone>>
      BY <1>4 DEF Poll
    <2>2. QED
      BY <1>1, <2>1
         DEF EpollIInv, EpollTypeOK, EpollLive, EpollArmed, EpollBook, EpollPlaces
  <1>5. CASE HandleRead
    <2>1. /\ at = "batch" /\ at' = "pop" /\ queue' = [queue EXCEPT !.now = clock]
          /\ timerfd' = [timerfd EXCEPT !.readable = FALSE]
          /\ UNCHANGED <<clock, ran, gone>>
      BY <1>5 DEF HandleRead, ReadTimerfd
    <2>2. /\ queue'.timers = queue.timers /\ queue'.active = queue.active
          /\ queue'.live = queue.live /\ queue'.running = queue.running
          /\ queue'.cancelled = queue.cancelled /\ queue'.added = queue.added
          /\ queue'.now = clock /\ queue' \in EpollQueueType
      BY <1>1, <2>1 DEF EpollTypeOK, EpollQueueType
    <2>3. EpollTypeOK'
      BY <1>1, <2>1, <2>2, Zenon DEF EpollTypeOK, EpollPlaces
    <2>4. EpollLive' /\ EpollArmed' /\ EpollBook'
      BY <1>1, <2>1, <2>2 DEF EpollLive, EpollArmed, EpollBook, EpollTypeOK
    <2>5. QED
      BY <2>3, <2>4 DEF EpollIInv
  <1>6. CASE HandleReadDone
    <2> DEFINE T == queue.timers
    <2>1. /\ at = "pop" /\ at' = "loop" /\ UNCHANGED <<clock, queue, ran, gone>>
          /\ T = {} => timerfd' = timerfd
          /\ T # {} => timerfd' \in ResetTimerfd(Earliest(T).expiration)
      BY <1>6 DEF HandleReadDone
    <2>2. timerfd' \in [deadline : Nat, readable : BOOLEAN] /\ EpollArmed'
      <3>1. CASE T = {}
        BY <1>1, <2>1, <3>1 DEF EpollTypeOK, EpollArmed
      <3>2. CASE T # {}
        <4>1. Earliest(T).expiration \in Nat
          BY <1>1, <3>2, EarliestIs DEF IsEarliest, TimerType
        <4>2. timerfd' \in [deadline : Nat, readable : BOOLEAN] /\ Wakes(timerfd', T)
          BY <1>1, <2>1, <3>2, <4>1, ResetWakes DEF EpollTypeOK
        <4>3. QED
          BY <2>1, <4>2 DEF EpollArmed, Wakes
      <3>3. QED
        BY <3>1, <3>2
    <2>3. QED
      BY <1>1, <2>1, <2>2 DEF EpollIInv, EpollTypeOK, EpollLive, EpollBook, EpollPlaces
  <1>7. CASE Destroy
    <2>1. /\ at = "loop" /\ at' = "destroyed"
          /\ queue' = [queue EXCEPT !.live = @ \ queue.active,
                                      !.active = @ \ Sequences(queue.timers), !.timers = {}]
          /\ timerfd' = [deadline |-> 0, readable |-> FALSE]
          /\ UNCHANGED <<clock, ran, gone>>
      BY <1>7 DEF Destroy
    <2>2. queue.active = Sequences(queue.timers) /\ queue.running.sequence = 0
      BY <1>1, <2>1 DEF EpollBook, Book, EpollLive
    <2>3. /\ queue'.timers = {} /\ queue'.active = {} /\ queue'.live = {}
          /\ queue'.running = queue.running /\ queue'.cancelled = queue.cancelled
          /\ queue'.added = queue.added /\ queue'.now = queue.now
          /\ queue' \in EpollQueueType
      BY <1>1, <2>1, <2>2, Zenon DEF EpollQueueType, EpollLive
    <2>4. EpollBook'
      BY <1>1, <2>1, <2>3, BookClear DEF EpollBook
    <2>5. EpollTypeOK'
      BY <1>1, <2>1, <2>3 DEF EpollTypeOK, EpollPlaces
    <2>6. EpollLive' /\ EpollArmed'
      BY <1>1, <2>1, <2>2, <2>3 DEF EpollLive, EpollArmed
    <2>7. QED
      BY <2>4, <2>5, <2>6 DEF EpollIInv
  <1>8. QED
    BY <1>2, <1>3, <1>4, <1>5, <1>6, <1>7

(* Every step of the epoll timers keeps the invariant. *)
LEMMA EpollNextIInv == EpollIInv /\ Next => EpollIInv'
  <1> SUFFICES ASSUME EpollIInv, Next PROVE EpollIInv'
    OBVIOUS
  <1>1. ASSUME NEW when \in 1..MaxTime, NEW interval \in Intervals,
               AddTimer(when, interval)
        PROVE  EpollIInv'
    BY <1>1, EpollAddKeeps, TimerConstants
  <1>2. ASSUME NEW id \in Ids, Cancel(id) PROVE EpollIInv'
    BY <1>2, EpollCancelKeeps DEF Ids
  <1>3. CASE LoopStep
    BY <1>3, EpollOtherKeeps, EpollRunKeeps, EpollReturnKeeps DEF LoopStep
  <1>4. QED
    BY <1>1, <1>2, <1>3, EpollOtherKeeps DEF Next

(* What a step may do to a timer in the queue, as EpollRunsAreDue says. *)
EpollDue ==
  \A t \in queue.timers : ran'[t.sequence] # ran[t.sequence] =>
    /\ t.expiration <= clock
    /\ \A u \in queue.timers \ {t} : TimerLess(t, u)
    /\ t.sequence \notin gone
    /\ Repeat(t) \/ ran[t.sequence] = 0

(* Only RunTimer calls a callback, that of the first timer, which has expired. *)
LEMMA EpollRunsDue == EpollIInv /\ Next => EpollDue
  <1> SUFFICES ASSUME EpollIInv, Next, NEW t \in queue.timers,
                      ran'[t.sequence] # ran[t.sequence]
               PROVE  /\ t.expiration <= clock
                      /\ \A u \in queue.timers \ {t} : TimerLess(t, u)
                      /\ t.sequence \notin gone
                      /\ Repeat(t) \/ ran[t.sequence] = 0
    BY DEF EpollDue
  <1> DEFINE T == queue.timers
  <1>1. /\ EpollTypeOK /\ EpollLive /\ EpollBook /\ queue \in EpollQueueType
        /\ T \in SUBSET TimerType /\ OneEach(T)
    BY DEF EpollIInv, EpollTypeOK, EpollBook, Book
  <1>2. RunTimer
    BY Zenon DEF Next, Tick, Expire, LoopStep,
           Poll, HandleRead, CallbackReturns,
           HandleReadDone, Destroy, AddTimer,
           Cancel
  <1>3. /\ HasExpired(T, queue.now)
        /\ ran' = [ran EXCEPT ![Earliest(T).sequence] = @ + 1]
    BY <1>2 DEF RunTimer
  <1>4. IsEarliest(T, Earliest(T))
    BY <1>1, EarliestIs
  <1>5. t.sequence \in 1..MaxTimers /\ ran \in [1..MaxTimers -> Nat]
    <2>1. t.sequence \in queue.active /\ queue.active \subseteq 1..queue.added
      BY <1>1 DEF EpollBook, Book, Sequences
    <2>2. queue.added \in Nat /\ MaxTimers \in Nat /\ queue.added <= MaxTimers
      BY <1>1 DEF EpollBook, Book
    <2>3. QED
      BY <1>1, <2>1, <2>2 DEF EpollBook, Book
  <1>6. t.sequence = Earliest(T).sequence
    BY <1>3, <1>5
  <1>7. t = Earliest(T)
    BY <1>1, <1>4, <1>6 DEF IsEarliest, OneEach
  <1>8. t.expiration <= clock
    BY <1>1, <1>3, <1>7 DEF HasExpired, EpollLive, EpollTypeOK, EpollQueueType, TimerType
  <1>9. t.sequence \notin gone /\ (Repeat(t) \/ ran[t.sequence] = 0)
    BY <1>1 DEF EpollBook, Book, Sequences
  <1>10. QED
    BY <1>4, <1>7, <1>8, <1>9 DEF IsEarliest

(* A timer is in the index and the registry, or runs: what the pool has given out. *)
LEMMA EpollOwned == EpollIInv => TimerOwnedOnce
  <1> SUFFICES ASSUME EpollIInv PROVE TimerOwnedOnce
    OBVIOUS
  <1>1. /\ queue.active = Sequences(queue.timers)
        /\ queue.running.sequence \notin queue.active
        /\ queue.live = queue.active \cup ({queue.running.sequence} \ {0})
    BY DEF EpollIInv, EpollBook, Book, EpollLive
  <1>2. Sequences({queue.running}) = {queue.running.sequence}
    BY DEF Sequences
  <1>3. QED
    BY <1>1, <1>2 DEF TimerOwnedOnce

(* The timerfd is set early enough. *)
LEMMA EpollWoken == EpollIInv => TimerfdIsArmed
  BY DEF EpollIInv, EpollArmed, TimerfdIsArmed, Wakes, MinDelay

(* A queue that does not move keeps the invariant. *)
LEMMA EpollStays == EpollIInv /\ UNCHANGED vars => EpollIInv'
  BY DEF EpollIInv, vars, EpollTypeOK, EpollLive, EpollArmed, EpollBook, Wakes
-----------------------------------------------------------------------------
(* SleepFor() and the channels of Timer and Ticker.                        *)

ChanType ==
  [alive : BOOLEAN, closed : BOOLEAN, slot : Nat, timer : BOOLEAN, next : Nat, period : Nat,
   registered : BOOLEAN, fired : Nat]

ReceiverType == [waiting : BOOLEAN, got : Nat]

SleepType ==
  [at : {"idle", "suspended", "queued", "done"}, deadline : Nat,
   result : {"none", "ok", "error", "ECANCELED"}, timer : BOOLEAN, registered : BOOLEAN]

(* A channel c is entered with the loop as long as it is open.  What it holds while it is
   open, and the firing to come, are not older than d allows, and a firing is not repeated. *)
ChanInv(c, r, l, d, now) ==
  /\ c \in ChanType /\ r \in ReceiverType /\ d \in Nat
  /\ c.timer => c.registered
  /\ c.registered <=> c.alive /\ ~c.closed
  /\ l = "stopped" => ~c.registered
  /\ r.waiting => c.registered /\ c.slot = 0
  /\ c.slot # 0 /\ ~c.closed => d # 0 /\ c.slot >= d
  /\ c.timer => d # 0 /\ c.next >= d
  /\ c.timer /\ c.period > 0 => c.next > c.fired
  /\ c.fired <= now

(* A sleep is entered with the loop while it is suspended, and has no result until then. *)
SleepInv(s, now) ==
  /\ s \in SleepType
  /\ s.timer <=> s.at = "suspended"
  /\ s.registered <=> s.at = "suspended"
  /\ s.at \in {"idle", "suspended"} => s.result = "none"
  /\ s.at = "queued" /\ s.result = "ok" => now >= s.deadline

TimersIInv ==
  /\ lclock \in Nat \ {0} /\ loop \in {"running", "stopping", "stopped"}
  /\ ChanInv(chan, receiver, loop, due, lclock) /\ SleepInv(sleep, lclock)

(* CloseChannel() lets a receiver go. *)
LEMMA CloseKeeps ==
  ASSUME NEW c \in ChanType, NEW r \in ReceiverType, NEW l, NEW d \in Nat, NEW now,
         ~c.timer, ~c.registered, c.fired <= now, Timers!CloseChannel(c, r)
  PROVE  /\ ChanInv(chan', receiver', l, d, now) /\ receiver'.got \in {0, r.got}
         /\ chan'.slot = c.slot
  <1>1. chan' = [c EXCEPT !.closed = TRUE]
    BY DEF Timers!CloseChannel
  <1>2. /\ chan' \in ChanType /\ chan'.closed /\ chan'.timer = c.timer
        /\ chan'.registered = c.registered /\ chan'.slot = c.slot /\ chan'.fired = c.fired
    BY <1>1, Zenon DEF ChanType
  <1>3. receiver' \in ReceiverType /\ ~receiver'.waiting /\ receiver'.got \in {0, r.got}
    <2>1. CASE r.waiting
      <3>1. receiver' = [waiting |-> FALSE, got |-> 0]
        BY <2>1 DEF Timers!CloseChannel
      <3>2. QED
        BY <3>1 DEF ReceiverType
    <2>2. CASE ~r.waiting
      BY <2>2 DEF Timers!CloseChannel
    <2>3. QED
      BY <2>1, <2>2
  <1>4. QED
    BY <1>2, <1>3 DEF ChanInv

(* Arm() enters the timer, or closes the channel. *)
LEMMA ArmKeeps ==
  ASSUME NEW c \in ChanType, NEW r \in ReceiverType, NEW d \in Nat \ {0}, NEW now \in Nat,
         NEW when \in Nat, when >= d, c.period > 0 => when > c.fired, ~c.timer,
         c.registered, c.alive, ~c.closed, r.waiting => c.slot = 0,
         c.slot # 0 => c.slot >= d, c.fired <= now, loop # "stopped", Timers!Arm(c, r, when)
  PROVE  /\ ChanInv(chan', receiver', loop, d, now) /\ receiver'.got \in {0, r.got}
         /\ chan'.slot = c.slot
  <1>1. CASE receiver' = r /\ chan' = [c EXCEPT !.next = when, !.timer = TRUE]
    <2>1. /\ chan' \in ChanType /\ chan'.closed = c.closed /\ chan'.alive = c.alive
          /\ chan'.registered = c.registered /\ chan'.slot = c.slot /\ chan'.fired = c.fired
          /\ chan'.period = c.period /\ chan'.next = when
      BY <1>1, Zenon DEF ChanType
    <2>2. QED
      BY <1>1, <2>1 DEF ChanInv
  <1>2. CASE Timers!CloseChannel([c EXCEPT !.next = when, !.registered = FALSE], r)
    <2> DEFINE e == [c EXCEPT !.next = when, !.registered = FALSE]
    <2>1. /\ e \in ChanType /\ e.timer = c.timer /\ ~e.registered /\ e.slot = c.slot
          /\ e.fired = c.fired
      BY Zenon DEF ChanType
    <2>2. Timers!CloseChannel(e, r)
      BY <1>2
    <2> HIDE DEF e
    <2>3. QED
      BY <2>1, <2>2, CloseKeeps
  <1>3. QED
    BY <1>1, <1>2 DEF Timers!Arm

(* What a step may do to a firing or a sleep, as Timers!FiringsAreCurrent says. *)
ReceiveCurrent ==
  /\ receiver'.got \notin {0, receiver.got} =>
       \/ due # 0 /\ receiver'.got >= due
       \/ chan.closed /\ receiver'.got = chan.slot
  /\ chan'.slot # 0 =>
       IF chan.closed THEN chan'.slot = chan.slot ELSE due' # 0 /\ chan'.slot >= due'

SleepCurrent ==
  /\ sleep'.result = "ok" /\ sleep'.at = "queued" => lclock >= sleep.deadline
  /\ sleep.result # "none" => sleep'.result = sleep.result

(* The steps of a sleep. *)
LEMMA SleepKeeps ==
  ASSUME lclock \in Nat \ {0}, SleepInv(sleep, lclock),
         \/ \E delay \in Nat : Timers!SleepFor(delay)
         \/ Timers!SleepExpires \/ Timers!SleepResumes \/ Timers!SleepDestroyed
  PROVE  SleepInv(sleep', lclock) /\ SleepCurrent
  <1>1. /\ sleep \in SleepType /\ (sleep.timer <=> sleep.at = "suspended")
        /\ (sleep.registered <=> sleep.at = "suspended")
        /\ sleep.at \in {"idle", "suspended"} => sleep.result = "none"
        /\ sleep.at = "queued" /\ sleep.result = "ok" => lclock >= sleep.deadline
    BY DEF SleepInv
  <1>2. ASSUME NEW delay \in Nat, Timers!SleepFor(delay)
        PROVE  SleepInv(sleep', lclock) /\ SleepCurrent
    <2>1. sleep.at = "idle" /\ ~sleep.timer /\ ~sleep.registered /\ sleep.result = "none"
      BY <1>1, <1>2, Zenon DEF Timers!SleepFor
    <2>2. CASE \E result \in {"ECANCELED", "ok", "error"} :
                 sleep' = [sleep EXCEPT !.at = "done", !.result = result]
      <3>1. PICK result \in {"ECANCELED", "ok", "error"} :
              sleep' = [sleep EXCEPT !.at = "done", !.result = result]
        BY <2>2, Zenon
      <3>2. /\ sleep' \in SleepType /\ sleep'.at = "done" /\ sleep'.timer = sleep.timer
            /\ sleep'.registered = sleep.registered
        BY <1>1, <3>1, Zenon DEF SleepType
      <3>3. QED
        BY <2>1, <3>2 DEF SleepInv, SleepCurrent
    <2>3. CASE sleep' = [sleep EXCEPT !.at = "suspended", !.deadline = lclock + delay,
                                      !.timer = TRUE, !.registered = TRUE]
      <3>1. lclock + delay \in Nat
        OBVIOUS
      <3>2. /\ sleep' \in SleepType /\ sleep'.at = "suspended" /\ sleep'.timer
            /\ sleep'.registered /\ sleep'.result = sleep.result
        BY <1>1, <2>3, <3>1, Zenon DEF SleepType
      <3>3. QED
        BY <2>1, <3>2 DEF SleepInv, SleepCurrent
    <2>4. QED
      BY <1>2, <2>2, <2>3, Zenon DEF Timers!SleepFor
  <1>3. CASE Timers!SleepExpires
    <2>1. PICK result \in {"ECANCELED", "ok"} :
            sleep' = [sleep EXCEPT !.at = "queued", !.result = result, !.timer = FALSE,
                                   !.registered = FALSE]
      BY <1>3, Zenon DEF Timers!SleepExpires, Timers!Complete
    <2>2. lclock >= sleep.deadline /\ sleep.result = "none"
      BY <1>1, <1>3 DEF Timers!SleepExpires
    <2>3. /\ sleep' \in SleepType /\ sleep'.at = "queued" /\ ~sleep'.timer
          /\ ~sleep'.registered /\ sleep'.deadline = sleep.deadline
      BY <1>1, <2>1, Zenon DEF SleepType
    <2>4. QED
      BY <2>2, <2>3 DEF SleepInv, SleepCurrent
  <1>4. CASE Timers!SleepResumes
    <2>1. sleep.at = "queued" /\ sleep' = [sleep EXCEPT !.at = "done"]
      BY <1>4 DEF Timers!SleepResumes
    <2>2. /\ sleep' \in SleepType /\ sleep'.at = "done" /\ sleep'.timer = sleep.timer
          /\ sleep'.registered = sleep.registered /\ sleep'.result = sleep.result
      BY <1>1, <2>1 DEF SleepType
    <2>3. QED
      BY <1>1, <2>1, <2>2 DEF SleepInv, SleepCurrent
  <1>5. CASE Timers!SleepDestroyed
    <2>1. sleep' = [sleep EXCEPT !.at = "done", !.timer = FALSE, !.registered = FALSE]
      BY <1>5 DEF Timers!SleepDestroyed
    <2>2. /\ sleep' \in SleepType /\ sleep'.at = "done" /\ ~sleep'.timer
          /\ ~sleep'.registered /\ sleep'.result = sleep.result
      BY <1>1, <2>1, Zenon DEF SleepType
    <2>3. QED
      BY <1>1, <2>2 DEF SleepInv, SleepCurrent
  <1>6. QED
    BY <1>2, <1>3, <1>4, <1>5

(* What is known of the channel. *)
LEMMA ChanParts ==
  ASSUME TimersIInv
  PROVE  /\ chan \in ChanType /\ receiver \in ReceiverType /\ due \in Nat /\ lclock \in Nat
         /\ lclock > 0
         /\ chan.timer => chan.registered
         /\ chan.registered <=> chan.alive /\ ~chan.closed
         /\ loop = "stopped" => ~chan.registered
         /\ receiver.waiting => chan.registered /\ chan.slot = 0
         /\ chan.slot # 0 /\ ~chan.closed => due # 0 /\ chan.slot >= due
         /\ chan.timer => due # 0 /\ chan.next >= due
         /\ chan.fired <= lclock
  BY DEF TimersIInv, ChanInv

(* The constructor. *)
LEMMA NewTimerKeeps ==
  ASSUME TimersIInv, NEW delay \in Nat, NEW period \in Nat, period > 0 => delay > 0,
         Timers!NewTimer(delay, period)
  PROVE  ChanInv(chan', receiver', loop, due', lclock) /\ ReceiveCurrent
  <1> DEFINE c == [chan EXCEPT !.alive = TRUE, !.closed = FALSE, !.slot = 0, !.period = period,
                               !.fired = 0]
             e == [c EXCEPT !.registered = TRUE]
  <1>1. /\ ~chan.alive /\ ~chan.registered /\ ~chan.timer /\ ~receiver.waiting
        /\ chan \in ChanType /\ receiver \in ReceiverType /\ lclock \in Nat /\ lclock > 0
    BY ChanParts DEF Timers!NewTimer
  <1>2. /\ c \in ChanType /\ c.slot = 0 /\ c.fired = 0 /\ c.timer = chan.timer
        /\ c.registered = chan.registered
    BY <1>1, Zenon DEF ChanType
  <1>3. /\ e \in ChanType /\ e.slot = 0 /\ e.fired = 0 /\ e.timer = chan.timer
        /\ e.registered /\ e.alive /\ ~e.closed /\ e.period = period
    BY <1>1, Zenon DEF ChanType
  <1>4. /\ \/ Timers!CloseChannel(c, receiver) /\ due' = 0
           \/ /\ loop = "running" /\ Timers!Arm(e, receiver, lclock + delay)
              /\ due' = lclock + delay
    BY DEF Timers!NewTimer, Timers!Stopping
  <1> HIDE DEF c, e
  <1>5. CASE Timers!CloseChannel(c, receiver) /\ due' = 0
    BY <1>1, <1>2, <1>5, CloseKeeps DEF ReceiveCurrent
  <1>6. CASE loop = "running" /\ Timers!Arm(e, receiver, lclock + delay) /\ due' = lclock + delay
    <2>1. lclock + delay \in Nat \ {0} /\ lclock + delay >= lclock + delay
      BY <1>1
    <2>2. QED
      BY <1>1, <1>3, <1>6, <2>1, ArmKeeps DEF ReceiveCurrent
  <1>7. QED
    BY <1>4, <1>5, <1>6

(* StopFiring() takes the timer and the firing that was not received. *)
LEMMA SilencedIs ==
  ASSUME NEW c \in ChanType
  PROVE  LET s == Timers!Silenced(c)
         IN  /\ s \in ChanType /\ ~s.timer /\ s.alive = c.alive /\ s.closed = c.closed
             /\ s.registered = c.registered /\ s.period = c.period /\ s.fired = c.fired
             /\ c.closed => s.slot = c.slot
             /\ ~c.closed => s.slot = 0
  <1> DEFINE slot == IF c.closed THEN c.slot ELSE 0
  <1>1. slot \in Nat /\ (c.closed => slot = c.slot) /\ (~c.closed => slot = 0)
    BY DEF ChanType
  <1>2. Timers!Silenced(c) = [c EXCEPT !.timer = FALSE, !.slot = slot]
    BY DEF Timers!Silenced, ChanType
  <1> HIDE DEF slot
  <1>3. QED
    BY <1>1, <1>2, Zenon DEF ChanType

(* Stop() and Reset(). *)
LEMMA StopResetKeeps ==
  ASSUME TimersIInv,
         Timers!StopFiring \/ \E delay \in Nat : Timers!Rearm(delay)
  PROVE  ChanInv(chan', receiver', loop, due', lclock) /\ ReceiveCurrent
  <1> DEFINE s == Timers!Silenced(chan)
  <1>1. /\ chan \in ChanType /\ receiver \in ReceiverType /\ due \in Nat /\ lclock \in Nat
        /\ lclock > 0 /\ (chan.registered <=> chan.alive /\ ~chan.closed)
        /\ loop = "stopped" => ~chan.registered
        /\ receiver.waiting => chan.registered /\ chan.slot = 0
        /\ chan.fired <= lclock
    BY ChanParts
  <1>2. /\ s \in ChanType /\ ~s.timer /\ s.alive = chan.alive /\ s.closed = chan.closed
        /\ s.registered = chan.registered /\ s.period = chan.period /\ s.fired = chan.fired
        /\ chan.closed => s.slot = chan.slot
        /\ ~chan.closed => s.slot = 0
    BY <1>1, SilencedIs
  <1> HIDE DEF s
  <1>3. CASE Timers!StopFiring
    <2>1. /\ chan' = s /\ receiver' = receiver
          /\ due' = 0
      BY <1>3 DEF Timers!StopFiring, s
    <2>2. receiver'.got = receiver.got
      BY <2>1
    <2>3. QED
      BY <1>1, <1>2, <2>1, <2>2 DEF ChanInv, ReceiveCurrent
  <1>4. ASSUME NEW delay \in Nat, Timers!Rearm(delay)
        PROVE  ChanInv(chan', receiver', loop, due', lclock) /\ ReceiveCurrent
    <2> DEFINE p == IF s.period = 0 THEN 0 ELSE delay
               c == [s EXCEPT !.period = p]
    <2>1. p \in Nat /\ (chan.period > 0 => delay > 0)
      BY <1>4 DEF Timers!Rearm
    <2>2. /\ c \in ChanType /\ c.timer = s.timer /\ c.alive = s.alive /\ c.closed = s.closed
          /\ c.registered = s.registered /\ c.fired = s.fired /\ c.slot = s.slot
          /\ c.period = p
      BY <1>2, <2>1 DEF ChanType
    <2>3. \/ ~chan.registered /\ chan' = c /\ receiver' = receiver /\ due' = 0
          \/ /\ chan.registered /\ Timers!Arm(c, receiver, lclock + delay)
             /\ due' = lclock + delay
      BY <1>2, <1>4 DEF Timers!Rearm, ChanType, s
    <2>4. c.period > 0 => delay > 0
      BY <1>1, <1>2, <2>1, <2>2 DEF ChanType
    <2> HIDE DEF c, p
    <2>5. CASE ~chan.registered /\ chan' = c /\ receiver' = receiver /\ due' = 0
      <3>1. c.slot # 0 => chan.closed /\ c.slot = chan.slot
        BY <1>1, <1>2, <2>2
      <3>2. QED
        BY <1>1, <1>2, <2>2, <2>5, <3>1 DEF ChanInv, ReceiveCurrent
    <2>6. CASE /\ chan.registered /\ Timers!Arm(c, receiver, lclock + delay)
               /\ due' = lclock + delay
      <3>1. /\ lclock + delay \in Nat \ {0} /\ lclock + delay >= lclock + delay
            /\ delay > 0 => lclock + delay > c.fired
        BY <1>1, <1>2, <2>2 DEF ChanType
      <3>2. c.registered /\ c.alive /\ ~c.closed /\ c.slot = 0 /\ ~c.timer /\ loop # "stopped"
        BY <1>1, <1>2, <2>2, <2>6
      <3>3. QED
        BY <1>1, <1>2, <2>2, <2>4, <2>6, <3>1, <3>2, ArmKeeps DEF ReceiveCurrent
    <2>7. QED
      BY <2>3, <2>5, <2>6
  <1>5. QED
    BY <1>3, <1>4

(* The firing to come is later than the one that happens. *)
LEMMA NextFiringIs ==
  ASSUME chan \in ChanType, NEW now \in Nat, NEW d \in Nat, chan.period > 0, now >= chan.next,
         chan.next >= d
  PROVE  LET n == Timers!NextFiring(now) IN n \in Nat /\ n > now /\ n >= d
  <1> DEFINE x == chan.next
             y == chan.period
  <1>1. x \in Nat /\ y \in Nat
    BY DEF ChanType
  <1>2. Timers!NextFiring(now) = IF x + y <= now THEN now + y ELSE x + y
    BY DEF Timers!NextFiring
  <1> HIDE DEF x, y
  <1>3. LET n == IF x + y <= now THEN now + y ELSE x + y IN n \in Nat /\ n > now /\ n >= d
    BY <1>1 DEF x, y
  <1>4. QED
    BY <1>2, <1>3

(* The timer's callback. *)
LEMMA FireKeeps ==
  ASSUME TimersIInv, Timers!Fire
  PROVE  ChanInv(chan', receiver', loop, due', lclock) /\ ReceiveCurrent
  <1> DEFINE slot == IF receiver.waiting THEN chan.slot
                     ELSE IF chan.slot = 0 THEN lclock ELSE chan.slot
             c == [chan EXCEPT !.timer = FALSE, !.fired = lclock, !.slot = slot]
             r == IF receiver.waiting THEN [waiting |-> FALSE, got |-> lclock] ELSE receiver
  <1>1. /\ chan \in ChanType /\ receiver \in ReceiverType /\ due \in Nat /\ lclock \in Nat
        /\ lclock > 0 /\ (chan.registered <=> chan.alive /\ ~chan.closed)
        /\ chan.timer => chan.registered
        /\ receiver.waiting => chan.registered /\ chan.slot = 0
        /\ chan.slot # 0 /\ ~chan.closed => due # 0 /\ chan.slot >= due
        /\ chan.timer => due # 0 /\ chan.next >= due
    BY ChanParts
  <1>2. chan.timer /\ lclock >= chan.next /\ loop # "stopped" /\ due' = due
    BY DEF Timers!Fire
  <1>3. \/ chan.period = 0 /\ chan' = c /\ receiver' = r
        \/ chan.period > 0 /\ Timers!Arm(c, r, Timers!NextFiring(lclock))
    BY <1>1 DEF Timers!Fire, ChanType
  <1>4. due # 0 /\ chan.next >= due /\ chan.next \in Nat /\ lclock >= due
    BY <1>1, <1>2 DEF ChanType
  <1>5. slot \in Nat /\ (slot >= due \/ slot = 0)
    BY <1>1, <1>2, <1>4 DEF ChanType
  <1>6. /\ c \in ChanType /\ ~c.timer /\ c.fired = lclock /\ c.slot = slot
        /\ c.alive = chan.alive /\ c.closed = chan.closed /\ c.registered = chan.registered
        /\ c.period = chan.period
    <2>1. slot \in Nat
      BY <1>1 DEF ChanType
    <2> HIDE DEF slot
    <2>2. QED
      BY <1>1, <2>1, Zenon DEF ChanType
  <1>7. /\ r \in ReceiverType /\ ~r.waiting
        /\ r.got \notin {0, receiver.got} => r.got = lclock
    <2>1. CASE receiver.waiting
      BY <1>1, <2>1 DEF ReceiverType
    <2>2. CASE ~receiver.waiting
      BY <1>1, <2>2 DEF ReceiverType
    <2>3. QED
      BY <2>1, <2>2
  <1> HIDE DEF slot, c, r
  <1>8. CASE chan.period = 0 /\ chan' = c /\ receiver' = r
    BY <1>1, <1>2, <1>4, <1>5, <1>6, <1>7, <1>8 DEF ChanInv, ReceiveCurrent
  <1>9. CASE chan.period > 0 /\ Timers!Arm(c, r, Timers!NextFiring(lclock))
    <2> DEFINE n == Timers!NextFiring(lclock)
    <2>1. n \in Nat /\ n > lclock /\ n >= due
      BY <1>1, <1>2, <1>4, <1>9, NextFiringIs
    <2> HIDE DEF n
    <2>2. /\ ChanInv(chan', receiver', loop, due, lclock) /\ receiver'.got \in {0, r.got}
          /\ chan'.slot = slot
      BY <1>1, <1>2, <1>4, <1>5, <1>6, <1>7, <1>9, <2>1, ArmKeeps DEF n
    <2>3. QED
      BY <1>1, <1>2, <1>4, <1>5, <1>7, <2>2 DEF ReceiveCurrent
  <1>10. QED
    BY <1>3, <1>8, <1>9

(* The receiver takes what the channel holds, or waits while it is open. *)
LEMMA ReceiveKeeps ==
  ASSUME TimersIInv, Timers!Receive \/ Timers!Destroy
  PROVE  ChanInv(chan', receiver', loop, due', lclock) /\ ReceiveCurrent
  <1>1. /\ chan \in ChanType /\ receiver \in ReceiverType /\ due \in Nat /\ lclock \in Nat
        /\ ChanInv(chan, receiver, loop, due, lclock)
    BY ChanParts DEF TimersIInv
  <1>2. CASE Timers!Destroy
    <2>1. /\ ~receiver.waiting /\ receiver' = receiver /\ due' = 0
          /\ chan' = [chan EXCEPT !.alive = FALSE, !.timer = FALSE, !.registered = FALSE,
                                  !.closed = TRUE, !.slot = 0]
      BY <1>2 DEF Timers!Destroy
    <2>2. /\ chan' \in ChanType /\ ~chan'.alive /\ ~chan'.timer /\ ~chan'.registered
          /\ chan'.slot = 0 /\ chan'.fired = chan.fired
      BY <1>1, <2>1, Zenon DEF ChanType
    <2>3. QED
      BY <1>1, <2>1, <2>2 DEF ChanInv, ReceiveCurrent
  <1>3. CASE Timers!Receive /\ chan.slot # 0
    <2>1. /\ receiver' = [receiver EXCEPT !.got = chan.slot]
          /\ chan' = [chan EXCEPT !.slot = 0] /\ due' = due
      BY <1>3 DEF Timers!Receive
    <2>2. /\ chan' \in ChanType /\ chan'.slot = 0 /\ chan'.alive = chan.alive
          /\ chan'.closed = chan.closed /\ chan'.timer = chan.timer
          /\ chan'.registered = chan.registered /\ chan'.next = chan.next
          /\ chan'.period = chan.period /\ chan'.fired = chan.fired
      BY <1>1, <2>1 DEF ChanType
    <2>3. /\ receiver' \in ReceiverType /\ receiver'.waiting = receiver.waiting
          /\ receiver'.got = chan.slot
      BY <1>1, <2>1 DEF ReceiverType, ChanType
    <2>4. ReceiveCurrent
      BY <1>1, <1>3, <2>2, <2>3 DEF ChanInv, ReceiveCurrent
    <2>5. QED
      BY <1>1, <2>1, <2>2, <2>3, <2>4 DEF ChanInv
  <1>4. CASE Timers!Receive /\ chan.slot = 0
    <2>1. /\ chan.alive /\ receiver' = [waiting |-> ~chan.closed, got |-> 0]
          /\ chan' = chan /\ due' = due
      BY <1>4 DEF Timers!Receive
    <2>2. /\ receiver' \in ReceiverType /\ (receiver'.waiting <=> ~chan.closed)
          /\ receiver'.got = 0
      BY <1>1, <2>1, Zenon DEF ReceiverType
    <2>3. QED
      BY <1>1, <1>4, <2>1, <2>2 DEF ChanInv, ReceiveCurrent
  <1>5. QED
    BY <1>2, <1>3, <1>4

(* BeginShutdown() tells the sleep and the channel if they are registered. *)
LEMMA ShutdownKeeps ==
  ASSUME TimersIInv, Timers!BeginShutdown
  PROVE  TimersIInv' /\ ReceiveCurrent /\ SleepCurrent
  <1>1. /\ lclock \in Nat \ {0} /\ ChanInv(chan, receiver, loop, due, lclock)
        /\ SleepInv(sleep, lclock) /\ sleep \in SleepType
        /\ chan \in ChanType /\ receiver \in ReceiverType /\ due \in Nat
    BY DEF TimersIInv, ChanInv, SleepInv
  <1>2. loop' = "stopped" /\ lclock' = lclock /\ due' = due
    BY DEF Timers!BeginShutdown
  <1>3. SleepInv(sleep', lclock) /\ SleepCurrent
    <2>1. CASE sleep.registered
      <3>1. sleep' = [sleep EXCEPT !.at = "queued", !.result = "ECANCELED", !.timer = FALSE,
                                   !.registered = FALSE]
        BY <2>1 DEF Timers!BeginShutdown, Timers!Complete
      <3>2. /\ sleep' \in SleepType /\ sleep'.at = "queued" /\ ~sleep'.timer
            /\ ~sleep'.registered /\ sleep'.result = "ECANCELED"
        BY <1>1, <3>1, Zenon DEF SleepType
      <3>3. sleep.result = "none"
        BY <1>1, <2>1 DEF SleepInv
      <3>4. QED
        BY <3>2, <3>3 DEF SleepInv, SleepCurrent
    <2>2. CASE ~sleep.registered
      <3>1. sleep' = sleep
        BY <2>2 DEF Timers!BeginShutdown
      <3>2. QED
        BY <1>1, <3>1 DEF SleepInv, SleepCurrent
    <2>3. QED
      BY <2>1, <2>2
  <1>4. /\ ChanInv(chan', receiver', "stopped", due, lclock)
        /\ receiver'.got \in {0, receiver.got} /\ chan'.slot = chan.slot
    <2>1. CASE chan.registered /\ Timers!OnLoopStop
      <3> DEFINE c == [chan EXCEPT !.timer = FALSE, !.registered = FALSE]
      <3>1. /\ c \in ChanType /\ ~c.timer /\ ~c.registered /\ c.slot = chan.slot
            /\ c.fired = chan.fired
        BY <1>1, Zenon DEF ChanType
      <3>2. Timers!CloseChannel(c, receiver)
        BY <2>1 DEF Timers!OnLoopStop
      <3> HIDE DEF c
      <3>3. c.fired <= lclock
        BY <1>1, <3>1 DEF ChanInv
      <3>4. QED
        BY <1>1, <3>1, <3>2, <3>3, CloseKeeps
    <2>2. CASE ~chan.registered /\ UNCHANGED <<chan, receiver>>
      BY <1>1, <2>2 DEF ChanInv
    <2>3. QED
      BY <2>1, <2>2 DEF Timers!BeginShutdown
  <1>5. QED
    BY <1>1, <1>2, <1>3, <1>4 DEF TimersIInv, ReceiveCurrent, ChanInv

(* Every step keeps the invariant, and is current. *)
LEMMA TimersNextIInv ==
  TimersIInv /\ Timers!Next => TimersIInv' /\ ReceiveCurrent /\ SleepCurrent
  <1> SUFFICES ASSUME TimersIInv, Timers!Next
               PROVE  TimersIInv' /\ ReceiveCurrent /\ SleepCurrent
    OBVIOUS
  <1>1. /\ lclock \in Nat \ {0} /\ ChanInv(chan, receiver, loop, due, lclock)
        /\ SleepInv(sleep, lclock) /\ loop \in {"running", "stopping", "stopped"}
    BY DEF TimersIInv
  <1>2. UNCHANGED sleep => SleepCurrent
    BY <1>1 DEF SleepInv, SleepCurrent
  <1>3. UNCHANGED <<chan, receiver, due>> => ReceiveCurrent
    BY <1>1 DEF ReceiveCurrent, ChanInv
  <1>4. CASE Timers!Tick
    <2>1. lclock' = lclock + 1 /\ UNCHANGED <<loop, sleep, chan, receiver, due>>
      BY <1>4 DEF Timers!Tick
    <2>2. ChanInv(chan, receiver, loop, due, lclock + 1)
      <3>1. chan.fired \in Nat
        BY <1>1 DEF ChanInv, ChanType
      <3>2. QED
        BY <1>1, <3>1 DEF ChanInv
    <2>3. SleepInv(sleep, lclock + 1)
      <3>1. sleep.deadline \in Nat
        BY <1>1 DEF SleepInv, SleepType
      <3>2. QED
        BY <1>1, <3>1 DEF SleepInv
    <2>4. QED
      BY <1>1, <1>2, <1>3, <2>1, <2>2, <2>3 DEF TimersIInv
  <1>5. CASE Timers!RequestStop
    <2>1. loop' = "stopping" /\ UNCHANGED <<lclock, sleep, chan, receiver, due>>
      BY <1>5 DEF Timers!RequestStop
    <2>2. ChanInv(chan, receiver, "stopping", due, lclock)
      BY <1>1 DEF ChanInv
    <2>3. QED
      BY <1>1, <1>2, <1>3, <2>1, <2>2 DEF TimersIInv
  <1>6. CASE \/ \E delay \in Delays : Timers!SleepFor(delay)
             \/ Timers!SleepExpires \/ Timers!SleepResumes \/ Timers!SleepDestroyed
    <2>1. UNCHANGED <<lclock, loop, chan, receiver, due>>
      BY <1>6, Zenon DEF Timers!SleepFor, Timers!SleepExpires, Timers!SleepResumes,
                  Timers!SleepDestroyed
    <2>2. SleepInv(sleep', lclock) /\ SleepCurrent
      BY <1>1, <1>6, SleepKeeps, MoreTimerConstants
    <2>3. QED
      BY <1>1, <1>3, <2>1, <2>2 DEF TimersIInv
  <1>7. CASE \/ Timers!Fire \/ Timers!StopFiring \/ Timers!Destroy \/ Timers!Receive
             \/ \E delay \in Delays : \/ Timers!Rearm(delay) \/ Timers!NewTimer(delay, 0)
                                      \/ delay > 0 /\ Timers!NewTimer(delay, delay)
    <2>1. UNCHANGED <<lclock, loop, sleep>>
      BY <1>7, Zenon DEF Timers!Fire, Timers!StopFiring, Timers!Destroy, Timers!Receive,
                  Timers!Rearm, Timers!NewTimer
    <2>2. ChanInv(chan', receiver', loop, due', lclock) /\ ReceiveCurrent
      <3>1. ASSUME NEW delay \in Delays,
                   Timers!NewTimer(delay, 0) \/ (delay > 0 /\ Timers!NewTimer(delay, delay))
            PROVE  ChanInv(chan', receiver', loop, due', lclock) /\ ReceiveCurrent
        BY <3>1, NewTimerKeeps, MoreTimerConstants
      <3>2. QED
        BY <1>7, <3>1, FireKeeps, StopResetKeeps, ReceiveKeeps, MoreTimerConstants
    <2>3. QED
      BY <1>1, <1>2, <2>1, <2>2 DEF TimersIInv
  <1>8. QED
    BY <1>4, <1>5, <1>6, <1>7, ShutdownKeeps DEF Timers!Next, Timers!LoopStep

(* Nothing sleeps, and there is no channel. *)
LEMMA TimersInitIInv == Timers!Init => TimersIInv
  <1> SUFFICES ASSUME Timers!Init PROVE TimersIInv
    OBVIOUS
  <1>1. ChanInv(chan, receiver, loop, due, lclock)
    <2>1. chan \in ChanType /\ receiver \in ReceiverType /\ ~chan.timer /\ ~chan.registered
          /\ ~chan.alive /\ chan.slot = 0 /\ ~receiver.waiting /\ chan.fired = 0
      BY DEF Timers!Init, ChanType, ReceiverType
    <2>2. QED
      BY <2>1 DEF Timers!Init, ChanInv
  <1>2. SleepInv(sleep, lclock)
    <2>1. sleep \in SleepType /\ ~sleep.timer /\ ~sleep.registered /\ sleep.at = "idle"
          /\ sleep.result = "none"
      BY DEF Timers!Init, SleepType
    <2>2. QED
      BY <2>1 DEF SleepInv
  <1>3. QED
    BY <1>1, <1>2 DEF TimersIInv, Timers!Init

-----------------------------------------------------------------------------
(* All of them.                                                            *)

UringQueue == INSTANCE UringTimerProofs WITH
  MaxTimers <- UringTimers, MaxTime <- UringTime, clock <- uclock, queue <- uqueue, at <- uat, stopping <- ustopping,
  ran <- uran, gone <- ugone

(* Both are instances of UringTimerQueue. *)
LEMMA SameUringQueue ==
  /\ UringQueue!Init <=> UringTimer!Init
  /\ UringQueue!Next <=> UringTimer!Next
  /\ UringQueue!RequestsMatchFlags <=> UringTimer!RequestsMatchFlags
  /\ UringQueue!EarliestIsArmed <=> UringTimer!EarliestIsArmed
  /\ \A t, u : UringQueue!TimerLess(t, u) <=> UringTimer!TimerLess(t, u)
  /\ \A t : UringQueue!Repeat(t) <=> UringTimer!Repeat(t)
  <1>1. UringQueue!Init <=> UringTimer!Init
    BY Zenon
       DEF UringQueue!Init, UringTimer!Init, UringQueue!NoTimer, UringTimer!NoTimer,
           UringQueue!Timer,
           UringTimer!Timer, UringQueue!Ids, UringTimer!Ids, UringQueue!NoRequests,
           UringTimer!NoRequests
  <1>2. UringQueue!Next <=> UringTimer!Next
    BY Zenon
       DEF UringQueue!Next, UringTimer!Next, UringQueue!Tick, UringTimer!Tick, UringQueue!Overdue,
           UringTimer!Overdue, UringQueue!RequestStop, UringTimer!RequestStop,
           UringQueue!KernelStep, UringTimer!KernelStep, UringQueue!KernelTakes,
           UringTimer!KernelTakes, UringQueue!DriverExpires, UringTimer!DriverExpires,
           UringQueue!FallbackExpires, UringTimer!FallbackExpires, UringQueue!KernelCancels,
           UringTimer!KernelCancels, UringQueue!Kernel, UringTimer!Kernel,
           UringQueue!LoopStep, UringTimer!LoopStep, UringQueue!HandleDriverComplete,
           UringTimer!HandleDriverComplete, UringQueue!HandleFallbackComplete,
           UringTimer!HandleFallbackComplete, UringQueue!HandleUpdateComplete,
           UringTimer!HandleUpdateComplete, UringQueue!TimeoutOver, UringTimer!TimeoutOver,
           UringQueue!CallbackReturns, UringTimer!CallbackReturns, UringQueue!ExpiredDone,
           UringTimer!ExpiredDone, UringQueue!DiscardAll, UringTimer!DiscardAll,
           UringQueue!AddTimer, UringTimer!AddTimer, UringQueue!Cancel, UringTimer!Cancel,
           UringQueue!RunTimer, UringTimer!RunTimer, UringQueue!UserCode,
           UringTimer!UserCode, UringQueue!Ids, UringTimer!Ids, UringQueue!NoTimer,
           UringTimer!NoTimer, UringQueue!Needs, UringTimer!Needs, UringQueue!Arm,
           UringTimer!Arm, UringQueue!ArmFallback, UringTimer!ArmFallback,
           UringQueue!Update, UringTimer!Update, UringQueue!Complete, UringTimer!Complete,
           UringQueue!ReconcileOk, UringTimer!ReconcileOk, UringQueue!ReconcileFails,
           UringTimer!ReconcileFails, UringQueue!ReconcileOrStop,
           UringTimer!ReconcileOrStop, UringQueue!NotSubmitted, UringTimer!NotSubmitted,
           UringQueue!Result, UringTimer!Result, UringQueue!Rest, UringTimer!Rest,
           UringQueue!Seen, UringTimer!Seen, UringQueue!Idle, UringTimer!Idle,
           UringQueue!Waiting, UringTimer!Waiting, UringQueue!NoRequests,
           UringTimer!NoRequests, UringQueue!Covered, UringTimer!Covered, UringQueue!Timer,
           UringTimer!Timer, UringQueue!Repeat, UringTimer!Repeat, UringQueue!Restart,
           UringTimer!Restart, UringQueue!TimerLess, UringTimer!TimerLess,
           UringQueue!Earliest, UringTimer!Earliest, UringQueue!Sequences,
           UringTimer!Sequences, UringQueue!HasExpired, UringTimer!HasExpired
  <1>3. QED
    BY <1>1, <1>2
       DEF UringQueue!RequestsMatchFlags, UringTimer!RequestsMatchFlags, UringQueue!EarliestIsArmed,
           UringTimer!EarliestIsArmed, UringQueue!Naming, UringTimer!Naming,
           UringQueue!Covered, UringTimer!Covered, UringQueue!Waiting, UringTimer!Waiting,
           UringQueue!Idle, UringTimer!Idle, UringQueue!Needs, UringTimer!Needs,
           UringQueue!TimerLess, UringTimer!TimerLess, UringQueue!Repeat, UringTimer!Repeat,
           UringQueue!Sequences, UringTimer!Sequences, UringQueue!Earliest,
           UringTimer!Earliest, UringQueue!Cardinality, UringTimer!Cardinality

TimerIInv == EpollIInv /\ UringQueue!UringIInv /\ TimersIInv

allVars == <<part, vars, utimer, ltimer>>

(* The parts that do not move keep their invariants. *)
LEMMA PartsStay ==
  /\ EpollIInv /\ UNCHANGED vars => EpollIInv'
  /\ UringQueue!UringIInv /\ UNCHANGED utimer => UringQueue!UringIInv'
  /\ TimersIInv /\ UNCHANGED ltimer => TimersIInv'
  <1>1. EpollIInv /\ UNCHANGED vars => EpollIInv'
    BY EpollStays, Zenon
  <1>2. UringQueue!UringIInv /\ UNCHANGED utimer => UringQueue!UringIInv'
    BY UringQueue!UringStays, TimerConstants, MoreTimerConstants DEF utimer, UringQueue!vars
  <1>3. TimersIInv /\ UNCHANGED ltimer => TimersIInv'
    BY DEF TimersIInv, ltimer
  <1>4. QED
    BY <1>1, <1>2, <1>3

(* The timers keep the invariant together. *)
LEMMA TimerInvariant == MCInit /\ [][MCNext]_allVars => []TimerIInv
  <1>1. MCInit => TimerIInv
    BY EpollInitIInv, UringQueue!UringInitIInv, TimersInitIInv,
       SameUringQueue, TimerConstants, MoreTimerConstants DEF MCInit, TimerIInv
  <1>2. TimerIInv /\ [MCNext]_allVars => TimerIInv'
    <2> SUFFICES ASSUME TimerIInv, [MCNext]_allVars PROVE TimerIInv'
      OBVIOUS
    <2>1. EpollIInv /\ UringQueue!UringIInv /\ TimersIInv
      BY DEF TimerIInv
    <2>2. CASE Next /\ UNCHANGED <<utimer, ltimer>>
      BY <2>1, <2>2, EpollNextIInv, PartsStay DEF TimerIInv
    <2>3. CASE UringTimer!Next /\ UNCHANGED <<vars, ltimer>>
      BY <2>1, <2>3, UringQueue!UringNextIInv, SameUringQueue, PartsStay, TimerConstants,
         MoreTimerConstants DEF TimerIInv
    <2>4. CASE Timers!Next /\ UNCHANGED <<vars, utimer>>
      BY <2>1, <2>4, TimersNextIInv, PartsStay DEF TimerIInv
    <2>5. CASE UNCHANGED allVars
      BY <2>1, <2>5, PartsStay DEF TimerIInv, allVars
    <2>6. QED
      BY <2>2, <2>3, <2>4, <2>5 DEF MCNext
  <1>3. QED
    BY <1>1, <1>2, PTL

(* For any number of timers, times, intervals and delays: a timer is in the index and *)
(* the registry or runs, the timeout requests of uring::TimerQueue are those its      *)
(* flags speak of, and a callback of the loop finds the awaiter or channel it was     *)
(* given, so that none is used after it is gone.                                      *)
THEOREM TimersOwned == MCSpec => []TimersAreOwned
  <1>1. TimerIInv => TimersAreOwned
    <2> SUFFICES ASSUME TimerIInv PROVE TimersAreOwned
      OBVIOUS
    <2>1. EpollIInv /\ UringQueue!UringIInv /\ TimersIInv
      BY DEF TimerIInv
    <2>2. TimerOwnedOnce
      BY <2>1, EpollOwned
    <2>3. UringTimer!RequestsMatchFlags
      BY <2>1, UringQueue!UringOwned, SameUringQueue, TimerConstants, MoreTimerConstants
    <2>4. Timers!CallbackFindsOwner
      BY <2>1 DEF TimersIInv, ChanInv, SleepInv, Timers!CallbackFindsOwner, ChanType, SleepType
    <2>5. QED
      BY <2>2, <2>3, <2>4 DEF TimersAreOwned
  <1>2. QED
    BY <1>1, TimerInvariant, PTL DEF MCSpec, allVars

(* However timers are added and cancelled, a loop that waits is woken for its earliest *)
(* timer: the timerfd is set early enough, or a timeout request that is early enough   *)
(* or the fallback of uring is in the kernel.                                          *)
THEOREM EarliestArmed == MCSpec => []EarliestIsArmed
  <1>1. TimerIInv => EarliestIsArmed
    <2> SUFFICES ASSUME TimerIInv PROVE EarliestIsArmed
      OBVIOUS
    <2>1. TimerfdIsArmed
      BY EpollWoken DEF TimerIInv
    <2>2. UringTimer!EarliestIsArmed
      BY UringQueue!UringCovered, SameUringQueue, TimerConstants, MoreTimerConstants
         DEF TimerIInv
    <2>3. QED
      BY <2>1, <2>2 DEF EarliestIsArmed
  <1>2. QED
    BY <1>1, TimerInvariant, PTL DEF MCSpec, allVars

(* In every order of additions, cancellations and expirations: a callback runs when   *)
(* its timer has expired and is the first, once unless it repeats, and never after    *)
(* Cancel(); a Timer's or Ticker's firing is received only if it is not older than    *)
(* the last Stop() or Reset(), or from a closed channel, which holds what was current *)
(* when it was closed; a sleep is not cut short, nor its result changed.              *)
THEOREM RunsDue == MCSpec => RunsAreDue
  <1>1. TimerIInv /\ [MCNext]_allVars =>
          [\A t \in queue.timers : ran'[t.sequence] # ran[t.sequence] =>
             /\ t.expiration <= clock
             /\ \A u \in queue.timers \ {t} : TimerLess(t, u)
             /\ t.sequence \notin gone
             /\ Repeat(t) \/ ran[t.sequence] = 0]_vars
    <2> SUFFICES ASSUME TimerIInv, [MCNext]_allVars, ~UNCHANGED vars
                 PROVE  \A t \in queue.timers : ran'[t.sequence] # ran[t.sequence] =>
                          /\ t.expiration <= clock
                          /\ \A u \in queue.timers \ {t} : TimerLess(t, u)
                          /\ t.sequence \notin gone
                          /\ Repeat(t) \/ ran[t.sequence] = 0
      OBVIOUS
    <2>1. Next
      BY DEF MCNext, allVars, vars, vars
    <2>2. EpollDue
      BY <2>1, EpollRunsDue DEF TimerIInv
    <2>3. QED
      BY <2>2 DEF EpollDue
  <1>2. TimerIInv /\ [MCNext]_allVars =>
          [\A t \in uqueue.timers : uran'[t.sequence] # uran[t.sequence] =>
             /\ t.expiration <= uclock
             /\ \A u \in uqueue.timers \ {t} : UringTimer!TimerLess(t, u)
             /\ t.sequence \notin ugone
             /\ UringTimer!Repeat(t) \/ uran[t.sequence] = 0]_UringTimer!vars
    <2> SUFFICES ASSUME TimerIInv, [MCNext]_allVars, ~UNCHANGED UringTimer!vars
                 PROVE  \A t \in uqueue.timers : uran'[t.sequence] # uran[t.sequence] =>
                          /\ t.expiration <= uclock
                          /\ \A u \in uqueue.timers \ {t} : UringTimer!TimerLess(t, u)
                          /\ t.sequence \notin ugone
                          /\ UringTimer!Repeat(t) \/ uran[t.sequence] = 0
      OBVIOUS
    <2>1. UringTimer!Next
      BY DEF MCNext, allVars, utimer, UringTimer!vars
    <2>2. UringQueue!UringDue
      BY <2>1, UringQueue!UringRunsDue, SameUringQueue, TimerConstants, MoreTimerConstants
         DEF TimerIInv
    <2>3. QED
      BY <2>2, SameUringQueue DEF UringQueue!UringDue
  <1>3. TimerIInv /\ [MCNext]_allVars =>
          [/\ receiver'.got \notin {0, receiver.got} =>
                \/ due # 0 /\ receiver'.got >= due
                \/ chan.closed /\ receiver'.got = chan.slot
           /\ chan'.slot # 0 =>
                IF chan.closed THEN chan'.slot = chan.slot ELSE due' # 0 /\ chan'.slot >= due'
           /\ chan'.timer /\ chan'.period > 0 => chan'.next > chan'.fired
           /\ sleep'.result = "ok" /\ sleep'.at = "queued" => lclock >= sleep.deadline
           /\ sleep.result # "none" => sleep'.result = sleep.result]_Timers!vars
    <2> SUFFICES ASSUME TimerIInv, [MCNext]_allVars, ~UNCHANGED Timers!vars
                 PROVE  /\ receiver'.got \notin {0, receiver.got} =>
                             \/ due # 0 /\ receiver'.got >= due
                             \/ chan.closed /\ receiver'.got = chan.slot
                        /\ chan'.slot # 0 =>
                             IF chan.closed THEN chan'.slot = chan.slot
                             ELSE due' # 0 /\ chan'.slot >= due'
                        /\ chan'.timer /\ chan'.period > 0 => chan'.next > chan'.fired
                        /\ sleep'.result = "ok" /\ sleep'.at = "queued"
                             => lclock >= sleep.deadline
                        /\ sleep.result # "none" => sleep'.result = sleep.result
      OBVIOUS
    <2>1. Timers!Next
      BY DEF MCNext, allVars, ltimer, Timers!vars
    <2>2. TimersIInv' /\ ReceiveCurrent /\ SleepCurrent
      BY <2>1, TimersNextIInv DEF TimerIInv
    <2>3. ChanInv(chan', receiver', loop', due', lclock')
      BY <2>2 DEF TimersIInv
    <2>4. QED
      BY <2>2, <2>3 DEF ReceiveCurrent, SleepCurrent, ChanInv
  <1>4. QED
    BY <1>1, <1>2, <1>3, TimerInvariant, PTL
       DEF MCSpec, allVars, RunsAreDue, EpollRunsAreDue, UringTimer!RunsAreDue,
           Timers!FiringsAreCurrent
================================================================================
