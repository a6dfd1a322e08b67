-------------------------- MODULE UringTimerProofs --------------------------
(***************************************************************************)
(* uring::detail::TimerQueue, for any number of timers, any intervals and any *)
(* length of time.                                                         *)
(***************************************************************************)
EXTENDS UringTimerQueue, TimerIndexProofs, FiniteSetTheorems

-----------------------------------------------------------------------------
(* uring::detail::TimerQueue.                                              *)

(* Some element of the sequence s is in N, and at most one is. *)
Has(s, N) == \E i \in DOMAIN s : s[i] \in N

AtMostOne(s, N) == \A i, j \in DOMAIN s : s[i] \in N /\ s[j] \in N => i = j

Request == [op : {"arm", "update", "fallback"}, when : Nat \ {0}]
Arms == {x \in Request : x.op = "arm"}
Controls == {x \in Request : x.op \in {"update", "fallback"}}

Completion == [op : {"driver", "control"}, result : {"ok", "error", "ETIME", "ECANCELED"}]
Drivers == {x \in Completion : x.op = "driver"}
Answers == {x \in Completion : x.op = "control"}
Updated == {x \in Completion : x.op = "control" /\ x.result = "ok"}

KernelType ==
  [sq : Seq(Request), driver : Nat, fallback : Nat, cq : Seq(Completion), updates : BOOLEAN]

FlagsType ==
  [driverArmed : BOOLEAN, driverDeadline : Nat, controlPending : BOOLEAN,
   controlIsFallback : BOOLEAN, fallbackArmed : BOOLEAN, requested : Nat]

(* A request is in one of three places if its flag f is set, and in none otherwise. *)
InOnePlace(f, a, b, c) ==
  /\ f <=> a \/ b \/ c
  /\ ~(a /\ b) /\ ~(a /\ c) /\ ~(b /\ c)

OneDriver(k, r) ==
  /\ AtMostOne(k.sq, Arms) /\ AtMostOne(k.cq, Drivers)
  /\ InOnePlace(r.driverArmed, Has(k.sq, Arms), k.driver # 0, Has(k.cq, Drivers))

OneControl(k, r) ==
  /\ AtMostOne(k.sq, Controls) /\ AtMostOne(k.cq, Answers)
  /\ InOnePlace(r.controlPending, Has(k.sq, Controls), k.fallback # 0, Has(k.cq, Answers))
  /\ r.fallbackArmed => r.controlPending /\ r.controlIsFallback

(* The driver is submitted only while there is no control request, which is therefore
   behind it. *)
ArmFirst(k) ==
  Has(k.sq, Arms) =>
    /\ k.fallback = 0 /\ ~Has(k.cq, Answers)
    /\ \A i, j \in DOMAIN k.sq : k.sq[i] \in Arms /\ k.sq[j] \in Controls => i < j

(* What the queue knows of the deadlines.  An update that the kernel has made takes
   effect here when its completion is handled. *)
Deadlines(k, r) ==
  /\ \A i \in DOMAIN k.sq :
       /\ k.sq[i].op = "arm" => k.sq[i].when = r.driverDeadline
       /\ k.sq[i].op = "update" => k.sq[i].when = r.requested /\ ~r.controlIsFallback
  /\ Has(k.cq, Updated) => ~r.controlIsFallback
  /\ k.driver # 0 => k.driver = IF Has(k.cq, Updated) THEN r.requested ELSE r.driverDeadline

RequestInv(k, r) ==
  /\ k \in KernelType /\ r \in FlagsType
  /\ OneDriver(k, r) /\ OneControl(k, r) /\ ArmFirst(k) /\ Deadlines(k, r)

UringQueueType ==
  [timers : SUBSET TimerType, active : SUBSET Nat, running : TimerType, cancelled : BOOLEAN,
   now : Nat, added : Nat, updateSupported : BOOLEAN, req : FlagsType]

UringTypeOK ==
  /\ clock \in Nat /\ at \in {"loop", "pop", "callback", "stopped"} /\ stopping \in BOOLEAN
  /\ queue \in UringQueueType
  /\ \A t \in queue.timers : t.expiration # 0
  /\ at = "callback" <=> queue.running.sequence # 0
  /\ queue.now <= clock

UringBook ==
  Book(queue.timers, queue.active, queue.running, queue.cancelled, queue.added,
       ran, gone, MaxTimers)

(* Reconcile() has nothing to do for a loop that waits. *)
Reconciled == at = "loop" /\ ~stopping => Needs(queue) = "nothing"

UringIInv == UringTypeOK /\ UringBook /\ RequestInv(kernel, queue.req) /\ Reconciled

(* Appending to a queue of requests or of completions. *)
LEMMA AppendHas ==
  ASSUME NEW S, NEW s \in Seq(S), NEW e \in S, NEW N
  PROVE  /\ Append(s, e) \in Seq(S)
         /\ Has(Append(s, e), N) <=> Has(s, N) \/ e \in N
         /\ AtMostOne(s, N) /\ (e \in N => ~Has(s, N)) => AtMostOne(Append(s, e), N)
         /\ \A i \in DOMAIN Append(s, e) :
              (i \in DOMAIN s /\ Append(s, e)[i] = s[i]) \/ (i = Len(s) + 1 /\ Append(s, e)[i] = e)
  <1> DEFINE q == Append(s, e)
             last == Len(s) + 1
  <1>1. /\ Len(s) \in Nat /\ DOMAIN s = 1..Len(s) /\ DOMAIN q = 1..last
        /\ q \in Seq(S) /\ q[last] = e /\ \A i \in DOMAIN s : q[i] = s[i]
    OBVIOUS
  <1> HIDE DEF q
  <1>2. \A i \in DOMAIN q : (i \in DOMAIN s /\ q[i] = s[i]) \/ (i = last /\ q[i] = e)
    BY <1>1
  <1>3. DOMAIN s \subseteq DOMAIN q /\ last \in DOMAIN q /\ last \notin DOMAIN s
    BY <1>1
  <1>4. Has(q, N) <=> Has(s, N) \/ e \in N
    BY <1>1, <1>2, <1>3 DEF Has
  <1>5. AtMostOne(s, N) /\ (e \in N => ~Has(s, N)) => AtMostOne(q, N)
    BY <1>2 DEF AtMostOne, Has
  <1>6. QED
    BY <1>1, <1>2, <1>4, <1>5 DEF q

(* Taking the first request or completion. *)
LEMMA TailHas ==
  ASSUME NEW S, NEW s \in Seq(S), s # <<>>, NEW N
  PROVE  /\ Head(s) \in S /\ Head(s) = s[1] /\ 1 \in DOMAIN s /\ Tail(s) \in Seq(S)
         /\ Has(s, N) <=> Head(s) \in N \/ Has(Tail(s), N)
         /\ AtMostOne(s, N) => AtMostOne(Tail(s), N) /\ ~(Head(s) \in N /\ Has(Tail(s), N))
         /\ \A i \in DOMAIN Tail(s) : i \in Nat /\ i + 1 \in DOMAIN s /\ Tail(s)[i] = s[i + 1]
  <1> DEFINE q == Tail(s)
  <1>1. /\ Len(s) \in Nat /\ Len(s) # 0 /\ DOMAIN s = 1..Len(s) /\ DOMAIN q = 1..(Len(s) - 1)
        /\ q \in Seq(S) /\ Head(s) = s[1] /\ \A i \in 1..(Len(s) - 1) : q[i] = s[i + 1]
    OBVIOUS
  <1>2. s[1] \in S
    BY <1>1
  <1> HIDE DEF q
  <1>3. \A i \in DOMAIN q : i \in Nat /\ i + 1 \in DOMAIN s /\ i + 1 # 1 /\ q[i] = s[i + 1]
    BY <1>1
  <1>4. \A i \in DOMAIN s : i = 1 \/ (i - 1 \in DOMAIN q /\ q[i - 1] = s[i])
    BY <1>1
  <1>5. 1 \in DOMAIN s
    BY <1>1
  <1>6. Has(s, N) <=> s[1] \in N \/ Has(q, N)
    BY <1>3, <1>4, <1>5 DEF Has
  <1>7. ASSUME AtMostOne(s, N) PROVE AtMostOne(q, N) /\ ~(s[1] \in N /\ Has(q, N))
    <2>1. ASSUME NEW i \in DOMAIN q, NEW j \in DOMAIN q, q[i] \in N, q[j] \in N PROVE i = j
      <3>1. i + 1 = j + 1
        BY <1>3, <1>7, <2>1 DEF AtMostOne
      <3>2. QED
        BY <1>3, <3>1
    <2>2. ASSUME s[1] \in N, NEW i \in DOMAIN q, q[i] \in N PROVE FALSE
      BY <1>3, <1>5, <1>7, <2>2 DEF AtMostOne
    <2>3. QED
      BY <2>1, <2>2 DEF AtMostOne, Has
  <1>8. QED
    BY <1>1, <1>2, <1>3, <1>5, <1>6, <1>7 DEF q

(* The parts of a ring and of the flags that RequestInv speaks of. *)
LEMMA RequestParts ==
  ASSUME NEW k, NEW r, RequestInv(k, r)
  PROVE  /\ k.sq \in Seq(Request) /\ k.cq \in Seq(Completion)
         /\ k.driver \in Nat /\ k.fallback \in Nat
         /\ OneDriver(k, r) /\ OneControl(k, r) /\ ArmFirst(k) /\ Deadlines(k, r)
         /\ Updated \subseteq Answers /\ Updated \subseteq Completion
         /\ \A x \in Request : x \in Arms \/ x \in Controls
         /\ \A x \in Completion : x \in Drivers \/ x \in Answers
         /\ Arms \cap Controls = {} /\ Drivers \cap Answers = {}
  BY DEF RequestInv, KernelType, Updated, Answers, Drivers, Arms, Controls, Completion, Request

(* The kernel takes the driver request, or the fallback, or makes the update, or rejects it. *)
LEMMA TakesKeeps ==
  ASSUME NEW k, NEW r, RequestInv(k, r), k.sq # <<>>, NEW l \in KernelType,
         l.sq = Tail(k.sq),
         \/ /\ Head(k.sq).op = "arm" /\ l.driver = Head(k.sq).when
            /\ l.fallback = k.fallback /\ l.cq = k.cq
         \/ /\ Head(k.sq).op = "fallback" /\ l.fallback = Head(k.sq).when
            /\ l.driver = k.driver /\ l.cq = k.cq
         \/ /\ Head(k.sq).op = "update" /\ k.driver # 0 /\ l.driver = Head(k.sq).when
            /\ l.fallback = k.fallback
            /\ l.cq = Append(k.cq, [op |-> "control", result |-> "ok"])
         \/ /\ Head(k.sq).op = "update" /\ l.driver = k.driver /\ l.fallback = k.fallback
            /\ l.cq = Append(k.cq, [op |-> "control", result |-> "error"])
  PROVE  RequestInv(l, r)
  <1> DEFINE h == Head(k.sq)
             ok == [op |-> "control", result |-> "ok"]
             error == [op |-> "control", result |-> "error"]
  <1>1. /\ k.sq \in Seq(Request) /\ k.cq \in Seq(Completion)
        /\ k.driver \in Nat /\ k.fallback \in Nat
        /\ OneDriver(k, r) /\ OneControl(k, r) /\ ArmFirst(k) /\ Deadlines(k, r)
        /\ Updated \subseteq Answers /\ Arms \cap Controls = {} /\ Drivers \cap Answers = {}
    BY RequestParts
  <1>2. /\ h \in Request /\ h = k.sq[1] /\ 1 \in DOMAIN k.sq
        /\ \A i \in DOMAIN l.sq : i + 1 \in DOMAIN k.sq /\ l.sq[i] = k.sq[i + 1]
    BY <1>1, TailHas
  <1>3. /\ Has(k.sq, Arms) <=> h \in Arms \/ Has(l.sq, Arms)
        /\ Has(k.sq, Controls) <=> h \in Controls \/ Has(l.sq, Controls)
        /\ AtMostOne(l.sq, Arms) /\ ~(h \in Arms /\ Has(l.sq, Arms))
        /\ AtMostOne(l.sq, Controls) /\ ~(h \in Controls /\ Has(l.sq, Controls))
    BY <1>1, TailHas DEF OneDriver, OneControl
  <1>4. \A i \in DOMAIN l.sq :
          /\ l.sq[i].op = "arm" => l.sq[i].when = r.driverDeadline
          /\ l.sq[i].op = "update" => l.sq[i].when = r.requested /\ ~r.controlIsFallback
    BY <1>1, <1>2 DEF Deadlines
  <1>5. h.when # 0 /\ (h.op = "arm" <=> h \in Arms) /\ (h.op # "arm" <=> h \in Controls)
    BY <1>2 DEF Request, Arms, Controls
  <1>6. h.op = "arm" => h.when = r.driverDeadline
    BY <1>1, <1>2 DEF Deadlines
  <1>7. h.op = "update" => h.when = r.requested /\ ~r.controlIsFallback
    BY <1>1, <1>2 DEF Deadlines
  <1>8. h \in Controls => ~Has(k.sq, Arms)
    <2> SUFFICES ASSUME h \in Controls, NEW i \in DOMAIN k.sq, k.sq[i] \in Arms PROVE FALSE
      BY DEF Has
    <2>1. i < 1 /\ i \in 1..Len(k.sq)
      BY <1>1, <1>2 DEF ArmFirst, Has
    <2>2. QED
      BY <2>1
  <1>9. ~Has(l.sq, Arms)
    BY <1>3, <1>5, <1>8
  <1>10. r \in FlagsType /\ ArmFirst(l)
    BY <1>9 DEF RequestInv, ArmFirst
  <1> HIDE DEF h
  <1>11. CASE h.op = "arm" /\ l.driver = h.when /\ l.fallback = k.fallback /\ l.cq = k.cq
    <2>1. OneDriver(l, r)
      BY <1>1, <1>3, <1>5, <1>9, <1>11 DEF OneDriver, InOnePlace
    <2>2. OneControl(l, r)
      BY <1>1, <1>3, <1>5, <1>11 DEF OneControl, InOnePlace
    <2>3. ~Has(l.cq, Updated)
      BY <1>1, <1>3, <1>5, <1>11 DEF ArmFirst, Has
    <2>4. Deadlines(l, r)
      BY <1>4, <1>6, <1>11, <2>3 DEF Deadlines
    <2>5. QED
      BY <1>10, <2>1, <2>2, <2>4 DEF RequestInv
  <1>12. CASE h.op = "fallback" /\ l.fallback = h.when /\ l.driver = k.driver /\ l.cq = k.cq
    <2>1. OneDriver(l, r)
      BY <1>1, <1>3, <1>5, <1>8, <1>9, <1>12 DEF OneDriver, InOnePlace
    <2>2. OneControl(l, r)
      BY <1>1, <1>3, <1>5, <1>12 DEF OneControl, InOnePlace
    <2>3. Deadlines(l, r)
      BY <1>1, <1>4, <1>12 DEF Deadlines
    <2>4. QED
      BY <1>10, <2>1, <2>2, <2>3 DEF RequestInv
  <1>13. ASSUME NEW e \in {ok, error}, h.op = "update", l.cq = Append(k.cq, e)
         PROVE  /\ AtMostOne(l.cq, Drivers) /\ (Has(l.cq, Drivers) <=> Has(k.cq, Drivers))
                /\ AtMostOne(l.cq, Answers) /\ Has(l.cq, Answers)
                /\ Has(l.cq, Updated) <=> Has(k.cq, Updated) \/ e = ok
    <2>1. /\ e \in Completion /\ e \in Answers /\ e \notin Drivers /\ (e \in Updated <=> e = ok)
      BY DEF Completion, Answers, Drivers, Updated
    <2>2. ~Has(k.cq, Answers)
      BY <1>1, <1>3, <1>5, <1>13 DEF OneControl, InOnePlace
    <2> HIDE DEF ok, error
    <2>3. /\ AtMostOne(l.cq, Drivers) /\ (Has(l.cq, Drivers) <=> Has(k.cq, Drivers))
      BY <1>1, <1>13, <2>1, AppendHas DEF OneDriver
    <2>4. AtMostOne(l.cq, Answers) /\ Has(l.cq, Answers)
      BY <1>1, <1>13, <2>1, <2>2, AppendHas DEF OneControl
    <2>5. Has(l.cq, Updated) <=> Has(k.cq, Updated) \/ e = ok
      BY <1>1, <1>13, <2>1, AppendHas
    <2>6. QED
      BY <2>3, <2>4, <2>5
  <1>14. CASE /\ h.op = "update" /\ k.driver # 0 /\ l.driver = h.when
              /\ l.fallback = k.fallback /\ l.cq = Append(k.cq, ok)
    <2>1. /\ AtMostOne(l.cq, Drivers) /\ (Has(l.cq, Drivers) <=> Has(k.cq, Drivers))
          /\ AtMostOne(l.cq, Answers) /\ Has(l.cq, Answers) /\ Has(l.cq, Updated)
      BY <1>13, <1>14
    <2>2. OneDriver(l, r)
      BY <1>1, <1>3, <1>5, <1>8, <1>9, <1>14, <2>1 DEF OneDriver, InOnePlace
    <2>3. OneControl(l, r)
      BY <1>1, <1>3, <1>5, <1>14, <2>1 DEF OneControl, InOnePlace
    <2>4. Deadlines(l, r)
      BY <1>4, <1>7, <1>14, <2>1 DEF Deadlines
    <2>5. QED
      BY <1>10, <2>2, <2>3, <2>4 DEF RequestInv
  <1>15. CASE /\ h.op = "update" /\ l.driver = k.driver /\ l.fallback = k.fallback
              /\ l.cq = Append(k.cq, error)
    <2>1. /\ AtMostOne(l.cq, Drivers) /\ (Has(l.cq, Drivers) <=> Has(k.cq, Drivers))
          /\ AtMostOne(l.cq, Answers) /\ Has(l.cq, Answers)
          /\ Has(l.cq, Updated) <=> Has(k.cq, Updated)
      BY <1>13, <1>15
    <2>2. OneDriver(l, r)
      BY <1>1, <1>3, <1>5, <1>8, <1>9, <1>15, <2>1 DEF OneDriver, InOnePlace
    <2>3. OneControl(l, r)
      BY <1>1, <1>3, <1>5, <1>15, <2>1 DEF OneControl, InOnePlace
    <2>4. Deadlines(l, r)
      BY <1>1, <1>4, <1>15, <2>1 DEF Deadlines
    <2>5. QED
      BY <1>10, <2>2, <2>3, <2>4 DEF RequestInv
  <1>16. QED
    BY <1>11, <1>12, <1>14, <1>15 DEF h

(* A timeout is over: it expires, or the stop drain cancels it. *)
LEMMA ExpiresKeeps ==
  ASSUME NEW k, NEW r, RequestInv(k, r), NEW l \in KernelType, l.sq = k.sq,
         NEW result \in {"ETIME", "ECANCELED"},
         \/ /\ k.driver # 0 /\ l.driver = 0 /\ l.fallback = k.fallback
            /\ l.cq = Append(k.cq, [op |-> "driver", result |-> result])
         \/ /\ k.fallback # 0 /\ l.fallback = 0 /\ l.driver = k.driver
            /\ l.cq = Append(k.cq, [op |-> "control", result |-> result])
  PROVE  RequestInv(l, r)
  <1>1. /\ k.sq \in Seq(Request) /\ k.cq \in Seq(Completion)
        /\ OneDriver(k, r) /\ OneControl(k, r) /\ ArmFirst(k) /\ Deadlines(k, r)
        /\ r \in FlagsType
    BY RequestParts DEF RequestInv
  <1>2. CASE /\ k.driver # 0 /\ l.driver = 0 /\ l.fallback = k.fallback
             /\ l.cq = Append(k.cq, [op |-> "driver", result |-> result])
    <2> DEFINE e == [op |-> "driver", result |-> result]
    <2>1. e \in Completion /\ e \in Drivers /\ e \notin Answers /\ e \notin Updated
      BY DEF Completion, Answers, Drivers, Updated
    <2>2. ~Has(k.cq, Drivers) /\ ~Has(k.sq, Arms) /\ l.cq = Append(k.cq, e)
      BY <1>1, <1>2 DEF OneDriver, InOnePlace
    <2> HIDE DEF e
    <2>3. AtMostOne(l.cq, Drivers) /\ Has(l.cq, Drivers)
      BY <1>1, <2>1, <2>2, AppendHas DEF OneDriver
    <2>4. AtMostOne(l.cq, Answers) /\ (Has(l.cq, Answers) <=> Has(k.cq, Answers))
      BY <1>1, <2>1, <2>2, AppendHas DEF OneControl
    <2>5. Has(l.cq, Updated) <=> Has(k.cq, Updated)
      BY <1>1, <2>1, <2>2, AppendHas
    <2>6. OneDriver(l, r)
      BY <1>1, <1>2, <2>2, <2>3 DEF OneDriver, InOnePlace
    <2>7. OneControl(l, r)
      BY <1>1, <1>2, <2>4 DEF OneControl, InOnePlace
    <2>8. ArmFirst(l) /\ Deadlines(l, r)
      BY <1>1, <1>2, <2>2, <2>5 DEF ArmFirst, Deadlines
    <2>9. QED
      BY <1>1, <2>6, <2>7, <2>8 DEF RequestInv
  <1>3. CASE /\ k.fallback # 0 /\ l.fallback = 0 /\ l.driver = k.driver
             /\ l.cq = Append(k.cq, [op |-> "control", result |-> result])
    <2> DEFINE e == [op |-> "control", result |-> result]
    <2>1. e \in Completion /\ e \notin Drivers /\ e \in Answers /\ e \notin Updated
      BY DEF Completion, Answers, Drivers, Updated
    <2>2. ~Has(k.cq, Answers) /\ ~Has(k.sq, Arms) /\ l.cq = Append(k.cq, e)
      BY <1>1, <1>3 DEF OneControl, InOnePlace, ArmFirst
    <2> HIDE DEF e
    <2>3. AtMostOne(l.cq, Drivers) /\ (Has(l.cq, Drivers) <=> Has(k.cq, Drivers))
      BY <1>1, <2>1, <2>2, AppendHas DEF OneDriver
    <2>4. AtMostOne(l.cq, Answers) /\ Has(l.cq, Answers)
      BY <1>1, <2>1, <2>2, AppendHas DEF OneControl
    <2>5. Has(l.cq, Updated) <=> Has(k.cq, Updated)
      BY <1>1, <2>1, <2>2, AppendHas
    <2>6. OneDriver(l, r)
      BY <1>1, <1>3, <2>3 DEF OneDriver, InOnePlace
    <2>7. OneControl(l, r)
      BY <1>1, <1>3, <2>2, <2>4 DEF OneControl, InOnePlace
    <2>8. ArmFirst(l) /\ Deadlines(l, r)
      BY <1>1, <1>3, <2>2, <2>5 DEF ArmFirst, Deadlines
    <2>9. QED
      BY <1>1, <2>6, <2>7, <2>8 DEF RequestInv
  <1>4. QED
    BY <1>2, <1>3

(* Without a control request, none is anywhere. *)
LEMMA NoControl ==
  ASSUME NEW k, NEW r, RequestInv(k, r), ~r.controlPending
  PROVE  /\ ~Has(k.sq, Controls) /\ k.fallback = 0 /\ ~Has(k.cq, Answers)
         /\ ~Has(k.cq, Updated) /\ ~r.fallbackArmed
         /\ \A i \in DOMAIN k.sq : k.sq[i].op = "arm"
  <1>1. ~Has(k.sq, Controls) /\ k.fallback = 0 /\ ~Has(k.cq, Answers) /\ ~r.fallbackArmed
    BY RequestParts DEF OneControl, InOnePlace
  <1>2. ~Has(k.cq, Updated)
    BY <1>1, RequestParts DEF Has
  <1>3. ASSUME NEW i \in DOMAIN k.sq PROVE k.sq[i].op = "arm"
    <2>1. k.sq[i] \in Request
      BY RequestParts
    <2>2. QED
      BY <1>1, <2>1 DEF Has, Controls, Request
  <1>4. QED
    BY <1>1, <1>2, <1>3

(* Arm(), ArmFallback() and Update() submit a request. *)
LEMMA SubmitKeeps ==
  ASSUME NEW k, NEW r, RequestInv(k, r), ~r.controlPending,
         NEW e \in Request, NEW l \in KernelType, NEW f \in FlagsType,
         l.sq = Append(k.sq, e), l.driver = k.driver, l.fallback = k.fallback, l.cq = k.cq,
         \/ /\ e.op = "arm" /\ ~r.driverArmed /\ f.driverArmed /\ f.driverDeadline = e.when
            /\ ~f.controlPending /\ ~f.fallbackArmed
         \/ /\ e.op = "fallback" /\ f.driverArmed = r.driverArmed
            /\ f.driverDeadline = r.driverDeadline
            /\ f.controlPending /\ f.controlIsFallback /\ f.fallbackArmed
         \/ /\ e.op = "update" /\ f.driverArmed = r.driverArmed
            /\ f.driverDeadline = r.driverDeadline /\ f.requested = e.when
            /\ f.controlPending /\ ~f.controlIsFallback /\ ~f.fallbackArmed
  PROVE  RequestInv(l, f)
  <1>1. /\ k.sq \in Seq(Request) /\ OneDriver(k, r) /\ OneControl(k, r) /\ ArmFirst(k)
        /\ Deadlines(k, r) /\ Arms \cap Controls = {}
    BY RequestParts
  <1>2. /\ ~Has(k.sq, Controls) /\ k.fallback = 0 /\ ~Has(k.cq, Answers)
        /\ ~Has(k.cq, Updated) /\ \A i \in DOMAIN k.sq : k.sq[i].op = "arm"
    BY NoControl
  <1>3. (e.op = "arm" <=> e \in Arms) /\ (e.op # "arm" <=> e \in Controls)
    BY DEF Request, Arms, Controls
  <1>4. /\ Has(l.sq, Arms) <=> Has(k.sq, Arms) \/ e \in Arms
        /\ Has(l.sq, Controls) <=> e \in Controls
        /\ AtMostOne(l.sq, Controls)
    BY <1>1, <1>2, AppendHas DEF OneControl
  <1>5. \A i \in DOMAIN l.sq :
          (i \in DOMAIN k.sq /\ l.sq[i] = k.sq[i]) \/ (i = Len(k.sq) + 1 /\ l.sq[i] = e)
    BY <1>1, AppendHas
  <1>6. CASE e.op = "arm"
    <2>1. ~r.driverArmed /\ f.driverArmed /\ f.driverDeadline = e.when
          /\ ~f.controlPending /\ ~f.fallbackArmed
      BY <1>6
    <2>2. ~Has(k.sq, Arms) /\ k.driver = 0 /\ ~Has(k.cq, Drivers)
      BY <1>1, <2>1 DEF OneDriver, InOnePlace
    <2>3. AtMostOne(l.sq, Arms)
      BY <1>1, <2>2, AppendHas DEF OneDriver
    <2>4. OneDriver(l, f)
      BY <1>1, <1>3, <1>4, <1>6, <2>1, <2>2, <2>3 DEF OneDriver, InOnePlace
    <2>5. OneControl(l, f)
      BY <1>1, <1>2, <1>3, <1>4, <1>6, <2>1 DEF OneControl, InOnePlace
    <2>6. ArmFirst(l)
      BY <1>2, <1>3, <1>4, <1>6 DEF ArmFirst, Has
    <2>7. k.sq = <<>>
      BY <1>1, <1>2, <2>2 DEF Has, Arms
    <2>8. Deadlines(l, f)
      BY <1>2, <1>5, <1>6, <2>1, <2>2, <2>7 DEF Deadlines
    <2>9. QED
      BY <2>4, <2>5, <2>6, <2>8 DEF RequestInv
  <1>7. CASE e.op # "arm"
    <2>1. /\ f.driverArmed = r.driverArmed /\ f.driverDeadline = r.driverDeadline
          /\ f.controlPending /\ (f.fallbackArmed => f.controlIsFallback)
          /\ e.op = "update" => f.requested = e.when /\ ~f.controlIsFallback
      BY <1>7
    <2>2. AtMostOne(l.sq, Arms) /\ (Has(l.sq, Arms) <=> Has(k.sq, Arms))
      BY <1>1, <1>3, <1>4, <1>7, AppendHas DEF OneDriver
    <2>3. OneDriver(l, f)
      BY <1>1, <2>1, <2>2 DEF OneDriver, InOnePlace
    <2>4. OneControl(l, f)
      BY <1>1, <1>2, <1>3, <1>4, <1>7, <2>1 DEF OneControl, InOnePlace
    <2>5. ASSUME NEW i \in DOMAIN l.sq, NEW j \in DOMAIN l.sq, l.sq[i] \in Arms, l.sq[j] \in Controls
          PROVE  i < j
      <3>1. i \in DOMAIN k.sq
        BY <1>3, <1>5, <1>7, <2>5
      <3>2. j = Len(k.sq) + 1
        BY <1>2, <1>5, <2>5 DEF Has
      <3>3. QED
        BY <1>1, <3>1, <3>2
    <2>6. ArmFirst(l)
      BY <1>2, <2>5 DEF ArmFirst
    <2>7. Deadlines(l, f)
      BY <1>1, <1>2, <1>5, <1>7, <2>1 DEF Deadlines
    <2>8. QED
      BY <2>3, <2>4, <2>6, <2>7 DEF RequestInv
  <1>8. QED
    BY <1>6, <1>7

(* SubmitOp() fails: what is left in the flags concerns no request. *)
LEMMA UnsubmittedKeeps ==
  ASSUME NEW k, NEW r, RequestInv(k, r), ~r.controlPending, NEW f \in FlagsType,
         f.driverArmed = r.driverArmed, f.driverDeadline = r.driverDeadline,
         f.controlPending = r.controlPending, f.fallbackArmed = r.fallbackArmed
  PROVE  RequestInv(k, f)
  <1>1. /\ ~Has(k.cq, Updated) /\ ~r.fallbackArmed
        /\ \A i \in DOMAIN k.sq : k.sq[i].op = "arm"
    BY NoControl
  <1>2. Deadlines(k, f)
    BY <1>1 DEF RequestInv, Deadlines
  <1>3. QED
    BY <1>1, <1>2 DEF RequestInv, OneDriver, OneControl

(* The completion of the driver, of a fallback or of an update is handled. *)
LEMMA HandledKeeps ==
  ASSUME NEW k, NEW r, RequestInv(k, r), k.cq # <<>>, NEW l \in KernelType, NEW f \in FlagsType,
         l.cq = Tail(k.cq), l.sq = k.sq, l.driver = k.driver, l.fallback = k.fallback,
         f.requested = r.requested,
         \/ /\ Head(k.cq).op = "driver" /\ ~f.driverArmed
            /\ f.controlPending = r.controlPending /\ f.fallbackArmed = r.fallbackArmed
            /\ f.controlIsFallback = r.controlIsFallback
         \/ /\ Head(k.cq).op = "control" /\ r.controlIsFallback
            /\ ~f.controlPending /\ ~f.fallbackArmed
            /\ f.driverArmed = r.driverArmed /\ f.driverDeadline = r.driverDeadline
         \/ /\ Head(k.cq).op = "control" /\ ~r.controlIsFallback
            /\ ~f.controlPending /\ f.fallbackArmed = r.fallbackArmed
            /\ f.driverArmed = r.driverArmed
            /\ f.driverDeadline = IF Head(k.cq).result = "ok" THEN r.requested ELSE r.driverDeadline
  PROVE  RequestInv(l, f)
  <1> DEFINE h == Head(k.cq)
  <1>1. /\ k.cq \in Seq(Completion) /\ k.sq \in Seq(Request)
        /\ OneDriver(k, r) /\ OneControl(k, r) /\ ArmFirst(k) /\ Deadlines(k, r)
        /\ Updated \subseteq Answers /\ Drivers \cap Answers = {} /\ Arms \cap Controls = {}
    BY RequestParts
  <1>2. /\ h \in Completion
        /\ Has(k.cq, Drivers) <=> h \in Drivers \/ Has(l.cq, Drivers)
        /\ Has(k.cq, Answers) <=> h \in Answers \/ Has(l.cq, Answers)
        /\ Has(k.cq, Updated) <=> h \in Updated \/ Has(l.cq, Updated)
        /\ AtMostOne(l.cq, Drivers) /\ ~(h \in Drivers /\ Has(l.cq, Drivers))
        /\ AtMostOne(l.cq, Answers) /\ ~(h \in Answers /\ Has(l.cq, Answers))
    BY <1>1, TailHas DEF OneDriver, OneControl
  <1>3. /\ h.op = "driver" <=> h \in Drivers
        /\ h.op = "control" <=> h \in Answers
        /\ h \in Answers => (h.result = "ok" <=> h \in Updated)
    BY <1>2 DEF Completion, Drivers, Answers, Updated
  <1>4. \A i \in DOMAIN k.sq : k.sq[i].op = "arm" => k.sq[i] \in Arms
    BY <1>1 DEF Arms
  <1>5. \A i \in DOMAIN k.sq : k.sq[i].op = "update" => k.sq[i] \in Controls
    BY <1>1 DEF Controls
  <1> HIDE DEF h
  <1>6. CASE /\ h.op = "driver" /\ ~f.driverArmed
             /\ f.controlPending = r.controlPending /\ f.fallbackArmed = r.fallbackArmed
             /\ f.controlIsFallback = r.controlIsFallback
    <2>1. k.driver = 0 /\ ~Has(k.sq, Arms)
      BY <1>1, <1>2, <1>3, <1>6 DEF OneDriver, InOnePlace
    <2>2. OneDriver(l, f)
      BY <1>1, <1>2, <1>3, <1>6, <2>1 DEF OneDriver, InOnePlace
    <2>3. OneControl(l, f)
      BY <1>1, <1>2, <1>3, <1>6 DEF OneControl, InOnePlace
    <2>4. ArmFirst(l)
      BY <2>1 DEF ArmFirst
    <2>5. Deadlines(l, f)
      BY <1>1, <1>2, <1>4, <1>6, <2>1 DEF Deadlines, Has
    <2>6. QED
      BY <2>2, <2>3, <2>4, <2>5 DEF RequestInv
  <1>7. CASE /\ h.op = "control" /\ ~f.controlPending /\ ~f.fallbackArmed
             /\ f.driverArmed = r.driverArmed
             /\ k.driver # 0 => k.driver = f.driverDeadline
    <2>1. /\ k.fallback = 0 /\ ~Has(k.sq, Controls) /\ ~Has(k.sq, Arms)
          /\ ~Has(l.cq, Answers)
      BY <1>1, <1>2, <1>3, <1>7 DEF OneControl, InOnePlace, ArmFirst
    <2>2. ~Has(l.cq, Updated)
      BY <1>1, <2>1 DEF Has
    <2>3. OneDriver(l, f)
      BY <1>1, <1>2, <1>3, <1>7 DEF OneDriver, InOnePlace
    <2>4. OneControl(l, f)
      BY <1>1, <1>2, <1>7, <2>1 DEF OneControl, InOnePlace
    <2>5. ArmFirst(l)
      BY <2>1 DEF ArmFirst
    <2>6. Deadlines(l, f)
      BY <1>4, <1>5, <1>7, <2>1, <2>2 DEF Deadlines, Has
    <2>7. QED
      BY <2>3, <2>4, <2>5, <2>6 DEF RequestInv
  <1>8. CASE /\ h.op = "control" /\ r.controlIsFallback
             /\ ~f.controlPending /\ ~f.fallbackArmed
             /\ f.driverArmed = r.driverArmed /\ f.driverDeadline = r.driverDeadline
    <2>1. ~Has(k.cq, Updated)
      BY <1>1, <1>8 DEF Deadlines
    <2>2. k.driver # 0 => k.driver = f.driverDeadline
      BY <1>1, <1>8, <2>1 DEF Deadlines
    <2>3. QED
      BY <1>7, <1>8, <2>2
  <1>9. CASE /\ h.op = "control" /\ ~r.controlIsFallback
             /\ ~f.controlPending /\ f.fallbackArmed = r.fallbackArmed
             /\ f.driverArmed = r.driverArmed
             /\ f.driverDeadline = IF h.result = "ok" THEN r.requested ELSE r.driverDeadline
    <2>1. ~f.fallbackArmed
      BY <1>1, <1>9 DEF OneControl
    <2>2. Has(k.cq, Updated) <=> h.result = "ok"
      <3>1. ~Has(l.cq, Updated)
        BY <1>1, <1>2, <1>3, <1>9 DEF Has
      <3>2. QED
        BY <1>2, <1>3, <1>9, <3>1
    <2>3. k.driver # 0 => k.driver = f.driverDeadline
      BY <1>1, <1>9, <2>2 DEF Deadlines
    <2>4. QED
      BY <1>7, <1>9, <2>1, <2>3
  <1>10. QED
    BY <1>6, <1>8, <1>9 DEF h

(* The branches of Reconcile(). *)
LEMMA NeedsWhat ==
  ASSUME NEW q
  PROVE  /\ Needs(q) \in {"nothing", "arm", "update", "fallback"}
         /\ Needs(q) # "nothing" => ~q.req.controlPending /\ q.timers # {}
         /\ Needs(q) = "arm" => ~q.req.driverArmed
         /\ Needs(q) = "nothing" =>
              \/ q.req.controlPending \/ q.timers = {}
              \/ q.req.driverArmed /\ Earliest(q.timers).expiration >= q.req.driverDeadline
              \/ q.req.fallbackArmed
         /\ \/ q.req.controlPending \/ q.timers = {}
            \/ q.req.driverArmed /\ Earliest(q.timers).expiration >= q.req.driverDeadline
              => Needs(q) = "nothing"
  <1>1. Earliest(q.timers) = Earliest(q.timers)
    OBVIOUS
  <1> DEFINE n == Needs(q)
             c == q.req.controlPending \/ q.timers = {}
             e == Earliest(q.timers).expiration >= q.req.driverDeadline
  <1>2. /\ c => n = "nothing"
        /\ ~c /\ ~q.req.driverArmed => n = "arm"
        /\ ~c /\ q.req.driverArmed /\ e => n = "nothing"
        /\ ~c /\ q.req.driverArmed /\ ~e /\ q.updateSupported => n = "update"
        /\ ~c /\ q.req.driverArmed /\ ~e /\ ~q.updateSupported /\ ~q.req.fallbackArmed => n = "fallback"
        /\ ~c /\ q.req.driverArmed /\ ~e /\ ~q.updateSupported /\ q.req.fallbackArmed => n = "nothing"
    BY <1>1 DEF Needs
  <1> HIDE DEF n, e
  <1>3. QED
    BY <1>2 DEF n, e

(* Reconcile() looks at nothing else. *)
LEMMA NeedsSame ==
  ASSUME NEW p, NEW q, p.timers = q.timers, p.updateSupported = q.updateSupported,
         p.req.driverArmed = q.req.driverArmed, p.req.driverDeadline = q.req.driverDeadline,
         p.req.controlPending = q.req.controlPending, p.req.fallbackArmed = q.req.fallbackArmed
  PROVE  Needs(p) = Needs(q)
  BY DEF Needs

(* The queue with other flags. *)
SameBut(p, q) ==
  /\ p \in UringQueueType
  /\ p.timers = q.timers /\ p.active = q.active /\ p.running = q.running
  /\ p.cancelled = q.cancelled /\ p.now = q.now /\ p.added = q.added

(* Reconcile() submits what is needed, and then nothing is. *)
LEMMA ReconcileOkKeeps ==
  ASSUME NEW q \in UringQueueType, \A t \in q.timers : t.expiration # 0, OneEach(q.timers),
         NEW k, RequestInv(k, q.req), ReconcileOk(q, k)
  PROVE  /\ SameBut(queue', q) /\ RequestInv(kernel', queue'.req)
         /\ Needs(queue') = "nothing"
  <1> DEFINE needs == Needs(q)
             d == Earliest(q.timers).expiration
             e == [op |-> needs, when |-> d]
             Flags(f) == /\ queue' = [q EXCEPT !.req = f]
                         /\ kernel' = [k EXCEPT !.sq = Append(@, e)]
  <1>1. /\ needs \in {"nothing", "arm", "update", "fallback"}
        /\ needs # "nothing" => ~q.req.controlPending /\ q.timers # {}
        /\ needs = "arm" => ~q.req.driverArmed
    BY NeedsWhat
  <1>2. /\ needs = "nothing" => queue' = q /\ kernel' = k
        /\ needs = "arm" => Flags([q.req EXCEPT !.driverArmed = TRUE, !.driverDeadline = d])
        /\ needs = "fallback" =>
             Flags([q.req EXCEPT !.controlIsFallback = TRUE, !.controlPending = TRUE,
                                 !.fallbackArmed = TRUE])
        /\ needs = "update" =>
             Flags([q.req EXCEPT !.requested = d, !.controlIsFallback = FALSE,
                                 !.controlPending = TRUE])
    BY DEF ReconcileOk, Arm, ArmFallback,
                      Update
  <1>3. q.req \in FlagsType /\ k \in KernelType
    BY DEF RequestInv
  <1>4. CASE needs = "nothing"
    BY <1>2, <1>4 DEF SameBut
  <1>5. CASE needs # "nothing"
    <2>1. Earliest(q.timers) \in q.timers /\ q.timers \subseteq TimerType
      BY <1>1, <1>5, EarliestIs DEF IsEarliest, UringQueueType
    <2>2. d \in Nat \ {0}
      BY <2>1 DEF TimerType
    <2>3. e \in Request /\ e.op = needs /\ e.when = d
      BY <1>1, <1>5, <2>2 DEF Request
    <2>4. ~q.req.fallbackArmed
      BY <1>1, <1>5, NoControl
    <2> HIDE DEF needs, d, e
    <2>5. ASSUME NEW f \in FlagsType, Flags(f)
          PROVE  /\ SameBut(queue', q) /\ queue'.req = f /\ kernel' \in KernelType
                 /\ kernel'.sq = Append(k.sq, e) /\ kernel'.driver = k.driver
                 /\ kernel'.fallback = k.fallback /\ kernel'.cq = k.cq
      <3>1. queue' = [q EXCEPT !.req = f] /\ kernel' = [k EXCEPT !.sq = Append(@, e)]
        BY <2>5
      <3>2. SameBut(queue', q) /\ queue'.req = f
        BY <3>1 DEF SameBut, UringQueueType
      <3>3. /\ kernel'.sq = Append(k.sq, e) /\ kernel'.driver = k.driver
            /\ kernel'.fallback = k.fallback /\ kernel'.cq = k.cq
            /\ kernel'.updates = k.updates
        BY <1>3, <3>1 DEF KernelType
      <3>4. kernel' \in KernelType
        <4>1. Append(k.sq, e) \in Seq(Request)
          BY <1>3, <2>3 DEF KernelType
        <4>2. QED
          BY <1>3, <3>1, <4>1, Zenon DEF KernelType
      <3>5. QED
        BY <3>2, <3>3, <3>4
    <2>6. CASE needs = "arm"
      <3> DEFINE f == [q.req EXCEPT !.driverArmed = TRUE, !.driverDeadline = d]
      <3>1. /\ f \in FlagsType /\ f.driverArmed /\ f.driverDeadline = d
            /\ f.controlPending = q.req.controlPending
            /\ f.fallbackArmed = q.req.fallbackArmed
        BY <1>3, <2>2, Zenon DEF FlagsType
      <3>2. Flags(f)
        BY <1>2, <2>6
      <3> HIDE DEF f, Flags
      <3>3. RequestInv(kernel', f)
        BY <1>1, <2>3, <2>4, <2>5, <2>6, <3>1, <3>2, SubmitKeeps
      <3>4. queue'.req = f /\ queue'.timers = q.timers
        BY <2>5, <3>1, <3>2 DEF SameBut
      <3>5. Needs(queue') = "nothing"
        BY <2>2, <3>1, <3>4, NeedsWhat DEF d
      <3>6. QED
        BY <2>5, <3>1, <3>2, <3>3, <3>4, <3>5
    <2>7. CASE needs = "fallback"
      <3> DEFINE f == [q.req EXCEPT !.controlIsFallback = TRUE, !.controlPending = TRUE,
                                    !.fallbackArmed = TRUE]
      <3>1. /\ f \in FlagsType /\ f.driverArmed = q.req.driverArmed
            /\ f.driverDeadline = q.req.driverDeadline
            /\ f.controlPending /\ f.fallbackArmed /\ f.controlIsFallback
        BY <1>3, Zenon DEF FlagsType
      <3>2. Flags(f)
        BY <1>2, <2>7
      <3> HIDE DEF f, Flags
      <3>3. RequestInv(kernel', f)
        BY <1>1, <2>3, <2>5, <2>7, <3>1, <3>2, SubmitKeeps
      <3>4. queue'.req = f /\ Needs(queue') = "nothing"
        BY <2>5, <3>1, <3>2, NeedsWhat
      <3>5. QED
        BY <2>5, <3>1, <3>2, <3>3, <3>4
    <2>8. CASE needs = "update"
      <3> DEFINE f == [q.req EXCEPT !.requested = d, !.controlIsFallback = FALSE,
                                    !.controlPending = TRUE]
      <3>1. /\ f \in FlagsType /\ f.driverArmed = q.req.driverArmed
            /\ f.driverDeadline = q.req.driverDeadline /\ f.requested = d
            /\ f.controlPending /\ ~f.controlIsFallback
            /\ f.fallbackArmed = q.req.fallbackArmed
        BY <1>3, <2>2, Zenon DEF FlagsType
      <3>2. Flags(f)
        BY <1>2, <2>8
      <3> HIDE DEF f, Flags
      <3>3. RequestInv(kernel', f)
        BY <1>1, <2>3, <2>4, <2>5, <2>8, <3>1, <3>2, SubmitKeeps
      <3>4. queue'.req = f /\ Needs(queue') = "nothing"
        BY <2>5, <3>1, <3>2, NeedsWhat
      <3>5. QED
        BY <2>5, <3>1, <3>2, <3>3, <3>4
    <2>9. QED
      BY <1>1, <1>5, <2>6, <2>7, <2>8
  <1>6. QED
    BY <1>4, <1>5

(* SubmitOp() fails. *)
LEMMA NotSubmittedKeeps ==
  ASSUME NEW q \in UringQueueType, NEW k, RequestInv(k, q.req), ReconcileFails(q)
  PROVE  LET f == NotSubmitted(q)
         IN  /\ RequestInv(k, f) /\ f \in FlagsType /\ f.driverArmed = q.req.driverArmed
             /\ f.driverDeadline = q.req.driverDeadline
             /\ f.controlPending = q.req.controlPending
             /\ f.fallbackArmed = q.req.fallbackArmed
  <1> DEFINE f == NotSubmitted(q)
  <1>1. ~q.req.controlPending /\ q.req \in FlagsType
    BY NeedsWhat DEF ReconcileFails, UringQueueType
  <1>2. /\ f \in FlagsType /\ f.driverArmed = q.req.driverArmed
        /\ f.driverDeadline = q.req.driverDeadline
        /\ f.controlPending = q.req.controlPending
        /\ f.fallbackArmed = q.req.fallbackArmed
    BY <1>1, Zenon DEF FlagsType, NotSubmitted
  <1> HIDE DEF f
  <1>3. RequestInv(k, f)
    BY <1>1, <1>2, UnsubmittedKeeps
  <1>4. QED
    BY <1>2, <1>3 DEF f

(* What every step starts from. *)
LEMMA UringParts ==
  ASSUME UringIInv
  PROVE  /\ UringTypeOK /\ UringBook /\ RequestInv(kernel, queue.req) /\ Reconciled
         /\ queue \in UringQueueType /\ queue.req \in FlagsType
         /\ queue.timers \in SUBSET TimerType /\ OneEach(queue.timers)
         /\ queue.running \in TimerType /\ \A t \in queue.timers : t.expiration # 0
  BY DEF UringIInv, UringTypeOK, UringBook, Book, UringQueueType

(* A step that ends with Reconcile(), which stops the loop where it fails. *)
LEMMA ReconcileStep ==
  ASSUME NEW q \in UringQueueType, NEW k, RequestInv(k, q.req),
         Book(q.timers, q.active, q.running, q.cancelled, q.added, ran', gone', MaxTimers),
         \A t \in q.timers : t.expiration # 0,
         stopping \in BOOLEAN, clock' \in Nat, q.now <= clock',
         at' \in {"loop", "pop", "callback", "stopped"},
         at' = "callback" <=> q.running.sequence # 0,
         ReconcileOrStop(q, k)
  PROVE  UringIInv'
  <1>1. OneEach(q.timers)
    BY DEF Book
  <1>2. /\ SameBut(queue', q) /\ RequestInv(kernel', queue'.req) /\ stopping' \in BOOLEAN
        /\ ~stopping' => Needs(queue') = "nothing"
    <2>1. CASE ReconcileOk(q, k) /\ UNCHANGED stopping
      BY <1>1, <2>1, ReconcileOkKeeps
    <2>2. CASE /\ ReconcileFails(q) /\ stopping' = TRUE
               /\ queue' = [q EXCEPT !.req = NotSubmitted(q)] /\ kernel' = k
      <3> DEFINE f == NotSubmitted(q)
      <3>1. RequestInv(k, f) /\ f \in FlagsType
        BY <2>2, NotSubmittedKeeps
      <3>2. queue' = [q EXCEPT !.req = f]
        BY <2>2
      <3> HIDE DEF f
      <3>3. SameBut(queue', q) /\ queue'.req = f
        BY <3>1, <3>2 DEF SameBut, UringQueueType
      <3>4. QED
        BY <2>2, <3>1, <3>3
    <2>3. QED
      BY <2>1, <2>2, Zenon DEF ReconcileOrStop
  <1>3. UringTypeOK'
    BY <1>2 DEF UringTypeOK, SameBut
  <1>4. UringBook'
    BY <1>2 DEF UringBook, SameBut
  <1>5. Needs(queue)' = Needs(queue')
    BY DEF Needs, Earliest, TimerLess
  <1>6. Reconciled'
    BY <1>2, <1>5 DEF Reconciled
  <1>7. QED
    BY <1>2, <1>3, <1>4, <1>6 DEF UringIInv

(* AddTimer() enters the timer, or fails and has only used up its number. *)
LEMMA UringAddKeeps ==
  ASSUME UringIInv, NEW when \in Nat \ {0}, NEW interval \in Nat,
         AddTimer(when, interval)
  PROVE  UringIInv'
  <1> DEFINE T == queue.timers
             t == Timer(queue.added + 1, when, interval)
             q == [queue EXCEPT !.timers = T \cup {t}, !.active = @ \cup {t.sequence},
                                 !.added = @ + 1]
  <1>1. /\ UringTypeOK /\ UringBook /\ RequestInv(kernel, queue.req) /\ Reconciled
        /\ queue \in UringQueueType /\ queue.req \in FlagsType
        /\ T \in SUBSET TimerType /\ \A u \in T : u.expiration # 0
    BY UringParts
  <1>2. /\ queue.added < MaxTimers /\ UNCHANGED <<clock, at, stopping, ran, gone>>
        /\ \/ ReconcileOk(q, kernel)
           \/ /\ ReconcileFails(q) /\ UNCHANGED kernel
              /\ queue' = [queue EXCEPT !.added = @ + 1, !.req = NotSubmitted(q)]
    BY DEF AddTimer
  <1>3. /\ t \in TimerType /\ t.expiration = when /\ t.sequence \in Nat
        /\ Book(T \cup {t}, queue.active \cup {t.sequence}, queue.running, queue.cancelled,
                queue.added + 1, ran, gone, MaxTimers)
        /\ Book(T, queue.active, queue.running, queue.cancelled, queue.added + 1,
                ran, gone, MaxTimers)
    BY <1>1, <1>2, BookAdd, Zenon DEF UringBook, Timer, TimerType
  <1> HIDE DEF t
  <1>4. /\ q \in UringQueueType /\ q.timers = T \cup {t}
        /\ q.active = queue.active \cup {t.sequence} /\ q.running = queue.running
        /\ q.cancelled = queue.cancelled /\ q.added = queue.added + 1
        /\ q.now = queue.now /\ q.req = queue.req
        /\ q.updateSupported = queue.updateSupported
    <2>1. /\ T \cup {t} \in SUBSET TimerType /\ queue.active \cup {t.sequence} \in SUBSET Nat
          /\ queue.added + 1 \in Nat
      BY <1>1, <1>3 DEF UringQueueType
    <2>2. QED
      BY <1>1, <2>1, Zenon DEF UringQueueType
  <1>5. OneEach(q.timers) /\ \A u \in q.timers : u.expiration # 0
    BY <1>1, <1>3, <1>4 DEF Book
  <1> HIDE DEF q
  <1>6. CASE ReconcileOk(q, kernel)
    <2>1. SameBut(queue', q) /\ RequestInv(kernel', queue'.req)
          /\ Needs(queue') = "nothing"
      BY <1>1, <1>4, <1>5, <1>6, ReconcileOkKeeps, Zenon
    <2>2. UringTypeOK'
      BY <1>1, <1>2, <1>4, <1>5, <2>1 DEF UringTypeOK, SameBut
    <2>3. UringBook'
      BY <1>2, <1>3, <1>4, <2>1 DEF UringBook, SameBut
    <2>4. Needs(queue)' = Needs(queue')
      BY DEF Needs, Earliest, TimerLess
    <2>5. Reconciled'
      BY <2>1, <2>4 DEF Reconciled
    <2>6. QED
      BY <2>1, <2>2, <2>3, <2>5 DEF UringIInv
  <1>7. CASE /\ ReconcileFails(q) /\ UNCHANGED kernel
             /\ queue' = [queue EXCEPT !.added = @ + 1, !.req = NotSubmitted(q)]
    <2> DEFINE f == NotSubmitted(q)
    <2>1. /\ RequestInv(kernel, f) /\ f \in FlagsType /\ f.driverArmed = queue.req.driverArmed
          /\ f.driverDeadline = queue.req.driverDeadline
          /\ f.controlPending = queue.req.controlPending
          /\ f.fallbackArmed = queue.req.fallbackArmed
      BY <1>1, <1>4, <1>7, NotSubmittedKeeps
    <2>2. queue' = [queue EXCEPT !.added = @ + 1, !.req = f]
      BY <1>7
    <2> HIDE DEF f
    <2>3. /\ queue' \in UringQueueType /\ queue'.timers = T
          /\ queue'.active = queue.active /\ queue'.running = queue.running
          /\ queue'.cancelled = queue.cancelled /\ queue'.added = queue.added + 1
          /\ queue'.now = queue.now /\ queue'.req = f
          /\ queue'.updateSupported = queue.updateSupported
      <3>1. queue.added + 1 \in Nat
        BY <1>1 DEF UringQueueType
      <3>2. QED
        BY <1>1, <2>1, <2>2, <3>1, Zenon DEF UringQueueType
    <2>4. Needs(queue)' = Needs(queue)
      <3>1. Needs(queue') = Needs(queue)
        BY <2>1, <2>3, NeedsSame
      <3>2. QED
        BY <3>1 DEF Needs, Earliest, TimerLess
    <2>5. UringTypeOK'
      BY <1>1, <1>2, <2>3 DEF UringTypeOK
    <2>6. UringBook' /\ Reconciled'
      BY <1>1, <1>2, <1>3, <2>3, <2>4 DEF UringBook, Reconciled
    <2>7. RequestInv(kernel, queue.req)'
      BY <1>7, <2>1, <2>3
    <2>8. QED
      BY <2>5, <2>6, <2>7 DEF UringIInv
  <1>8. QED
    BY <1>2, <1>6, <1>7

(* Cancel() *)
LEMMA UringCancelKeeps ==
  ASSUME UringIInv, NEW id \in Nat \ {0}, Cancel(id)
  PROVE  UringIInv'
  <1> DEFINE T == queue.timers
             t == CHOOSE u \in T : u.sequence = id
             q == [queue EXCEPT !.timers = {u \in @ : u.sequence # id}, !.active = @ \ {id}]
             d == queue.cancelled \/ (queue.running.sequence = id /\ Repeat(queue.running))
  <1>1. /\ UringTypeOK /\ UringBook /\ RequestInv(kernel, queue.req) /\ Reconciled
        /\ queue \in UringQueueType /\ T \in SUBSET TimerType
        /\ \A u \in T : u.expiration # 0
    BY UringParts
  <1>2. /\ id <= queue.added /\ gone' = gone \cup {id} /\ UNCHANGED <<clock, at, ran>>
        /\ \/ /\ id \notin queue.active /\ queue' = [queue EXCEPT !.cancelled = d]
              /\ UNCHANGED <<kernel, stopping>>
           \/ id \in queue.active /\ ReconcileOrStop(q, kernel)
    BY DEF Cancel
  <1>3. CASE id \in queue.active
    <2>1. t \in T /\ t.sequence = id
      <3>1. queue.active = Sequences(T)
        BY <1>1 DEF UringBook, Book
      <3>2. QED
        BY <1>3, <3>1 DEF Sequences
    <2> HIDE DEF t
    <2>2. /\ {u \in T : u.sequence # id} = T \ {t}
          /\ Book(T \ {t}, queue.active \ {id}, queue.running, queue.cancelled,
                  queue.added, ran, gone \cup {id}, MaxTimers)
      <3>1. Book(T, queue.active, queue.running, queue.cancelled, queue.added, ran, gone,
                 MaxTimers)
        BY <1>1 DEF UringBook
      <3>2. Book(T \ {t}, queue.active \ {id}, queue.running, queue.cancelled,
                 queue.added, ran, gone \cup {id}, MaxTimers)
        BY <1>3, <2>1, <3>1, BookCancel
      <3>3. {u \in T : u.sequence # id} = T \ {t}
        BY <1>1, <2>1 DEF UringBook, Book, OneEach
      <3>4. QED
        BY <3>2, <3>3
    <2>3. /\ q \in UringQueueType /\ q.timers = T \ {t} /\ q.active = queue.active \ {id}
          /\ q.running = queue.running /\ q.cancelled = queue.cancelled
          /\ q.added = queue.added /\ q.now = queue.now /\ q.req = queue.req
      <3>1. {u \in T : u.sequence # id} \in SUBSET TimerType
        BY <1>1
      <3>2. QED
        BY <1>1, <2>2, <3>1, Zenon DEF UringQueueType
    <2> HIDE DEF q
    <2>4. Book(q.timers, q.active, q.running, q.cancelled, q.added, ran', gone', MaxTimers)
      BY <1>2, <2>2, <2>3
    <2>5. QED
      BY <1>1, <1>2, <1>3, <2>3, <2>4, ReconcileStep, Zenon DEF UringTypeOK
  <1>4. CASE id \notin queue.active
    <2>1. queue' = [queue EXCEPT !.cancelled = d] /\ UNCHANGED <<kernel, stopping>>
      BY <1>2, <1>4
    <2>2. id \in 1..queue.added
      BY <1>1, <1>2 DEF UringQueueType
    <2>3. Book(T, queue.active, queue.running, d, queue.added, ran, gone \cup {id},
               MaxTimers)
      <3>1. queue.cancelled => d
        OBVIOUS
      <3>2. queue.running.sequence = id /\ Repeat(queue.running) => d
        OBVIOUS
      <3> HIDE DEF d
      <3>3. QED
        BY <1>1, <1>4, <2>2, <3>1, <3>2, BookCancelRunning, Zenon DEF UringBook
    <2>4. d \in BOOLEAN
      OBVIOUS
    <2> HIDE DEF d
    <2>5. /\ queue' \in UringQueueType /\ queue'.timers = T
          /\ queue'.active = queue.active /\ queue'.running = queue.running
          /\ queue'.cancelled = d /\ queue'.added = queue.added
          /\ queue'.now = queue.now /\ queue'.req = queue.req
          /\ queue'.updateSupported = queue.updateSupported
      BY <1>1, <2>1, <2>4 DEF UringQueueType
    <2>6. Needs(queue)' = Needs(queue)
      BY <2>5 DEF Needs, Earliest, TimerLess
    <2>7. UringTypeOK'
      BY <1>1, <1>2, <2>1, <2>5 DEF UringTypeOK
    <2>8. UringBook'
      BY <1>2, <2>3, <2>5 DEF UringBook
    <2>9. RequestInv(kernel, queue.req)' /\ Reconciled'
      BY <1>1, <1>2, <2>1, <2>5, <2>6 DEF Reconciled
    <2>10. QED
      BY <2>7, <2>8, <2>9 DEF UringIInv
  <1>5. QED
    BY <1>3, <1>4

(* A completion q is handled: only flags change, and perhaps update_supported_. *)
LEMMA CompletionKeeps ==
  ASSUME UringIInv, at = "loop", NEW q \in UringQueueType, SameBut(q, queue),
         RequestInv(Rest, q.req), UNCHANGED <<clock, ran, gone>>,
         \/ /\ at' = "pop" /\ queue' = [q EXCEPT !.now = clock]
            /\ kernel' = Rest /\ UNCHANGED stopping
         \/ at' = "loop" /\ ReconcileOrStop(q, Rest)
  PROVE  UringIInv'
  <1>1. /\ UringTypeOK /\ UringBook /\ queue \in UringQueueType
        /\ \A t \in queue.timers : t.expiration # 0
    BY UringParts
  <1>2. Book(q.timers, q.active, q.running, q.cancelled, q.added, ran, gone, MaxTimers)
    BY <1>1 DEF UringBook, SameBut
  <1>3. CASE /\ at' = "pop" /\ queue' = [q EXCEPT !.now = clock]
             /\ kernel' = Rest /\ UNCHANGED stopping
    <2>1. /\ queue' \in UringQueueType /\ queue'.timers = q.timers
          /\ queue'.active = q.active /\ queue'.running = q.running
          /\ queue'.cancelled = q.cancelled /\ queue'.added = q.added
          /\ queue'.now = clock /\ queue'.req = q.req
      BY <1>1, <1>3 DEF UringQueueType, UringTypeOK
    <2>2. UringTypeOK'
      BY <1>1, <1>3, <2>1 DEF UringTypeOK, SameBut
    <2>3. UringBook'
      BY <1>2, <2>1 DEF UringBook
    <2>4. RequestInv(kernel, queue.req)' /\ Reconciled'
      BY <1>3, <2>1 DEF Reconciled
    <2>5. QED
      BY <2>2, <2>3, <2>4 DEF UringIInv
  <1>4. CASE at' = "loop" /\ ReconcileOrStop(q, Rest)
    <2>1. \A t \in q.timers : t.expiration # 0
      BY <1>1 DEF SameBut
    <2>2. clock' \in Nat /\ q.now <= clock' /\ stopping \in BOOLEAN
      BY <1>1 DEF UringTypeOK, SameBut
    <2>3. q.running.sequence = 0
      BY <1>1 DEF UringTypeOK, SameBut
    <2>4. Book(q.timers, q.active, q.running, q.cancelled, q.added, ran', gone', MaxTimers)
      BY <1>2
    <2>5. QED
      BY <1>4, <2>1, <2>2, <2>3, <2>4, ReconcileStep
  <1>5. QED
    BY <1>3, <1>4

(* HandleDriverComplete(), HandleFallbackComplete() and HandleUpdateComplete(). *)
LEMMA HandleKeeps ==
  ASSUME UringIInv,
         \/ HandleDriverComplete \/ HandleFallbackComplete
         \/ HandleUpdateComplete
  PROVE  UringIInv'
  <1> DEFINE r == queue.req
             k == Rest
             h == Head(kernel.cq)
  <1>1. RequestInv(kernel, r) /\ queue \in UringQueueType /\ r \in FlagsType
    BY UringParts
  <1>2. kernel \in KernelType
    BY <1>1 DEF RequestInv
  <1>3. at = "loop" /\ kernel.cq # <<>> /\ h.op \in {"driver", "control"}
    BY DEF HandleDriverComplete, HandleFallbackComplete,
           HandleUpdateComplete, Seen
  <1>4. /\ k \in KernelType /\ k.cq = Tail(kernel.cq) /\ k.sq = kernel.sq
        /\ k.driver = kernel.driver /\ k.fallback = kernel.fallback
    <2>1. Tail(kernel.cq) \in Seq(Completion)
      BY <1>2, <1>3 DEF KernelType
    <2>2. QED
      BY <1>2, <2>1 DEF Rest, KernelType
  <1>5. ASSUME NEW f \in FlagsType, NEW u \in BOOLEAN
        PROVE  LET q == [queue EXCEPT !.req = f, !.updateSupported = u]
               IN  q \in UringQueueType /\ SameBut(q, queue) /\ q.req = f
    BY <1>1, Zenon DEF UringQueueType, SameBut
  <1> HIDE DEF k
  <1>6. CASE HandleDriverComplete
    <2> DEFINE f == [r EXCEPT !.driverArmed = FALSE, !.driverDeadline = 0]
               q == [queue EXCEPT !.req = f, !.updateSupported = queue.updateSupported]
    <2>1. /\ f \in FlagsType /\ ~f.driverArmed /\ f.requested = r.requested
          /\ f.controlPending = r.controlPending /\ f.fallbackArmed = r.fallbackArmed
          /\ f.controlIsFallback = r.controlIsFallback
      BY <1>1, Zenon DEF FlagsType
    <2>2. h.op = "driver" /\ TimeoutOver(q)
      <3>1. q = [queue EXCEPT !.req.driverArmed = FALSE, !.req.driverDeadline = 0]
        BY <1>1, Zenon DEF UringQueueType, FlagsType
      <3>2. QED
        BY <1>6, <3>1 DEF HandleDriverComplete, Seen
    <2> HIDE DEF f
    <2>3. q \in UringQueueType /\ SameBut(q, queue) /\ q.req = f
      BY <1>1, <1>5, <2>1, Zenon DEF UringQueueType
    <2>4. RequestInv(k, f)
      BY <1>1, <1>3, <1>4, <2>1, <2>2, HandledKeeps
    <2> HIDE DEF q
    <2>5. QED
      BY <1>3, <2>2, <2>3, <2>4, CompletionKeeps DEF TimeoutOver, k
  <1>7. CASE HandleFallbackComplete
    <2> DEFINE f == [r EXCEPT !.controlPending = FALSE, !.controlIsFallback = FALSE,
                              !.fallbackArmed = FALSE]
               q == [queue EXCEPT !.req = f, !.updateSupported = queue.updateSupported]
    <2>1. /\ f \in FlagsType /\ ~f.controlPending /\ ~f.fallbackArmed
          /\ f.requested = r.requested /\ f.driverArmed = r.driverArmed
          /\ f.driverDeadline = r.driverDeadline
      BY <1>1, Zenon DEF FlagsType
    <2>2. h.op = "control" /\ r.controlIsFallback /\ TimeoutOver(q)
      <3>1. q = [queue EXCEPT !.req.controlPending = FALSE, !.req.controlIsFallback = FALSE,
                               !.req.fallbackArmed = FALSE]
        BY <1>1, Zenon DEF UringQueueType, FlagsType
      <3>2. QED
        BY <1>7, <3>1 DEF HandleFallbackComplete, Seen
    <2> HIDE DEF f
    <2>3. q \in UringQueueType /\ SameBut(q, queue) /\ q.req = f
      BY <1>1, <1>5, <2>1, Zenon DEF UringQueueType
    <2>4. RequestInv(k, f)
      BY <1>1, <1>3, <1>4, <2>1, <2>2, HandledKeeps
    <2> HIDE DEF q
    <2>5. QED
      BY <1>3, <2>2, <2>3, <2>4, CompletionKeeps DEF TimeoutOver, k
  <1>8. CASE HandleUpdateComplete
    <2> DEFINE ok == h.result = "ok"
               f == [r EXCEPT !.controlPending = FALSE,
                              !.driverDeadline = IF ok THEN r.requested ELSE @]
               u == IF ok THEN queue.updateSupported ELSE FALSE
               q == [queue EXCEPT !.req = f, !.updateSupported = u]
    <2>1. /\ f \in FlagsType /\ ~f.controlPending /\ f.fallbackArmed = r.fallbackArmed
          /\ f.requested = r.requested /\ f.driverArmed = r.driverArmed
          /\ f.driverDeadline = IF ok THEN r.requested ELSE r.driverDeadline
      BY <1>1, Zenon DEF FlagsType
    <2>2. /\ h.op = "control" /\ ~r.controlIsFallback /\ at' = at
          /\ ReconcileOrStop(q, k) /\ UNCHANGED <<clock, ran, gone>>
      <3> DEFINE p == [queue EXCEPT !.req.controlPending = FALSE]
      <3>1. ok => q = [p EXCEPT !.req.driverDeadline = p.req.requested]
        BY <1>1, Zenon DEF UringQueueType, FlagsType
      <3>2. ~ok => q = [p EXCEPT !.updateSupported = FALSE]
        BY <1>1, Zenon DEF UringQueueType, FlagsType
      <3>3. q = IF ok THEN [p EXCEPT !.req.driverDeadline = p.req.requested]
                      ELSE [p EXCEPT !.updateSupported = FALSE]
        BY <3>1, <3>2
      <3>4. QED
        BY <1>8, <3>3 DEF HandleUpdateComplete, Seen, Result, k
    <2>3. u \in BOOLEAN
      BY <1>1, Zenon DEF UringQueueType
    <2> HIDE DEF f, u, ok
    <2>4. q \in UringQueueType /\ SameBut(q, queue) /\ q.req = f
      BY <1>5, <2>1, <2>3, Zenon
    <2>5. RequestInv(k, f)
      BY <1>1, <1>3, <1>4, <2>1, <2>2, HandledKeeps DEF ok
    <2> HIDE DEF q
    <2>6. QED
      BY <1>3, <2>2, <2>4, <2>5, CompletionKeeps DEF k
  <1>9. QED
    BY <1>6, <1>7, <1>8

(* RunTimer calls the callback of the earliest timer, which was not cancelled. *)
LEMMA UringRunKeeps ==
  ASSUME UringIInv, RunTimer
  PROVE  UringIInv'
  <1> DEFINE T == queue.timers
             t == Earliest(T)
  <1>1. /\ UringTypeOK /\ UringBook /\ RequestInv(kernel, queue.req)
        /\ queue \in UringQueueType /\ T \in SUBSET TimerType /\ OneEach(T)
        /\ \A u \in T : u.expiration # 0
    BY UringParts
  <1>2. /\ HasExpired(T, queue.now) /\ at' = "callback"
        /\ queue' = [queue EXCEPT !.timers = @ \ {t}, !.active = @ \ {t.sequence},
                                    !.running = t, !.cancelled = FALSE]
        /\ ran' = [ran EXCEPT ![t.sequence] = @ + 1]
        /\ UNCHANGED <<clock, kernel, stopping, gone>>
    BY DEF RunTimer
  <1>3. t \in T
    BY <1>1, <1>2, EarliestIs DEF HasExpired, IsEarliest
  <1> HIDE DEF t
  <1>4. Book(T \ {t}, queue.active \ {t.sequence}, t, FALSE, queue.added, ran', gone,
             MaxTimers)
    BY <1>1, <1>2, <1>3, BookRun, Zenon DEF UringBook
  <1>5. /\ queue' \in UringQueueType /\ queue'.timers = T \ {t}
        /\ queue'.active = queue.active \ {t.sequence} /\ queue'.running = t
        /\ queue'.cancelled = FALSE /\ queue'.added = queue.added
        /\ queue'.now = queue.now /\ queue'.req = queue.req
    <2>1. T \ {t} \in SUBSET TimerType /\ t \in TimerType
      BY <1>1, <1>3
    <2>2. QED
      BY <1>1, <1>2, <2>1, Zenon DEF UringQueueType
  <1>6. t.sequence # 0
    BY <1>1, <1>3 DEF UringBook, Book, Sequences
  <1>7. UringTypeOK'
    BY <1>1, <1>2, <1>5, <1>6 DEF UringTypeOK
  <1>8. UringBook' /\ Reconciled'
    BY <1>2, <1>4, <1>5, Zenon DEF UringBook, Reconciled
  <1>9. RequestInv(kernel, queue.req)'
    BY <1>1, <1>2, <1>5
  <1>10. QED
    BY <1>7, <1>8, <1>9 DEF UringIInv

(* The callback returns, and a repeating timer that nobody cancelled is entered again. *)
LEMMA UringReturnKeeps ==
  ASSUME UringIInv, CallbackReturns
  PROVE  UringIInv'
  <1> DEFINE T == queue.timers
             t == queue.running
             again == IF Repeat(t) /\ ~queue.cancelled THEN {Restart(t, queue.now)} ELSE {}
             none == Timer(0, 0, 0)
  <1>1. /\ UringTypeOK /\ UringBook /\ RequestInv(kernel, queue.req)
        /\ queue \in UringQueueType /\ T \in SUBSET TimerType /\ t \in TimerType
        /\ \A u \in T : u.expiration # 0
    BY UringParts
  <1>2. /\ at = "callback" /\ at' = "pop"
        /\ queue' = [queue EXCEPT !.timers = @ \cup again, !.active = @ \cup Sequences(again),
                                    !.running = none, !.cancelled = FALSE]
        /\ UNCHANGED <<clock, kernel, stopping, ran, gone>>
    BY DEF CallbackReturns, NoTimer
  <1>3. t.sequence # 0 /\ queue.now \in Nat /\ queue.cancelled \in BOOLEAN
    BY <1>1, <1>2 DEF UringTypeOK, UringQueueType
  <1>4. Book(T \cup again, queue.active \cup Sequences(again), none, FALSE, queue.added,
             ran, gone, MaxTimers)
    BY <1>1, <1>3, BookReturn, Zenon DEF UringBook
  <1>5. /\ again \subseteq TimerType /\ Sequences(again) \subseteq Nat
        /\ \A u \in again : u.expiration # 0
    BY <1>1, <1>3 DEF Restart, Repeat, TimerType, Sequences
  <1>6. none \in TimerType /\ none.sequence = 0
    BY DEF Timer, TimerType
  <1> HIDE DEF again, none
  <1>7. /\ queue' \in UringQueueType /\ queue'.timers = T \cup again
        /\ queue'.active = queue.active \cup Sequences(again) /\ queue'.running = none
        /\ queue'.cancelled = FALSE /\ queue'.added = queue.added
        /\ queue'.now = queue.now /\ queue'.req = queue.req
    <2>1. T \cup again \in SUBSET TimerType /\ queue.active \cup Sequences(again) \in SUBSET Nat
      BY <1>1, <1>5 DEF UringQueueType
    <2>2. QED
      BY <1>1, <1>2, <1>6, <2>1, Zenon DEF UringQueueType
  <1>8. UringTypeOK'
    BY <1>1, <1>2, <1>5, <1>6, <1>7 DEF UringTypeOK
  <1>9. UringBook' /\ Reconciled'
    BY <1>2, <1>4, <1>7, Zenon DEF UringBook, Reconciled
  <1>10. RequestInv(kernel, queue.req)'
    BY <1>1, <1>2, <1>7
  <1>11. QED
    BY <1>8, <1>9, <1>10 DEF UringIInv

(* The kernel takes requests and completes them. *)
LEMMA UringKernelKeeps ==
  ASSUME UringIInv, KernelStep
  PROVE  UringIInv'
  <1> DEFINE r == Head(kernel.sq)
             Ends(op, result) == Append(kernel.cq, [op |-> op, result |-> result])
  <1>1. UringTypeOK /\ UringBook /\ RequestInv(kernel, queue.req) /\ Reconciled
    BY UringParts
  <1>2. /\ kernel \in KernelType /\ kernel.sq \in Seq(Request) /\ kernel.cq \in Seq(Completion)
        /\ \A op \in {"driver", "control"}, result \in {"ok", "error", "ETIME", "ECANCELED"} :
             Ends(op, result) \in Seq(Completion)
    BY <1>1 DEF RequestInv, KernelType, Completion
  <1>3. UNCHANGED <<clock, queue, at, stopping, ran, gone>>
    BY DEF KernelStep, KernelTakes, DriverExpires,
           FallbackExpires, KernelCancels, Kernel
  <1>4. ASSUME KernelTakes PROVE RequestInv(kernel', queue.req)
    <2>1. kernel.sq # <<>>
      BY <1>4 DEF KernelTakes
    <2>2. Tail(kernel.sq) \in Seq(Request) /\ r \in Request
      BY <1>2, <2>1
    <2>3. r.op \in {"arm", "update", "fallback"} /\ r.when \in Nat
      BY <2>2 DEF Request
    <2>4. CASE r.op = "arm"
      <3>1. kernel' = [kernel EXCEPT !.sq = Tail(@), !.driver = r.when]
        BY <1>2, <1>4, <2>4 DEF KernelTakes, KernelType
      <3>2. /\ kernel' \in KernelType /\ kernel'.sq = Tail(kernel.sq)
            /\ kernel'.driver = r.when /\ kernel'.fallback = kernel.fallback
            /\ kernel'.cq = kernel.cq
        BY <1>2, <2>2, <2>3, <3>1, Zenon DEF KernelType
      <3>3. QED
        BY <1>1, <2>1, <2>4, <3>2, TakesKeeps
    <2>5. CASE r.op = "fallback"
      <3>1. kernel' = [kernel EXCEPT !.sq = Tail(@), !.fallback = r.when]
        BY <1>2, <1>4, <2>5 DEF KernelTakes, KernelType
      <3>2. /\ kernel' \in KernelType /\ kernel'.sq = Tail(kernel.sq)
            /\ kernel'.fallback = r.when /\ kernel'.driver = kernel.driver
            /\ kernel'.cq = kernel.cq
        BY <1>2, <2>2, <2>3, <3>1, Zenon DEF KernelType
      <3>3. QED
        BY <1>1, <2>1, <2>5, <3>2, TakesKeeps
    <2>6. CASE r.op = "update" /\ kernel.updates /\ kernel.driver # 0
      <3>1. kernel' = [kernel EXCEPT !.sq = Tail(@), !.driver = r.when,
                                     !.cq = Ends("control", "ok")]
        BY <1>2, <1>4, <2>6 DEF KernelTakes, Complete, KernelType
      <3> HIDE DEF Ends
      <3>2. /\ kernel' \in KernelType /\ kernel'.sq = Tail(kernel.sq)
            /\ kernel'.fallback = kernel.fallback /\ kernel'.driver = r.when
            /\ kernel'.cq = Ends("control", "ok")
        BY <1>2, <2>2, <2>3, <3>1, Zenon DEF KernelType
      <3>3. QED
        BY <1>1, <2>1, <2>6, <3>2, TakesKeeps DEF Ends
    <2>7. CASE r.op = "update" /\ ~(kernel.updates /\ kernel.driver # 0)
      <3>1. kernel' = [kernel EXCEPT !.sq = Tail(@), !.cq = Ends("control", "error")]
        BY <1>2, <1>4, <2>7 DEF KernelTakes, Complete, KernelType
      <3> HIDE DEF Ends
      <3>2. /\ kernel' \in KernelType /\ kernel'.sq = Tail(kernel.sq)
            /\ kernel'.fallback = kernel.fallback /\ kernel'.driver = kernel.driver
            /\ kernel'.cq = Ends("control", "error")
        BY <1>2, <2>2, <2>3, <3>1, Zenon DEF KernelType
      <3>3. QED
        BY <1>1, <2>1, <2>7, <3>2, TakesKeeps DEF Ends
    <2>8. QED
      BY <2>3, <2>4, <2>5, <2>6, <2>7
  <1>5. ASSUME DriverExpires \/ FallbackExpires \/ KernelCancels
        PROVE  RequestInv(kernel', queue.req)
    <2>1. PICK result \in {"ETIME", "ECANCELED"} :
            \/ /\ kernel.driver # 0
               /\ kernel' = [kernel EXCEPT !.driver = 0, !.cq = Ends("driver", result)]
            \/ /\ kernel.fallback # 0
               /\ kernel' = [kernel EXCEPT !.fallback = 0, !.cq = Ends("control", result)]
      BY <1>2, <1>5 DEF DriverExpires, FallbackExpires,
                        KernelCancels, Complete, KernelType
    <2> HIDE DEF Ends
    <2>2. CASE /\ kernel.driver # 0
               /\ kernel' = [kernel EXCEPT !.driver = 0, !.cq = Ends("driver", result)]
      <3>1. /\ kernel' \in KernelType /\ kernel'.sq = kernel.sq /\ kernel'.driver = 0
            /\ kernel'.fallback = kernel.fallback /\ kernel'.cq = Ends("driver", result)
        BY <1>2, <2>2, Zenon DEF KernelType
      <3>2. QED
        BY <1>1, <2>2, <3>1, ExpiresKeeps, Zenon DEF Ends
    <2>3. CASE /\ kernel.fallback # 0
               /\ kernel' = [kernel EXCEPT !.fallback = 0, !.cq = Ends("control", result)]
      <3>1. /\ kernel' \in KernelType /\ kernel'.sq = kernel.sq /\ kernel'.fallback = 0
            /\ kernel'.driver = kernel.driver /\ kernel'.cq = Ends("control", result)
        BY <1>2, <2>3, Zenon DEF KernelType
      <3>2. QED
        BY <1>1, <2>3, <3>1, ExpiresKeeps, Zenon DEF Ends
    <2>4. QED
      BY <2>1, <2>2, <2>3
  <1>6. RequestInv(kernel', queue.req)
    BY <1>4, <1>5 DEF KernelStep
  <1>7. UringTypeOK' /\ UringBook'
    BY <1>1, <1>3 DEF UringTypeOK, UringBook
  <1>8. Reconciled'
    <2>1. Needs(queue)' = Needs(queue)
      BY <1>3 DEF Needs, Earliest, TimerLess
    <2>2. QED
      BY <1>1, <1>3, <2>1 DEF Reconciled
  <1>9. QED
    BY <1>3, <1>6, <1>7, <1>8 DEF UringIInv

(* The other steps of the loop and of the clock. *)
LEMMA UringOtherKeeps ==
  ASSUME UringIInv,
         \/ Tick \/ RequestStop \/ ExpiredDone
         \/ DiscardAll
  PROVE  UringIInv'
  <1>1. /\ UringTypeOK /\ UringBook /\ RequestInv(kernel, queue.req) /\ Reconciled
        /\ queue \in UringQueueType /\ queue.req \in FlagsType
        /\ \A t \in queue.timers : t.expiration # 0
    BY UringParts
  <1>2. UNCHANGED queue => Needs(queue)' = Needs(queue)
    BY DEF Needs, Earliest, TimerLess
  <1>3. CASE Tick
    <2>1. clock' = clock + 1 /\ UNCHANGED <<queue, kernel, at, stopping, ran, gone>>
      BY <1>3 DEF Tick
    <2>2. UringTypeOK'
      BY <1>1, <2>1 DEF UringTypeOK, UringQueueType
    <2>3. UringBook' /\ RequestInv(kernel, queue.req)' /\ Reconciled'
      BY <1>1, <1>2, <2>1 DEF UringBook, Reconciled
    <2>4. QED
      BY <2>2, <2>3 DEF UringIInv
  <1>4. CASE RequestStop
    <2>1. stopping' = TRUE /\ UNCHANGED <<clock, queue, kernel, at, ran, gone>>
      BY <1>4 DEF RequestStop
    <2>2. UringTypeOK'
      BY <1>1, <2>1 DEF UringTypeOK
    <2>3. UringBook' /\ RequestInv(kernel, queue.req)' /\ Reconciled'
      BY <1>1, <2>1 DEF UringBook, Reconciled
    <2>4. QED
      BY <2>2, <2>3 DEF UringIInv
  <1>5. CASE ExpiredDone
    <2>1. /\ at = "pop" /\ at' = "loop" /\ ReconcileOrStop(queue, kernel)
          /\ UNCHANGED <<clock, ran, gone>>
      BY <1>5 DEF ExpiredDone
    <2>2. Book(queue.timers, queue.active, queue.running, queue.cancelled, queue.added,
               ran', gone', MaxTimers)
      BY <1>1, <2>1 DEF UringBook
    <2>3. /\ queue.running.sequence = 0 /\ clock' \in Nat /\ queue.now <= clock'
          /\ stopping \in BOOLEAN
      BY <1>1, <2>1 DEF UringTypeOK
    <2>4. QED
      BY <1>1, <2>1, <2>2, <2>3, ReconcileStep
  <1>6. CASE DiscardAll
    <2> DEFINE f == NoRequests
    <2>1. /\ at = "loop" /\ at' = "stopped" /\ Idle
          /\ queue' = [queue EXCEPT !.timers = {}, !.active = {}, !.req = f]
          /\ UNCHANGED <<clock, kernel, stopping, ran, gone>>
      BY <1>6 DEF DiscardAll
    <2>2. /\ f \in FlagsType /\ ~f.driverArmed /\ ~f.controlPending /\ ~f.fallbackArmed
      BY DEF NoRequests, FlagsType
    <2> HIDE DEF f
    <2>3. /\ queue' \in UringQueueType /\ queue'.timers = {} /\ queue'.active = {}
          /\ queue'.running = queue.running /\ queue'.cancelled = queue.cancelled
          /\ queue'.added = queue.added /\ queue'.now = queue.now /\ queue'.req = f
      BY <1>1, <2>1, <2>2, Zenon DEF UringQueueType
    <2>4. kernel \in KernelType
      BY <1>1 DEF RequestInv
    <2>5. RequestInv(kernel, f)
      BY <2>1, <2>2, <2>4 DEF RequestInv, Idle, OneDriver, OneControl, InOnePlace,
                              ArmFirst, Deadlines, AtMostOne, Has
    <2>6. UringBook'
      BY <1>1, <2>1, <2>3, BookClear DEF UringBook
    <2>7. UringTypeOK'
      BY <1>1, <2>1, <2>3 DEF UringTypeOK
    <2>8. RequestInv(kernel, queue.req)' /\ Reconciled'
      BY <2>1, <2>3, <2>5 DEF Reconciled
    <2>9. QED
      BY <2>6, <2>7, <2>8 DEF UringIInv
  <1>7. QED
    BY <1>3, <1>4, <1>5, <1>6

(* A new queue has no timer and has made no request. *)
LEMMA UringInitIInv == Init => UringIInv
  <1> SUFFICES ASSUME Init PROVE UringIInv
    OBVIOUS
  <1> DEFINE none == Timer(0, 0, 0)
             f == NoRequests
  <1>1. none \in TimerType /\ none.sequence = 0
    BY DEF Timer, TimerType
  <1>2. NoTimer = none
    BY DEF NoTimer
  <1>3. f \in FlagsType /\ ~f.driverArmed /\ ~f.controlPending /\ ~f.fallbackArmed
    BY DEF NoRequests, FlagsType
  <1> HIDE DEF none, f
  <1>4. /\ clock = 0 /\ at = "loop" /\ stopping = FALSE
        /\ queue = [timers |-> {}, active |-> {}, running |-> none, cancelled |-> FALSE,
                     now |-> 0, added |-> 0, updateSupported |-> TRUE, req |-> f]
        /\ ran = [i \in 1..MaxTimers |-> 0] /\ gone = {}
    BY <1>2 DEF Init, Ids, f
  <1>5. PICK u \in BOOLEAN :
          kernel = [sq |-> <<>>, driver |-> 0, fallback |-> 0, cq |-> <<>>, updates |-> u]
    BY DEF Init
  <1>6. UringTypeOK
    <2>1. queue \in UringQueueType
      BY <1>1, <1>3, <1>4 DEF UringQueueType
    <2>2. queue.timers = {} /\ queue.running.sequence = 0 /\ queue.now = 0
      BY <1>1, <1>4
    <2>3. stopping \in BOOLEAN
      BY <1>4, Zenon
    <2>4. QED
      BY <1>4, <2>1, <2>2, <2>3 DEF UringTypeOK
  <1>7. UringBook
    BY <1>1, <1>4, TimerConstants DEF UringBook, Book, OneEach, Sequences
  <1>8. RequestInv(kernel, queue.req)
    <2>1. kernel \in KernelType
      BY <1>5 DEF KernelType
    <2>2. queue.req = f /\ kernel.sq = <<>> /\ kernel.cq = <<>>
          /\ kernel.driver = 0 /\ kernel.fallback = 0
      BY <1>4, <1>5
    <2>3. QED
      BY <1>3, <2>1, <2>2 DEF RequestInv, OneDriver, OneControl, InOnePlace, ArmFirst,
                              Deadlines, AtMostOne, Has
  <1>9. Reconciled
    <2>1. queue.timers = {}
      BY <1>4
    <2>2. QED
      BY <2>1, NeedsWhat DEF Reconciled
  <1>10. QED
    BY <1>6, <1>7, <1>8, <1>9 DEF UringIInv

(* Every step of the uring timers keeps the invariant. *)
LEMMA UringNextIInv == UringIInv /\ Next => UringIInv'
  <1> SUFFICES ASSUME UringIInv, Next PROVE UringIInv'
    OBVIOUS
  <1>1. ASSUME NEW when \in 1..MaxTime, NEW interval \in Intervals,
               AddTimer(when, interval)
        PROVE  UringIInv'
    BY <1>1, UringAddKeeps, TimerConstants
  <1>2. ASSUME NEW id \in Ids, Cancel(id) PROVE UringIInv'
    BY <1>2, UringCancelKeeps DEF Ids
  <1>3. CASE LoopStep
    BY <1>3, HandleKeeps, UringRunKeeps, UringReturnKeeps, UringOtherKeeps
       DEF LoopStep
  <1>4. QED
    BY <1>1, <1>2, <1>3, UringKernelKeeps, UringOtherKeeps DEF Next

(* What a step may do to a timer in the queue, as RunsAreDue says. *)
UringDue ==
  \A t \in queue.timers : ran'[t.sequence] # ran[t.sequence] =>
    /\ t.expiration <= clock
    /\ \A u \in queue.timers \ {t} : TimerLess(t, u)
    /\ t.sequence \notin gone
    /\ Repeat(t) \/ ran[t.sequence] = 0

(* Only RunTimer calls a callback, that of the first timer, which has expired. *)
LEMMA UringRunsDue == UringIInv /\ Next => UringDue
  <1> SUFFICES ASSUME UringIInv, Next, NEW t \in queue.timers,
                      ran'[t.sequence] # ran[t.sequence]
               PROVE  /\ t.expiration <= clock
                      /\ \A u \in queue.timers \ {t} : TimerLess(t, u)
                      /\ t.sequence \notin gone
                      /\ Repeat(t) \/ ran[t.sequence] = 0
    BY DEF UringDue
  <1> DEFINE T == queue.timers
  <1>1. /\ UringTypeOK /\ UringBook /\ queue \in UringQueueType
        /\ T \in SUBSET TimerType /\ OneEach(T)
    BY UringParts
  <1>2. RunTimer
    BY Zenon DEF Next, Tick, RequestStop, KernelStep,
           KernelTakes, DriverExpires, FallbackExpires,
           KernelCancels, Kernel, LoopStep,
           HandleDriverComplete, HandleFallbackComplete,
           HandleUpdateComplete, TimeoutOver, CallbackReturns,
           ExpiredDone, DiscardAll, AddTimer,
           Cancel
  <1>3. /\ HasExpired(T, queue.now)
        /\ ran' = [ran EXCEPT ![Earliest(T).sequence] = @ + 1]
    BY <1>2 DEF RunTimer
  <1>4. IsEarliest(T, Earliest(T))
    BY <1>1, EarliestIs
  <1>5. t.sequence \in 1..MaxTimers /\ ran \in [1..MaxTimers -> Nat]
    <2>1. t.sequence \in queue.active /\ queue.active \subseteq 1..queue.added
      BY <1>1 DEF UringBook, Book, Sequences
    <2>2. queue.added \in Nat /\ MaxTimers \in Nat /\ queue.added <= MaxTimers
      BY <1>1 DEF UringBook, Book
    <2>3. QED
      BY <1>1, <2>1, <2>2 DEF UringBook, Book
  <1>6. t.sequence = Earliest(T).sequence
    BY <1>3, <1>5
  <1>7. t = Earliest(T)
    BY <1>1, <1>4, <1>6 DEF IsEarliest, OneEach
  <1>8. t.expiration <= clock
    BY <1>1, <1>3, <1>7 DEF HasExpired, UringTypeOK, UringQueueType, TimerType
  <1>9. t.sequence \notin gone /\ (Repeat(t) \/ ran[t.sequence] = 0)
    BY <1>1 DEF UringBook, Book, Sequences
  <1>10. QED
    BY <1>4, <1>7, <1>8, <1>9 DEF IsEarliest

(* How many elements of s are in N. *)
LEMMA CountAtMostOne ==
  ASSUME NEW s, NEW N, AtMostOne(s, N)
  PROVE  LET P == {i \in DOMAIN s : s[i] \in N}
         IN  Cardinality(P) = IF Has(s, N) THEN 1 ELSE 0
  <1> DEFINE P == {i \in DOMAIN s : s[i] \in N}
  <1>1. CASE Has(s, N)
    <2>1. PICK i \in DOMAIN s : s[i] \in N
      BY <1>1 DEF Has
    <2>2. P = {i}
      BY <2>1 DEF AtMostOne
    <2>3. QED
      BY <1>1, <2>2, FS_Singleton
  <1>2. CASE ~Has(s, N)
    <2>1. P = {}
      BY <1>2 DEF Has
    <2>2. QED
      BY <1>2, <2>1, FS_EmptySet
  <1>3. QED
    BY <1>1, <1>2

(* The flags speak of the requests, and the registry of the index. *)
LEMMA UringOwned == UringIInv => RequestsMatchFlags
  <1> SUFFICES ASSUME UringIInv PROVE RequestsMatchFlags
    OBVIOUS
  <1> DEFINE sq == kernel.sq
             cq == kernel.cq
             r == queue.req
             D == IF kernel.driver # 0 THEN 1 ELSE 0
             F == IF kernel.fallback # 0 THEN 1 ELSE 0
  <1>1. /\ UringBook /\ RequestInv(kernel, r) /\ r \in FlagsType
    BY UringParts
  <1>2. /\ sq \in Seq(Request) /\ cq \in Seq(Completion)
        /\ OneDriver(kernel, r) /\ OneControl(kernel, r)
    BY <1>1, RequestParts
  <1>3. /\ {i \in DOMAIN sq : sq[i].op \in {"arm"}} = {i \in DOMAIN sq : sq[i] \in Arms}
        /\ {i \in DOMAIN sq : sq[i].op \in {"update", "fallback"}}
             = {i \in DOMAIN sq : sq[i] \in Controls}
    BY <1>2 DEF Arms, Controls
  <1>4. /\ {i \in DOMAIN cq : cq[i].op = "driver"} = {i \in DOMAIN cq : cq[i] \in Drivers}
        /\ {i \in DOMAIN cq : cq[i].op = "control"} = {i \in DOMAIN cq : cq[i] \in Answers}
    BY <1>2 DEF Drivers, Answers
  <1>5. Naming("driver", {"arm"}, kernel.driver) = IF r.driverArmed THEN 1 ELSE 0
    <2>1. Naming("driver", {"arm"}, kernel.driver)
            = (IF Has(sq, Arms) THEN 1 ELSE 0) + D + (IF Has(cq, Drivers) THEN 1 ELSE 0)
      <3>1. Cardinality({i \in DOMAIN sq : sq[i] \in Arms}) = IF Has(sq, Arms) THEN 1 ELSE 0
        BY <1>2, CountAtMostOne DEF OneDriver
      <3>2. Cardinality({i \in DOMAIN cq : cq[i] \in Drivers}) = IF Has(cq, Drivers) THEN 1 ELSE 0
        BY <1>2, CountAtMostOne DEF OneDriver
      <3>3. QED
        BY <1>3, <1>4, <3>1, <3>2, Zenon DEF Naming
    <2>2. QED
      BY <1>2, <2>1 DEF OneDriver, InOnePlace
  <1>6. Naming("control", {"update", "fallback"}, kernel.fallback)
          = IF r.controlPending THEN 1 ELSE 0
    <2>1. Naming("control", {"update", "fallback"}, kernel.fallback)
            = (IF Has(sq, Controls) THEN 1 ELSE 0) + F + (IF Has(cq, Answers) THEN 1 ELSE 0)
      <3>1. Cardinality({i \in DOMAIN sq : sq[i] \in Controls}) = IF Has(sq, Controls) THEN 1 ELSE 0
        BY <1>2, CountAtMostOne DEF OneControl
      <3>2. Cardinality({i \in DOMAIN cq : cq[i] \in Answers}) = IF Has(cq, Answers) THEN 1 ELSE 0
        BY <1>2, CountAtMostOne DEF OneControl
      <3>3. QED
        BY <1>3, <1>4, <3>1, <3>2, Zenon DEF Naming
    <2>2. QED
      BY <1>2, <2>1 DEF OneControl, InOnePlace
  <1>7. /\ queue.active = Sequences(queue.timers)
        /\ queue.running.sequence \notin queue.active
    BY <1>1 DEF UringBook, Book
  <1>8. QED
    BY <1>5, <1>6, <1>7 DEF RequestsMatchFlags

(* Where nothing is on its way, the request that covers the earliest timer is in the kernel. *)
LEMMA UringCovered == UringIInv => EarliestIsArmed
  <1> SUFFICES ASSUME UringIInv, Waiting, queue.timers # {}, kernel.fallback = 0
               PROVE  Covered
    BY DEF EarliestIsArmed
  <1> DEFINE r == queue.req
             e == Earliest(queue.timers).expiration
  <1>1. /\ RequestInv(kernel, r) /\ Reconciled /\ queue.timers \in SUBSET TimerType
        /\ OneEach(queue.timers)
    BY UringParts
  <1>2. OneDriver(kernel, r) /\ OneControl(kernel, r) /\ Deadlines(kernel, r)
        /\ kernel \in KernelType
    BY <1>1 DEF RequestInv
  <1>3. /\ \A N : ~Has(kernel.sq, N) /\ ~Has(kernel.cq, N)
        /\ Needs(queue) = "nothing"
    BY <1>1 DEF Waiting, Has, Reconciled
  <1>4. ~r.controlPending /\ ~r.fallbackArmed
    BY <1>2, <1>3 DEF OneControl, InOnePlace
  <1>5. r.driverArmed /\ e >= r.driverDeadline
    BY <1>3, <1>4, NeedsWhat
  <1>6. kernel.driver # 0 /\ kernel.driver = r.driverDeadline
    BY <1>2, <1>3, <1>5 DEF OneDriver, InOnePlace, Deadlines
  <1>7. e \in Nat /\ kernel.driver \in Nat
    <2>1. Earliest(queue.timers) \in queue.timers
      BY <1>1, EarliestIs DEF IsEarliest
    <2>2. QED
      BY <1>1, <1>2, <2>1 DEF TimerType, KernelType
  <1>8. QED
    BY <1>5, <1>6, <1>7 DEF Covered

(* A queue that does not move keeps the invariant. *)
LEMMA UringStays == UringIInv /\ UNCHANGED vars => UringIInv'
  <1> SUFFICES ASSUME UringIInv, UNCHANGED vars PROVE UringIInv'
    OBVIOUS
  <1>1. UNCHANGED <<clock, queue, kernel, at, stopping, ran, gone>>
    BY DEF vars
  <1>2. Needs(queue)' = Needs(queue)
    BY <1>1 DEF Needs, Earliest, TimerLess
  <1>3. QED
    BY <1>1, <1>2 DEF UringIInv, UringTypeOK, UringBook, Reconciled
================================================================================
