--------------------------- MODULE EpollStreamProofs ---------------------------
(***************************************************************************)
(* The epoll stream, for any number of reading coroutines, any size of a   *)
(* write and of the socket's buffers, and any number of moved deadlines.   *)
(***************************************************************************)
EXTENDS EpollStream, TLAPS

(* Whether c stands in a queue. *)
Has(q, c) == \E i \in 1..Len(q) : q[i] = c

(* What is appended to a queue is all that comes to stand in it. *)
LEMMA AppendHas ==
  ASSUME NEW S, NEW q \in Seq(S), NEW x \in S, NEW c
  PROVE  Has(Append(q, x), c) <=> Has(q, c) \/ c = x
  <1>1. /\ Len(Append(q, x)) = Len(q) + 1 /\ Len(q) \in Nat
        /\ \A i \in 1..Len(q) : Append(q, x)[i] = q[i]
        /\ Append(q, x)[Len(q) + 1] = x
    OBVIOUS
  <1>2. QED
    BY <1>1 DEF Has

(* What stands in a queue is its head, or stands behind it. *)
LEMMA TailHas ==
  ASSUME NEW S, NEW q \in Seq(S), q # <<>>, NEW c
  PROVE  Has(q, c) <=> c = Head(q) \/ Has(Tail(q), c)
  <1>1. /\ Len(Tail(q)) = Len(q) - 1 /\ Len(q) \in Nat \ {0} /\ Head(q) = q[1]
        /\ \A i \in 1..Len(q) - 1 : Tail(q)[i] = q[i + 1]
    OBVIOUS
  <1>2. ASSUME NEW i \in 1..Len(q), q[i] = c, i # 1 PROVE Has(Tail(q), c)
    <2>1. PICK j \in 1..Len(q) - 1 : i = j + 1
      BY <1>1, <1>2
    <2>2. Tail(q)[j] = c /\ j \in 1..Len(Tail(q))
      BY <1>1, <1>2, <2>1
    <2>3. QED
      BY <2>2 DEF Has
  <1>3. ASSUME NEW i \in 1..Len(q) - 1, Tail(q)[i] = c PROVE Has(q, c)
    BY <1>1, <1>3 DEF Has
  <1>4. QED
    BY <1>1, <1>2, <1>3 DEF Has

-----------------------------------------------------------------------------
(* The epoll stream: its type and what holds of it.                        *)

ELane ==
  [owner : Users \cup {NoOne}, deadline : {"none", "ahead", "past"},
   timer : {"off", "set", "due"}]

ELife ==
  [resource : {"Open", "Closed"}, read : {"Readable", "Shutdown"},
   write : {"Writable", "Shutdown"}]

ESocket ==
  [data : Nat, eof : BOOLEAN, shut : BOOLEAN, room : Nat, err : BOOLEAN, out : Nat]

EKinds ==
  {"none", "data", "eof", "ok", "error", "EPIPE", "ECANCELED", "ETIMEDOUT", "ENOMEM"}

EStream ==
  [life : ELife, edge : BOOLEAN, on : SUBSET Dirs, lane : [Dirs -> ELane],
   ready : Seq(Users), res : [Users -> EKinds], reserved : SUBSET Users, left : Nat,
   batch : SUBSET {"in", "out", "err", "hup"}, listed : BOOLEAN, sock : ESocket]

Pending(s, d) == s.lane[d].owner # NoOne

(* A pending operation has its interest and is not answered yet; a timer    *)
(* runs for a pending operation, up to the deadline that stands.            *)
ELanes(s) ==
  /\ s.lane["read"].owner \in Readers \cup {NoOne}
  /\ s.lane["write"].owner \in {Writer, NoOne}
  /\ \A d \in Dirs :
       /\ Pending(s, d) => d \in s.on /\ ~Has(s.ready, s.lane[d].owner)
       /\ s.lane[d].timer # "off" => Pending(s, d)
       /\ s.lane[d].timer = "set" => s.lane[d].deadline = "ahead"
       /\ s.lane[d].timer = "due" => s.lane[d].deadline = "past"

(* A result waits with its coroutine, and a reservation is that of the      *)
(* pending Recv().                                                          *)
EResults(s) ==
  /\ \A c \in Users : s.res[c] # "none" => Has(s.ready, c)
  /\ s.reserved \subseteq {s.lane["read"].owner}

(* What the socket has accepted and what is left are the buffer of Write(). *)
ESent(s) ==
  /\ Pending(s, "write") => s.sock.out + s.left = WriteSize
  /\ s.res[Writer] = "ok" => s.left = 0 /\ s.sock.out = WriteSize
  /\ Pending(s, "write") \/ Has(s.ready, Writer) \/ s.sock.out = 0

EClosed(s) ==
  s.life.resource = "Closed" => s.on = {} /\ \A d \in Dirs : ~Pending(s, d)

EGood(s) == s \in EStream /\ ELanes(s) /\ EResults(s) /\ ESent(s) /\ EClosed(s)

(* A socket that is ready for a pending operation is known to be: by epoll,  *)
(* or by the events b that wait for their dispatch.                          *)
EHeard(s, b) ==
  /\ Pending(s, "read") /\ (s.sock.data > 0 \/ s.sock.eof) =>
       ~s.edge \/ s.listed \/ "in" \in b
  /\ Pending(s, "write") /\ (s.sock.room > 0 \/ s.sock.shut) =>
       ~s.edge \/ s.listed \/ "out" \in b

(* Nobody is timed out from s to t. *)
ENoTimeout(s, t) == \A c \in Users : t.res[c] = "ETIMEDOUT" => s.res[c] = "ETIMEDOUT"

-----------------------------------------------------------------------------
(* What the members of the epoll stream do to it.                          *)

(* Channel::Update() sets the interest, and what epoll has to report stays  *)
(* reported unless no interest is left.                                     *)
LEMMA UpdateFields ==
  ASSUME NEW s \in EStream, NEW on \in SUBSET Dirs
  PROVE  /\ Update(s, on) \in EStream
         /\ Update(s, on)
              = [s EXCEPT !.on = on, !.listed = Update(s, on).listed]
         /\ s.listed /\ on # {} => Update(s, on).listed
  <1> DEFINE u == [s EXCEPT !.on = on]
             l == s.listed \/ (s.edge /\ Events(u) \cap AllEvents # {})
             t == [u EXCEPT !.listed = l]
  <1>1. u \in EStream /\ u.edge = s.edge /\ u.listed = s.listed
    BY DEF EStream
  <1>2. l \in BOOLEAN
    BY <1>1 DEF EStream
  <1>3. Wake(u, AllEvents) = t
    BY <1>1 DEF Wake
  <1>4. Update(s, on) = IF on = s.on THEN s ELSE [t EXCEPT !.listed = @ /\ on # {}]
    BY <1>3, Zenon DEF Update
  <1> HIDE DEF l
  <1>5. CASE on = s.on
    BY <1>4, <1>5, Zenon DEF EStream
  <1>6. CASE on # s.on
    <2>1. Update(s, on) = [s EXCEPT !.on = on, !.listed = l /\ on # {}]
      BY <1>4, <1>6, Zenon DEF EStream
    <2>2. (l /\ on # {}) \in BOOLEAN
      BY <1>2
    <2>3. s.listed => l
      BY DEF l
    <2>4. QED
      BY <2>1, <2>2, <2>3, Zenon DEF EStream
  <1>7. QED
    BY <1>5, <1>6

(* CompleteRead() and CompleteWrite() leave alone what is not pending. *)
LEMMA CompleteNothing ==
  ASSUME NEW s, NEW d, NEW kind, ~Pending(s, d)
  PROVE  Complete(s, d, kind) = s
  BY DEF Complete, Pending

(* CompleteRead() and CompleteWrite() of a pending operation. *)
LEMMA CompleteFields ==
  ASSUME NEW s \in EStream, NEW d \in Dirs, NEW kind \in EKinds, NEW c \in Users,
         s.lane[d].owner = c, c # NoOne
  PROVE  LET t == Complete(s, d, kind) IN
         /\ t \in EStream
         /\ t.life = s.life /\ t.edge = s.edge /\ t.left = s.left /\ t.batch = s.batch
         /\ t.sock = s.sock
         /\ t.lane = [s.lane EXCEPT ![d] =
              [owner |-> NoOne, deadline |-> s.lane[d].deadline, timer |-> "off"]]
         /\ t.res = [s.res EXCEPT ![c] = kind]
         /\ t.ready = Append(s.ready, c)
         /\ t.reserved = s.reserved \ {c}
         /\ s.on \ {d} \subseteq t.on /\ t.on \subseteq s.on
         /\ s.listed /\ t.on # {} => t.listed
  <1> DEFINE a == [s EXCEPT !.reserved = @ \ {c}]
             q == IF kind = "data" THEN a ELSE Update(a, a.on \ {d})
             lane == [owner |-> NoOne, deadline |-> s.lane[d].deadline, timer |-> "off"]
             t == [q EXCEPT !.lane[d] = lane, !.res[c] = kind, !.ready = Append(@, c)]
  <1>1. a \in EStream /\ a.on \ {d} \in SUBSET Dirs
    BY DEF EStream
  <1>2. /\ q \in EStream
        /\ q = [a EXCEPT !.on = q.on, !.listed = q.listed]
        /\ a.on \ {d} \subseteq q.on /\ q.on \subseteq a.on
        /\ a.listed /\ q.on # {} => q.listed
    <2>1. CASE kind = "data"
      BY <1>1, <2>1, Zenon DEF EStream
    <2>2. CASE kind # "data"
      <3>1. q = Update(a, a.on \ {d})
        BY <2>2
      <3>2. /\ Update(a, a.on \ {d}) \in EStream
            /\ Update(a, a.on \ {d})
                 = [a EXCEPT !.on = a.on \ {d}, !.listed = Update(a, a.on \ {d}).listed]
            /\ a.listed /\ a.on \ {d} # {} => Update(a, a.on \ {d}).listed
        BY <1>1, UpdateFields, Zenon
      <3> HIDE DEF q, a
      <3>3. q \in EStream /\ q = [a EXCEPT !.on = a.on \ {d}, !.listed = q.listed]
        BY <3>1, <3>2
      <3>4. q.on = a.on \ {d}
        BY <1>1, <3>3, Zenon DEF EStream
      <3>5. QED
        BY <3>1, <3>2, <3>3, <3>4, Zenon
    <2>3. QED
      BY <2>1, <2>2, Zenon
  <1>3. Complete(s, d, kind) = t
    <2>1. [NewLane EXCEPT !.deadline = s.lane[d].deadline] = lane
      BY DEF NewLane
    <2>2. FinishAttempt(s, s.lane[d].owner, kind) = a
      BY DEF FinishAttempt
    <2> HIDE DEF lane, a
    <2>3. QED
      BY <2>1, <2>2, Zenon DEF Complete
  <1>4. lane \in ELane /\ s.lane[d] \in ELane
    BY DEF ELane, EStream
  <1> HIDE DEF q, lane
  <1>5. /\ q.life = s.life /\ q.edge = s.edge /\ q.left = s.left /\ q.batch = s.batch
        /\ q.sock = s.sock /\ q.lane = s.lane /\ q.res = s.res /\ q.ready = s.ready
        /\ q.reserved = s.reserved \ {c} /\ a.on = s.on /\ a.listed = s.listed
    BY <1>1, <1>2, Zenon DEF EStream
  <1>6. /\ [q.lane EXCEPT ![d] = lane] \in [Dirs -> ELane]
        /\ [q.res EXCEPT ![c] = kind] \in [Users -> EKinds]
        /\ Append(q.ready, c) \in Seq(Users)
    BY <1>2, <1>4 DEF EStream
  <1>7. t = [q EXCEPT !.lane = [q.lane EXCEPT ![d] = lane],
                      !.res = [q.res EXCEPT ![c] = kind], !.ready = Append(q.ready, c)]
    BY <1>2 DEF EStream
  <1> HIDE DEF t
  <1>8. /\ t \in EStream
        /\ t.life = q.life /\ t.edge = q.edge /\ t.left = q.left /\ t.batch = q.batch
        /\ t.sock = q.sock /\ t.on = q.on /\ t.listed = q.listed /\ t.reserved = q.reserved
        /\ t.lane = [q.lane EXCEPT ![d] = lane]
        /\ t.res = [q.res EXCEPT ![c] = kind] /\ t.ready = Append(q.ready, c)
    BY <1>2, <1>6, <1>7, Zenon DEF EStream
  <1>9. QED
    BY <1>2, <1>3, <1>5, <1>8 DEF lane

(* What CompleteRead() and CompleteWrite() keep: no readiness is forgotten by the one
   direction when the interest of the other goes. *)
ECompletes(s, t) ==
  /\ EGood(t)
  /\ t.life = s.life /\ t.edge = s.edge /\ t.batch = s.batch /\ t.sock = s.sock
  /\ t.left = s.left
  /\ \A e \in Dirs : t.lane[e].deadline = s.lane[e].deadline
  /\ \A e \in Dirs : Pending(t, e) => t.lane[e] = s.lane[e]
  /\ \A b : EHeard(s, b) => EHeard(t, b)

(* The operation of direction d ends with a result of the given kind. *)
EEnds(s, d, kind, t) ==
  /\ ECompletes(s, t) /\ ~Pending(t, d)
  /\ \A e \in Dirs : e # d => t.lane[e] = s.lane[e]
  /\ kind # "ETIMEDOUT" => ENoTimeout(s, t)

(* Complete() answers a pending operation: with "ok" only if all is sent. *)
LEMMA CompleteGood ==
  ASSUME NEW s, EGood(s), NEW d \in Dirs, NEW kind \in EKinds,
         kind = "ok" => d = "write" /\ s.left = 0
  PROVE  EEnds(s, d, kind, Complete(s, d, kind))
  <1>1. CASE ~Pending(s, d)
    BY <1>1, CompleteNothing DEF EEnds, ECompletes, ENoTimeout
  <1>2. CASE Pending(s, d)
    <2> DEFINE c == s.lane[d].owner
               t == Complete(s, d, kind)
               lane == [owner |-> NoOne, deadline |-> s.lane[d].deadline, timer |-> "off"]
    <2>1. /\ s \in EStream /\ c \in Users /\ c # NoOne /\ s.lane[d] \in ELane
          /\ s.lane \in [Dirs -> ELane]
      BY <1>2 DEF EGood, EStream, ELane, Pending
    <2>2. /\ t \in EStream
          /\ t.life = s.life /\ t.edge = s.edge /\ t.left = s.left /\ t.batch = s.batch
          /\ t.sock = s.sock
          /\ t.lane = [s.lane EXCEPT ![d] = lane]
          /\ t.res = [s.res EXCEPT ![c] = kind]
          /\ t.ready = Append(s.ready, c)
          /\ t.reserved = s.reserved \ {c}
          /\ s.on \ {d} \subseteq t.on /\ t.on \subseteq s.on
          /\ s.listed /\ t.on # {} => t.listed
      BY <2>1, CompleteFields
    <2> HIDE DEF t
    <2>3. /\ t.lane[d] = lane
          /\ \A e \in Dirs : e # d => t.lane[e] = s.lane[e]
      BY <2>1, <2>2
    <2>4. \A a : Has(t.ready, a) <=> Has(s.ready, a) \/ a = c
      BY <2>1, <2>2, AppendHas DEF EStream
    <2>5. /\ t.res[c] = kind
          /\ \A a \in Users : a # c => t.res[a] = s.res[a]
      BY <2>1, <2>2 DEF EStream
    <2>6. /\ ~Pending(t, d)
          /\ \A e \in Dirs : Pending(t, e) => e # d /\ t.lane[e] = s.lane[e] /\ Pending(s, e)
          /\ \A e \in Dirs : t.lane[e].deadline = s.lane[e].deadline
      BY <2>1, <2>3 DEF Pending
    <2>7. ELanes(t)
      <3>1. /\ s.lane["read"].owner \in Readers \cup {NoOne}
            /\ s.lane["write"].owner \in {Writer, NoOne}
            /\ \A e \in Dirs :
                 /\ Pending(s, e) => e \in s.on /\ ~Has(s.ready, s.lane[e].owner)
                 /\ s.lane[e].timer # "off" => Pending(s, e)
                 /\ s.lane[e].timer = "set" => s.lane[e].deadline = "ahead"
                 /\ s.lane[e].timer = "due" => s.lane[e].deadline = "past"
        BY DEF EGood, ELanes
      <3>2. /\ t.lane["read"].owner \in Readers \cup {NoOne}
            /\ t.lane["write"].owner \in {Writer, NoOne}
        BY <2>3, <3>1 DEF Dirs
      <3>3. ASSUME NEW e \in Dirs, Pending(t, e) PROVE e \in t.on /\ ~Has(t.ready, t.lane[e].owner)
        <4>1. e # d /\ t.lane[e].owner = s.lane[e].owner /\ Pending(s, e)
          BY <2>6, <3>3
        <4>2. s.lane[e].owner # c
          BY <3>1, <4>1, <2>1, StreamConstants DEF Dirs, Pending
        <4>3. QED
          BY <2>2, <2>4, <3>1, <4>1, <4>2
      <3>4. ASSUME NEW e \in Dirs
            PROVE  /\ t.lane[e].timer # "off" => Pending(t, e)
                   /\ t.lane[e].timer = "set" => t.lane[e].deadline = "ahead"
                   /\ t.lane[e].timer = "due" => t.lane[e].deadline = "past"
        BY <2>3, <3>1 DEF Pending
      <3>5. QED
        BY <3>2, <3>3, <3>4 DEF ELanes
    <2>8. EResults(t)
      <3>1. /\ \A a \in Users : s.res[a] # "none" => Has(s.ready, a)
            /\ s.reserved \subseteq {s.lane["read"].owner}
        BY DEF EGood, EResults
      <3>2. \A a \in Users : t.res[a] # "none" => Has(t.ready, a)
        BY <2>4, <2>5, <3>1
      <3>3. t.reserved \subseteq {t.lane["read"].owner}
        BY <2>2, <2>3, <3>1 DEF Dirs
      <3>4. QED
        BY <3>2, <3>3 DEF EResults
    <2>9. ESent(t)
      <3>1. /\ Pending(s, "write") => s.sock.out + s.left = WriteSize
            /\ s.res[Writer] = "ok" => s.left = 0 /\ s.sock.out = WriteSize
            /\ Pending(s, "write") \/ Has(s.ready, Writer) \/ s.sock.out = 0
            /\ s.sock.out \in Nat
        BY DEF EGood, ESent, EStream, ESocket
      <3>2. d = "write" => c = Writer
        BY <2>1 DEF EGood, ELanes
      <3>3. t.res[Writer] = "ok" => t.left = 0 /\ t.sock.out = WriteSize
        <4>1. CASE c = Writer /\ kind = "ok"
          BY <1>2, <2>2, <3>1, <4>1, StreamConstants
        <4>2. CASE c # Writer \/ kind # "ok"
          BY <2>2, <2>5, <3>1, <4>2 DEF Users
        <4>3. QED
          BY <4>1, <4>2
      <3>4. Pending(t, "write") \/ Has(t.ready, Writer) \/ t.sock.out = 0
        BY <2>2, <2>3, <2>4, <3>1, <3>2 DEF Pending, Dirs
      <3>5. QED
        BY <2>2, <2>6, <3>1, <3>3, <3>4 DEF ESent, Dirs
    <2>10. EClosed(t)
      BY <2>2, <2>6 DEF EGood, EClosed
    <2>11. ASSUME NEW b, EHeard(s, b) PROVE EHeard(t, b)
      <3>1. \A e \in Dirs : Pending(t, e) => Pending(s, e) /\ t.on # {}
        BY <2>6, <2>7 DEF ELanes
      <3>2. "read" \in Dirs /\ "write" \in Dirs
        BY DEF Dirs
      <3>3. QED
        BY <2>2, <2>11, <3>1, <3>2 DEF EHeard
    <2>12. kind # "ETIMEDOUT" => ENoTimeout(s, t)
      BY <2>5 DEF ENoTimeout
    <2>13. EGood(t)
      BY <2>2, <2>7, <2>8, <2>9, <2>10 DEF EGood
    <2>14. ECompletes(s, t)
      BY <2>2, <2>6, <2>11, <2>13 DEF ECompletes
    <2>15. QED
      BY <2>3, <2>6, <2>12, <2>14 DEF t, EEnds
  <1>3. QED
    BY <1>1, <1>2

(* The deadline and the timer of a direction change, and nothing else. *)
ESetsLane(s, d, l, t) ==
  /\ l \in ELane /\ l.owner = s.lane[d].owner
  /\ l.timer # "off" => Pending(s, d)
  /\ l.timer = "set" => l.deadline = "ahead"
  /\ l.timer = "due" => l.deadline = "past"
  /\ t = [s EXCEPT !.lane[d] = l]

(* A lane that still fits its operation and its deadline can be put in its place. *)
LEMMA LaneGood ==
  ASSUME NEW s, EGood(s), NEW d \in Dirs, NEW l, NEW t, ESetsLane(s, d, l, t)
  PROVE  /\ EGood(t)
         /\ t.life = s.life /\ t.edge = s.edge /\ t.batch = s.batch /\ t.sock = s.sock
         /\ t.left = s.left /\ t.res = s.res /\ t.on = s.on
         /\ t.lane[d] = l
         /\ \A e \in Dirs : e # d => t.lane[e] = s.lane[e]
         /\ \A e \in Dirs : t.lane[e].owner = s.lane[e].owner
         /\ \A b : EHeard(s, b) => EHeard(t, b)
  <1> USE DEF ESetsLane
  <1>1. s \in EStream /\ s.lane \in [Dirs -> ELane]
    BY DEF EGood, EStream
  <1>2. /\ t \in EStream /\ t.lane = [s.lane EXCEPT ![d] = l]
        /\ t.life = s.life /\ t.edge = s.edge /\ t.batch = s.batch /\ t.sock = s.sock
        /\ t.left = s.left /\ t.res = s.res /\ t.on = s.on /\ t.ready = s.ready
        /\ t.reserved = s.reserved /\ t.listed = s.listed
    <2>1. [s.lane EXCEPT ![d] = l] \in [Dirs -> ELane]
      BY <1>1
    <2>2. QED
      BY <1>1, <2>1 DEF EStream
  <1>3. /\ t.lane[d] = l
        /\ \A e \in Dirs : e # d => t.lane[e] = s.lane[e]
        /\ \A e \in Dirs : t.lane[e].owner = s.lane[e].owner
        /\ \A e \in Dirs : Pending(t, e) <=> Pending(s, e)
        /\ "read" \in Dirs /\ "write" \in Dirs
    BY <1>1, <1>2 DEF Pending, Dirs
  <1>4. ELanes(t)
    BY <1>2, <1>3 DEF EGood, ELanes
  <1>5. EResults(t) /\ EClosed(t)
    BY <1>2, <1>3 DEF EGood, EResults, EClosed
  <1>6. ESent(t)
    BY <1>2, <1>3 DEF EGood, ESent
  <1>7. ASSUME NEW b, EHeard(s, b) PROVE EHeard(t, b)
    BY <1>2, <1>3, <1>7 DEF EHeard
  <1>8. QED
    BY <1>2, <1>3, <1>4, <1>5, <1>6, <1>7 DEF EGood

(* From s to t only operations whose deadline has passed are timed out. *)
ETimely(s, t) ==
  \A e \in Dirs : Pending(s, e) /\ ~Pending(t, e) /\ t.res[s.lane[e].owner] = "ETIMEDOUT"
                    => t.lane[e].deadline = "past"

(* Nobody who is pending has a result yet. *)
LEMMA PendingHasNoResult ==
  ASSUME NEW s, EGood(s), NEW d \in Dirs, Pending(s, d)
  PROVE  s.lane[d].owner \in Users /\ s.res[s.lane[d].owner] = "none"
  <1>1. s.lane[d].owner \in Users
    BY DEF EGood, EStream, ELane, Pending
  <1>2. ~Has(s.ready, s.lane[d].owner)
    BY DEF EGood, ELanes
  <1>3. QED
    BY <1>1, <1>2 DEF EGood, EResults

(* A step that times nobody out is a timely one. *)
LEMMA NoTimeoutIsTimely ==
  ASSUME NEW s, EGood(s), NEW t, ENoTimeout(s, t)
  PROVE  ETimely(s, t)
  BY PendingHasNoResult DEF ENoTimeout, ETimely

(* ArmReadDeadline() and ArmWriteDeadline(). *)
LEMMA ArmGood ==
  ASSUME NEW s, EGood(s), NEW d \in Dirs, NEW nomem \in BOOLEAN
  PROVE  LET t == ArmDeadline(s, d, nomem) IN
         /\ EGood(t)
         /\ t.life = s.life /\ t.edge = s.edge /\ t.batch = s.batch /\ t.sock = s.sock
         /\ t.left = s.left
         /\ \A e \in Dirs : e # d => t.lane[e].owner = s.lane[e].owner
         /\ t.lane[d].deadline = s.lane[d].deadline
         /\ \A b : EHeard(s, b) => EHeard(t, b)
         /\ ETimely(s, t)
  <1> DEFINE l == s.lane[d]
             t == ArmDeadline(s, d, nomem)
  <1>1. s \in EStream /\ s.lane \in [Dirs -> ELane] /\ l \in ELane
    BY DEF EGood, EStream
  <1>2. CASE l.owner = NoOne \/ l.deadline = "none"
    <2>1. t = s
      BY <1>2 DEF ArmDeadline
    <2>2. QED
      BY <2>1 DEF ETimely
  <1>3. CASE l.owner # NoOne /\ l.deadline = "past"
    <2>1. t = Complete(s, d, "ETIMEDOUT")
      BY <1>3 DEF ArmDeadline
    <2> HIDE DEF t
    <2>2. EEnds(s, d, "ETIMEDOUT", t)
      BY <2>1, CompleteGood DEF EKinds
    <2>3. ETimely(s, t)
      BY <1>3, <2>2 DEF ETimely, EEnds, ECompletes, Pending
    <2>4. QED
      BY <2>2, <2>3 DEF EEnds, ECompletes, t
  <1>4. CASE l.owner # NoOne /\ l.deadline = "ahead" /\ nomem
    <2>1. t = Complete(s, d, "ENOMEM")
      BY <1>4 DEF ArmDeadline
    <2> HIDE DEF t
    <2>2. EEnds(s, d, "ENOMEM", t)
      BY <2>1, CompleteGood DEF EKinds
    <2>3. ETimely(s, t)
      BY <2>2, NoTimeoutIsTimely DEF EEnds
    <2>4. QED
      BY <2>2, <2>3 DEF EEnds, ECompletes, t
  <1>5. CASE l.owner # NoOne /\ l.deadline = "ahead" /\ ~nomem
    <2> DEFINE m == [owner |-> l.owner, deadline |-> "ahead", timer |-> "set"]
    <2>1. t = [s EXCEPT !.lane[d].timer = "set"]
      BY <1>5 DEF ArmDeadline
    <2>2. [l EXCEPT !.timer = "set"] = m /\ m \in ELane
      BY <1>1, <1>5 DEF ELane
    <2>3. t = [s EXCEPT !.lane[d] = m]
      BY <2>1, <2>2
    <2>4. /\ EGood(t)
          /\ t.life = s.life /\ t.edge = s.edge /\ t.batch = s.batch /\ t.sock = s.sock
          /\ t.left = s.left /\ t.lane[d] = m
          /\ \A e \in Dirs : t.lane[e].owner = s.lane[e].owner
          /\ \A b : EHeard(s, b) => EHeard(t, b)
      <3> HIDE DEF t
      <3>1. ESetsLane(s, d, m, t)
        BY <1>5, <2>2, <2>3 DEF ESetsLane, Pending
      <3> HIDE DEF m
      <3>2. QED
        BY <3>1, LaneGood
    <2>5. ETimely(s, t)
      BY <2>4 DEF ETimely, Pending
    <2>6. QED
      BY <1>5, <2>4, <2>5
  <1>6. QED
    <2>1. l.deadline \in {"none", "ahead", "past"}
      BY <1>1 DEF ELane
    <2>2. QED
      BY <1>2, <1>3, <1>4, <1>5, <2>1

(* A stream in which coroutine c can be suspended in direction d: its attempt has shown
   that the socket is not ready. *)
ESuspends(s, c, d) ==
  /\ s \in EStream /\ ELanes(s) /\ s.life.resource = "Open" /\ ~Pending(s, d)
  /\ \A a \in Users : s.res[a] # "none" => Has(s.ready, a)
  /\ ~Has(s.ready, c)
  /\ d = "read" =>
       /\ c \in Readers /\ s.reserved \subseteq {c} /\ ESent(s)
       /\ s.sock.data = 0 /\ ~s.sock.eof
  /\ d = "write" =>
       /\ c = Writer /\ s.reserved \subseteq {s.lane["read"].owner}
       /\ s.sock.out + s.left = WriteSize
       /\ s.sock.room = 0 /\ ~s.sock.shut

(* await_suspend(): the interest, the awaiter and its deadline. *)
LEMMA SuspendGood ==
  ASSUME NEW s, NEW d \in Dirs, NEW c \in Users, NEW nomem \in BOOLEAN, NEW b,
         ESuspends(s, c, d), EHeard(s, b)
  PROVE  LET t == Suspend(s, c, d, nomem) IN
         EGood(t) /\ t.batch = s.batch /\ EHeard(t, b) /\ ETimely(s, t)
  <1> DEFINE v == Update(s, s.on \cup {d})
             l == [owner |-> c, deadline |-> s.lane[d].deadline, timer |-> s.lane[d].timer]
             u == [v EXCEPT !.lane[d].owner = c]
             t == Suspend(s, c, d, nomem)
  <1>1. /\ s \in EStream /\ s.on \cup {d} \in SUBSET Dirs /\ c # NoOne
        /\ s.lane \in [Dirs -> ELane] /\ s.lane[d] \in ELane /\ l \in ELane
    BY StreamConstants DEF ESuspends, EStream, ELane, Users
  <1>2. /\ v \in EStream /\ v = [s EXCEPT !.on = s.on \cup {d}, !.listed = v.listed]
        /\ s.listed => v.listed
    BY <1>1, UpdateFields, Zenon
  <1> HIDE DEF v
  <1>3. /\ v.life = s.life /\ v.edge = s.edge /\ v.left = s.left /\ v.batch = s.batch
        /\ v.sock = s.sock /\ v.lane = s.lane /\ v.res = s.res /\ v.ready = s.ready
        /\ v.reserved = s.reserved /\ v.on = s.on \cup {d}
    BY <1>1, <1>2, Zenon DEF EStream
  <1>4. u = [v EXCEPT !.lane = [s.lane EXCEPT ![d] = l]]
    <2>1. [s.lane[d] EXCEPT !.owner = c] = l
      BY <1>1 DEF ELane
    <2>2. QED
      BY <1>1, <1>2, <1>3, <2>1 DEF EStream
  <1>5. [s.lane EXCEPT ![d] = l] \in [Dirs -> ELane]
    BY <1>1
  <1> HIDE DEF u
  <1>6. /\ u \in EStream /\ u.lane = [s.lane EXCEPT ![d] = l]
        /\ u.life = s.life /\ u.edge = s.edge /\ u.left = s.left /\ u.batch = s.batch
        /\ u.sock = s.sock /\ u.res = s.res /\ u.ready = s.ready
        /\ u.reserved = s.reserved /\ u.on = s.on \cup {d}
        /\ s.listed => u.listed
    <2>1. u \in EStream
      BY <1>2, <1>4, <1>5, Zenon DEF EStream
    <2>2. QED
      BY <1>2, <1>3, <1>4, <2>1, Zenon DEF EStream
  <1>7. /\ u.lane[d] = l /\ \A e \in Dirs : e # d => u.lane[e] = s.lane[e]
        /\ Pending(u, d) /\ \A e \in Dirs : e # d => (Pending(u, e) <=> Pending(s, e))
        /\ "read" \in Dirs /\ "write" \in Dirs
    BY <1>1, <1>6 DEF Pending, Dirs
  <1>8. ELanes(u)
    <2>1. /\ s.lane["read"].owner \in Readers \cup {NoOne}
          /\ s.lane["write"].owner \in {Writer, NoOne}
          /\ \A e \in Dirs :
               /\ Pending(s, e) => e \in s.on /\ ~Has(s.ready, s.lane[e].owner)
               /\ s.lane[e].timer # "off" => Pending(s, e)
               /\ s.lane[e].timer = "set" => s.lane[e].deadline = "ahead"
               /\ s.lane[e].timer = "due" => s.lane[e].deadline = "past"
      BY DEF ESuspends, ELanes
    <2>2. /\ u.lane["read"].owner \in Readers \cup {NoOne}
          /\ u.lane["write"].owner \in {Writer, NoOne}
      BY <1>7, <2>1 DEF Dirs, ESuspends
    <2>3. ASSUME NEW e \in Dirs
          PROVE  /\ Pending(u, e) => e \in u.on /\ ~Has(u.ready, u.lane[e].owner)
                 /\ u.lane[e].timer # "off" => Pending(u, e)
                 /\ u.lane[e].timer = "set" => u.lane[e].deadline = "ahead"
                 /\ u.lane[e].timer = "due" => u.lane[e].deadline = "past"
      BY <1>6, <1>7, <2>1 DEF ESuspends
    <2>4. QED
      BY <2>2, <2>3 DEF ELanes
  <1>9. EResults(u) /\ EClosed(u)
    <2>1. u.reserved \subseteq {u.lane["read"].owner}
      BY <1>6, <1>7 DEF ESuspends, Dirs
    <2>2. QED
      BY <1>6, <2>1 DEF ESuspends, EResults, EClosed
  <1>10. ESent(u)
    <2>1. CASE d = "read"
      BY <1>6, <1>7, <2>1 DEF ESuspends, ESent
    <2>2. CASE d = "write"
      <3>1. s.res[Writer] = "none"
        BY <2>2 DEF ESuspends, Users
      <3>2. QED
        BY <1>6, <1>7, <2>2, <3>1 DEF ESuspends, ESent
    <2>3. QED
      BY <2>1, <2>2 DEF Dirs
  <1>11. EHeard(u, b)
    <2>1. CASE d = "read"
      BY <1>6, <1>7, <2>1 DEF ESuspends, EHeard
    <2>2. CASE d = "write"
      BY <1>6, <1>7, <2>2 DEF ESuspends, EHeard
    <2>3. QED
      BY <2>1, <2>2 DEF Dirs
  <1>12. EGood(u)
    BY <1>6, <1>8, <1>9, <1>10 DEF EGood
  <1>13. t = ArmDeadline(u, d, nomem)
    BY DEF Suspend, u, v
  <1> HIDE DEF t
  <1>14. /\ EGood(t) /\ t.batch = u.batch /\ EHeard(t, b)
         /\ \A e \in Dirs : e # d => t.lane[e].owner = u.lane[e].owner
    BY <1>11, <1>12, <1>13, ArmGood
  <1>15. ETimely(s, t)
    BY <1>7, <1>14 DEF ETimely, Pending, ESuspends
  <1>16. QED
    BY <1>6, <1>14, <1>15 DEF t

-----------------------------------------------------------------------------
(* Attempts on the socket.                                                 *)

ESocketStep(s, t) ==
  /\ t \in EStream
  /\ t.life = s.life /\ t.edge = s.edge /\ t.on = s.on /\ t.lane = s.lane
  /\ t.ready = s.ready /\ t.res = s.res /\ t.reserved = s.reserved
  /\ t.batch = s.batch /\ t.listed = s.listed

(* Nothing becomes ready. *)
ENoMoreReady(s, t) ==
  /\ t.sock.data > 0 \/ t.sock.eof => s.sock.data > 0 \/ s.sock.eof
  /\ t.sock.room > 0 \/ t.sock.shut => s.sock.room > 0 \/ s.sock.shut

(* An attempt on the socket moves bytes of a pending Write(), or none. *)
LEMMA SocketGood ==
  ASSUME NEW s, EGood(s), NEW t, ESocketStep(s, t), ENoMoreReady(s, t),
         Pending(s, "write") => t.sock.out + t.left = s.sock.out + s.left,
         ~Pending(s, "write") => t.sock.out = s.sock.out /\ t.left = s.left
  PROVE  /\ EGood(t) /\ ENoTimeout(s, t)
         /\ \A b : EHeard(s, b) => EHeard(t, b)
  <1>1. \A d \in Dirs : Pending(t, d) <=> Pending(s, d)
    BY DEF ESocketStep, Pending
  <1>2. ELanes(t) /\ EResults(t) /\ EClosed(t)
    BY <1>1 DEF EGood, ELanes, EResults, EClosed, ESocketStep
  <1>3. ESent(t)
    <2>1. "write" \in Dirs
      BY DEF Dirs
    <2>2. CASE Pending(s, "write")
      <3>1. s.res[Writer] = "none"
        <4>1. s.lane["write"].owner = Writer
          BY <2>2 DEF EGood, ELanes, Pending
        <4>2. QED
          BY <2>1, <2>2, <4>1, PendingHasNoResult
      <3>2. QED
        BY <1>1, <2>1, <2>2, <3>1 DEF EGood, ESent, ESocketStep
    <2>3. CASE ~Pending(s, "write")
      BY <1>1, <2>1, <2>3 DEF EGood, ESent, ESocketStep
    <2>4. QED
      BY <2>2, <2>3
  <1>4. ASSUME NEW b, EHeard(s, b) PROVE EHeard(t, b)
    <2>1. (Pending(t, "read") <=> Pending(s, "read")) /\ (Pending(t, "write") <=> Pending(s, "write"))
      BY <1>1 DEF Dirs
    <2>2. QED
      BY <1>4, <2>1 DEF EHeard, ESocketStep, ENoMoreReady
  <1>5. QED
    BY <1>2, <1>3, <1>4 DEF EGood, ENoTimeout, ESocketStep

(* The smaller of two numbers. *)
LEMMA MinOfTwo ==
  ASSUME NEW a \in Nat, NEW b \in Nat
  PROVE  /\ Min({a, b}) \in Nat
         /\ a <= b => Min({a, b}) = a
         /\ b <= a => Min({a, b}) = b
  <1>1. CASE a <= b
    BY <1>1 DEF Min
  <1>2. CASE b <= a
    BY <1>2 DEF Min
  <1>3. QED
    BY <1>1, <1>2

(* TryRead() takes what it reads, or sk_err. *)
LEMMA AfterReadGood ==
  ASSUME NEW s, EGood(s), NEW n \in Nat
  PROVE  LET t == AfterRead(s, n) IN
         /\ EGood(t) /\ ENoTimeout(s, t) /\ ESocketStep(s, t) /\ t.left = s.left
         /\ \A b : EHeard(s, b) => EHeard(t, b)
  <1> DEFINE m == Min({n, s.sock.data})
             k == IF s.sock.data > 0 THEN [s.sock EXCEPT !.data = @ - m]
                  ELSE [s.sock EXCEPT !.err = FALSE]
             t == AfterRead(s, n)
  <1>1. s \in EStream /\ s.sock \in ESocket /\ s.sock.data \in Nat
    BY DEF EGood, EStream, ESocket
  <1>2. m \in Nat /\ m <= s.sock.data
    BY <1>1, MinOfTwo
  <1> HIDE DEF m
  <1>3. s.sock.data - m \in Nat
    BY <1>1, <1>2
  <1>4. /\ k \in ESocket /\ k.out = s.sock.out /\ k.eof = s.sock.eof /\ k.room = s.sock.room
        /\ k.shut = s.sock.shut
        /\ k.data > 0 => s.sock.data > 0
    <2>1. CASE s.sock.data > 0
      BY <1>1, <1>3, <2>1 DEF ESocket
    <2>2. CASE ~(s.sock.data > 0)
      BY <1>1, <2>2, Zenon DEF ESocket
    <2>3. QED
      BY <2>1, <2>2
  <1>5. t = [s EXCEPT !.sock = k]
    BY <1>1, Zenon DEF AfterRead, EStream, m
  <1> HIDE DEF k, t
  <1>6. ESocketStep(s, t) /\ t.sock = k /\ t.left = s.left
    BY <1>1, <1>4, <1>5 DEF EStream, ESocketStep
  <1>7. s.sock.out \in Nat /\ s.left \in Nat
    BY <1>1 DEF EStream, ESocket
  <1>8. ENoMoreReady(s, t)
    BY <1>4, <1>6 DEF ENoMoreReady
  <1>9. t.sock.out = s.sock.out
    BY <1>4, <1>6
  <1>10. EGood(t) /\ ENoTimeout(s, t) /\ \A b : EHeard(s, b) => EHeard(t, b)
    BY <1>6, <1>8, <1>9, SocketGood
  <1>11. QED
    BY <1>6, <1>10 DEF t

(* The loop of TryWrite(): what it sends the socket accepts, until all is sent or the
   socket is full. *)
LEMMA AfterWriteFields ==
  ASSUME NEW s \in EStream
  PROVE  LET t == AfterWrite(s)
             answer == TryWrite(s)
         IN  /\ answer \in {"error", "EPIPE", "ok", "block"}
             /\ ESocketStep(s, t)
             /\ t.sock.data = s.sock.data /\ t.sock.eof = s.sock.eof
             /\ t.sock.shut = s.sock.shut /\ t.sock.room <= s.sock.room
             /\ t.sock.out + t.left = s.sock.out + s.left
             /\ answer = "ok" => t.left = 0
             /\ answer = "block" => t.sock.room = 0 /\ ~s.sock.shut
  <1> DEFINE n == Min({s.left, s.sock.room})
             k == [s.sock EXCEPT !.room = @ - n, !.out = @ + n]
             e == [s.sock EXCEPT !.err = FALSE]
             t == AfterWrite(s)
             answer == TryWrite(s)
  <1>1. /\ s.sock \in ESocket /\ s.left \in Nat /\ s.sock.room \in Nat /\ s.sock.out \in Nat
    BY DEF EStream, ESocket
  <1>2. /\ n \in Nat
        /\ s.left <= s.sock.room => n = s.left
        /\ s.sock.room <= s.left => n = s.sock.room
    BY <1>1, MinOfTwo
  <1> HIDE DEF n
  <1>3. /\ s.left - n \in Nat /\ s.sock.room - n \in Nat /\ s.sock.out + n \in Nat
        /\ s.sock.room - n <= s.sock.room
        /\ (s.sock.out + n) + (s.left - n) = s.sock.out + s.left
        /\ s.left <= s.sock.room => s.left - n = 0
        /\ ~(s.left <= s.sock.room) => s.sock.room - n = 0
    BY <1>1, <1>2
  <1>4. answer \in {"error", "EPIPE", "ok", "block"}
    BY DEF TryWrite
  <1>5. CASE answer \in {"ok", "block"}
    <2>1. t = [s EXCEPT !.left = s.left - n, !.sock = k]
      BY <1>5, Zenon DEF AfterWrite, n, EStream
    <2>2. /\ k \in ESocket /\ k.data = s.sock.data /\ k.eof = s.sock.eof
          /\ k.shut = s.sock.shut /\ k.room = s.sock.room - n /\ k.out = s.sock.out + n
      BY <1>1, <1>3, Zenon DEF ESocket
    <2> HIDE DEF k, t
    <2>3. ESocketStep(s, t) /\ t.sock = k /\ t.left = s.left - n
      BY <1>3, <2>1, <2>2, Zenon DEF ESocketStep, EStream
    <2>4. /\ answer = "ok" => s.left <= s.sock.room
          /\ answer = "block" => ~(s.left <= s.sock.room) /\ ~s.sock.shut
      BY DEF TryWrite
    <2> HIDE DEF answer
    <2>5. t.sock.out + t.left = s.sock.out + s.left
      BY <1>3, <2>2, <2>3
    <2>6. /\ answer = "ok" => t.left = 0
          /\ answer = "block" => t.sock.room = 0 /\ ~s.sock.shut
          /\ t.sock.room <= s.sock.room
      BY <1>3, <2>2, <2>3, <2>4
    <2>7. QED
      BY <1>4, <2>2, <2>3, <2>5, <2>6 DEF t, answer
  <1>6. CASE answer \notin {"ok", "block"}
    <2>1. t = [s EXCEPT !.sock = e]
      BY <1>6 DEF AfterWrite, EStream
    <2>2. /\ e \in ESocket /\ e.data = s.sock.data /\ e.eof = s.sock.eof
          /\ e.shut = s.sock.shut /\ e.room = s.sock.room /\ e.out = s.sock.out
      BY <1>1, Zenon DEF ESocket
    <2> HIDE DEF e, t
    <2>3. ESocketStep(s, t) /\ t.sock = e /\ t.left = s.left
      BY <2>1, <2>2 DEF ESocketStep, EStream
    <2> HIDE DEF answer
    <2>4. QED
      BY <1>1, <1>4, <1>6, <2>2, <2>3 DEF t, answer
  <1>7. QED
    BY <1>5, <1>6

(* A pending Write() goes on. *)
LEMMA AfterWriteGood ==
  ASSUME NEW s, EGood(s), Pending(s, "write")
  PROVE  LET t == AfterWrite(s) IN
         /\ EGood(t) /\ ENoTimeout(s, t) /\ ESocketStep(s, t)
         /\ \A b : EHeard(s, b) => EHeard(t, b)
  <1> DEFINE t == AfterWrite(s)
  <1>1. s \in EStream /\ s.sock.room \in Nat
    BY DEF EGood, EStream, ESocket
  <1>2. /\ ESocketStep(s, t)
        /\ t.sock.data = s.sock.data /\ t.sock.eof = s.sock.eof
        /\ t.sock.shut = s.sock.shut /\ t.sock.room <= s.sock.room
        /\ t.sock.out + t.left = s.sock.out + s.left
    BY <1>1, AfterWriteFields
  <1> HIDE DEF t
  <1>3. t.sock.room \in Nat
    BY <1>2 DEF ESocketStep, EStream, ESocket
  <1>4. ENoMoreReady(s, t)
    BY <1>1, <1>2, <1>3 DEF ENoMoreReady
  <1>5. EGood(t) /\ ENoTimeout(s, t) /\ \A b : EHeard(s, b) => EHeard(t, b)
    BY <1>2, <1>4, SocketGood
  <1>6. QED
    BY <1>2, <1>5 DEF t

-----------------------------------------------------------------------------
(* The callbacks of the Channel.                                           *)

(* An interest that nobody needs goes. *)
LEMMA UpdateGood ==
  ASSUME NEW s, EGood(s), NEW on \in SUBSET s.on, \A d \in Dirs : Pending(s, d) => d \in on
  PROVE  LET t == Update(s, on) IN
         /\ EGood(t) /\ ENoTimeout(s, t) /\ \A b : EHeard(s, b) => EHeard(t, b)
         /\ t.on = on /\ t.batch = s.batch /\ t.edge = s.edge /\ t.life = s.life
         /\ t.lane = s.lane /\ t.sock = s.sock /\ t.res = s.res /\ t.ready = s.ready
         /\ t.reserved = s.reserved /\ t.left = s.left
  <1> DEFINE t == Update(s, on)
  <1>1. s \in EStream /\ on \in SUBSET Dirs
    BY DEF EGood, EStream
  <1>2. /\ t \in EStream /\ t = [s EXCEPT !.on = on, !.listed = t.listed]
        /\ s.listed /\ on # {} => t.listed
    BY <1>1, UpdateFields, Zenon
  <1> HIDE DEF t
  <1>3. /\ t.on = on /\ t.batch = s.batch /\ t.edge = s.edge /\ t.life = s.life
        /\ t.lane = s.lane /\ t.sock = s.sock /\ t.res = s.res /\ t.ready = s.ready
        /\ t.reserved = s.reserved /\ t.left = s.left
    BY <1>1, <1>2, Zenon DEF EStream
  <1>4. \A d \in Dirs : Pending(t, d) <=> Pending(s, d)
    BY <1>3 DEF Pending
  <1>5. ELanes(t) /\ EResults(t) /\ EClosed(t)
    BY <1>3, <1>4 DEF EGood, ELanes, EResults, EClosed
  <1>6. "read" \in Dirs /\ "write" \in Dirs
    BY DEF Dirs
  <1>7. ESent(t)
    BY <1>3, <1>4, <1>6 DEF EGood, ESent
  <1>8. ASSUME NEW b, EHeard(s, b) PROVE EHeard(t, b)
    <2>1. \A d \in Dirs : Pending(t, d) => Pending(s, d) /\ on # {}
      BY <1>4
    <2>2. QED
      BY <1>2, <1>3, <1>6, <1>8, <2>1 DEF EHeard
  <1>9. EGood(t) /\ ENoTimeout(s, t)
    BY <1>2, <1>3, <1>5, <1>7 DEF EGood, ENoTimeout
  <1>10. QED
    BY <1>3, <1>8, <1>9 DEF t

(* From s to t a callback that needs no more of the events in handled. *)
EHandles(s, t, handled) ==
  /\ EGood(t) /\ ENoTimeout(s, t) /\ t.batch = s.batch
  /\ \A b : EHeard(s, b) => EHeard(t, b \ handled)

(* HandleRead(): the event is used up, for the read that was pending is answered, or the
   socket has nothing for it. *)
LEMMA HandleReadGood ==
  ASSUME NEW s, EGood(s), NEW n \in Nat
  PROVE  EHandles(s, HandleRead(s, n), {"in"})
  <1> DEFINE t == HandleRead(s, n)
  <1>1. CASE ~Pending(s, "read") /\ s.edge
    <2>1. t = s
      BY <1>1 DEF HandleRead, Pending
    <2>2. QED
      BY <1>1, <2>1 DEF EHandles, ENoTimeout, EHeard
  <1>2. CASE ~Pending(s, "read") /\ ~s.edge
    <2>1. t = Update(s, s.on \ {"read"})
      BY <1>2 DEF HandleRead, Pending
    <2>2. \A d \in Dirs : Pending(s, d) => d \in s.on \ {"read"}
      BY <1>2 DEF EGood, ELanes
    <2>3. EGood(t) /\ ENoTimeout(s, t) /\ t.batch = s.batch /\ t.edge = s.edge
      <3> HIDE DEF t
      <3>1. s.on \ {"read"} \in SUBSET s.on
        OBVIOUS
      <3>2. QED
        BY <2>1, <2>2, <3>1, UpdateGood
    <2>4. QED
      BY <1>2, <2>3 DEF EHandles, EHeard
  <1>3. CASE Pending(s, "read") /\ TryRead(s) = "block"
    <2>1. t = s
      BY <1>3 DEF HandleRead, Pending
    <2>2. ~(s.sock.data > 0) /\ ~s.sock.eof
      BY <1>3 DEF TryRead
    <2>3. QED
      BY <2>1, <2>2 DEF EHandles, ENoTimeout, EHeard
  <1>4. CASE Pending(s, "read") /\ TryRead(s) # "block"
    <2> DEFINE kind == TryRead(s)
               r == AfterRead(s, n)
    <2>1. t = Complete(r, "read", kind)
      BY <1>4 DEF HandleRead, CompleteRead, Pending
    <2>2. kind \in EKinds /\ kind # "ok" /\ kind # "ETIMEDOUT"
      BY <1>4 DEF TryRead, EKinds
    <2>3. /\ EGood(r) /\ ENoTimeout(s, r) /\ ESocketStep(s, r)
          /\ \A b : EHeard(s, b) => EHeard(r, b)
      BY AfterReadGood
    <2> HIDE DEF kind, r, t
    <2>4. EEnds(r, "read", kind, t)
      BY <2>1, <2>2, <2>3, CompleteGood DEF Dirs
    <2>5. EGood(t) /\ ENoTimeout(r, t) /\ t.batch = r.batch /\ ~Pending(t, "read")
      BY <2>2, <2>4 DEF EEnds, ECompletes
    <2>6. \A b : EHeard(s, b) => EHeard(t, b)
      BY <2>3, <2>4 DEF EEnds, ECompletes
    <2>7. \A b : EHeard(s, b) => EHeard(t, b \ {"in"})
      BY <2>5, <2>6 DEF EHeard
    <2>8. ENoTimeout(s, t) /\ t.batch = s.batch
      BY <2>3, <2>5 DEF ENoTimeout, ESocketStep
    <2>9. QED
      BY <2>5, <2>7, <2>8 DEF EHandles, t
  <1>5. QED
    BY <1>1, <1>2, <1>3, <1>4

(* HandleWrite(): likewise, for the write that was pending is answered, or has filled the
   socket. *)
LEMMA HandleWriteGood ==
  ASSUME NEW s, EGood(s)
  PROVE  EHandles(s, HandleWrite(s), {"out"})
  <1> DEFINE t == HandleWrite(s)
             w == AfterWrite(s)
             kind == TryWrite(s)
  <1>1. CASE ~Pending(s, "write")
    <2>1. t = s
      BY <1>1 DEF HandleWrite, Pending
    <2>2. QED
      BY <1>1, <2>1 DEF EHandles, ENoTimeout, EHeard
  <1>2. CASE Pending(s, "write")
    <2>1. s \in EStream
      BY DEF EGood
    <2>2. /\ EGood(w) /\ ENoTimeout(s, w) /\ ESocketStep(s, w)
          /\ \A b : EHeard(s, b) => EHeard(w, b)
      BY <1>2, AfterWriteGood
    <2>3. /\ kind \in {"error", "EPIPE", "ok", "block"}
          /\ kind = "ok" => w.left = 0
          /\ kind = "block" => w.sock.room = 0 /\ ~s.sock.shut
          /\ w.sock.shut = s.sock.shut
      BY <2>1, AfterWriteFields
    <2>4. CASE kind = "block"
      <3>1. t = w
        BY <1>2, <2>4 DEF HandleWrite, Pending
      <3> HIDE DEF w, kind
      <3>2. ~(w.sock.room > 0) /\ ~w.sock.shut
        BY <2>3, <2>4
      <3>3. \A b : EHeard(s, b) => EHeard(w, b \ {"out"})
        BY <2>2, <3>2 DEF EHeard
      <3>4. QED
        BY <2>2, <3>1, <3>3 DEF EHandles, ESocketStep
    <2>5. CASE kind # "block"
      <3>1. t = Complete(w, "write", kind)
        BY <1>2, <2>5 DEF HandleWrite, CompleteWrite, Pending
      <3> HIDE DEF w, kind, t
      <3>2. kind \in EKinds /\ kind # "ETIMEDOUT"
        BY <2>3, <2>5 DEF EKinds
      <3>3. EEnds(w, "write", kind, t)
        BY <2>2, <2>3, <3>1, <3>2, CompleteGood DEF Dirs
      <3>4. EGood(t) /\ ENoTimeout(w, t) /\ t.batch = w.batch /\ ~Pending(t, "write")
        BY <3>2, <3>3 DEF EEnds, ECompletes
      <3>5. \A b : EHeard(s, b) => EHeard(t, b)
        BY <2>2, <3>3 DEF EEnds, ECompletes
      <3>6. \A b : EHeard(s, b) => EHeard(t, b \ {"out"})
        BY <3>4, <3>5 DEF EHeard
      <3>7. ENoTimeout(s, t) /\ t.batch = s.batch
        BY <2>2, <3>4 DEF ENoTimeout, ESocketStep
      <3>8. QED
        BY <3>4, <3>6, <3>7 DEF EHandles, t
    <2>6. QED
      BY <2>4, <2>5
  <1>3. QED
    BY <1>1, <1>2

(* Both operations are answered. *)
LEMMA BothEndGood ==
  ASSUME NEW s, EGood(s), NEW k \in EKinds \ {"ok", "ETIMEDOUT"},
         NEW l \in EKinds \ {"ok", "ETIMEDOUT"}
  PROVE  LET t == CompleteWrite(CompleteRead(s, k), l) IN
         /\ EHandles(s, t, {}) /\ \A d \in Dirs : ~Pending(t, d)
         /\ t.life = s.life /\ t.edge = s.edge /\ t.sock = s.sock /\ t.left = s.left
  <1> DEFINE r == CompleteRead(s, k)
             t == CompleteWrite(r, l)
  <1>1. "read" \in Dirs /\ "write" \in Dirs
    BY DEF Dirs
  <1>2. EEnds(s, "read", k, r)
    BY <1>1, CompleteGood DEF CompleteRead
  <1> HIDE DEF r
  <1>3. EGood(r)
    BY <1>2 DEF EEnds, ECompletes
  <1>4. EEnds(r, "write", l, t)
    BY <1>1, <1>3, CompleteGood DEF CompleteWrite
  <1> HIDE DEF t
  <1>5. /\ t.life = s.life /\ t.edge = s.edge /\ t.sock = s.sock /\ t.left = s.left
        /\ t.batch = s.batch /\ EGood(t)
    BY <1>2, <1>4 DEF EEnds, ECompletes
  <1>6. \A d \in Dirs : ~Pending(t, d)
    BY <1>1, <1>2, <1>4 DEF EEnds, ECompletes, Pending, Dirs
  <1>7. ENoTimeout(s, t)
    BY <1>2, <1>4 DEF EEnds, ENoTimeout
  <1>8. ASSUME NEW b, EHeard(s, b) PROVE EHeard(t, b \ {})
    BY <1>1, <1>6 DEF EHeard
  <1>9. QED
    BY <1>5, <1>6, <1>7, <1>8 DEF EHandles, r, t

(* HandleClose(). *)
LEMMA HandleCloseGood ==
  ASSUME NEW s, EGood(s)
  PROVE  EHandles(s, HandleClose(s), {})
  BY BothEndGood DEF HandleClose, EKinds

(* HandleError() takes SO_ERROR first. *)
LEMMA HandleErrorGood ==
  ASSUME NEW s, EGood(s)
  PROVE  EHandles(s, HandleError(s), {})
  <1> DEFINE k == [s.sock EXCEPT !.err = FALSE]
             r == [s EXCEPT !.sock.err = FALSE]
  <1>1. s \in EStream /\ s.sock \in ESocket
    BY DEF EGood, EStream
  <1>2. /\ k \in ESocket /\ k.out = s.sock.out /\ k.data = s.sock.data /\ k.eof = s.sock.eof
        /\ k.room = s.sock.room /\ k.shut = s.sock.shut
    BY <1>1, Zenon DEF ESocket
  <1>3. r = [s EXCEPT !.sock = k]
    BY <1>1 DEF EStream
  <1> HIDE DEF k, r
  <1>4. ESocketStep(s, r) /\ r.sock = k /\ r.left = s.left
    BY <1>1, <1>2, <1>3 DEF EStream, ESocketStep
  <1>5. ENoMoreReady(s, r) /\ r.sock.out = s.sock.out
    BY <1>2, <1>4 DEF ENoMoreReady
  <1>6. EGood(r) /\ ENoTimeout(s, r) /\ \A b : EHeard(s, b) => EHeard(r, b)
    BY <1>4, <1>5, SocketGood
  <1>7. EHandles(r, HandleError(s), {})
    BY <1>6, BothEndGood DEF HandleError, EKinds, r
  <1>8. QED
    BY <1>4, <1>6, <1>7 DEF EHandles, ENoTimeout, ESocketStep

(* Two callbacks in a row. *)
LEMMA HandlesCompose ==
  ASSUME NEW s, NEW t, NEW u, NEW h, NEW i, EHandles(s, t, h), EHandles(t, u, i)
  PROVE  EHandles(s, u, h \cup i)
  <1>1. ASSUME NEW b, EHeard(s, b) PROVE EHeard(u, b \ (h \cup i))
    <2>1. EHeard(u, (b \ h) \ i)
      BY <1>1, Zenon DEF EHandles
    <2>2. (b \ h) \ i = b \ (h \cup i)
      OBVIOUS
    <2>3. QED
      BY <2>1, <2>2
  <1>2. QED
    BY <1>1 DEF EHandles, ENoTimeout

(* HandleEventUnchecked(): every event of the batch is handled, so that what the dispatch
   forgets is known to nobody who needs it. *)
LEMMA HandleEventGood ==
  ASSUME NEW s, EGood(s), NEW n \in Nat, EHeard(s, s.batch)
  PROVE  LET t == HandleEvent(s, n) IN
         EGood(t) /\ ENoTimeout(s, t) /\ EHeard(t, t.batch)
  <1> DEFINE b == s.batch
             s1 == IF "hup" \in b /\ "in" \notin b THEN HandleClose(s) ELSE s
             s2 == IF "err" \in b THEN HandleError(s1) ELSE s1
             s3 == IF "in" \in b THEN HandleRead(s2, n) ELSE s2
             s4 == IF "out" \in b THEN HandleWrite(s3) ELSE s3
             t == [s4 EXCEPT !.batch = {}]
  <1>1. HandleEvent(s, n) = t
    BY DEF HandleEvent
  <1>2. \A u : EGood(u) => EHandles(u, u, {})
    BY DEF EHandles, ENoTimeout
  <1>3. EHandles(s, s1, {})
    BY <1>2, HandleCloseGood
  <1> HIDE DEF s1
  <1>4. EGood(s1)
    BY <1>3 DEF EHandles
  <1>5. EHandles(s1, s2, {})
    BY <1>2, <1>4, HandleErrorGood
  <1> HIDE DEF s2
  <1>6. EGood(s2)
    BY <1>5 DEF EHandles
  <1>7. EHandles(s2, s3, {"in"} \cap b)
    <2>1. CASE "in" \in b
      BY <1>6, <2>1, HandleReadGood
    <2>2. CASE "in" \notin b
      BY <1>2, <1>6, <2>2
    <2>3. QED
      BY <2>1, <2>2
  <1> HIDE DEF s3
  <1>8. EGood(s3)
    BY <1>7 DEF EHandles
  <1>9. EHandles(s3, s4, {"out"} \cap b)
    <2>1. CASE "out" \in b
      BY <1>8, <2>1, HandleWriteGood
    <2>2. CASE "out" \notin b
      BY <1>2, <1>8, <2>2
    <2>3. QED
      BY <2>1, <2>2
  <1> HIDE DEF s4
  <1>10. EHandles(s, s4, (({} \cup {}) \cup ({"in"} \cap b)) \cup ({"out"} \cap b))
    BY <1>3, <1>5, <1>7, <1>9, HandlesCompose
  <1>11. EGood(s4) /\ ENoTimeout(s, s4) /\ EHeard(s4, b \ {"in", "out"})
    <2>1. b \ ((({} \cup {}) \cup ({"in"} \cap b)) \cup ({"out"} \cap b)) = b \ {"in", "out"}
      OBVIOUS
    <2>2. QED
      BY <1>10, <2>1 DEF EHandles
  <1>12. s4 \in EStream
    BY <1>11 DEF EGood
  <1>13. /\ t \in EStream /\ t.batch = {}
         /\ t.life = s4.life /\ t.edge = s4.edge /\ t.on = s4.on /\ t.lane = s4.lane
         /\ t.ready = s4.ready /\ t.res = s4.res /\ t.reserved = s4.reserved
         /\ t.listed = s4.listed /\ t.left = s4.left /\ t.sock = s4.sock
    BY <1>12 DEF EStream
  <1> HIDE DEF t
  <1>14. \A d \in Dirs : Pending(t, d) <=> Pending(s4, d)
    BY <1>13 DEF Pending
  <1>15. ELanes(t) /\ EResults(t) /\ EClosed(t)
    BY <1>11, <1>13, <1>14 DEF EGood, ELanes, EResults, EClosed
  <1>16. ESent(t)
    BY <1>11, <1>13, <1>14 DEF EGood, ESent, Dirs
  <1>17. EHeard(t, t.batch)
    BY <1>11, <1>13, <1>14 DEF EHeard, Dirs
  <1>18. QED
    BY <1>1, <1>11, <1>13, <1>15, <1>16, <1>17 DEF EGood, ENoTimeout

-----------------------------------------------------------------------------
(* The steps.                                                              *)

(* A step from s to t keeps what holds of the stream, and times out nobody too early. *)
EKeeps(s, t) == EGood(t) /\ EHeard(t, t.batch) /\ ETimely(s, t)

EInv == EGood(st) /\ EHeard(st, st.batch)

(* A step that does nothing to the stream. *)
LEMMA SameKeeps ==
  ASSUME EInv, st' = st
  PROVE  EKeeps(st, st')
  BY DEF EInv, EKeeps, ETimely

(* What epoll reports of a direction with interest. *)
LEMMA EventsOf ==
  ASSUME NEW s
  PROVE  /\ "read" \in s.on /\ (s.sock.data > 0 \/ s.sock.eof) => "in" \in Events(s)
         /\ "write" \in s.on /\ (s.sock.room > 0 \/ s.sock.shut) => "out" \in Events(s)
         /\ Events(s) \subseteq {"in", "out", "err", "hup"}
  BY DEF Events

(* A socket u that has changed wakes epoll up, at least for the directions that may have
   become ready. *)
LEMMA WakeHeard ==
  ASSUME NEW u \in EStream, \A d \in Dirs : Pending(u, d) => d \in u.on, NEW b, NEW events,
         "in" \notin events =>
           (Pending(u, "read") /\ (u.sock.data > 0 \/ u.sock.eof) =>
              ~u.edge \/ u.listed \/ "in" \in b),
         "out" \notin events =>
           (Pending(u, "write") /\ (u.sock.room > 0 \/ u.sock.shut) =>
              ~u.edge \/ u.listed \/ "out" \in b)
  PROVE  LET t == Wake(u, events)
         IN  /\ t \in EStream /\ t = [u EXCEPT !.listed = t.listed]
             /\ EHeard(t, b)
  <1> DEFINE l == u.listed \/ (u.edge /\ Events(u) \cap events # {})
             t == Wake(u, events)
  <1>1. l \in BOOLEAN /\ t = [u EXCEPT !.listed = l]
    BY DEF EStream, Wake
  <1> HIDE DEF t
  <1>2. "read" \in Dirs /\ "write" \in Dirs
    BY DEF Dirs
  <1>3. Pending(u, "read") /\ (u.sock.data > 0 \/ u.sock.eof) => ~u.edge \/ l \/ "in" \in b
    BY <1>2, EventsOf
  <1>4. Pending(u, "write") /\ (u.sock.room > 0 \/ u.sock.shut) => ~u.edge \/ l \/ "out" \in b
    BY <1>2, EventsOf
  <1> HIDE DEF l
  <1>5. /\ t \in EStream /\ t.listed = l /\ t.lane = u.lane /\ t.sock = u.sock
        /\ t.edge = u.edge
    BY <1>1, Zenon DEF EStream
  <1>6. EHeard(t, b)
    BY <1>3, <1>4, <1>5 DEF EHeard, Pending
  <1>7. QED
    BY <1>1, <1>5, <1>6 DEF t

(* Only the socket, or which sides are shut down, differs from s to u. *)
EArrives(s, u) ==
  /\ u \in EStream /\ u.life.resource = s.life.resource /\ u.sock.out = s.sock.out
  /\ u.edge = s.edge /\ u.on = s.on /\ u.lane = s.lane /\ u.ready = s.ready
  /\ u.res = s.res /\ u.reserved = s.reserved /\ u.left = s.left /\ u.batch = s.batch
  /\ u.listed = s.listed

(* Whatever changes the socket also wakes epoll up. *)
LEMMA ArriveGood ==
  ASSUME NEW s, EGood(s), EHeard(s, s.batch), NEW u, EArrives(s, u), NEW events,
         "in" \notin events => u.sock.data = s.sock.data /\ u.sock.eof = s.sock.eof,
         "out" \notin events => u.sock.room = s.sock.room /\ u.sock.shut = s.sock.shut
  PROVE  LET t == Wake(u, events)
         IN  /\ EGood(t) /\ EHeard(t, t.batch) /\ ENoTimeout(s, t)
             /\ t.on = s.on /\ t.lane = s.lane /\ t.batch = s.batch
  <1> DEFINE t == Wake(u, events)
  <1>1. "read" \in Dirs /\ "write" \in Dirs
    BY DEF Dirs
  <1>2. \A d \in Dirs : Pending(u, d) => d \in u.on
    BY DEF EGood, ELanes, EArrives, Pending
  <1>3. /\ "in" \notin events =>
             (Pending(u, "read") /\ (u.sock.data > 0 \/ u.sock.eof) =>
                ~u.edge \/ u.listed \/ "in" \in u.batch)
        /\ "out" \notin events =>
             (Pending(u, "write") /\ (u.sock.room > 0 \/ u.sock.shut) =>
                ~u.edge \/ u.listed \/ "out" \in u.batch)
    BY DEF EArrives, EHeard, Pending
  <1>4. t \in EStream /\ t = [u EXCEPT !.listed = t.listed] /\ EHeard(t, u.batch)
    <2>1. u \in EStream
      BY DEF EArrives
    <2>2. QED
      BY <1>2, <1>3, <2>1, WakeHeard
  <1> HIDE DEF t
  <1>5. /\ t.life.resource = s.life.resource /\ t.sock.out = s.sock.out
        /\ t.on = s.on /\ t.lane = s.lane /\ t.ready = s.ready
        /\ t.res = s.res /\ t.reserved = s.reserved /\ t.left = s.left /\ t.batch = s.batch
    <2>1. u \in EStream
      BY DEF EArrives
    <2>2. /\ t.life = u.life /\ t.sock = u.sock /\ t.on = u.on /\ t.lane = u.lane
          /\ t.ready = u.ready /\ t.res = u.res /\ t.reserved = u.reserved
          /\ t.left = u.left /\ t.batch = u.batch
      BY <1>4, <2>1, Zenon DEF EStream
    <2>3. QED
      BY <2>2 DEF EArrives
  <1>6. ELanes(t) /\ EResults(t) /\ EClosed(t)
    BY <1>5 DEF EGood, ELanes, EResults, EClosed, Pending
  <1>7. ESent(t)
    BY <1>5 DEF EGood, ESent, Pending
  <1>8. QED
    BY <1>4, <1>5, <1>6, <1>7 DEF EGood, ENoTimeout, EArrives, t

(* The peer sends, reads, closes or resets the connection. *)
LEMMA PeerKeeps ==
  ASSUME EInv, PeerSends \/ PeerReads \/ PeerCloses \/ PeerResets
  PROVE  EKeeps(st, st')
  <1>1. st \in EStream /\ st.sock \in ESocket
    BY DEF EInv, EGood, EStream
  <1>2. ASSUME NEW u, EArrives(st, u), NEW events, st' = Wake(u, events),
               "in" \notin events => u.sock.data = st.sock.data /\ u.sock.eof = st.sock.eof,
               "out" \notin events => u.sock.room = st.sock.room /\ u.sock.shut = st.sock.shut
        PROVE  EKeeps(st, st')
    <2>1. EGood(st') /\ EHeard(st', st'.batch) /\ ENoTimeout(st, st')
      BY <1>2, ArriveGood DEF EInv
    <2>2. QED
      BY <2>1, NoTimeoutIsTimely DEF EKeeps, EInv
  <1>3. ASSUME NEW k \in ESocket, k.out = st.sock.out, NEW u, u = [st EXCEPT !.sock = k]
        PROVE  EArrives(st, u) /\ u.sock = k
    BY <1>1, <1>3, Zenon DEF EStream, EArrives
  <1>4. CASE PeerSends
    <2> DEFINE k == [st.sock EXCEPT !.data = @ + 1]
               u == [st EXCEPT !.sock.data = @ + 1]
    <2>1. st.sock.data \in Nat /\ st.sock.data + 1 \in Nat
      BY <1>1 DEF ESocket
    <2>2. /\ k \in ESocket /\ k.out = st.sock.out /\ k.room = st.sock.room
          /\ k.shut = st.sock.shut
      BY <1>1, <2>1 DEF ESocket
    <2>3. u = [st EXCEPT !.sock = k]
      BY <1>1 DEF EStream
    <2>4. st' = Wake(u, {"in"})
      BY <1>4 DEF PeerSends, Arrives
    <2> HIDE DEF k, u
    <2>5. QED
      BY <1>2, <1>3, <2>2, <2>3, <2>4
  <1>5. CASE PeerReads
    <2> DEFINE k == [st.sock EXCEPT !.room = @ + 1]
               u == [st EXCEPT !.sock.room = @ + 1]
    <2>1. st.sock.room \in Nat /\ st.sock.room + 1 \in Nat
      BY <1>1 DEF ESocket
    <2>2. /\ k \in ESocket /\ k.out = st.sock.out /\ k.data = st.sock.data
          /\ k.eof = st.sock.eof
      BY <1>1, <2>1 DEF ESocket
    <2>3. u = [st EXCEPT !.sock = k]
      BY <1>1 DEF EStream
    <2>4. st' = Wake(u, {"out"})
      BY <1>5 DEF PeerReads, Arrives
    <2> HIDE DEF k, u
    <2>5. QED
      BY <1>2, <1>3, <2>2, <2>3, <2>4
  <1>6. CASE PeerCloses
    <2> DEFINE k == [st.sock EXCEPT !.eof = TRUE]
               u == [st EXCEPT !.sock.eof = TRUE]
    <2>1. k \in ESocket /\ k.out = st.sock.out
      BY <1>1, Zenon DEF ESocket
    <2>2. u = [st EXCEPT !.sock = k]
      BY <1>1 DEF EStream
    <2>3. st' = Wake(u, AllEvents)
      BY <1>6 DEF PeerCloses, Arrives
    <2> HIDE DEF k, u
    <2>4. QED
      BY <1>2, <1>3, <2>1, <2>2, <2>3 DEF AllEvents
  <1>7. CASE PeerResets
    <2> DEFINE k == [st.sock EXCEPT !.eof = TRUE, !.shut = TRUE, !.err = TRUE]
               u == [st EXCEPT !.sock.eof = TRUE, !.sock.shut = TRUE, !.sock.err = TRUE]
    <2>1. k \in ESocket /\ k.out = st.sock.out
      BY <1>1, Zenon DEF ESocket
    <2>2. u = [st EXCEPT !.sock = k]
      BY <1>1, Zenon DEF EStream
    <2>3. st' = Wake(u, AllEvents)
      BY <1>7 DEF PeerResets, Arrives
    <2> HIDE DEF k, u
    <2>4. QED
      BY <1>2, <1>3, <2>1, <2>2, <2>3 DEF AllEvents
  <1>8. QED
    BY <1>4, <1>5, <1>6, <1>7


(* CloseRead() and CloseWrite(). *)
LEMMA HalfCloseKeeps ==
  ASSUME EInv, CloseRead \/ CloseWrite
  PROVE  EKeeps(st, st')
  <1>1. st \in EStream /\ st.sock \in ESocket /\ st.life \in ELife
    BY DEF EInv, EGood, EStream
  <1>2. ASSUME NEW k \in ESocket, k.out = st.sock.out, NEW f \in ELife,
               f.resource = st.life.resource, NEW u, u = [st EXCEPT !.sock = k, !.life = f]
        PROVE  EArrives(st, u)
    BY <1>1, <1>2, Zenon DEF EStream, EArrives
  <1>3. ASSUME NEW u, EArrives(st, u)
        PROVE  LET t == Wake(u, AllEvents)
               IN  /\ EGood(t) /\ EHeard(t, t.batch) /\ ENoTimeout(st, t)
                   /\ t.on = st.on /\ t.lane = st.lane /\ t.batch = st.batch
    BY <1>3, ArriveGood DEF EInv, AllEvents
  <1>4. CASE CloseRead
    <2> DEFINE k == [st.sock EXCEPT !.eof = TRUE]
               f == CloseReadSide(st.life)
               u == [st EXCEPT !.sock.eof = TRUE, !.life = CloseReadSide(@)]
               t == Wake(u, AllEvents)
    <2>1. k \in ESocket /\ k.out = st.sock.out
      BY <1>1, Zenon DEF ESocket
    <2>2. f \in ELife /\ f.resource = st.life.resource
      BY <1>1 DEF ELife, CloseReadSide
    <2>3. u = [st EXCEPT !.sock = k, !.life = f]
      BY <1>1 DEF EStream
    <2>4. st' = Update(t, t.on \ {"read"}) /\ st.lane["read"].owner = NoOne
      BY <1>4 DEF CloseRead, MayCloseRead
    <2> HIDE DEF k, f, u
    <2>5. EArrives(st, u)
      BY <1>2, <2>1, <2>2, <2>3, Zenon
    <2>6. /\ EGood(t) /\ EHeard(t, t.batch) /\ ENoTimeout(st, t)
          /\ t.on = st.on /\ t.lane = st.lane /\ t.batch = st.batch
      BY <1>3, <2>5
    <2> HIDE DEF t
    <2>7. t.on \ {"read"} \in SUBSET t.on
      OBVIOUS
    <2>8. \A d \in Dirs : Pending(t, d) => d \in t.on \ {"read"}
      BY <2>4, <2>6 DEF EGood, ELanes, Pending
    <2>9. EGood(st') /\ ENoTimeout(t, st') /\ EHeard(st', st'.batch)
      BY <2>4, <2>6, <2>7, <2>8, UpdateGood
    <2>10. ENoTimeout(st, st')
      BY <2>6, <2>9 DEF ENoTimeout
    <2>11. QED
      BY <2>9, <2>10, NoTimeoutIsTimely DEF EKeeps, EInv
  <1>5. CASE CloseWrite
    <2> DEFINE k == [st.sock EXCEPT !.shut = TRUE]
               f == ShutdownSide(st.life)
               u == [st EXCEPT !.sock.shut = TRUE, !.life = ShutdownSide(@)]
    <2>1. k \in ESocket /\ k.out = st.sock.out
      BY <1>1, Zenon DEF ESocket
    <2>2. f \in ELife /\ f.resource = st.life.resource
      BY <1>1 DEF ELife, ShutdownSide
    <2>3. u = [st EXCEPT !.sock = k, !.life = f]
      BY <1>1 DEF EStream
    <2>4. st' = Wake(u, AllEvents)
      BY <1>5 DEF CloseWrite
    <2> HIDE DEF k, f, u
    <2>5. EArrives(st, u)
      BY <1>2, <2>1, <2>2, <2>3, Zenon
    <2>6. EGood(st') /\ EHeard(st', st'.batch) /\ ENoTimeout(st, st')
      BY <1>3, <2>4, <2>5
    <2>7. QED
      BY <2>6, NoTimeoutIsTimely DEF EKeeps, EInv
  <1>6. QED
    BY <1>4, <1>5

(* epoll_wait() reports what it has listed, and the Channel handles it. *)
LEMMA LoopKeeps ==
  ASSUME EInv, Poll \/ Dispatch
  PROVE  EKeeps(st, st')
  <1>1. CASE Poll
    <2>1. st \in EStream /\ Events(st) \subseteq {"in", "out", "err", "hup"}
      BY EventsOf DEF EInv, EGood
    <2>2. st' = [st EXCEPT !.batch = Events(st), !.listed = FALSE]
      BY <1>1 DEF Poll
    <2>3. /\ st' \in EStream /\ st'.batch = Events(st)
          /\ st'.life = st.life /\ st'.sock = st.sock /\ st'.on = st.on
          /\ st'.lane = st.lane /\ st'.ready = st.ready /\ st'.res = st.res
          /\ st'.reserved = st.reserved /\ st'.left = st.left
      BY <2>1, <2>2, Zenon DEF EStream
    <2>4. EGood(st')
      BY <2>3, SMT DEF EInv, EGood, ELanes, EResults, ESent, EClosed, Pending
    <2>5. "read" \in Dirs /\ "write" \in Dirs
      BY DEF Dirs
    <2>6. EHeard(st', st'.batch)
      BY <2>3, <2>5, EventsOf DEF EInv, EGood, ELanes, EHeard, Pending
    <2>7. ENoTimeout(st, st')
      BY <2>3 DEF ENoTimeout
    <2>8. QED
      BY <2>4, <2>6, <2>7, NoTimeoutIsTimely DEF EKeeps, EInv
  <1>2. CASE Dispatch
    <2>1. PICK n \in 1..MaxData : st' = HandleEvent(st, n)
      BY <1>2 DEF Dispatch
    <2>2. n \in Nat
      BY <2>1, StreamConstants
    <2>3. EGood(st') /\ ENoTimeout(st, st') /\ EHeard(st', st'.batch)
      BY <2>1, <2>2, HandleEventGood DEF EInv
    <2>4. QED
      BY <2>3, NoTimeoutIsTimely DEF EKeeps, EInv
  <1>3. QED
    BY <1>1, <1>2

(* A stream without pending operations is moved. *)
LEMMA MoveKeeps ==
  ASSUME EInv, Move
  PROVE  EKeeps(st, st')
  <1>1. st' = Update(st, {}) /\ \A d \in Dirs : ~Pending(st, d)
    BY DEF Move, Pending
  <1>2. EGood(st') /\ ENoTimeout(st, st') /\ EHeard(st', st'.batch)
    BY <1>1, UpdateGood DEF EInv
  <1>3. QED
    BY <1>2, NoTimeoutIsTimely DEF EKeeps, EInv

(* CloseNow() answers both operations, detaches the Channel and closes the socket. *)
LEMMA CloseKeeps ==
  ASSUME EInv, Close
  PROVE  EKeeps(st, st')
  <1> DEFINE w == CompleteWrite(CompleteRead(st, "ECANCELED"), "ECANCELED")
             t == Update(w, {})
             k == [NewSocket EXCEPT !.out = st.sock.out]
             f == MarkClosed(PrepareClose(t.life))
  <1>1. st' = [t EXCEPT !.life = f, !.sock = k]
    BY DEF Close, CloseNow
  <1>2. /\ EHandles(st, w, {}) /\ \A d \in Dirs : ~Pending(w, d)
        /\ w.sock = st.sock
    BY BothEndGood DEF EInv, EKinds
  <1> HIDE DEF w
  <1>3. /\ EGood(t) /\ ENoTimeout(w, t) /\ t.on = {} /\ t.lane = w.lane /\ t.sock = w.sock
    BY <1>2, UpdateGood DEF EHandles
  <1> HIDE DEF t
  <1>4. t \in EStream /\ t.life \in ELife /\ st.sock \in ESocket
    BY <1>3 DEF EGood, EStream, EInv
  <1>5. k \in ESocket /\ k.out = t.sock.out
    BY <1>2, <1>3, <1>4, StreamConstants, Zenon DEF NewSocket, ESocket
  <1>6. f \in ELife
    BY <1>4, Zenon DEF MarkClosed, PrepareClose, ELife
  <1> HIDE DEF k, f
  <1>7. /\ st' \in EStream /\ st'.sock = k /\ st'.on = t.on
        /\ st'.lane = t.lane /\ st'.ready = t.ready /\ st'.res = t.res
        /\ st'.reserved = t.reserved /\ st'.left = t.left
    BY <1>1, <1>4, <1>5, <1>6, Zenon DEF EStream
  <1>8. \A d \in Dirs : ~Pending(st', d) /\ ~Pending(t, d)
    BY <1>2, <1>3, <1>7 DEF Pending
  <1>9. ELanes(st') /\ EResults(st')
    BY <1>3, <1>7 DEF EGood, ELanes, EResults, Pending
  <1>10. ESent(st') /\ EClosed(st')
    BY <1>3, <1>5, <1>7, <1>8 DEF EGood, ESent, EClosed, Pending
  <1>11. EGood(st')
    BY <1>7, <1>9, <1>10 DEF EGood
  <1>12. EHeard(st', st'.batch)
    BY <1>8 DEF EHeard, Dirs
  <1>13. ENoTimeout(st, st')
    BY <1>2, <1>3, <1>7 DEF EHandles, ENoTimeout
  <1>14. QED
    BY <1>11, <1>12, <1>13, NoTimeoutIsTimely DEF EKeeps, EInv


(* A deadline passes, with the timer that runs up to it. *)
LEMMA ExpireKeeps ==
  ASSUME EInv, NEW d \in Dirs, Expire(d)
  PROVE  EKeeps(st, st')
  <1> DEFINE l == [st.lane[d] EXCEPT !.deadline = IF @ = "ahead" THEN "past" ELSE @,
                                     !.timer = IF @ = "set" THEN "due" ELSE @]
  <1>1. st \in EStream /\ st.lane \in [Dirs -> ELane] /\ st.lane[d] \in ELane
    BY DEF EInv, EGood, EStream
  <1>2. st' = [st EXCEPT !.lane[d] = l]
    BY <1>1, ZenonT(40) DEF Expire, EStream, ELane
  <1>3. /\ st.lane[d].timer # "off" => Pending(st, d)
        /\ st.lane[d].timer = "set" => st.lane[d].deadline = "ahead"
        /\ st.lane[d].timer = "due" => st.lane[d].deadline = "past"
    BY DEF EInv, EGood, ELanes
  <1>4. /\ l \in ELane /\ l.owner = st.lane[d].owner
        /\ l.timer = IF st.lane[d].timer = "set" THEN "due" ELSE st.lane[d].timer
        /\ l.deadline = IF st.lane[d].deadline = "ahead" THEN "past" ELSE st.lane[d].deadline
    BY <1>1, Zenon DEF ELane
  <1> HIDE DEF l
  <1>5. l.timer \in {"off", "due"}
    BY <1>1, <1>4 DEF ELane
  <1>6. ESetsLane(st, d, l, st')
    BY <1>2, <1>3, <1>4, <1>5 DEF ESetsLane
  <1>7. /\ EGood(st') /\ st'.res = st.res /\ st'.batch = st.batch
        /\ EHeard(st, st.batch) => EHeard(st', st.batch)
    BY <1>6, LaneGood DEF EInv
  <1>8. ENoTimeout(st, st')
    BY <1>7 DEF ENoTimeout
  <1>9. QED
    BY <1>7, <1>8, NoTimeoutIsTimely DEF EKeeps, EInv

(* HandleReadDeadline() and HandleWriteDeadline(): the timer is due, so the deadline has
   passed. *)
LEMMA DeadlineTimerKeeps ==
  ASSUME EInv, NEW d \in Dirs, DeadlineTimer(d)
  PROVE  EKeeps(st, st')
  <1> DEFINE l == [st.lane[d] EXCEPT !.timer = "off"]
             u == [st EXCEPT !.lane[d].timer = "off"]
  <1>1. st \in EStream /\ st.lane \in [Dirs -> ELane] /\ st.lane[d] \in ELane
    BY DEF EInv, EGood, EStream
  <1>2. u = [st EXCEPT !.lane[d] = l]
    BY <1>1 DEF EStream, ELane
  <1>3. st.lane[d].deadline = "past" /\ st' = Complete(u, d, "ETIMEDOUT")
    BY DEF EInv, EGood, ELanes, DeadlineTimer, HandleDeadline
  <1>4. /\ l \in ELane /\ l.owner = st.lane[d].owner /\ l.timer = "off"
        /\ l.deadline = st.lane[d].deadline
    BY <1>1 DEF ELane
  <1> HIDE DEF l, u
  <1>5. ESetsLane(st, d, l, u)
    BY <1>2, <1>4 DEF ESetsLane
  <1>6. /\ EGood(u) /\ u.batch = st.batch /\ u.lane[d] = l
        /\ \A e \in Dirs : e # d => u.lane[e] = st.lane[e]
        /\ EHeard(st, st.batch) => EHeard(u, st.batch)
    BY <1>5, LaneGood DEF EInv
  <1>7. EEnds(u, d, "ETIMEDOUT", st')
    BY <1>3, <1>6, CompleteGood DEF EKinds
  <1>8. /\ EGood(st') /\ EHeard(st', st'.batch)
        /\ st'.lane[d].deadline = u.lane[d].deadline
        /\ \A e \in Dirs : e # d => st'.lane[e] = u.lane[e]
    BY <1>6, <1>7 DEF EEnds, ECompletes, EInv
  <1>9. ETimely(st, st')
    BY <1>3, <1>4, <1>6, <1>8 DEF ETimely, Pending
  <1>10. QED
    BY <1>8, <1>9 DEF EKeeps

(* SetReadDeadline() and SetWriteDeadline() cancel the timer and arm the one of the new
   deadline. *)
LEMMA SetDeadlineKeeps ==
  ASSUME EInv, NEW d \in Dirs, CallSetDeadline(d)
  PROVE  EKeeps(st, st')
  <1>1. PICK due \in {"none", "ahead", "past"}, nomem \in BOOLEAN :
          st' = SetDeadline(st, d, due, nomem)
    BY DEF CallSetDeadline
  <1> DEFINE l == [st.lane[d] EXCEPT !.timer = "off", !.deadline = due]
             u == [st EXCEPT !.lane[d].timer = "off", !.lane[d].deadline = due]
  <1>2. st \in EStream /\ st.lane \in [Dirs -> ELane] /\ st.lane[d] \in ELane
    BY DEF EInv, EGood, EStream
  <1>3. u = [st EXCEPT !.lane[d] = l]
    BY <1>2, Zenon DEF EStream, ELane
  <1>4. st' = ArmDeadline(u, d, nomem)
    BY <1>1 DEF SetDeadline
  <1>5. l \in ELane /\ l.owner = st.lane[d].owner /\ l.timer = "off"
    BY <1>2, Zenon DEF ELane
  <1> HIDE DEF l, u
  <1>6. ESetsLane(st, d, l, u)
    BY <1>3, <1>5 DEF ESetsLane
  <1>7. /\ EGood(u) /\ u.batch = st.batch
        /\ \A e \in Dirs : u.lane[e].owner = st.lane[e].owner
        /\ EHeard(st, st.batch) => EHeard(u, st.batch)
    BY <1>6, LaneGood DEF EInv
  <1>8. /\ EGood(st') /\ st'.batch = u.batch /\ ETimely(u, st')
        /\ EHeard(u, st.batch) => EHeard(st', st.batch)
    BY <1>4, <1>7, ArmGood
  <1>9. ETimely(st, st')
    BY <1>7, <1>8 DEF ETimely, Pending
  <1>10. QED
    BY <1>7, <1>8, <1>9 DEF EKeeps, EInv


(* A coroutine that is about to start an operation is neither pending nor queued. *)
LEMMA IdleIsNotReady ==
  ASSUME EInv, NEW c, Idle(c)
  PROVE  ~Has(st.ready, c) /\ \A d \in Dirs : st.lane[d].owner # c
  <1>1. st.ready \in Seq(Users)
    BY DEF EInv, EGood, EStream
  <1>2. DOMAIN st.ready = 1..Len(st.ready)
    BY <1>1
  <1>3. QED
    BY <1>2 DEF Idle, Has

(* Read() and Recv(): the probe of the socket, and the wait when it has nothing. *)
LEMMA ReadKeeps ==
  ASSUME EInv, NEW c \in Readers, Read(c) \/ Recv(c)
  PROVE  EKeeps(st, st')
  <1>1. st \in EStream /\ st.sock \in ESocket /\ st.life \in ELife /\ st.reserved \subseteq Users
    BY DEF EInv, EGood, EStream
  <1>2. ~Has(st.ready, c)
    BY IdleIsNotReady DEF Read, Recv
  <1>3. c \in Users /\ "read" \in Dirs /\ NoOne \notin Users
    BY StreamConstants DEF Users, Dirs
  <1>4. PICK n \in 1..MaxData, nomem \in BOOLEAN :
          st' = StartRead(st, c, n, nomem) \/ st' = StartRecv(st, c, n, nomem)
    BY DEF Read, Recv
  <1>5. n \in Nat
    BY <1>4, StreamConstants
  <1>6. CASE ~BeginRead(st)
    BY <1>4, <1>6, SameKeeps DEF StartRead, StartRecv
  <1>7. CASE BeginRead(st) /\ TryRead(st) # "block"
    <2>1. st' = AfterRead(st, n)
      BY <1>4, <1>7 DEF StartRead, StartRecv
    <2>2. /\ EGood(st') /\ ENoTimeout(st, st') /\ st'.batch = st.batch
          /\ EHeard(st, st.batch) => EHeard(st', st.batch)
      BY <1>5, <2>1, AfterReadGood DEF EInv, ESocketStep
    <2>3. QED
      BY <2>2, NoTimeoutIsTimely DEF EKeeps, EInv
  <1>8. CASE BeginRead(st) /\ TryRead(st) = "block"
    <2> DEFINE v == [st EXCEPT !.reserved = @ \cup {c}]
    <2>1. PICK u \in {st, v} : st' = Suspend(u, c, "read", nomem)
      BY <1>4, <1>8 DEF StartRead, StartRecv
    <2>2. st.lane["read"].owner = NoOne /\ st.life.resource = "Open"
      BY <1>1, <1>8 DEF BeginRead, ValidateRead, ValidateResource, ELife
    <2>3. ~(st.sock.data > 0) /\ ~st.sock.eof /\ st.sock.data \in Nat
      BY <1>1, <1>8 DEF TryRead, ESocket
    <2>4. st.reserved = {}
      BY <1>1, <1>3, <2>2 DEF EInv, EGood, EResults
    <2>5. /\ v \in EStream /\ v.reserved = {c} /\ v.life = st.life /\ v.sock = st.sock
          /\ v.on = st.on /\ v.lane = st.lane /\ v.ready = st.ready /\ v.res = st.res
          /\ v.left = st.left /\ v.batch = st.batch /\ v.edge = st.edge
          /\ v.listed = st.listed
      BY <1>1, <1>3, <2>4 DEF EStream
    <2> HIDE DEF v
    <2>6. /\ u \in EStream /\ u.reserved \subseteq {c} /\ u.life = st.life /\ u.sock = st.sock
          /\ u.on = st.on /\ u.lane = st.lane /\ u.ready = st.ready /\ u.res = st.res
          /\ u.left = st.left /\ u.batch = st.batch /\ u.edge = st.edge
          /\ u.listed = st.listed
      BY <1>1, <2>1, <2>4, <2>5
    <2>7. ELanes(u) /\ ESent(u) /\ \A a \in Users : u.res[a] # "none" => Has(u.ready, a)
      BY <2>6 DEF EInv, EGood, ELanes, EResults, ESent, Pending
    <2>8. u.sock.data = 0 /\ ~u.sock.eof
      BY <2>3, <2>6
    <2>9. ESuspends(u, c, "read")
      BY <1>2, <2>2, <2>6, <2>7, <2>8 DEF ESuspends, Pending
    <2>10. EHeard(u, st.batch)
      BY <2>6 DEF EInv, EHeard, Pending
    <2>11. EGood(st') /\ st'.batch = u.batch /\ EHeard(st', st.batch) /\ ETimely(u, st')
      BY <1>3, <2>1, <2>9, <2>10, SuspendGood
    <2>12. ETimely(st, st')
      BY <2>6, <2>11 DEF ETimely, Pending
    <2>13. QED
      BY <2>6, <2>11, <2>12 DEF EKeeps
  <1>9. QED
    BY <1>6, <1>7, <1>8

(* All that holds of a stream s whose Write() is at its end. *)
EEndsWrite(s) ==
  /\ s \in EStream /\ ELanes(s) /\ EClosed(s) /\ ~Pending(s, "write")
  /\ \A c \in Users : c # Writer /\ s.res[c] # "none" => Has(s.ready, c)
  /\ s.reserved \subseteq {s.lane["read"].owner}

(* Write() returns, and its buffer is the next one's. *)
LEMMA WriteEndsGood ==
  ASSUME NEW s, EEndsWrite(s)
  PROVE  LET t == WriteEnds(s) IN
         /\ EGood(t) /\ ENoTimeout(s, t) /\ t.batch = s.batch /\ t.lane = s.lane
         /\ \A b : EHeard(s, b) => EHeard(t, b)
  <1> DEFINE t == WriteEnds(s)
             k == [s.sock EXCEPT !.out = 0]
             r == [s.res EXCEPT ![Writer] = "none"]
  <1>1. s \in EStream /\ s.sock \in ESocket /\ s.res \in [Users -> EKinds]
    BY DEF EEndsWrite, EStream
  <1>2. /\ k \in ESocket /\ k.out = 0 /\ k.data = s.sock.data /\ k.eof = s.sock.eof
        /\ k.room = s.sock.room /\ k.shut = s.sock.shut
    BY <1>1 DEF ESocket
  <1>3. Writer \in Users /\ "none" \in EKinds
    BY DEF Users, EKinds
  <1>4. /\ r \in [Users -> EKinds] /\ r[Writer] = "none"
        /\ \A c \in Users : c # Writer => r[c] = s.res[c]
    BY <1>1, <1>3
  <1>5. t = [s EXCEPT !.left = 0, !.sock = k, !.res = r]
    BY <1>1 DEF WriteEnds, EStream
  <1> HIDE DEF k, r, t
  <1>6. 0 \in Nat
    OBVIOUS
  <1>7. /\ t \in EStream /\ t.sock = k /\ t.res = r /\ t.left = 0 /\ t.life = s.life
        /\ t.on = s.on /\ t.lane = s.lane /\ t.ready = s.ready
        /\ t.reserved = s.reserved /\ t.batch = s.batch /\ t.edge = s.edge
        /\ t.listed = s.listed
    BY <1>1, <1>2, <1>4, <1>5, <1>6, Zenon DEF EStream
  <1>8. ELanes(t) /\ EClosed(t)
    BY <1>7 DEF EEndsWrite, ELanes, EClosed, Pending
  <1>9. EResults(t)
    BY <1>4, <1>7 DEF EEndsWrite, EResults
  <1>10. ESent(t)
    BY <1>2, <1>4, <1>7 DEF EEndsWrite, ESent, Pending
  <1>11. EGood(t)
    BY <1>7, <1>8, <1>9, <1>10 DEF EGood
  <1>12. ENoTimeout(s, t)
    BY <1>4, <1>7 DEF ENoTimeout
  <1>13. \A b : EHeard(s, b) => EHeard(t, b)
    BY <1>2, <1>7 DEF EHeard, Pending
  <1>14. QED
    BY <1>7, <1>11, <1>12, <1>13 DEF t


(* Write(): the first attempt sends all, fails, or fills the socket and waits. *)
LEMMA WriteKeeps ==
  ASSUME EInv, Write
  PROVE  EKeeps(st, st')
  <1> DEFINE t == [st EXCEPT !.left = WriteSize]
             a == AfterWrite(t)
  <1>1. st \in EStream /\ st.life \in ELife /\ st.sock \in ESocket
    BY DEF EInv, EGood, EStream
  <1>2. Writer \in Users /\ "write" \in Dirs /\ WriteSize \in Nat
    BY StreamConstants DEF Users, Dirs
  <1>3. ~Has(st.ready, Writer) /\ ~Pending(st, "write")
    BY <1>2, IdleIsNotReady DEF Write, EInv, EGood, ELanes, Pending
  <1>4. st.res[Writer] = "none" /\ st.sock.out = 0
    BY <1>2, <1>3 DEF EInv, EGood, EResults, ESent
  <1>5. /\ t \in EStream /\ t.left = WriteSize /\ t.sock = st.sock /\ t.life = st.life
        /\ t.on = st.on /\ t.lane = st.lane /\ t.ready = st.ready /\ t.res = st.res
        /\ t.reserved = st.reserved /\ t.batch = st.batch /\ t.edge = st.edge
        /\ t.listed = st.listed
    BY <1>1, <1>2, Zenon DEF EStream
  <1>6. PICK nomem \in BOOLEAN :
          \/ st' = st
          \/ /\ ValidateWrite(st.life) = "ok" /\ TryWrite(t) # "block" /\ st' = WriteEnds(a)
          \/ /\ ValidateWrite(st.life) = "ok" /\ TryWrite(t) = "block"
             /\ st' = Suspend(a, Writer, "write", nomem)
    BY DEF Write, StartWrite
  <1> HIDE DEF t
  <1>7. /\ ESocketStep(t, a) /\ a.sock.data = t.sock.data /\ a.sock.eof = t.sock.eof
        /\ a.sock.shut = t.sock.shut /\ a.sock.room <= t.sock.room
        /\ a.sock.out + a.left = t.sock.out + t.left
        /\ TryWrite(t) = "block" => a.sock.room = 0 /\ ~t.sock.shut
    BY <1>5, AfterWriteFields
  <1> HIDE DEF a
  <1>8. /\ a \in EStream /\ a.life = st.life /\ a.on = st.on /\ a.lane = st.lane
        /\ a.ready = st.ready /\ a.res = st.res /\ a.reserved = st.reserved
        /\ a.batch = st.batch /\ a.edge = st.edge /\ a.listed = st.listed
    BY <1>5, <1>7 DEF ESocketStep
  <1>9. ELanes(a) /\ EClosed(a) /\ ~Pending(a, "write")
    BY <1>3, <1>8 DEF EInv, EGood, ELanes, EClosed, Pending
  <1>10. /\ \A c \in Users : a.res[c] # "none" => Has(a.ready, c)
         /\ a.reserved \subseteq {a.lane["read"].owner}
    BY <1>8 DEF EInv, EGood, EResults
  <1>11. EHeard(a, st.batch)
    <2>1. EHeard(st, st.batch)
      BY DEF EInv
    <2>2. /\ a.sock.data = st.sock.data /\ a.sock.eof = st.sock.eof
      BY <1>5, <1>7
    <2>3. QED
      BY <1>8, <1>9, <2>1, <2>2 DEF EHeard, Pending
  <1>12. CASE TryWrite(t) # "block" /\ st' = WriteEnds(a)
    <2>1. EEndsWrite(a)
      BY <1>8, <1>9, <1>10 DEF EEndsWrite
    <2>2. EGood(st') /\ ENoTimeout(a, st') /\ st'.batch = a.batch /\ EHeard(st', st.batch)
      BY <1>11, <1>12, <2>1, WriteEndsGood
    <2>3. ENoTimeout(st, st')
      BY <1>8, <2>2 DEF ENoTimeout
    <2>4. QED
      BY <1>8, <2>2, <2>3, NoTimeoutIsTimely DEF EKeeps, EInv
  <1>13. CASE /\ ValidateWrite(st.life) = "ok" /\ TryWrite(t) = "block"
              /\ st' = Suspend(a, Writer, "write", nomem)
    <2>1. a.life.resource = "Open"
      BY <1>1, <1>8, <1>13 DEF ValidateWrite, ValidateResource, ELife
    <2>2. a.sock.out + a.left = WriteSize /\ a.sock.room = 0 /\ ~a.sock.shut
      BY <1>2, <1>4, <1>5, <1>7, <1>13
    <2>3. ~Has(a.ready, Writer)
      BY <1>3, <1>8
    <2>4. ESuspends(a, Writer, "write")
      BY <1>8, <1>9, <1>10, <2>1, <2>2, <2>3 DEF ESuspends
    <2>5. EGood(st') /\ st'.batch = a.batch /\ EHeard(st', st.batch) /\ ETimely(a, st')
      BY <1>2, <1>11, <1>13, <2>4, SuspendGood
    <2>6. ETimely(st, st')
      BY <1>8, <2>5 DEF ETimely, Pending
    <2>7. QED
      BY <1>8, <2>5, <2>6 DEF EKeeps
  <1>14. QED
    BY <1>6, <1>12, <1>13, SameKeeps

(* The loop resumes the oldest coroutine, which takes its result. *)
LEMMA ResumeKeeps ==
  ASSUME EInv, Resume
  PROVE  EKeeps(st, st')
  <1> DEFINE c == Head(st.ready)
             r == [st.res EXCEPT ![c] = "none"]
             q == Tail(st.ready)
             s == [st EXCEPT !.ready = Tail(@), !.res[c] = "none"]
  <1>1. st \in EStream /\ st.ready \in Seq(Users) /\ st.ready # <<>>
        /\ st.res \in [Users -> EKinds]
    BY DEF EInv, EGood, EStream, Resume
  <1>2. c \in Users /\ q \in Seq(Users)
    BY <1>1
  <1>3. \A x : Has(st.ready, x) <=> x = c \/ Has(q, x)
    BY <1>1, TailHas
  <1>4. /\ r \in [Users -> EKinds] /\ r[c] = "none"
        /\ \A x \in Users : x # c => r[x] = st.res[x]
    BY <1>1, <1>2 DEF EKinds
  <1>5. s = [st EXCEPT !.ready = q, !.res = r]
    BY <1>1 DEF EStream
  <1>6. st' = IF c = Writer THEN WriteEnds(s) ELSE s
    BY DEF Resume
  <1>7. Writer \in Users /\ "write" \in Dirs
    BY DEF Users, Dirs
  <1> HIDE DEF c, r, q, s
  <1>8. /\ s \in EStream /\ s.ready = q /\ s.res = r /\ s.life = st.life /\ s.sock = st.sock
        /\ s.on = st.on /\ s.lane = st.lane /\ s.left = st.left
        /\ s.reserved = st.reserved /\ s.batch = st.batch /\ s.edge = st.edge
        /\ s.listed = st.listed
    BY <1>1, <1>2, <1>4, <1>5, Zenon DEF EStream
  <1>9. ELanes(s) /\ EClosed(s)
    BY <1>3, <1>8 DEF EInv, EGood, ELanes, EClosed, Pending
  <1>10. EResults(s)
    BY <1>3, <1>4, <1>8 DEF EInv, EGood, EResults
  <1>11. ENoTimeout(st, s) /\ EHeard(s, st.batch)
    BY <1>4, <1>8 DEF ENoTimeout, EInv, EHeard, Pending
  <1>12. CASE c # Writer
    <2>1. ESent(s)
      BY <1>3, <1>4, <1>7, <1>8, <1>12 DEF EInv, EGood, ESent, Pending
    <2>2. EGood(st') /\ st' = s
      BY <1>6, <1>8, <1>9, <1>10, <1>12, <2>1 DEF EGood
    <2>3. QED
      BY <1>8, <1>11, <2>2, NoTimeoutIsTimely DEF EKeeps, EInv
  <1>13. CASE c = Writer
    <2>1. ~Pending(s, "write")
      BY <1>3, <1>7, <1>8, <1>13 DEF EInv, EGood, ELanes, Pending
    <2>2. EEndsWrite(s)
      BY <1>8, <1>9, <1>10, <2>1 DEF EEndsWrite, EResults
    <2>3. EGood(st') /\ ENoTimeout(s, st') /\ st'.batch = s.batch /\ EHeard(st', st.batch)
      BY <1>6, <1>11, <1>13, <2>2, WriteEndsGood
    <2>4. ENoTimeout(st, st')
      BY <1>11, <2>3 DEF ENoTimeout
    <2>5. QED
      BY <1>8, <2>3, <2>4, NoTimeoutIsTimely DEF EKeeps, EInv
  <1>14. QED
    BY <1>12, <1>13


(* The awaiter of a pending operation is destroyed, which withdraws its interest, its
   reservation and its timer. *)
LEMMA AbandonKeeps ==
  ASSUME EInv, NEW d \in Dirs, Abandon(d)
  PROVE  EKeeps(st, st')
  <1> DEFINE c == st.lane[d].owner
             l == [owner |-> NoOne, deadline |-> st.lane[d].deadline, timer |-> "off"]
             m == [st.lane EXCEPT ![d] = l]
             v == Update(st, st.on \ {d})
             s == [v EXCEPT !.reserved = @ \ {c}, !.lane[d] = [NewLane EXCEPT !.deadline = st.lane[d].deadline]]
  <1>1. /\ st \in EStream /\ st.lane \in [Dirs -> ELane] /\ st.lane[d] \in ELane
        /\ st.on \in SUBSET Dirs /\ st.reserved \in SUBSET Users
    BY DEF EInv, EGood, EStream
  <1>2. Pending(st, d) /\ st' = IF d = "write" THEN WriteEnds(s) ELSE s
    BY DEF Abandon, Pending
  <1>3. l \in ELane /\ l = [NewLane EXCEPT !.deadline = st.lane[d].deadline]
    BY <1>1 DEF ELane, NewLane
  <1>4. /\ m \in [Dirs -> ELane] /\ m[d] = l
        /\ \A e \in Dirs : e # d => m[e] = st.lane[e]
    BY <1>1, <1>3
  <1>5. /\ v \in EStream /\ v = [st EXCEPT !.on = st.on \ {d}, !.listed = v.listed]
        /\ st.listed /\ st.on \ {d} # {} => v.listed
    BY <1>1, UpdateFields, Zenon
  <1> HIDE DEF v
  <1>6. /\ v.on = st.on \ {d} /\ v.life = st.life /\ v.sock = st.sock /\ v.lane = st.lane
        /\ v.ready = st.ready /\ v.res = st.res /\ v.left = st.left
        /\ v.reserved = st.reserved /\ v.batch = st.batch /\ v.edge = st.edge
    BY <1>1, <1>5, Zenon DEF EStream
  <1>7. s = [v EXCEPT !.reserved = st.reserved \ {c}, !.lane = m]
    BY <1>3, <1>5, <1>6, Zenon DEF EStream
  <1>8. st.reserved \ {c} \in SUBSET Users
    BY <1>1
  <1>9. Pending(st, d) <=> c # NoOne
    BY DEF Pending
  <1> HIDE DEF c, m, s
  <1>10. /\ s \in EStream /\ s.on = v.on /\ s.life = v.life /\ s.sock = v.sock
         /\ s.lane = m /\ s.ready = v.ready /\ s.res = v.res /\ s.left = v.left
         /\ s.reserved = st.reserved \ {c} /\ s.batch = v.batch /\ s.edge = v.edge
         /\ s.listed = v.listed
    BY <1>4, <1>5, <1>7, <1>8, Zenon DEF EStream
  <1>11. "read" \in Dirs /\ "write" \in Dirs /\ (d = "read" \/ d = "write")
    BY DEF Dirs
  <1>12. /\ ~Pending(s, d) /\ s.lane[d].timer = "off" /\ s.lane[d].owner = NoOne
         /\ \A e \in Dirs : e # d => s.lane[e] = st.lane[e]
    BY <1>4, <1>10 DEF Pending
  <1>13. ELanes(s)
    <2>1. ELanes(st)
      BY DEF EInv, EGood
    <2>2. /\ s.lane["read"].owner \in Readers \cup {NoOne}
          /\ s.lane["write"].owner \in {Writer, NoOne}
      BY <1>11, <1>12, <2>1 DEF ELanes
    <2>3. s.on = st.on \ {d} /\ s.ready = st.ready
      BY <1>6, <1>10
    <2>4. ASSUME NEW e \in Dirs, e # d
          PROVE  /\ Pending(s, e) => e \in s.on /\ ~Has(s.ready, s.lane[e].owner)
                 /\ s.lane[e].timer # "off" => Pending(s, e)
                 /\ s.lane[e].timer = "set" => s.lane[e].deadline = "ahead"
                 /\ s.lane[e].timer = "due" => s.lane[e].deadline = "past"
      <3>1. s.lane[e] = st.lane[e]
        BY <1>12, <2>4
      <3>2. QED
        BY <2>1, <2>3, <2>4, <3>1 DEF ELanes, Pending
    <2>5. QED
      BY <1>12, <2>2, <2>4 DEF ELanes
  <1>14. EClosed(s)
    BY <1>2, <1>6, <1>10 DEF EInv, EGood, EClosed
  <1>15. EResults(s)
    <2>1. s.reserved \subseteq {s.lane["read"].owner}
      BY <1>10, <1>11, <1>12 DEF EInv, EGood, EResults, c
    <2>2. QED
      BY <1>6, <1>10, <2>1 DEF EInv, EGood, EResults
  <1>16. EHeard(s, st.batch)
    <2>1. \A e \in Dirs : Pending(s, e) => e # d /\ Pending(st, e) /\ e \in st.on \ {d}
      BY <1>12 DEF EInv, EGood, ELanes, Pending
    <2>2. \A e \in Dirs : Pending(s, e) /\ st.listed => s.listed
      BY <1>5, <1>10, <2>1
    <2>3. EHeard(st, st.batch) /\ s.sock = st.sock /\ s.edge = st.edge
      BY <1>6, <1>10 DEF EInv
    <2>4. QED
      BY <1>11, <2>1, <2>2, <2>3 DEF EHeard
  <1>17. ENoTimeout(st, s) /\ s.batch = st.batch
    BY <1>6, <1>10 DEF ENoTimeout
  <1>18. CASE d = "read"
    <2>1. s.lane["write"] = st.lane["write"]
      BY <1>11, <1>12, <1>18
    <2>2. ESent(s)
      BY <1>6, <1>10, <2>1 DEF EInv, EGood, ESent, Pending
    <2>3. EGood(st') /\ st' = s
      BY <1>2, <1>10, <1>13, <1>14, <1>15, <1>18, <2>2 DEF EGood
    <2>4. QED
      BY <1>16, <1>17, <2>3, NoTimeoutIsTimely DEF EKeeps, EInv
  <1>19. CASE d = "write"
    <2>1. EEndsWrite(s)
      BY <1>10, <1>12, <1>13, <1>14, <1>15, <1>19 DEF EEndsWrite, EResults
    <2>2. EGood(st') /\ ENoTimeout(s, st') /\ st'.batch = s.batch /\ EHeard(st', st.batch)
      BY <1>2, <1>16, <1>19, <2>1, WriteEndsGood
    <2>3. ENoTimeout(st, st')
      BY <1>17, <2>2 DEF ENoTimeout
    <2>4. QED
      BY <1>17, <2>2, <2>3, NoTimeoutIsTimely DEF EKeeps, EInv
  <1>20. QED
    BY <1>11, <1>18, <1>19

-----------------------------------------------------------------------------
(* The theorems about the epoll stream.                                    *)

(* A new stream has nothing pending. *)
LEMMA NewStreamGood ==
  ASSUME Init
  PROVE  EInv
  <1>1. PICK edge \in BOOLEAN : st = NewStream(edge)
    BY DEF Init
  <1> DEFINE lanes == [d \in Dirs |-> NewLane]
             none == [c \in Users |-> "none"]
  <1>2. lanes \in [Dirs -> ELane] /\ \A d \in Dirs : lanes[d] = NewLane
    BY DEF ELane, NewLane
  <1>3. none \in [Users -> EKinds] /\ \A c \in Users : none[c] = "none"
    BY DEF EKinds
  <1>4. NewSocket \in ESocket /\ NewSocket.out = 0 /\ NewLifecycle \in ELife
        /\ NewLifecycle.resource = "Open"
    BY StreamConstants DEF NewSocket, ESocket, NewLifecycle, ELife
  <1>5. <<>> \in Seq(Users) /\ 0 \in Nat /\ FALSE \in BOOLEAN
    OBVIOUS
  <1> HIDE DEF lanes, none
  <1>6. st = [life |-> NewLifecycle, edge |-> edge, on |-> {}, lane |-> lanes, ready |-> <<>>,
              res |-> none, reserved |-> {}, left |-> 0, batch |-> {}, listed |-> FALSE,
              sock |-> NewSocket]
    BY <1>1 DEF NewStream, lanes, none
  <1>7. /\ st.lane = lanes /\ st.res = none /\ st.reserved = {}
        /\ st.sock = NewSocket /\ st.life = NewLifecycle /\ st \in EStream
    BY <1>2, <1>3, <1>4, <1>5, <1>6, Zenon DEF EStream
  <1>8. Writer \in Users /\ "read" \in Dirs /\ "write" \in Dirs
    BY DEF Users, Dirs
  <1>9. \A d \in Dirs : ~Pending(st, d) /\ st.lane[d].timer = "off" /\ st.lane[d].owner = NoOne
    BY <1>2, <1>7 DEF NewLane, Pending
  <1>10. ELanes(st) /\ EResults(st)
    BY <1>3, <1>7, <1>8, <1>9 DEF ELanes, EResults
  <1>11. ESent(st) /\ EClosed(st)
    BY <1>3, <1>4, <1>7, <1>8, <1>9 DEF ESent, EClosed
  <1>12. QED
    BY <1>7, <1>8, <1>9, <1>10, <1>11 DEF EInv, EGood, EHeard

(* Every step keeps the invariant, and times out only what is due. *)
LEMMA StepKeeps ==
  ASSUME EInv, [Next]_vars
  PROVE  EInv' /\ ETimely(st, st')
  <1>1. EKeeps(st, st')
    <2>1. CASE Write
      BY <2>1, WriteKeeps
    <2>2. CASE Resume
      BY <2>2, ResumeKeeps
    <2>3. CASE CloseRead \/ CloseWrite
      BY <2>3, HalfCloseKeeps
    <2>4. CASE Close
      BY <2>4, CloseKeeps
    <2>5. CASE Move
      BY <2>5, MoveKeeps
    <2>6. CASE Poll \/ Dispatch
      BY <2>6, LoopKeeps
    <2>7. ASSUME NEW c \in Readers, Read(c) \/ Recv(c)
          PROVE  EKeeps(st, st')
      BY <2>7, ReadKeeps
    <2>8. ASSUME NEW d \in Dirs, Abandon(d)
          PROVE  EKeeps(st, st')
      BY <2>8, AbandonKeeps
    <2>9. ASSUME NEW d \in Dirs, DeadlineTimer(d)
          PROVE  EKeeps(st, st')
      BY <2>9, DeadlineTimerKeeps
    <2>10. ASSUME NEW d \in Dirs, CallSetDeadline(d)
           PROVE  EKeeps(st, st')
      BY <2>10, SetDeadlineKeeps
    <2>11. ASSUME NEW d \in Dirs, Expire(d)
           PROVE  EKeeps(st, st')
      BY <2>11, ExpireKeeps
    <2>12. CASE PeerSends \/ PeerReads \/ PeerCloses \/ PeerResets
      BY <2>12, PeerKeeps
    <2>13. CASE LoopRequestStop \/ UNCHANGED vars
      BY <2>13, SameKeeps DEF LoopRequestStop, vars
    <2>14. QED
      BY <2>1, <2>2, <2>3, <2>4, <2>5, <2>6, <2>7, <2>8, <2>9, <2>10, <2>11, <2>12, <2>13
      DEF Next
  <1>2. QED
    BY <1>1, Zenon DEF EKeeps, EInv, EGood, EStream, ELanes, EResults, ESent, EClosed, EHeard,
                Pending


(* The invariant holds in every state the stream reaches. *)
LEMMA StreamInvariant == Spec => []EInv
  <1>1. Init => EInv
    BY NewStreamGood
  <1>2. EInv /\ [Next]_vars => EInv'
    BY StepKeeps
  <1>3. QED
    BY <1>1, <1>2, PTL DEF Spec

(* The readiness of the socket is never lost to a pending operation, for any number of
   readers, any size of the buffers, edge- or level-triggered (HandleRead(), HandleWrite(),
   CompleteRead(), Channel::Update()). *)
THEOREM ReadinessIsKept == Spec => []ReadinessKept
  <1>1. EInv => ReadinessKept
    <2> SUFFICES ASSUME EInv, NEW d \in Dirs, st.lane[d].owner # NoOne
                 PROVE  LET event == [read |-> "in", write |-> "out"]
                        IN  /\ d \in st.on
                            /\ event[d] \in Events(st) =>
                                 ~st.edge \/ st.listed \/ event[d] \in st.batch
      BY DEF ReadinessKept
    <2>1. d \in st.on /\ Pending(st, d)
      BY DEF EInv, EGood, ELanes, Pending
    <2>2. /\ "in" \in Events(st) => st.sock.data > 0 \/ st.sock.eof
          /\ "out" \in Events(st) => st.sock.room > 0 \/ st.sock.shut
      BY DEF Events
    <2>3. /\ d = "read" /\ "in" \in Events(st) => ~st.edge \/ st.listed \/ "in" \in st.batch
          /\ d = "write" /\ "out" \in Events(st) => ~st.edge \/ st.listed \/ "out" \in st.batch
      BY <2>1, <2>2 DEF EInv, EHeard
    <2>4. QED
      BY <2>1, <2>3 DEF Dirs
  <1>2. QED
    BY <1>1, StreamInvariant, PTL

(* What the invariant says of a closed stream ... *)
LEMMA ClosedQuiet ==
  ASSUME EInv
  PROVE  ClosedIsQuiet
  <1> SUFFICES ASSUME st.life.resource = "Closed"
               PROVE  st.on = {} /\ \A d \in Dirs : /\ st.lane[d].owner = NoOne
                                                    /\ st.lane[d].timer = "off"
    BY DEF ClosedIsQuiet
  <1>1. st.on = {} /\ \A d \in Dirs : ~Pending(st, d)
    BY DEF EInv, EGood, EClosed
  <1>2. \A d \in Dirs : st.lane[d].timer # "off" => Pending(st, d)
    BY DEF EInv, EGood, ELanes
  <1>3. QED
    BY <1>1, <1>2 DEF Pending

(* ... of the reservations ... *)
LEMMA BuffersBack ==
  ASSUME EInv
  PROVE  BuffersHandedBack
  BY DEF EInv, EGood, EResults, BuffersHandedBack

(* ... and of what was sent. *)
LEMMA SentOnce ==
  ASSUME EInv
  PROVE  EpollWritesOnce
  BY DEF EInv, EGood, ESent, EpollWritesOnce

(* A closed stream has no operation, no interest and no timer left (CloseNow(),
   DetachChannel()). *)
THEOREM ClosedStreamIsQuiet == Spec => []ClosedIsQuiet
  <1>1. EInv => ClosedIsQuiet
    BY ClosedQuiet
  <1>2. QED
    BY <1>1, StreamInvariant, PTL

(* A buffer has a reservation only while its Recv() waits (FinishAttempt()). *)
THEOREM RecvBuffersHandedBack == Spec => []BuffersHandedBack
  <1>1. EInv => BuffersHandedBack
    BY BuffersBack
  <1>2. QED
    BY <1>1, StreamInvariant, PTL

(* A Write() that succeeds has had the socket accept its buffer, once (TryWrite()). *)
THEOREM WritesAcceptedOnce == Spec => []EpollWritesOnce
  <1>1. EInv => EpollWritesOnce
    BY SentOnce
  <1>2. QED
    BY <1>1, StreamInvariant, PTL

(* An operation is timed out only by a deadline that has passed and still stands
   (SetReadDeadline(), HandleReadDeadline() and those of the writes). *)
THEOREM TimeoutsOnlyWhenDue == Spec => EpollTimeoutsAreDue
  <1>1. EInv /\ [Next]_vars =>
          [\A d \in Dirs : LET c == st.lane[d].owner IN
             (c # NoOne /\ st'.lane[d].owner = NoOne /\ st'.res[c] = "ETIMEDOUT") =>
               st'.lane[d].deadline = "past"]_vars
    <2> SUFFICES ASSUME EInv, [Next]_vars, NEW d \in Dirs,
                        st.lane[d].owner # NoOne, st'.lane[d].owner = NoOne,
                        st'.res[st.lane[d].owner] = "ETIMEDOUT"
                 PROVE  st'.lane[d].deadline = "past"
      OBVIOUS
    <2>1. ETimely(st, st')
      BY StepKeeps
    <2>2. QED
      BY <2>1 DEF ETimely, Pending
  <1>2. QED
    BY <1>1, StreamInvariant, PTL DEF Spec, EpollTimeoutsAreDue
================================================================================
