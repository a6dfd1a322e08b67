--------------------------- MODULE UringStreamProofs ---------------------------
(***************************************************************************)
(* The io_uring stream, for any number of reading coroutines, any size of  *)
(* a write, any number of failing submissions and of moved deadlines.      *)
(***************************************************************************)
EXTENDS UringStream, TLAPS

(* The coroutines are different ones, and Write() answers an empty buffer before it sends. *)
ValidConstants ==
  Writer \notin Readers /\ NoOne \notin Readers \cup {Writer} /\ WriteSize \in Nat \ {0}

OneReader == \A a, b \in Readers : a = b

-----------------------------------------------------------------------------
(* Queues.                                                                 *)

(* What Append() does to the places of a queue. *)
LEMMA AppendAt ==
  ASSUME NEW S, NEW q \in Seq(S), NEW x \in S
  PROVE  /\ Append(q, x) \in Seq(S) /\ Len(q) \in Nat
         /\ DOMAIN q = 1..Len(q) /\ DOMAIN Append(q, x) = 1..(Len(q) + 1)
         /\ \A i \in 1..Len(q) : Append(q, x)[i] = q[i]
         /\ Append(q, x)[Len(q) + 1] = x
  OBVIOUS

(* What Tail() does to the places of a queue. *)
LEMMA TailAt ==
  ASSUME NEW S, NEW q \in Seq(S), q # <<>>
  PROVE  /\ Tail(q) \in Seq(S) /\ Head(q) \in S /\ Len(q) \in Nat \ {0}
         /\ DOMAIN q = 1..Len(q) /\ DOMAIN Tail(q) = 1..(Len(q) - 1)
         /\ \A i \in 1..(Len(q) - 1) : Tail(q)[i] = q[i + 1]
         /\ Head(q) = q[1]
  OBVIOUS

-----------------------------------------------------------------------------
(* The stream.                                                             *)

UKinds ==
  {"none", "data", "eof", "ok", "failed", "ETIMEDOUT", "ECANCELED", "ENOMEM", "ENOSPC",
   "EBUSY", "EPIPE", "EBADF"}

UResult == [kind : UKinds, n : Nat]

ULane ==
  [owner : Users \cup {NoOne}, copy : BOOLEAN, requested : BOOLEAN, submitted : BOOLEAN,
   terminal : BOOLEAN, primary : BOOLEAN, late : BOOLEAN, handle : Users \cup {NoOne},
   deadline : {"none", "ahead", "past"}, timer : {"off", "set", "due", "retry"}]

ULife ==
  [resource : {"Open", "Closing", "Closed"}, read : {"Readable", "Shutdown"},
   write : {"Writable", "Shutdown"}]

UWork == [slot : {"frame", "cancel", "close"}, dir : Dirs, who : Users \cup {NoOne}]

UStream ==
  [life : ULife, fd : BOOLEAN, lane : [Dirs -> ULane], closing : BOOLEAN, swept : BOOLEAN,
   ready : Seq(UWork), res : [Users -> UResult], left : Nat, copied : BOOLEAN]

(* The coroutines that use a direction. *)
Role(d) == IF d = "read" THEN Readers ELSE {Writer}

(* A lane without an operation is at rest.  A deadline's timer runs until the cancel is
   requested and agrees with the deadline; a retry is for a cancel that is not submitted yet.
   An operation that has completed before its cancel waits for it. *)
LaneInv(l) ==
  /\ l.owner = NoOne => ~l.requested /\ l.timer = "off"
  /\ l.submitted => l.requested
  /\ l.primary => l.submitted /\ ~l.terminal /\ l.handle = l.owner /\ l.timer = "off"
  /\ l.timer = "set" => ~l.requested /\ l.deadline = "ahead"
  /\ l.timer = "due" => ~l.requested /\ l.deadline = "past"
  /\ l.timer = "retry" => l.requested /\ ~l.submitted

LaneOk(l, d, fd) ==
  /\ l.owner \in Role(d) \cup {NoOne} /\ LaneInv(l)
  /\ l.owner # NoOne => fd

InReady(q, c) == \E i \in DOMAIN q : q[i].who = c

(* Work w is for a coroutine that is not suspended in an operation, and if it stands in the
   cancel operation of its direction it has its handle there. *)
WorkOk(w, lane) ==
  /\ w.who # NoOne => \A d \in Dirs : lane[d].owner # w.who
  /\ w.slot # "close" => w.who \in Role(w.dir)
  /\ OneReader /\ w.slot = "cancel" => lane[w.dir].handle = w.who

(* A coroutine is resumed once. *)
ReadyOnce(q) ==
  \A i, j \in DOMAIN q : q[i].who # NoOne /\ q[i].who = q[j].who => i = j

ReadyOk(q, lane) == (\A i \in DOMAIN q : WorkOk(q[i], lane)) /\ ReadyOnce(q)

UGood(s) ==
  /\ ValidConstants /\ s \in UStream
  /\ \A d \in Dirs : LaneOk(s.lane[d], d, s.fd)
  /\ ReadyOk(s.ready, s.lane)
  /\ s.life.resource = "Closed" <=> ~s.fd

(* Work that is added is for a coroutine that has none yet. *)
LEMMA ReadyAppend ==
  ASSUME NEW q \in Seq(UWork), NEW w \in UWork, NEW lane, ReadyOk(q, lane), WorkOk(w, lane),
         w.who = NoOne \/ ~InReady(q, w.who)
  PROVE  /\ Append(q, w) \in Seq(UWork) /\ ReadyOk(Append(q, w), lane)
         /\ \A c : InReady(Append(q, w), c) <=> InReady(q, c) \/ c = w.who
  <1> DEFINE r == Append(q, w)
  <1>1. /\ r \in Seq(UWork) /\ Len(q) \in Nat
        /\ DOMAIN q = 1..Len(q) /\ DOMAIN r = 1..(Len(q) + 1)
        /\ \A i \in 1..Len(q) : r[i] = q[i]
        /\ r[Len(q) + 1] = w
    BY AppendAt
  <1> HIDE DEF r
  <1>2. \A i \in DOMAIN r : WorkOk(r[i], lane)
    BY <1>1 DEF ReadyOk
  <1>3. \A i, j \in DOMAIN r : r[i].who # NoOne /\ r[i].who = r[j].who => i = j
    BY <1>1 DEF ReadyOk, ReadyOnce, InReady
  <1>4. \A c : InReady(r, c) <=> InReady(q, c) \/ c = w.who
    BY <1>1 DEF InReady
  <1>5. QED
    BY <1>1, <1>2, <1>3, <1>4 DEF ReadyOk, ReadyOnce, r

(* The oldest work, and what is left without it. *)
LEMMA ReadyTail ==
  ASSUME NEW q \in Seq(UWork), q # <<>>, NEW lane, ReadyOk(q, lane)
  PROVE  /\ Tail(q) \in Seq(UWork) /\ Head(q) \in UWork
         /\ ReadyOk(Tail(q), lane) /\ WorkOk(Head(q), lane)
         /\ Head(q).who # NoOne => ~InReady(Tail(q), Head(q).who)
         /\ \A c : InReady(q, c) <=> c = Head(q).who \/ InReady(Tail(q), c)
  <1> DEFINE r == Tail(q)
             w == Head(q)
  <1>1. /\ r \in Seq(UWork) /\ w \in UWork /\ Len(q) \in Nat \ {0}
        /\ DOMAIN q = 1..Len(q) /\ DOMAIN r = 1..(Len(q) - 1)
        /\ \A i \in 1..(Len(q) - 1) : r[i] = q[i + 1]
        /\ w = q[1]
    BY TailAt
  <1> HIDE DEF r, w
  <1>2. \A i \in DOMAIN r : i + 1 \in DOMAIN q /\ i + 1 # 1 /\ r[i] = q[i + 1]
    BY <1>1
  <1>3. /\ 1 \in DOMAIN q
        /\ \A i \in DOMAIN q : i # 1 => i - 1 \in DOMAIN r /\ r[i - 1] = q[i]
    BY <1>1
  <1>4. ReadyOk(r, lane)
    <2>1. \A i, j \in DOMAIN r : i + 1 = j + 1 => i = j
      BY <1>1
    <2>2. \A i \in DOMAIN r : WorkOk(r[i], lane)
      BY <1>2 DEF ReadyOk
    <2>3. ASSUME NEW i \in DOMAIN r, NEW j \in DOMAIN r, r[i].who # NoOne, r[i].who = r[j].who
          PROVE  i = j
      <3>1. /\ i + 1 \in DOMAIN q /\ j + 1 \in DOMAIN q
            /\ q[i + 1].who # NoOne /\ q[i + 1].who = q[j + 1].who
        BY <1>2, <2>3
      <3>2. i + 1 = j + 1
        BY <3>1, Zenon DEF ReadyOk, ReadyOnce
      <3>3. QED
        BY <2>1, <3>2
    <2>4. QED
      BY <2>2, <2>3, Zenon DEF ReadyOk, ReadyOnce
  <1>5. WorkOk(w, lane)
    BY <1>1, <1>3 DEF ReadyOk
  <1>6. w.who # NoOne => ~InReady(r, w.who)
    <2> SUFFICES ASSUME w.who # NoOne, NEW i \in DOMAIN r, r[i].who = w.who PROVE FALSE
      BY Zenon DEF InReady
    <2>1. i + 1 \in DOMAIN q /\ i + 1 # 1 /\ q[i + 1].who = q[1].who /\ q[1].who # NoOne
      BY <1>1, <1>2
    <2>2. QED
      BY <1>3, <2>1 DEF ReadyOk, ReadyOnce
  <1>7. \A c : InReady(q, c) <=> c = w.who \/ InReady(r, c)
    <2> SUFFICES ASSUME NEW c PROVE InReady(q, c) <=> c = w.who \/ InReady(r, c)
      OBVIOUS
    <2>1. ASSUME NEW i \in DOMAIN q, q[i].who = c PROVE c = w.who \/ InReady(r, c)
      BY <1>1, <1>3, <2>1 DEF InReady
    <2>2. ASSUME NEW i \in DOMAIN r, r[i].who = c PROVE InReady(q, c)
      BY <1>2, <2>2 DEF InReady
    <2>3. c = w.who => InReady(q, c)
      BY <1>1, <1>3 DEF InReady
    <2>4. QED
      BY <2>1, <2>2, <2>3, Zenon DEF InReady
  <1>8. QED
    BY <1>1, <1>4, <1>5, <1>6, <1>7 DEF r, w


(* Lanes may change under the works: no coroutine with work becomes an owner, and the works
   in a cancel operation keep their handle. *)
LEMMA ReadyLanes ==
  ASSUME NEW q \in Seq(UWork), NEW old, NEW new, ReadyOk(q, old),
         \A d \in Dirs : new[d].owner # NoOne => new[d].owner = old[d].owner
                                                   \/ ~InReady(q, new[d].owner),
         \A d \in Dirs : new[d].handle = old[d].handle
                           \/ \A c \in Role(d) : OneReader /\ InReady(q, c) => c = new[d].handle
  PROVE  ReadyOk(q, new)
  <1> SUFFICES ASSUME NEW i \in DOMAIN q PROVE WorkOk(q[i], new)
    BY DEF ReadyOk
  <1>1. WorkOk(q[i], old) /\ q[i] \in UWork /\ InReady(q, q[i].who)
    BY DEF ReadyOk, InReady
  <1>2. q[i].who # NoOne => \A d \in Dirs : new[d].owner # q[i].who
    BY <1>1 DEF WorkOk
  <1>3. OneReader /\ q[i].slot = "cancel" => new[q[i].dir].handle = q[i].who
    BY <1>1 DEF WorkOk, UWork
  <1>4. QED
    BY <1>1, <1>2, <1>3 DEF WorkOk

(* What every coroutine has in the ready queue. *)
SameReady(s, t) == \A c \in Users : InReady(t.ready, c) <=> InReady(s.ready, c)

(* A stream with the same lanes, results and remainder, and works for the same coroutines. *)
SameStream(s, t) ==
  /\ t.lane = s.lane /\ t.res = s.res /\ t.left = s.left /\ t.copied = s.copied
  /\ SameReady(s, t)

(* CloseAwaiter::TryComplete() closes the descriptor when nothing is pending. *)
LEMMA TryCompleteGood ==
  ASSUME NEW s, UGood(s)
  PROVE  UGood(TryComplete(s)) /\ SameStream(s, TryComplete(s))
  <1>1. CASE ~(s.closing /\ s.swept /\ \A d \in Dirs : s.lane[d].owner = NoOne)
    BY <1>1 DEF TryComplete, SameStream, SameReady
  <1>2. CASE s.closing /\ s.swept /\ \A d \in Dirs : s.lane[d].owner = NoOne
    <2> DEFINE w == Work("close", "read", NoOne)
               t == [s EXCEPT !.closing = FALSE, !.fd = FALSE, !.life = MarkClosed(@),
                              !.ready = Append(@, w)]
    <2>1. TryComplete(s) = t
      BY <1>2 DEF TryComplete
    <2>2. /\ s \in UStream /\ s.ready \in Seq(UWork) /\ s.life \in ULife
          /\ ReadyOk(s.ready, s.lane) /\ NoOne \notin Users /\ ValidConstants
      BY DEF UGood, UStream, ValidConstants, Users
    <2>3. w \in UWork /\ w.who = NoOne /\ WorkOk(w, s.lane)
      BY DEF Work, UWork, Dirs, WorkOk
    <2>4. /\ Append(s.ready, w) \in Seq(UWork) /\ ReadyOk(Append(s.ready, w), s.lane)
          /\ \A c : InReady(Append(s.ready, w), c) <=> InReady(s.ready, c) \/ c = NoOne
      BY <2>2, <2>3, ReadyAppend
    <2> HIDE DEF w
    <2>5. MarkClosed(s.life) \in ULife /\ MarkClosed(s.life).resource = "Closed"
      BY <2>2 DEF MarkClosed, ULife
    <2>6. /\ t \in UStream /\ t.lane = s.lane /\ t.res = s.res /\ t.left = s.left
          /\ t.copied = s.copied /\ t.ready = Append(s.ready, w) /\ t.fd = FALSE
          /\ t.life = MarkClosed(s.life)
      BY <2>2, <2>4, <2>5, Zenon DEF UStream
    <2> HIDE DEF t
    <2>7. \A d \in Dirs : LaneOk(t.lane[d], d, t.fd)
      BY <1>2, <2>6 DEF UGood, LaneOk
    <2>8. QED
      BY <2>1, <2>2, <2>4, <2>5, <2>6, <2>7 DEF UGood, SameStream, SameReady
  <1>3. QED
    BY <1>1, <1>2


(* t is s with lane l in direction d. *)
SetsLane(s, d, l, t) ==
  /\ t.lane[d] = l
  /\ \A e \in Dirs : e # d => t.lane[e] = s.lane[e]
  /\ t.res = s.res /\ t.left = s.left /\ t.copied = s.copied /\ t.ready = s.ready
  /\ t.fd = s.fd /\ t.life = s.life

(* A lane that is set keeps the stream good if it is so itself and leaves the works alone. *)
LEMMA LaneSet ==
  ASSUME NEW s, UGood(s), NEW d \in Dirs, NEW l \in ULane, LaneOk(l, d, s.fd),
         l.owner # NoOne => l.owner = s.lane[d].owner \/ ~InReady(s.ready, l.owner),
         l.handle = s.lane[d].handle
           \/ \A c \in Role(d) : OneReader /\ InReady(s.ready, c) => c = l.handle
  PROVE  UGood([s EXCEPT !.lane[d] = l]) /\ SetsLane(s, d, l, [s EXCEPT !.lane[d] = l])
  <1> DEFINE t == [s EXCEPT !.lane[d] = l]
  <1>1. /\ s \in UStream /\ s.lane \in [Dirs -> ULane] /\ s.ready \in Seq(UWork)
        /\ ReadyOk(s.ready, s.lane) /\ ValidConstants
        /\ \A e \in Dirs : LaneOk(s.lane[e], e, s.fd)
        /\ s.life.resource = "Closed" <=> ~s.fd
    BY DEF UGood, UStream
  <1>2. t \in UStream /\ SetsLane(s, d, l, t)
    BY <1>1 DEF UStream, SetsLane
  <1> HIDE DEF t
  <1>3. \A e \in Dirs : LaneOk(t.lane[e], e, t.fd)
    BY <1>1, <1>2 DEF SetsLane
  <1>4. ReadyOk(t.ready, t.lane)
    <2>1. \A e \in Dirs : t.lane[e].owner # NoOne => t.lane[e].owner = s.lane[e].owner
                                                       \/ ~InReady(s.ready, t.lane[e].owner)
      BY <1>2 DEF SetsLane
    <2>2. \A e \in Dirs :
            t.lane[e].handle = s.lane[e].handle
              \/ \A c \in Role(e) : OneReader /\ InReady(s.ready, c) => c = t.lane[e].handle
      BY <1>2 DEF SetsLane
    <2>3. QED
      BY <1>1, <1>2, <2>1, <2>2, ReadyLanes, Zenon DEF SetsLane
  <1>5. UGood(t)
    BY <1>1, <1>2, <1>3, <1>4 DEF UGood, SetsLane
  <1>6. QED
    BY <1>2, <1>5 DEF t

(* The lane after Release() ... *)
Freed(l) == [NewLane EXCEPT !.handle = l.handle, !.deadline = l.deadline]

(* ... and its members: at rest but for the handle and the deadline. *)
LEMMA FreedIs ==
  ASSUME NEW l \in ULane
  PROVE  /\ Freed(l) \in ULane
         /\ Freed(l).owner = NoOne /\ ~Freed(l).requested /\ ~Freed(l).submitted
         /\ ~Freed(l).terminal /\ ~Freed(l).primary /\ ~Freed(l).late /\ Freed(l).timer = "off"
         /\ Freed(l).handle = l.handle /\ Freed(l).deadline = l.deadline
         /\ LaneInv(Freed(l))
  BY Zenon DEF Freed, NewLane, ULane, LaneInv

(* t is s with the operation of direction d gone, its results and works as they were. *)
Frees(s, d, t) ==
  /\ UGood(t) /\ t.lane[d] = Freed(s.lane[d])
  /\ \A e \in Dirs : e # d => t.lane[e] = s.lane[e]
  /\ t.res = s.res /\ t.left = s.left /\ t.copied = s.copied
  /\ SameReady(s, t)

(* Release() gives the slot back, and Close() may be complete with it. *)
LEMMA ReleaseGood ==
  ASSUME NEW s, UGood(s), NEW d \in Dirs
  PROVE  Frees(s, d, Release(s, d))
  <1> DEFINE l == Freed(s.lane[d])
             t == [s EXCEPT !.lane[d] = l]
  <1>1. s.lane[d] \in ULane
    BY DEF UGood, UStream
  <1>2. UGood(t) /\ SetsLane(s, d, l, t)
    <2>1. l \in ULane /\ l.owner = NoOne /\ l.handle = s.lane[d].handle /\ LaneInv(l)
      BY <1>1, FreedIs
    <2> HIDE DEF l
    <2>2. QED
      BY <2>1, LaneSet DEF LaneOk
  <1>3. Release(s, d) = TryComplete(t)
    BY DEF Release, Freed
  <1> HIDE DEF t
  <1>4. UGood(TryComplete(t)) /\ SameStream(t, TryComplete(t))
    BY <1>2, TryCompleteGood
  <1>5. QED
    BY <1>2, <1>3, <1>4 DEF Frees, SetsLane, SameStream, SameReady

(* Schedule() adds work. *)
LEMMA ScheduleGood ==
  ASSUME NEW s, UGood(s), NEW w \in UWork, WorkOk(w, s.lane), ~InReady(s.ready, w.who)
  PROVE  LET t == Schedule(s, w)
         IN  /\ UGood(t) /\ t.lane = s.lane /\ t.res = s.res /\ t.left = s.left
             /\ t.copied = s.copied
             /\ \A c : InReady(t.ready, c) <=> InReady(s.ready, c) \/ c = w.who
  <1> DEFINE t == Schedule(s, w)
  <1>1. s \in UStream /\ s.ready \in Seq(UWork) /\ ReadyOk(s.ready, s.lane)
    BY DEF UGood, UStream
  <1>2. /\ Append(s.ready, w) \in Seq(UWork) /\ ReadyOk(Append(s.ready, w), s.lane)
        /\ \A c : InReady(Append(s.ready, w), c) <=> InReady(s.ready, c) \/ c = w.who
    BY <1>1, ReadyAppend
  <1>3. /\ t \in UStream /\ t.lane = s.lane /\ t.res = s.res /\ t.left = s.left
        /\ t.copied = s.copied /\ t.ready = Append(s.ready, w) /\ t.fd = s.fd /\ t.life = s.life
    BY <1>1, <1>2, Zenon DEF Schedule, UStream
  <1> HIDE DEF t
  <1>4. UGood(t)
    BY <1>2, <1>3 DEF UGood
  <1>5. QED
    BY <1>2, <1>3, <1>4 DEF t


(* A coroutine uses one direction. *)
LEMMA RolesDiffer ==
  ASSUME ValidConstants, NEW d \in Dirs, NEW e \in Dirs, d # e, NEW c \in Role(d)
  PROVE  c \notin Role(e) /\ c # NoOne /\ c \in Users
  BY DEF ValidConstants, Dirs, Role, Users

(* The owner of a pending operation uses its direction, owns no other and is not to be
   resumed. *)
LEMMA OwnerIs ==
  ASSUME NEW s, UGood(s), NEW d \in Dirs, s.lane[d].owner # NoOne
  PROVE  /\ s.lane[d].owner \in Role(d) /\ s.lane[d].owner \in Users
         /\ \A e \in Dirs : e # d => s.lane[e].owner # s.lane[d].owner
         /\ ~InReady(s.ready, s.lane[d].owner)
         /\ s.fd
  <1>1. /\ s.lane[d].owner \in Role(d) /\ ValidConstants /\ s.fd
        /\ \A e \in Dirs : s.lane[e].owner \in Role(e) \cup {NoOne}
    BY DEF UGood, LaneOk
  <1>2. s.lane[d].owner \in Users
    BY <1>1 DEF Role, Users
  <1>3. \A e \in Dirs : e # d => s.lane[e].owner # s.lane[d].owner
    BY <1>1, RolesDiffer
  <1>4. ~InReady(s.ready, s.lane[d].owner)
    BY DEF UGood, ReadyOk, WorkOk, InReady
  <1>5. QED
    BY <1>1, <1>2, <1>3, <1>4

(* Whether Write() runs. *)
Writing(s) == s.lane["write"].owner # NoOne \/ InReady(s.ready, Writer)

(* Whether the deadline cancel of a direction names its operation. *)
Cancelling(l) == l.submitted /\ ~l.terminal

(* What completions do to direction d of s, apart from results. *)
Ends(s, d, t) ==
  /\ UGood(t)
  /\ \A e \in Dirs : e # d => t.lane[e] = s.lane[e]
  /\ t.res = s.res /\ t.left = s.left
  /\ Writing(t) <=> Writing(s)
  /\ t.lane[d].late => s.lane[d].late

(* The operation of d is over and its coroutine is to be resumed. *)
LEMMA EndGood ==
  ASSUME NEW s, UGood(s), NEW d \in Dirs, s.lane[d].owner # NoOne,
         NEW slot \in {"frame", "cancel"}, slot = "cancel" => s.lane[d].handle = s.lane[d].owner
  PROVE  LET t == Schedule(Release(s, d), Work(slot, d, s.lane[d].owner))
         IN  Ends(s, d, t) /\ t.lane[d] = Freed(s.lane[d])
  <1> DEFINE c == s.lane[d].owner
             u == Release(s, d)
             w == Work(slot, d, c)
             t == Schedule(u, w)
  <1>1. /\ c \in Role(d) /\ c \in Users /\ \A e \in Dirs : e # d => s.lane[e].owner # c
        /\ ~InReady(s.ready, c)
    BY OwnerIs
  <1>2. Frees(s, d, u)
    BY ReleaseGood
  <1>3. s.lane[d] \in ULane
    BY DEF UGood, UStream
  <1>4. /\ Freed(s.lane[d]).owner = NoOne /\ Freed(s.lane[d]).handle = s.lane[d].handle
        /\ ~Freed(s.lane[d]).late
    BY <1>3, FreedIs
  <1>5. w \in UWork /\ w.who = c /\ w.slot = slot /\ w.dir = d
    BY <1>1 DEF Work, UWork
  <1> HIDE DEF c, u, w
  <1>6. WorkOk(w, u.lane)
    <2>1. \A e \in Dirs : c # NoOne => u.lane[e].owner # c
      BY <1>1, <1>2, <1>4 DEF Frees
    <2>2. slot = "cancel" => u.lane[d].handle = c
      BY <1>2, <1>4 DEF Frees, c
    <2>3. QED
      BY <1>1, <1>5, <2>1, <2>2 DEF WorkOk
  <1>7. ~InReady(u.ready, c)
    BY <1>1, <1>2 DEF Frees, SameReady
  <1>8. /\ UGood(t) /\ t.lane = u.lane /\ t.res = u.res /\ t.left = u.left
        /\ \A a : InReady(t.ready, a) <=> InReady(u.ready, a) \/ a = c
    BY <1>2, <1>5, <1>6, <1>7, ScheduleGood DEF Frees
  <1> HIDE DEF t
  <1>9. Writing(t) <=> Writing(s)
    <2>1. Writer \in Users /\ "write" \in Dirs /\ NoOne \notin Users
      BY DEF Users, Dirs, UGood, ValidConstants
    <2>2. CASE d = "write"
      <3>1. c = Writer /\ c # NoOne /\ s.lane["write"].owner = c
        BY <1>1, <2>1, <2>2 DEF Role, c
      <3>2. QED
        BY <1>8, <3>1 DEF Writing
    <2>3. CASE d # "write"
      <3>1. t.lane["write"] = s.lane["write"]
        BY <1>2, <1>8, <2>1, <2>3 DEF Frees
      <3>2. c # Writer
        BY <1>1, <2>3 DEF Dirs, Role, UGood, ValidConstants
      <3>3. QED
        BY <1>2, <1>8, <2>1, <3>1, <3>2 DEF Writing, Frees, SameReady
    <2>4. QED
      BY <2>2, <2>3
  <1>10. QED
    BY <1>2, <1>4, <1>8, <1>9 DEF Ends, Frees, c, u, w, t


(* CompleteReadOperation() ends the operation, or hands it to the cancel in flight. *)
LEMMA CompleteOperationGood ==
  ASSUME NEW s, UGood(s), NEW d \in Dirs, s.lane[d].owner # NoOne
  PROVE  LET t == CompleteOperation(s, d)
         IN  /\ Ends(s, d, t)
             /\ t.lane[d].owner = NoOne \/ t.lane[d].primary
             /\ Cancelling(s.lane[d]) => Cancelling(t.lane[d])
  <1> DEFINE t == CompleteOperation(s, d)
             l == s.lane[d]
  <1>1. CASE ~Cancelling(l)
    <2>1. t = Schedule(Release(s, d), Work("frame", d, l.owner))
      BY <1>1 DEF CompleteOperation, Cancelling
    <2>2. Ends(s, d, t) /\ t.lane[d] = Freed(l)
      BY <2>1, EndGood
    <2>3. Freed(l).owner = NoOne
      BY FreedIs DEF UGood, UStream
    <2> HIDE DEF t, l
    <2>4. QED
      BY <1>1, <2>2, <2>3 DEF t, l
  <1>2. CASE Cancelling(l)
    <2> DEFINE m == [l EXCEPT !.primary = TRUE, !.timer = "off", !.handle = l.owner]
    <2>1. /\ s \in UStream /\ l \in ULane /\ LaneOk(l, d, s.fd) /\ l.owner \in Users
          /\ l.owner \in Role(d)
      BY OwnerIs DEF UGood, UStream
    <2>2. t = [s EXCEPT !.lane[d] = m]
      BY <1>2, <2>1, Zenon DEF CompleteOperation, Cancelling, UStream
    <2>3. /\ m \in ULane /\ m.owner = l.owner /\ m.primary /\ m.submitted = l.submitted
          /\ m.terminal = l.terminal /\ m.timer = "off" /\ m.handle = l.owner
          /\ m.late = l.late /\ m.requested = l.requested
      BY <2>1, Zenon DEF ULane
    <2> HIDE DEF m
    <2>4. LaneOk(m, d, s.fd)
      BY <1>2, <2>1, <2>3 DEF LaneOk, LaneInv, Cancelling
    <2>5. \A c \in Role(d) : OneReader /\ InReady(s.ready, c) => c = m.handle
      BY <2>1, <2>3 DEF Role, OneReader
    <2>6. UGood(t) /\ SetsLane(s, d, m, t)
      BY <2>1, <2>2, <2>3, <2>4, <2>5, LaneSet
    <2> HIDE DEF t, l
    <2>7. Writing(t) <=> Writing(s)
      BY <2>3, <2>6 DEF Writing, SetsLane, Dirs, l
    <2>8. QED
      BY <1>2, <2>3, <2>6, <2>7, Zenon DEF Ends, SetsLane, Cancelling, t, l
  <1>3. QED
    BY <1>1, <1>2

(* CompleteDeadlineCancel() ends the operation that waits for it, or leaves it pending. *)
LEMMA CompleteCancelGood ==
  ASSUME NEW s, UGood(s), NEW d \in Dirs, Cancelling(s.lane[d])
  PROVE  LET t == CompleteDeadlineCancel(s, d)
         IN  /\ Ends(s, d, t)
             /\ ~s.lane[d].primary => /\ t.lane[d].owner = s.lane[d].owner
                                      /\ ~t.lane[d].primary
             /\ s.lane[d].primary => t.lane[d].owner = NoOne
  <1> DEFINE t == CompleteDeadlineCancel(s, d)
             l == s.lane[d]
  <1>1. /\ s \in UStream /\ l \in ULane /\ LaneOk(l, d, s.fd)
    BY DEF UGood, UStream
  <1>2. l.owner # NoOne
    BY <1>1 DEF LaneOk, LaneInv, Cancelling
  <1>3. CASE l.primary
    <2>1. t = Schedule(Release(s, d), Work("cancel", d, l.owner))
      BY <1>3 DEF CompleteDeadlineCancel
    <2>2. l.handle = l.owner
      BY <1>1, <1>3 DEF LaneOk, LaneInv
    <2>3. Ends(s, d, t) /\ t.lane[d] = Freed(l)
      BY <1>2, <2>1, <2>2, EndGood
    <2>4. Freed(l).owner = NoOne
      BY <1>1, FreedIs
    <2> HIDE DEF t, l
    <2>5. QED
      BY <1>3, <2>3, <2>4 DEF t, l
  <1>4. CASE ~l.primary
    <2> DEFINE m == [l EXCEPT !.terminal = TRUE]
    <2>1. t = [s EXCEPT !.lane[d] = m]
      BY <1>1, <1>4 DEF CompleteDeadlineCancel, UStream
    <2>2. /\ m \in ULane /\ m.owner = l.owner /\ m.primary = l.primary
          /\ m.submitted = l.submitted /\ m.timer = l.timer /\ m.handle = l.handle
          /\ m.late = l.late /\ m.requested = l.requested /\ m.deadline = l.deadline
      BY <1>1, Zenon DEF ULane
    <2> HIDE DEF m
    <2>3. LaneOk(m, d, s.fd)
      BY <1>1, <1>4, <2>2 DEF LaneOk, LaneInv
    <2>4. UGood(t) /\ SetsLane(s, d, m, t)
      BY <2>1, <2>2, <2>3, LaneSet
    <2> HIDE DEF t, l
    <2>5. Writing(t) <=> Writing(s)
      BY <2>2, <2>4 DEF Writing, SetsLane, Dirs, l
    <2>6. QED
      BY <1>4, <2>2, <2>4, <2>5 DEF Ends, SetsLane, t, l
  <1>5. QED
    BY <1>3, <1>4

(* A result is stored. *)
LEMMA ResultGood ==
  ASSUME NEW s, UGood(s), NEW c \in Users, NEW r \in UResult
  PROVE  LET t == [s EXCEPT !.res[c] = r]
         IN  /\ UGood(t) /\ t.lane = s.lane /\ t.left = s.left /\ t.copied = s.copied
             /\ t.ready = s.ready
             /\ t.res = [s.res EXCEPT ![c] = r] /\ t.res[c] = r
             /\ \A a \in Users : a # c => t.res[a] = s.res[a]
  <1> DEFINE t == [s EXCEPT !.res[c] = r]
  <1>1. s \in UStream /\ s.res \in [Users -> UResult]
    BY DEF UGood, UStream
  <1>2. /\ t \in UStream /\ t.lane = s.lane /\ t.left = s.left /\ t.copied = s.copied
        /\ t.ready = s.ready /\ t.fd = s.fd /\ t.life = s.life
        /\ t.res = [s.res EXCEPT ![c] = r]
    BY <1>1, Zenon DEF UStream
  <1> HIDE DEF t
  <1>3. UGood(t)
    BY <1>2 DEF UGood
  <1>4. QED
    BY <1>1, <1>2, <1>3 DEF t


-----------------------------------------------------------------------------
(* The kernel and its completion queue.                                    *)

UCqe ==
  [what : {"op", "notify", "cancel", "sweep"}, dir : Dirs, res : UResult, more : BOOLEAN]

UKernel ==
  [op : [Dirs -> {"none", "armed", "doomed", "borrowed"}],
   cancel : [Dirs -> {"none", "sent", "applied"}], sweep : {"none", "sent", "applied"},
   cq : Seq(UCqe)]

(* Completion c is for the operation of d, be it the notification of a zero-copy send, or for
   its deadline cancel.  After the final one the operation is not named any more. *)
OfOp(c, d) == c.what \in {"op", "notify"} /\ c.dir = d
OfCancel(c, d) == c.what \in {"cancel"} /\ c.dir = d
Final(c) == c.what = "op" => ~c.more

AnyOp(q, d) == \E i \in DOMAIN q : OfOp(q[i], d)
AnyCancel(q, d) == \E i \in DOMAIN q : OfCancel(q[i], d)

(* What queue q may hold of an operation that is in state op: its final completion, when the
   kernel is done with it, or one that announces a notification, which comes after it. *)
OpQueue(op, q, d) ==
  /\ \A i \in DOMAIN q : OfOp(q[i], d) /\ Final(q[i]) => op = "none"
  /\ \A i \in DOMAIN q : OfOp(q[i], d) /\ ~Final(q[i]) =>
       op = "borrowed" \/ \E j \in DOMAIN q : i < j /\ OfOp(q[j], d)
  /\ \A i, j \in DOMAIN q : i < j /\ OfOp(q[i], d) /\ OfOp(q[j], d) =>
       ~Final(q[i]) /\ q[j].what = "notify"

CancelQueue(cancel, q, d) ==
  /\ \A i \in DOMAIN q : OfCancel(q[i], d) => cancel = "none"
  /\ \A i, j \in DOMAIN q : OfCancel(q[i], d) /\ OfCancel(q[j], d) => i = j

QueueOk(k, q) == \A d \in Dirs : OpQueue(k.op[d], q, d) /\ CancelQueue(k.cancel[d], q, d)

(* While the kernel has work for the loop, it is not done with the operation. *)
LEMMA OpQueueIs ==
  ASSUME NEW q \in Seq(UCqe), NEW d, NEW op, OpQueue(op, q, d)
  PROVE  /\ op \in {"armed", "doomed"} => ~AnyOp(q, d)
         /\ op = "borrowed" => \A i \in DOMAIN q : OfOp(q[i], d) => ~Final(q[i])
         /\ \A i, j \in DOMAIN q :
              OfOp(q[i], d) /\ q[i].what = "op" /\ OfOp(q[j], d) /\ q[j].what = "op" => i = j
  <1>1. /\ DOMAIN q = 1..Len(q) /\ Len(q) \in Nat
    OBVIOUS
  <1>2. \A i \in DOMAIN q : OfOp(q[i], d) /\ Final(q[i]) => op = "none"
    BY DEF OpQueue
  <1>3. \A i \in DOMAIN q : OfOp(q[i], d) /\ ~Final(q[i]) =>
          op = "borrowed" \/ \E j \in DOMAIN q : i < j /\ OfOp(q[j], d)
    BY DEF OpQueue
  <1>4. \A i, j \in DOMAIN q : i < j /\ OfOp(q[i], d) /\ OfOp(q[j], d) =>
          ~Final(q[i]) /\ q[j].what = "notify"
    BY DEF OpQueue
  <1>5. op \in {"armed", "doomed"} => ~AnyOp(q, d)
    <2> SUFFICES ASSUME op \in {"armed", "doomed"}, NEW i \in DOMAIN q, OfOp(q[i], d) PROVE FALSE
      BY DEF AnyOp
    <2>1. ~Final(q[i])
      BY <1>2
    <2>2. PICK j \in DOMAIN q : i < j /\ OfOp(q[j], d)
      BY <1>3, <2>1
    <2>3. Final(q[j])
      BY <1>4, <2>2 DEF Final
    <2>4. QED
      BY <1>2, <2>2, <2>3
  <1>6. op = "borrowed" => \A i \in DOMAIN q : OfOp(q[i], d) => ~Final(q[i])
    BY <1>2
  <1>7. ASSUME NEW i \in DOMAIN q, NEW j \in DOMAIN q,
               OfOp(q[i], d), q[i].what = "op", OfOp(q[j], d), q[j].what = "op"
        PROVE  i = j
    <2>1. ~(i < j) /\ ~(j < i)
      BY <1>4, <1>7
    <2>2. QED
      BY <1>1, <2>1
  <1>8. QED
    BY <1>5, <1>6, <1>7


(* What is in the queue without its head was in the queue. *)
LEMMA TailOf ==
  ASSUME NEW q \in Seq(UCqe), q # <<>>
  PROVE  /\ Tail(q) \in Seq(UCqe) /\ Head(q) \in UCqe
         /\ \A i \in DOMAIN Tail(q) :
              i + 1 \in DOMAIN q /\ 1 < i + 1 /\ Tail(q)[i] = q[i + 1]
         /\ 1 \in DOMAIN q /\ Head(q) = q[1]
         /\ \A i \in DOMAIN q : i # 1 => i - 1 \in DOMAIN Tail(q) /\ Tail(q)[i - 1] = q[i]
         /\ \A i, j \in DOMAIN Tail(q) : (i < j <=> i + 1 < j + 1) /\ (i + 1 = j + 1 => i = j)
         /\ \A i, j \in DOMAIN q : i < j => j # 1 /\ (i # 1 => i - 1 < j - 1)
  <1> DEFINE r == Tail(q)
  <1>1. /\ r \in Seq(UCqe) /\ Head(q) \in UCqe /\ Len(q) \in Nat \ {0}
        /\ DOMAIN q = 1..Len(q) /\ DOMAIN r = 1..(Len(q) - 1)
        /\ \A i \in 1..(Len(q) - 1) : r[i] = q[i + 1]
        /\ Head(q) = q[1]
    BY TailAt
  <1> HIDE DEF r
  <1>2. \A i \in DOMAIN r : i + 1 \in DOMAIN q /\ 1 < i + 1 /\ r[i] = q[i + 1]
    BY <1>1
  <1>3. 1 \in DOMAIN q /\ \A i \in DOMAIN q : i # 1 => i - 1 \in DOMAIN r /\ r[i - 1] = q[i]
    BY <1>1
  <1>4. \A i, j \in DOMAIN r : (i < j <=> i + 1 < j + 1) /\ (i + 1 = j + 1 => i = j)
    BY <1>1
  <1>5. \A i, j \in DOMAIN q : i < j => j # 1 /\ (i # 1 => i - 1 < j - 1)
    BY <1>1
  <1>6. QED
    BY <1>1, <1>2, <1>3, <1>4, <1>5 DEF r

(* The head of the queue is handled: what it says of its operation, and what is left. *)
LEMMA TailOp ==
  ASSUME NEW q \in Seq(UCqe), q # <<>>, NEW d, NEW op, OpQueue(op, q, d)
  PROVE  /\ OpQueue(op, Tail(q), d)
         /\ AnyOp(q, d) <=> OfOp(Head(q), d) \/ AnyOp(Tail(q), d)
         /\ OfOp(Head(q), d) /\ Final(Head(q)) => op = "none" /\ ~AnyOp(Tail(q), d)
         /\ OfOp(Head(q), d) /\ ~Final(Head(q)) =>
              /\ op = "borrowed" \/ AnyOp(Tail(q), d)
              /\ \A i \in DOMAIN Tail(q) : OfOp(Tail(q)[i], d) => Tail(q)[i].what = "notify"
  <1> DEFINE r == Tail(q)
             h == Head(q)
  <1>1. /\ \A i \in DOMAIN r : i + 1 \in DOMAIN q /\ 1 < i + 1 /\ r[i] = q[i + 1]
        /\ 1 \in DOMAIN q /\ h = q[1]
        /\ \A i \in DOMAIN q : i # 1 => i - 1 \in DOMAIN r /\ r[i - 1] = q[i]
        /\ \A i, j \in DOMAIN r : (i < j <=> i + 1 < j + 1) /\ (i + 1 = j + 1 => i = j)
        /\ \A i, j \in DOMAIN q : i < j => j # 1 /\ (i # 1 => i - 1 < j - 1)
    BY TailOf
  <1>2. DOMAIN r \subseteq Nat /\ DOMAIN q \subseteq Nat
    BY TailOf
  <1> HIDE DEF r, h
  <1>3. \A i \in DOMAIN q : OfOp(q[i], d) /\ Final(q[i]) => op = "none"
    BY DEF OpQueue
  <1>4. \A i \in DOMAIN q : OfOp(q[i], d) /\ ~Final(q[i]) =>
          op = "borrowed" \/ \E j \in DOMAIN q : i < j /\ OfOp(q[j], d)
    BY DEF OpQueue
  <1>5. \A i, j \in DOMAIN q : i < j /\ OfOp(q[i], d) /\ OfOp(q[j], d) =>
          ~Final(q[i]) /\ q[j].what = "notify"
    BY DEF OpQueue
  <1>6. AnyOp(q, d) <=> OfOp(h, d) \/ AnyOp(r, d)
    BY <1>1 DEF AnyOp
  <1>7. OpQueue(op, r, d)
    <2>1. \A i \in DOMAIN r : OfOp(r[i], d) /\ Final(r[i]) => op = "none"
      BY <1>1, <1>3
    <2>2. ASSUME NEW i \in DOMAIN r, OfOp(r[i], d), ~Final(r[i]), op # "borrowed"
          PROVE  \E j \in DOMAIN r : i < j /\ OfOp(r[j], d)
      <3>1. i + 1 \in DOMAIN q /\ 1 < i + 1 /\ r[i] = q[i + 1]
        BY <1>1
      <3>2. PICK j \in DOMAIN q : i + 1 < j /\ OfOp(q[j], d)
        BY <1>4, <2>2, <3>1
      <3>3. j # 1 /\ j - 1 \in DOMAIN r /\ r[j - 1] = q[j] /\ i < j - 1
        BY <1>1, <1>2, <3>1, <3>2
      <3>4. QED
        BY <3>2, <3>3
    <2>3. ASSUME NEW i \in DOMAIN r, NEW j \in DOMAIN r, i < j, OfOp(r[i], d), OfOp(r[j], d)
          PROVE  ~Final(r[i]) /\ r[j].what = "notify"
      <3>1. /\ i + 1 \in DOMAIN q /\ j + 1 \in DOMAIN q /\ i + 1 < j + 1
            /\ r[i] = q[i + 1] /\ r[j] = q[j + 1]
        BY <1>1, <2>3
      <3>2. QED
        BY <1>5, <2>3, <3>1
    <2>4. QED
      BY <2>1, <2>2, <2>3 DEF OpQueue
  <1>8. ASSUME OfOp(h, d), NEW i \in DOMAIN r, OfOp(r[i], d)
        PROVE  ~Final(h) /\ r[i].what = "notify"
    <2>1. 1 \in DOMAIN q /\ i + 1 \in DOMAIN q /\ 1 < i + 1 /\ q[1] = h /\ q[i + 1] = r[i]
      BY <1>1
    <2>2. QED
      BY <1>5, <1>8, <2>1
  <1>9. OfOp(h, d) /\ Final(h) => op = "none" /\ ~AnyOp(r, d)
    BY <1>1, <1>3, <1>8 DEF AnyOp
  <1>10. OfOp(h, d) /\ ~Final(h) => op = "borrowed" \/ AnyOp(r, d)
    BY <1>1, <1>4 DEF AnyOp
  <1>11. QED
    BY <1>6, <1>7, <1>8, <1>9, <1>10 DEF r, h

(* The same for the deadline cancels. *)
LEMMA TailCancel ==
  ASSUME NEW q \in Seq(UCqe), q # <<>>, NEW d, NEW cancel, CancelQueue(cancel, q, d)
  PROVE  /\ CancelQueue(cancel, Tail(q), d)
         /\ AnyCancel(q, d) <=> OfCancel(Head(q), d) \/ AnyCancel(Tail(q), d)
         /\ OfCancel(Head(q), d) => cancel = "none" /\ ~AnyCancel(Tail(q), d)
  <1> DEFINE r == Tail(q)
             h == Head(q)
  <1>1. /\ \A i \in DOMAIN r : i + 1 \in DOMAIN q /\ 1 < i + 1 /\ r[i] = q[i + 1]
        /\ 1 \in DOMAIN q /\ h = q[1]
        /\ \A i \in DOMAIN q : i # 1 => i - 1 \in DOMAIN r /\ r[i - 1] = q[i]
        /\ \A i, j \in DOMAIN r : (i < j <=> i + 1 < j + 1) /\ (i + 1 = j + 1 => i = j)
    BY TailOf
  <1> HIDE DEF r, h
  <1>2. \A i \in DOMAIN q : OfCancel(q[i], d) => cancel = "none"
    BY DEF CancelQueue
  <1>3. \A i, j \in DOMAIN q : OfCancel(q[i], d) /\ OfCancel(q[j], d) => i = j
    BY DEF CancelQueue
  <1>4. CancelQueue(cancel, r, d)
    <2>1. \A i \in DOMAIN r : OfCancel(r[i], d) => cancel = "none"
      BY <1>1, <1>2
    <2>2. ASSUME NEW i \in DOMAIN r, NEW j \in DOMAIN r, OfCancel(r[i], d), OfCancel(r[j], d)
          PROVE  i = j
      <3>1. /\ i + 1 \in DOMAIN q /\ j + 1 \in DOMAIN q
            /\ OfCancel(q[i + 1], d) /\ OfCancel(q[j + 1], d)
        BY <1>1, <2>2
      <3>2. i + 1 = j + 1
        BY <1>3, <3>1
      <3>3. QED
        BY <1>1, <3>2
    <2>3. QED
      BY <2>1, <2>2 DEF CancelQueue
  <1>5. AnyCancel(q, d) <=> OfCancel(h, d) \/ AnyCancel(r, d)
    BY <1>1 DEF AnyCancel
  <1>6. ASSUME OfCancel(h, d), NEW i \in DOMAIN r, OfCancel(r[i], d) PROVE FALSE
    <2>1. /\ 1 \in DOMAIN q /\ i + 1 \in DOMAIN q /\ 1 < i + 1
          /\ OfCancel(q[1], d) /\ OfCancel(q[i + 1], d)
      BY <1>1, <1>6
    <2>2. QED
      BY <1>3, <2>1
  <1>7. OfCancel(h, d) => cancel = "none" /\ ~AnyCancel(r, d)
    BY <1>1, <1>2, <1>6 DEF AnyCancel
  <1>8. QED
    BY <1>4, <1>5, <1>7 DEF r, h


(* A completion is posted: what the queue then holds. *)
LEMMA PostAny ==
  ASSUME NEW q \in Seq(UCqe), NEW c \in UCqe, NEW d
  PROVE  /\ Append(q, c) \in Seq(UCqe)
         /\ AnyOp(Append(q, c), d) <=> AnyOp(q, d) \/ OfOp(c, d)
         /\ AnyCancel(Append(q, c), d) <=> AnyCancel(q, d) \/ OfCancel(c, d)
  <1> DEFINE r == Append(q, c)
  <1>1. /\ r \in Seq(UCqe) /\ Len(q) \in Nat
        /\ DOMAIN q = 1..Len(q) /\ DOMAIN r = 1..(Len(q) + 1)
        /\ \A i \in 1..Len(q) : r[i] = q[i]
        /\ r[Len(q) + 1] = c
    BY AppendAt
  <1> HIDE DEF r
  <1>2. AnyOp(r, d) <=> AnyOp(q, d) \/ OfOp(c, d)
    BY <1>1 DEF AnyOp
  <1>3. AnyCancel(r, d) <=> AnyCancel(q, d) \/ OfCancel(c, d)
    BY <1>1 DEF AnyCancel
  <1>4. QED
    BY <1>1, <1>2, <1>3 DEF r

(* One of another operation. *)
LEMMA PostOther ==
  ASSUME NEW q \in Seq(UCqe), NEW c \in UCqe, NEW d
  PROVE  /\ \A op : OpQueue(op, q, d) /\ ~OfOp(c, d) => OpQueue(op, Append(q, c), d)
         /\ \A cancel : CancelQueue(cancel, q, d) /\ ~OfCancel(c, d) =>
              CancelQueue(cancel, Append(q, c), d)
  <1> DEFINE r == Append(q, c)
  <1>1. /\ r \in Seq(UCqe) /\ Len(q) \in Nat
        /\ DOMAIN q = 1..Len(q) /\ DOMAIN r = 1..(Len(q) + 1)
        /\ \A i \in 1..Len(q) : r[i] = q[i]
        /\ r[Len(q) + 1] = c
    BY AppendAt
  <1> HIDE DEF r
  <1>2. /\ \A i \in DOMAIN r : OfOp(r[i], d) /\ ~OfOp(c, d) => i \in DOMAIN q /\ r[i] = q[i]
        /\ \A i \in DOMAIN q : i \in DOMAIN r /\ r[i] = q[i]
        /\ \A i \in DOMAIN r : OfCancel(r[i], d) /\ ~OfCancel(c, d) => i \in DOMAIN q /\ r[i] = q[i]
    BY <1>1
  <1>3. ASSUME NEW op, OpQueue(op, q, d), ~OfOp(c, d) PROVE OpQueue(op, r, d)
    <2>1. \A i \in DOMAIN r : OfOp(r[i], d) /\ Final(r[i]) => op = "none"
      BY <1>2, <1>3 DEF OpQueue
    <2>2. \A i \in DOMAIN r : OfOp(r[i], d) /\ ~Final(r[i]) =>
            op = "borrowed" \/ \E j \in DOMAIN r : i < j /\ OfOp(r[j], d)
      BY <1>2, <1>3 DEF OpQueue
    <2>3. \A i, j \in DOMAIN r : i < j /\ OfOp(r[i], d) /\ OfOp(r[j], d) =>
            ~Final(r[i]) /\ r[j].what = "notify"
      BY <1>2, <1>3 DEF OpQueue
    <2>4. QED
      BY <2>1, <2>2, <2>3 DEF OpQueue
  <1>4. ASSUME NEW cancel, CancelQueue(cancel, q, d), ~OfCancel(c, d)
        PROVE  CancelQueue(cancel, r, d)
    BY <1>2, <1>4 DEF CancelQueue
  <1>5. QED
    BY <1>3, <1>4 DEF r

(* One of the operation itself: it ends the operation or announces the notification. *)
LEMMA PostOp ==
  ASSUME NEW q \in Seq(UCqe), NEW c \in UCqe, NEW d, NEW op, OpQueue(op, q, d), OfOp(c, d),
         \/ op \in {"armed", "doomed"} /\ c.what = "op"
         \/ op = "borrowed" /\ c.what = "notify"
  PROVE  OpQueue(IF Final(c) THEN "none" ELSE "borrowed", Append(q, c), d)
  <1> DEFINE r == Append(q, c)
             new == IF Final(c) THEN "none" ELSE "borrowed"
  <1>1. /\ r \in Seq(UCqe) /\ Len(q) \in Nat
        /\ DOMAIN q = 1..Len(q) /\ DOMAIN r = 1..(Len(q) + 1)
        /\ \A i \in 1..Len(q) : r[i] = q[i]
        /\ r[Len(q) + 1] = c
    BY AppendAt
  <1> HIDE DEF r
  <1>2. CASE op \in {"armed", "doomed"} /\ c.what = "op"
    <2>1. \A i \in DOMAIN q : ~OfOp(q[i], d)
      BY <1>2, OpQueueIs DEF AnyOp
    <2>2. \A i \in DOMAIN r : OfOp(r[i], d) => i = Len(q) + 1 /\ r[i] = c
      BY <1>1, <2>1
    <2>3. \A i, j \in DOMAIN r : ~(i < j /\ OfOp(r[i], d) /\ OfOp(r[j], d))
      BY <1>1, <2>2
    <2>4. OpQueue(new, r, d)
      BY <2>2, <2>3 DEF OpQueue
    <2>5. QED
      BY <2>4 DEF r
  <1>3. CASE op = "borrowed" /\ c.what = "notify"
    <2>1. Final(c) /\ new = "none"
      BY <1>3 DEF Final
    <2>2. \A i \in DOMAIN q : OfOp(q[i], d) => ~Final(q[i])
      BY <1>3, OpQueueIs
    <2>3. \A i \in DOMAIN r : OfOp(r[i], d) /\ ~Final(r[i]) =>
            \E j \in DOMAIN r : i < j /\ OfOp(r[j], d)
      BY <1>1, <2>1
    <2>4. ASSUME NEW i \in DOMAIN r, NEW j \in DOMAIN r, i < j, OfOp(r[i], d), OfOp(r[j], d)
          PROVE  ~Final(r[i]) /\ r[j].what = "notify"
      <3>1. i \in DOMAIN q /\ r[i] = q[i]
        BY <1>1, <2>4
      <3>2. CASE j \in DOMAIN q
        BY <1>1, <2>4, <3>1, <3>2 DEF OpQueue
      <3>3. CASE j \notin DOMAIN q
        <4>1. r[j] = c
          BY <1>1, <2>4, <3>3
        <4>2. QED
          BY <1>3, <2>2, <2>4, <3>1, <4>1
      <3>4. QED
        BY <3>2, <3>3
    <2>5. OpQueue(new, r, d)
      BY <2>1, <2>3, <2>4 DEF OpQueue
    <2>6. QED
      BY <2>5 DEF r
  <1>4. QED
    BY <1>2, <1>3

(* The completion of a deadline cancel. *)
LEMMA PostCancel ==
  ASSUME NEW q \in Seq(UCqe), NEW c \in UCqe, NEW d, NEW cancel, CancelQueue(cancel, q, d),
         cancel = "applied", OfCancel(c, d)
  PROVE  CancelQueue("none", Append(q, c), d)
  <1> DEFINE r == Append(q, c)
  <1>1. /\ r \in Seq(UCqe) /\ Len(q) \in Nat
        /\ DOMAIN q = 1..Len(q) /\ DOMAIN r = 1..(Len(q) + 1)
        /\ \A i \in 1..Len(q) : r[i] = q[i]
        /\ r[Len(q) + 1] = c
    BY AppendAt
  <1> HIDE DEF r
  <1>2. \A i \in DOMAIN q : ~OfCancel(q[i], d)
    BY DEF CancelQueue
  <1>3. \A i \in DOMAIN r : OfCancel(r[i], d) => i = Len(q) + 1
    BY <1>1, <1>2
  <1>4. CancelQueue("none", r, d)
    BY <1>3 DEF CancelQueue
  <1>5. QED
    BY <1>4 DEF r

(* What the kernel or a completion names is pending: its coroutine is suspended in it. *)
NamesOf(l, op, cancel, q, d) ==
  /\ op # "none" \/ AnyOp(q, d) => l.owner # NoOne /\ ~l.primary
  /\ cancel # "none" \/ AnyCancel(q, d) => Cancelling(l)

Names(s, k, q) == \A d \in Dirs : NamesOf(s.lane[d], k.op[d], k.cancel[d], q, d)

(* A pending operation that has not completed is the kernel's or has a completion queued. *)
Running(l) == l.owner # NoOne /\ ~l.primary
OwedOf(l, op, q, d) == Running(l) => op # "none" \/ AnyOp(q, d)

Owed(s, k, q) == \A d \in Dirs : OwedOf(s.lane[d], k.op[d], q, d)

(* What becomes of the kernel's operations when a handler ends: the one it started is armed. *)
Arms(s, q, d) ==
  \/ kernel'.op[d] = kernel.op[d]
  \/ /\ kernel'.op[d] = "armed" /\ kernel.op[d] = "none" /\ ~AnyOp(q, d)
     /\ s.lane[d].owner # NoOne /\ ~s.lane[d].primary

Handled(s, q) ==
  /\ st' = s /\ kernel' \in UKernel /\ kernel'.cq = q /\ QueueOk(kernel', q)
  /\ Names(s, kernel', q) /\ Owed(s, kernel', q)
  /\ \A d \in Dirs : Arms(s, q, d)

(* A handler's requests reach the kernel. *)
LEMMA HandleGood ==
  ASSUME kernel \in UKernel, NEW s \in UStream, NEW q \in Seq(UCqe), QueueOk(kernel, q),
         Names(s, kernel, q), Handle(s, q)
  PROVE  Handled(s, q)
  <1> DEFINE Op(d) == IF s.lane[d].owner # NoOne /\ ~s.lane[d].primary
                         /\ kernel.op[d] = "none" /\ ~AnyOp(q, d)
                      THEN "armed" ELSE kernel.op[d]
             Cn(d) == IF s.lane[d].submitted /\ ~s.lane[d].terminal
                         /\ kernel.cancel[d] = "none" /\ ~AnyCancel(q, d)
                      THEN "sent" ELSE kernel.cancel[d]
             Queued == \E i \in DOMAIN q : q[i].what \in {"sweep"} /\ q[i].dir = "read"
             Sw == IF s.closing /\ ~s.swept /\ kernel.sweep = "none" /\ ~Queued
                   THEN "sent" ELSE kernel.sweep
  <1>1. /\ st' = s
        /\ kernel' = [op |-> [d \in Dirs |-> Op(d)], cancel |-> [d \in Dirs |-> Cn(d)],
                      sweep |-> Sw, cq |-> q]
    BY DEF Handle, AnyOp, AnyCancel, OfOp, OfCancel
  <1>2. /\ kernel'.cq = q /\ kernel' \in UKernel
        /\ \A d \in Dirs : kernel'.op[d] = Op(d) /\ kernel'.cancel[d] = Cn(d)
    <2>1. \A d \in Dirs : /\ Op(d) \in {"none", "armed", "doomed", "borrowed"}
                          /\ Cn(d) \in {"none", "sent", "applied"}
      BY DEF UKernel
    <2>2. Sw \in {"none", "sent", "applied"}
      BY DEF UKernel
    <2> HIDE DEF Op, Cn, Sw
    <2>3. QED
      BY <1>1, <2>1, <2>2 DEF UKernel
  <1>3. ASSUME NEW d \in Dirs
        PROVE  /\ OpQueue(kernel'.op[d], q, d) /\ CancelQueue(kernel'.cancel[d], q, d)
               /\ NamesOf(s.lane[d], kernel'.op[d], kernel'.cancel[d], q, d)
               /\ OwedOf(s.lane[d], kernel'.op[d], q, d)
               /\ Arms(s, q, d)
    <2>1. OpQueue(kernel.op[d], q, d) /\ CancelQueue(kernel.cancel[d], q, d)
      BY DEF QueueOk
    <2>2. NamesOf(s.lane[d], kernel.op[d], kernel.cancel[d], q, d)
      BY DEF Names
    <2>3. kernel'.op[d] = Op(d) /\ kernel'.cancel[d] = Cn(d)
      BY <1>2
    <2>4. OpQueue(kernel'.op[d], q, d)
      BY <2>1, <2>3 DEF OpQueue, AnyOp
    <2>5. CancelQueue(kernel'.cancel[d], q, d)
      BY <2>1, <2>3 DEF CancelQueue, AnyCancel
    <2>6. NamesOf(s.lane[d], kernel'.op[d], kernel'.cancel[d], q, d)
      BY <2>2, <2>3 DEF NamesOf, Cancelling
    <2>7. Arms(s, q, d)
      BY <2>3 DEF Arms
    <2>8. OwedOf(s.lane[d], kernel'.op[d], q, d)
      BY <2>3 DEF OwedOf, Running
    <2>9. QED
      BY <2>4, <2>5, <2>6, <2>7, <2>8
  <1>4. QED
    BY <1>1, <1>2, <1>3, Zenon DEF Handled, QueueOk, Names, Owed

(* The completion of a send, as against its notification. *)
OfSend(c) == c.what = "op" /\ c.dir = "write"

(* Handling the head of the queue leaves what is named named, and owes what it owed unless
   the head was the final completion of an operation. *)
LEMMA TailNames ==
  ASSUME NEW s, NEW k \in UKernel, NEW q \in Seq(UCqe), q # <<>>, QueueOk(k, q),
         Names(s, k, q), Owed(s, k, q), NEW d \in Dirs
  PROVE  /\ NamesOf(s.lane[d], k.op[d], k.cancel[d], Tail(q), d)
         /\ ~(OfOp(Head(q), d) /\ Final(Head(q))) => OwedOf(s.lane[d], k.op[d], Tail(q), d)
         /\ OfOp(Head(q), d) => Running(s.lane[d])
         /\ OfOp(Head(q), d) /\ Final(Head(q)) => k.op[d] = "none" /\ ~AnyOp(Tail(q), d)
         /\ OfCancel(Head(q), d) =>
              Cancelling(s.lane[d]) /\ k.cancel[d] = "none" /\ ~AnyCancel(Tail(q), d)
  <1> DEFINE h == Head(q)
             r == Tail(q)
             op == k.op[d]
             cancel == k.cancel[d]
             l == s.lane[d]
  <1>1. /\ AnyOp(q, d) <=> OfOp(h, d) \/ AnyOp(r, d)
        /\ OfOp(h, d) /\ Final(h) => op = "none" /\ ~AnyOp(r, d)
        /\ OfOp(h, d) /\ ~Final(h) => op = "borrowed" \/ AnyOp(r, d)
    BY TailOp DEF QueueOk
  <1>2. /\ AnyCancel(q, d) <=> OfCancel(h, d) \/ AnyCancel(r, d)
        /\ OfCancel(h, d) => cancel = "none" /\ ~AnyCancel(r, d)
    BY TailCancel DEF QueueOk
  <1>3. NamesOf(l, op, cancel, q, d) /\ OwedOf(l, op, q, d)
    BY DEF Names, Owed
  <1> HIDE DEF h, r, op, cancel, l
  <1>4. /\ NamesOf(l, op, cancel, r, d)
        /\ ~(OfOp(h, d) /\ Final(h)) => OwedOf(l, op, r, d)
        /\ OfOp(h, d) => Running(l)
        /\ OfCancel(h, d) => Cancelling(l)
    BY <1>1, <1>2, <1>3 DEF NamesOf, OwedOf, Running
  <1>5. QED
    BY <1>1, <1>2, <1>4 DEF h, r, op, cancel, l

(* What the handler of completion h makes of stream s, with queue r left. *)
Dispatched(s, h, t, k, r) ==
  /\ UGood(t) /\ t.left = s.left /\ (Writing(t) <=> Writing(s))
  /\ Names(t, k, r) /\ Owed(t, k, r)
  /\ OfSend(h) => t.res[Writer] \in {h.res, Result("ETIMEDOUT", 0)}
  /\ ~OfSend(h) => t.res[Writer] = s.res[Writer]
  /\ \A d \in Dirs : t.lane[d].late => s.lane[d].late

(* The handler of a completion of direction d leaves the other direction alone. *)
LEMMA OneLane ==
  ASSUME NEW s, NEW t, NEW k \in UKernel, NEW q \in Seq(UCqe), q # <<>>, QueueOk(k, q),
         Names(s, k, q), Owed(s, k, q), NEW d \in Dirs,
         \A e \in Dirs : e # d => t.lane[e] = s.lane[e] /\ ~OfOp(Head(q), e),
         NamesOf(t.lane[d], k.op[d], k.cancel[d], Tail(q), d),
         OwedOf(t.lane[d], k.op[d], Tail(q), d)
  PROVE  Names(t, k, Tail(q)) /\ Owed(t, k, Tail(q))
  <1> SUFFICES ASSUME NEW e \in Dirs, e # d
               PROVE  /\ NamesOf(t.lane[e], k.op[e], k.cancel[e], Tail(q), e)
                      /\ OwedOf(t.lane[e], k.op[e], Tail(q), e)
    BY DEF Names, Owed
  <1>1. /\ NamesOf(s.lane[e], k.op[e], k.cancel[e], Tail(q), e)
        /\ OwedOf(s.lane[e], k.op[e], Tail(q), e)
    BY TailNames, Zenon
  <1>2. QED
    BY <1>1

(* The final completion of an operation: CompleteReadOperation(). *)
LEMMA FinalGood ==
  ASSUME NEW s, UGood(s), NEW k \in UKernel, NEW q \in Seq(UCqe), q # <<>>, QueueOk(k, q),
         Names(s, k, q), Owed(s, k, q), NEW d \in Dirs, OfOp(Head(q), d), Final(Head(q))
  PROVE  LET t == CompleteOperation(s, d)
         IN  Ends(s, d, t) /\ Names(t, k, Tail(q)) /\ Owed(t, k, Tail(q))
  <1> DEFINE t == CompleteOperation(s, d)
             h == Head(q)
             r == Tail(q)
  <1>1. /\ Running(s.lane[d]) /\ NamesOf(s.lane[d], k.op[d], k.cancel[d], r, d)
        /\ k.op[d] = "none" /\ ~AnyOp(r, d)
    BY TailNames, Zenon
  <1>2. /\ Ends(s, d, t) /\ (t.lane[d].owner = NoOne \/ t.lane[d].primary)
        /\ Cancelling(s.lane[d]) => Cancelling(t.lane[d])
    BY <1>1, CompleteOperationGood DEF Running
  <1> HIDE DEF t, h, r
  <1>3. NamesOf(t.lane[d], k.op[d], k.cancel[d], r, d) /\ OwedOf(t.lane[d], k.op[d], r, d)
    BY <1>1, <1>2, Zenon DEF NamesOf, OwedOf, Running
  <1>4. \A e \in Dirs : e # d => t.lane[e] = s.lane[e] /\ ~OfOp(Head(q), e)
    BY <1>2 DEF Ends, OfOp
  <1>5. Names(t, k, r) /\ Owed(t, k, r)
    BY <1>3, <1>4, OneLane DEF r
  <1>6. QED
    BY <1>2, <1>5 DEF t, r

(* OnComplete(): the result is the completion's, or ETIMEDOUT if the deadline came first. *)
LEMMA OnCompleteGood ==
  ASSUME NEW s, UGood(s), NEW k \in UKernel, NEW q \in Seq(UCqe), q # <<>>, QueueOk(k, q),
         Names(s, k, q), Owed(s, k, q), Head(q).what = "op"
  PROVE  Dispatched(s, Head(q), OnComplete(s, Head(q).dir, Head(q)), k, Tail(q))
  <1> DEFINE h == Head(q)
             r == Tail(q)
             d == h.dir
             l == s.lane[d]
             v == IF l.late THEN Result("ETIMEDOUT", 0) ELSE h.res
             u == [s EXCEPT !.res[l.owner] = v]
             t == OnComplete(s, d, h)
  <1>1. h \in UCqe /\ d \in Dirs /\ OfOp(h, d)
    BY TailOf, Zenon DEF UCqe, OfOp
  <1>2. Running(l) /\ l.owner # NoOne
    BY <1>1, TailNames, Zenon DEF Running
  <1>3. /\ l.owner \in Role(d) /\ l.owner \in Users /\ ValidConstants
    BY <1>1, <1>2, OwnerIs DEF UGood
  <1>4. v \in UResult
    BY <1>1 DEF UCqe, UResult, UKinds, Result
  <1>5. v \in {h.res, Result("ETIMEDOUT", 0)}
    OBVIOUS
  <1> HIDE DEF v
  <1>6. /\ UGood(u) /\ u.lane = s.lane /\ u.left = s.left /\ u.ready = s.ready
        /\ u.res[l.owner] = v /\ \A a \in Users : a # l.owner => u.res[a] = s.res[a]
    BY <1>3, <1>4, ResultGood
  <1>7. t = IF h.more THEN u ELSE CompleteOperation(u, d)
    BY DEF OnComplete, v
  <1> HIDE DEF u, t, h, r
  <1>8. Names(u, k, q) /\ Owed(u, k, q) /\ (Writing(u) <=> Writing(s))
    BY <1>6 DEF Names, Owed, Writing
  <1>9. /\ OfSend(h) => u.res[Writer] \in {h.res, Result("ETIMEDOUT", 0)}
        /\ ~OfSend(h) => u.res[Writer] = s.res[Writer]
    <2>1. h.what = "op" /\ Writer \in Users
      BY DEF h, Users
    <2>2. CASE d = "write"
      BY <1>3, <1>5, <1>6, <2>1, <2>2 DEF Role, OfSend
    <2>3. CASE d # "write"
      BY <1>1, <1>3, <1>6, <2>1, <2>3 DEF Role, OfSend, Dirs, ValidConstants
    <2>4. QED
      BY <2>2, <2>3
  <1>10. CASE h.more
    <2>1. ~Final(h)
      BY <1>10 DEF Final, h
    <2>2. \A e \in Dirs : /\ NamesOf(u.lane[e], k.op[e], k.cancel[e], r, e)
                          /\ OwedOf(u.lane[e], k.op[e], r, e)
      BY <1>8, <2>1, TailNames, Zenon DEF h, r
    <2>3. t = u
      BY <1>7, <1>10
    <2>4. QED
      BY <1>6, <1>8, <1>9, <2>2, <2>3, Zenon DEF Dispatched, Names, Owed, t, h, r
  <1>11. CASE ~h.more
    <2>1. Final(h) /\ t = CompleteOperation(u, d)
      BY <1>7, <1>11 DEF Final
    <2>2. Ends(u, d, t) /\ Names(t, k, r) /\ Owed(t, k, r)
      BY <1>1, <1>6, <1>8, <2>1, FinalGood, Zenon DEF h, r
    <2>3. /\ UGood(t) /\ t.res = u.res /\ t.left = u.left /\ (Writing(t) <=> Writing(u))
          /\ \A e \in Dirs : t.lane[e].late => s.lane[e].late
      BY <1>6, <2>2 DEF Ends
    <2>4. QED
      BY <1>6, <1>8, <1>9, <2>2, <2>3, Zenon DEF Dispatched, t, h, r
  <1>12. QED
    BY <1>10, <1>11

(* OnNotification(): the buffer is the coroutine's again. *)
LEMMA OnNotificationGood ==
  ASSUME NEW s, UGood(s), NEW k \in UKernel, NEW q \in Seq(UCqe), q # <<>>, QueueOk(k, q),
         Names(s, k, q), Owed(s, k, q), Head(q).what = "notify"
  PROVE  Dispatched(s, Head(q), OnNotification(s, Head(q).dir), k, Tail(q))
  <1> DEFINE h == Head(q)
             t == OnNotification(s, h.dir)
  <1>1. h \in UCqe /\ h.dir \in Dirs /\ OfOp(h, h.dir) /\ Final(h) /\ ~OfSend(h)
    BY TailOf, Zenon DEF UCqe, OfOp, Final, OfSend
  <1>2. t = CompleteOperation(s, h.dir)
    BY DEF OnNotification
  <1> HIDE DEF t
  <1>3. Ends(s, h.dir, t) /\ Names(t, k, Tail(q)) /\ Owed(t, k, Tail(q))
    BY <1>1, <1>2, FinalGood
  <1> HIDE DEF h
  <1>4. QED
    BY <1>1, <1>3, Zenon DEF Dispatched, Ends, h, t

(* CompleteDeadlineCancel(): an operation that waited for it is over. *)
LEMMA OnCancelGood ==
  ASSUME NEW s, UGood(s), NEW k \in UKernel, NEW q \in Seq(UCqe), q # <<>>, QueueOk(k, q),
         Names(s, k, q), Owed(s, k, q), Head(q).what = "cancel"
  PROVE  Dispatched(s, Head(q), CompleteDeadlineCancel(s, Head(q).dir), k, Tail(q))
  <1> DEFINE h == Head(q)
             r == Tail(q)
             d == h.dir
             t == CompleteDeadlineCancel(s, d)
  <1>1. h \in UCqe /\ d \in Dirs /\ OfCancel(h, d) /\ ~OfSend(h) /\ \A e : ~OfOp(h, e)
    BY TailOf, Zenon DEF UCqe, OfCancel, OfOp, OfSend
  <1>2. /\ Cancelling(s.lane[d]) /\ k.cancel[d] = "none" /\ ~AnyCancel(r, d)
        /\ NamesOf(s.lane[d], k.op[d], k.cancel[d], r, d) /\ OwedOf(s.lane[d], k.op[d], r, d)
    BY <1>1, TailNames, Zenon
  <1>3. /\ Ends(s, d, t)
        /\ ~s.lane[d].primary => t.lane[d].owner = s.lane[d].owner /\ ~t.lane[d].primary
        /\ s.lane[d].primary => t.lane[d].owner = NoOne
    BY <1>1, <1>2, CompleteCancelGood, Zenon
  <1> HIDE DEF t, r, h
  <1>4. NamesOf(t.lane[d], k.op[d], k.cancel[d], r, d) /\ OwedOf(t.lane[d], k.op[d], r, d)
    BY <1>2, <1>3, Zenon DEF NamesOf, OwedOf, Running
  <1>5. \A e \in Dirs : e # d => t.lane[e] = s.lane[e] /\ ~OfOp(h, e)
    BY <1>1, <1>3, Zenon DEF Ends
  <1>6. Names(t, k, r) /\ Owed(t, k, r)
    BY <1>1, <1>4, <1>5, OneLane, Zenon DEF r, h
  <1>7. QED
    BY <1>1, <1>3, <1>6, Zenon DEF Dispatched, Ends, h, t, r

(* OnCancelComplete(): Close()'s cancel is terminal. *)
LEMMA OnSweepGood ==
  ASSUME NEW s, UGood(s), NEW k \in UKernel, NEW q \in Seq(UCqe), q # <<>>, QueueOk(k, q),
         Names(s, k, q), Owed(s, k, q), Head(q).what = "sweep"
  PROVE  Dispatched(s, Head(q), OnCancelComplete(s), k, Tail(q))
  <1> DEFINE h == Head(q)
             u == [s EXCEPT !.swept = TRUE]
             t == OnCancelComplete(s)
  <1>1. ~OfSend(h) /\ \A e : ~OfOp(h, e)
    BY DEF OfOp, OfSend
  <1>2. /\ u \in UStream /\ u.lane = s.lane /\ u.res = s.res /\ u.left = s.left
        /\ u.ready = s.ready /\ u.fd = s.fd /\ u.life = s.life
    BY Zenon DEF UGood, UStream
  <1>3. t = TryComplete(u)
    BY DEF OnCancelComplete
  <1> HIDE DEF t, u
  <1>4. UGood(u)
    BY <1>2 DEF UGood
  <1>5. UGood(t) /\ SameStream(u, t)
    BY <1>3, <1>4, TryCompleteGood
  <1>6. t.lane = s.lane /\ t.left = s.left /\ t.res = s.res /\ (Writing(t) <=> Writing(s))
    BY <1>2, <1>5 DEF SameStream, SameReady, Writing, Users
  <1>7. \A e \in Dirs : /\ NamesOf(s.lane[e], k.op[e], k.cancel[e], Tail(q), e)
                        /\ OwedOf(s.lane[e], k.op[e], Tail(q), e)
    BY <1>1, TailNames
  <1>8. QED
    BY <1>1, <1>5, <1>6, <1>7, Zenon DEF Dispatched, Names, Owed, h, t

(* Every completion finds its operation. *)
LEMMA DispatchGood ==
  ASSUME NEW s, UGood(s), NEW k \in UKernel, NEW q \in Seq(UCqe), q # <<>>, QueueOk(k, q),
         Names(s, k, q), Owed(s, k, q)
  PROVE  Dispatched(s, Head(q), Dispatch(s, Head(q)), k, Tail(q))
  <1> DEFINE h == Head(q)
  <1>1. h.what \in {"op", "notify", "cancel", "sweep"}
    BY TailOf, Zenon DEF UCqe
  <1>2. CASE h.what = "op"
    BY <1>2, OnCompleteGood DEF Dispatch
  <1>3. CASE h.what = "notify"
    BY <1>3, OnNotificationGood DEF Dispatch
  <1>4. CASE h.what = "cancel"
    BY <1>4, OnCancelGood DEF Dispatch
  <1>5. CASE h.what = "sweep"
    BY <1>5, OnSweepGood DEF Dispatch
  <1>6. QED
    BY <1>1, <1>2, <1>3, <1>4, <1>5

-----------------------------------------------------------------------------
(* The start of an operation.                                              *)

(* The lane after BeginReadOperation(). *)
Begun(c, copy, due) ==
  [NewLane EXCEPT !.owner = c, !.copy = copy, !.deadline = due,
                  !.timer = IF due = "ahead" THEN "set" ELSE "off"]

(* The members BeginReadOperation() leaves. *)
LEMMA BegunIs ==
  ASSUME NEW c \in Users, NEW copy \in BOOLEAN, NEW due \in {"none", "ahead", "past"}
  PROVE  LET l == Begun(c, copy, due)
         IN  /\ l \in ULane /\ l.owner = c /\ l.copy = copy /\ ~l.requested /\ ~l.submitted
             /\ ~l.primary /\ ~l.late /\ l.deadline = due
             /\ l.timer = (IF due = "ahead" THEN "set" ELSE "off")
  BY Zenon DEF Begun, NewLane, ULane

(* BeginReadOperation() by a coroutine that is not suspended, on an open stream. *)
LEMMA BeginGood ==
  ASSUME NEW s, UGood(s), NEW d \in Dirs, NEW c \in Role(d), NEW copy \in BOOLEAN,
         ~InReady(s.ready, c), s.fd
  PROVE  LET l == Begun(c, copy, s.lane[d].deadline)
             t == Begin(s, c, d, copy)
         IN  UGood(t) /\ SetsLane(s, d, l, t)
  <1> DEFINE due == s.lane[d].deadline
             l == Begun(c, copy, due)
             t == Begin(s, c, d, copy)
  <1>1. due \in {"none", "ahead", "past"} /\ ValidConstants
    BY DEF UGood, UStream, ULane
  <1>2. c \in Users /\ c # NoOne
    BY <1>1 DEF Role, Users, ValidConstants
  <1>3. t = [s EXCEPT !.lane[d] = l]
    BY DEF Begin, Begun
  <1>4. /\ l \in ULane /\ l.owner = c /\ ~l.requested /\ ~l.submitted /\ ~l.primary
        /\ l.deadline = due /\ l.timer = (IF due = "ahead" THEN "set" ELSE "off")
    BY <1>1, <1>2, BegunIs
  <1> HIDE DEF l, t
  <1>5. LaneOk(l, d, s.fd)
    BY <1>2, <1>4 DEF LaneOk, LaneInv
  <1>6. \A a \in Role(d) : OneReader /\ InReady(s.ready, a) => a = l.handle
    BY DEF Role, OneReader
  <1>7. UGood(t) /\ SetsLane(s, d, l, t)
    BY <1>3, <1>4, <1>5, <1>6, LaneSet, Zenon
  <1>8. QED
    BY <1>7 DEF l, t

(* What an await_suspend() of coroutine c in direction d makes of stream s: it is suspended in
   its operation, or it has an answer and the lane is as free as it was. *)
BeginsOp(s, c, d, t) ==
  /\ s.lane[d].owner = NoOne /\ t.lane[d].owner = c /\ ~t.lane[d].primary
  /\ ~Cancelling(t.lane[d])

KeepsLane(l, m) == (Running(m) <=> Running(l)) /\ (Cancelling(l) => Cancelling(m))

Starts(s, c, d, t) ==
  /\ UGood(t) /\ t.left = s.left /\ SameReady(s, t)
  /\ \A e \in Dirs : e # d => t.lane[e] = s.lane[e]
  /\ \A a \in Users : a # c => t.res[a] = s.res[a]
  /\ t.lane[d].late => s.lane[d].late
  /\ \/ BeginsOp(s, c, d, t)
     \/ /\ KeepsLane(s.lane[d], t.lane[d]) /\ t.lane[d].owner = s.lane[d].owner
        /\ t.res[c].kind # "ok"

(* The answer of an operation that does not start. *)
LEMMA AnswerStarts ==
  ASSUME NEW s, UGood(s), NEW d \in Dirs, NEW c \in Users, NEW kind \in UKinds, kind # "ok"
  PROVE  Starts(s, c, d, Answer(s, c, kind))
  <1> DEFINE t == Answer(s, c, kind)
             r == Result(kind, 0)
  <1>1. r \in UResult /\ r.kind = kind
    BY DEF Result, UResult
  <1>2. t = [s EXCEPT !.res[c] = r]
    BY DEF Answer
  <1> HIDE DEF r, t
  <1>3. /\ UGood(t) /\ t.lane = s.lane /\ t.left = s.left /\ t.ready = s.ready
        /\ t.res[c] = r /\ \A a \in Users : a # c => t.res[a] = s.res[a]
    BY <1>1, <1>2, ResultGood
  <1>4. QED
    BY <1>1, <1>3 DEF Starts, KeepsLane, SameReady, t

(* AbortReadOperation() of an operation that could not be submitted. *)
LEMMA AbortStarts ==
  ASSUME NEW s, UGood(s), NEW d \in Dirs, NEW c \in Role(d), NEW copy \in BOOLEAN,
         ~InReady(s.ready, c), s.fd, s.lane[d].owner = NoOne, NEW kind \in UKinds, kind # "ok"
  PROVE  Starts(s, c, d, Answer(Release(Begin(s, c, d, copy), d), c, kind))
  <1> DEFINE b == Begin(s, c, d, copy)
             l == Begun(c, copy, s.lane[d].deadline)
             u == Release(b, d)
             t == Answer(u, c, kind)
  <1>1. UGood(b) /\ SetsLane(s, d, l, b)
    BY BeginGood
  <1>2. s.lane[d].deadline \in {"none", "ahead", "past"} /\ c \in Users
    BY DEF UGood, UStream, ULane, Role, Users
  <1>3. l \in ULane
    BY <1>2, BegunIs
  <1>4. /\ Freed(l).owner = NoOne /\ ~Freed(l).submitted /\ ~Freed(l).late
    BY <1>3, FreedIs
  <1>5. ~Cancelling(s.lane[d])
    BY DEF UGood, LaneOk, LaneInv, Cancelling
  <1> HIDE DEF b, l
  <1>6. Frees(b, d, u)
    BY <1>1, ReleaseGood
  <1> HIDE DEF u
  <1>7. Starts(u, c, d, t)
    BY <1>2, <1>6, AnswerStarts DEF Frees
  <1> HIDE DEF t
  <1>8. t.lane[d].owner = NoOne /\ ~t.lane[d].late /\ t.res[c].kind # "ok"
    <2>1. u.lane[d] = Freed(l)
      BY <1>1, <1>6 DEF Frees, SetsLane
    <2>2. c # NoOne
      BY <1>2 DEF UGood, ValidConstants, Users
    <2>3. t.lane[d].owner = NoOne /\ ~t.lane[d].late
      BY <1>4, <1>7, <2>1 DEF Starts, BeginsOp, t, Answer
    <2>4. QED
      BY <1>7, <2>1, <2>2, <2>3 DEF Starts, BeginsOp
  <1>9. KeepsLane(s.lane[d], t.lane[d])
    BY <1>5, <1>8 DEF KeepsLane, Running
  <1>10. /\ UGood(t) /\ t.left = s.left /\ SameReady(s, t)
         /\ \A e \in Dirs : e # d => t.lane[e] = s.lane[e]
         /\ \A a \in Users : a # c => t.res[a] = s.res[a]
    BY <1>1, <1>6, <1>7 DEF Starts, Frees, SetsLane, SameReady
  <1>11. QED
    BY <1>8, <1>9, <1>10, Zenon DEF Starts, b, u, t

(* The await_suspend() members. *)
LEMMA StartGood ==
  ASSUME NEW s, UGood(s), NEW d \in Dirs, NEW c \in Role(d), NEW copy \in BOOLEAN,
         ~InReady(s.ready, c), NEW fail
  PROVE  Starts(s, c, d, Start(s, c, d, copy, fail))
  <1> DEFINE t == Start(s, c, d, copy, fail)
             b == Begin(s, c, d, copy)
             l == Begun(c, copy, s.lane[d].deadline)
             Abort(kind) == Answer(Release(b, d), c, kind)
             v == Validate(s, d)
  <1>1. c \in Users /\ s.life \in ULife
    BY DEF Role, Users, UGood, UStream
  <1>2. v \in UKinds /\ (v = "ok" => s.fd)
    BY <1>1 DEF Validate, ValidateRead, ValidateWrite, ValidateResource, ULife, UGood, UKinds
  <1>3. \A kind \in UKinds : kind # "ok" => Starts(s, c, d, Answer(s, c, kind))
    BY <1>1, AnswerStarts
  <1>4. \A kind \in UKinds : s.fd /\ s.lane[d].owner = NoOne /\ kind # "ok" =>
          Starts(s, c, d, Abort(kind))
    BY AbortStarts
  <1>5. s.fd /\ s.lane[d].owner = NoOne => Starts(s, c, d, b)
    <2> SUFFICES ASSUME s.fd, s.lane[d].owner = NoOne PROVE Starts(s, c, d, b)
      OBVIOUS
    <2>1. UGood(b) /\ SetsLane(s, d, l, b)
      BY BeginGood
    <2>2. l.owner = c /\ ~l.submitted /\ ~l.primary /\ ~l.late
      BY <1>1, BegunIs DEF UGood, UStream, ULane
    <2> HIDE DEF b, l
    <2>3. BeginsOp(s, c, d, b)
      BY <2>1, <2>2 DEF BeginsOp, SetsLane, Cancelling
    <2>4. QED
      BY <2>1, <2>2, <2>3 DEF Starts, SetsLane, SameReady
  <1>6. t = IF v # "ok" THEN Answer(s, c, v)
            ELSE IF s.lane[d].owner # NoOne THEN Answer(s, c, "EBUSY")
            ELSE IF d = "read" /\ IsReadShutdown(s.life) THEN Answer(s, c, "eof")
            ELSE IF s.lane[d].deadline = "past" THEN Abort("ETIMEDOUT")
            ELSE IF s.lane[d].deadline = "ahead" /\ fail = "timer" THEN Abort("ENOMEM")
            ELSE IF fail = "sqe" THEN Abort("ENOSPC")
            ELSE b
    BY Zenon DEF Start
  <1>7. {"EBUSY", "eof", "ETIMEDOUT", "ENOMEM", "ENOSPC"} \subseteq UKinds \ {"ok"}
    BY DEF UKinds
  <1> HIDE DEF t, b, v, Abort
  <1>8. Starts(s, c, d, t)
    BY <1>2, <1>3, <1>4, <1>5, <1>6, <1>7
  <1>9. QED
    BY <1>8 DEF t

(* What the loop of Write() makes of stream s, the socket having accepted o: its next send is
   pending and has the rest of the buffer, or Write() is over. *)
WriteGoes(s, t, o) ==
  /\ UGood(t)
  /\ \A e \in Dirs : e # "write" => t.lane[e] = s.lane[e]
  /\ t.lane["write"].late => s.lane["write"].late
  /\ \/ BeginsOp(s, Writer, "write", t) /\ t.left # 0 /\ o + t.left = WriteSize
     \/ /\ KeepsLane(s.lane["write"], t.lane["write"]) /\ ~Writing(t) /\ t.left = 0
        /\ t.res[Writer].kind = "ok" => o = WriteSize

(* The writer has neither a send pending nor work. *)
Resting(s) == s.lane["write"].owner = NoOne /\ ~InReady(s.ready, Writer)

(* Write() is over. *)
LEMMA WriteEndsGood ==
  ASSUME NEW s, UGood(s), Resting(s), NEW kind \in {"ok", "failed"}, NEW o,
         kind = "ok" => o = WriteSize
  PROVE  LET t == WriteEnds(s, kind)
         IN  /\ WriteGoes(s, t, o) /\ t.lane = s.lane /\ ~Writing(t) /\ t.left = 0
             /\ t.res[Writer].kind = kind
  <1> DEFINE r == Result(kind, 0)
             t == WriteEnds(s, kind)
  <1>1. r \in UResult /\ r.kind = kind
    BY DEF Result, UResult, UKinds
  <1>2. s \in UStream /\ s.res \in [Users -> UResult] /\ Writer \in Users
    BY DEF UGood, UStream, Users
  <1>3. t = [s EXCEPT !.left = 0, !.copied = FALSE, !.res[Writer] = r]
    BY DEF WriteEnds
  <1> HIDE DEF r, t
  <1>4. /\ t \in UStream /\ t.lane = s.lane /\ t.ready = s.ready /\ t.fd = s.fd
        /\ t.life = s.life /\ t.left = 0 /\ t.res[Writer] = r
    <2> DEFINE res == [s.res EXCEPT ![Writer] = r]
    <2>1. res \in [Users -> UResult] /\ res[Writer] = r
      BY <1>1, <1>2
    <2>2. t = [s EXCEPT !.left = 0, !.copied = FALSE, !.res = res]
      BY <1>2, <1>3 DEF UStream
    <2> HIDE DEF res
    <2>3. QED
      BY <1>2, <2>1, <2>2, Zenon DEF UStream
  <1>5. UGood(t) /\ ~Writing(t)
    BY <1>4 DEF UGood, Writing, Resting
  <1>6. KeepsLane(s.lane["write"], t.lane["write"])
    BY <1>4 DEF KeepsLane
  <1>7. t.res[Writer].kind = kind
    BY <1>1, <1>4
  <1>8. t.lane["write"].late => s.lane["write"].late
    BY <1>4
  <1>9. WriteGoes(s, t, o)
    BY <1>4, <1>5, <1>6, <1>7, <1>8 DEF WriteGoes
  <1>10. QED
    BY <1>4, <1>5, <1>7, <1>9 DEF t

(* The writer waits in the writing direction or not at all. *)
LEMMA WriterWaits ==
  ASSUME NEW s, UGood(s)
  PROVE  /\ Waiting(s, Writer) <=> s.lane["write"].owner = Writer
         /\ ~Waiting(s, Writer) <=> s.lane["write"].owner = NoOne
  BY DEF Waiting, UGood, LaneOk, Role, Dirs, ValidConstants

(* A send of what is left, and again as an ordinary one for want of memory. *)
LEMMA SendGood ==
  ASSUME NEW s, UGood(s), Resting(s), NEW copy \in BOOLEAN, NEW fail, NEW o \in Nat,
         s.left # 0, o + s.left = WriteSize
  PROVE  WriteGoes(s, Send(s, copy, fail), o)
  <1> DEFINE t == Start(s, Writer, "write", copy, fail)
             u == IF copy /\ ~Waiting(t, Writer) /\ t.res[Writer].kind = "ENOMEM"
                  THEN Start(s, Writer, "write", FALSE, "none") ELSE t
             w == [u EXCEPT !.copied = u.lane["write"].copy]
             x == WriteEnds(u, "failed")
             v == Send(s, copy, fail)
  <1>1. Starts(s, Writer, "write", u)
    <2>1. Starts(s, Writer, "write", t)
      BY StartGood DEF Resting, Role, Dirs
    <2>2. Starts(s, Writer, "write", Start(s, Writer, "write", FALSE, "none"))
      BY StartGood, Zenon DEF Resting, Role, Dirs
    <2>3. QED
      BY <2>1, <2>2, Zenon
  <1>2. v = IF Waiting(u, Writer) THEN w ELSE x
    BY DEF Send
  <1> HIDE DEF u, v
  <1>3. /\ UGood(u) /\ u.left = s.left /\ SameReady(s, u)
        /\ \A e \in Dirs : e # "write" => u.lane[e] = s.lane[e]
        /\ u.lane["write"].late => s.lane["write"].late
    BY <1>1 DEF Starts
  <1>4. CASE Waiting(u, Writer)
    <2>1. u.lane["write"].owner = Writer /\ Writer # NoOne
      BY <1>3, <1>4, WriterWaits DEF UGood, ValidConstants
    <2>2. BeginsOp(s, Writer, "write", u)
      BY <1>1, <2>1 DEF Starts, Resting
    <2>3. /\ w \in UStream /\ w.lane = u.lane /\ w.left = u.left /\ w.ready = u.ready
          /\ w.fd = u.fd /\ w.life = u.life
      <3>1. u \in UStream /\ u.lane["write"].copy \in BOOLEAN
        BY <1>3 DEF UGood, UStream, ULane, Dirs
      <3>2. QED
        BY <3>1 DEF UStream
    <2> HIDE DEF w
    <2>4. UGood(w)
      BY <1>3, <2>3 DEF UGood
    <2>5. BeginsOp(s, Writer, "write", w)
      BY <2>2, <2>3 DEF BeginsOp
    <2>6. WriteGoes(s, w, o)
      BY <1>3, <2>3, <2>4, <2>5 DEF WriteGoes
    <2>7. QED
      BY <1>2, <1>4, <2>6 DEF v
  <1>5. CASE ~Waiting(u, Writer)
    <2>1. u.lane["write"].owner = NoOne
      BY <1>3, <1>5, WriterWaits
    <2>2. Resting(u)
      BY <1>3, <2>1 DEF Resting, SameReady, Users
    <2>3. x.lane = u.lane /\ ~Writing(x) /\ x.left = 0 /\ x.res[Writer].kind = "failed"
          /\ UGood(x)
      BY <1>3, <2>2, WriteEndsGood DEF WriteGoes
    <2> HIDE DEF x
    <2>4. KeepsLane(s.lane["write"], x.lane["write"])
      <3>1. ~BeginsOp(s, Writer, "write", u)
        BY <2>1 DEF BeginsOp, UGood, ValidConstants
      <3>2. QED
        BY <1>1, <2>3, <3>1 DEF Starts
    <2>5. WriteGoes(s, x, o)
      BY <1>3, <2>3, <2>4 DEF WriteGoes
    <2>6. QED
      BY <1>2, <1>5, <2>5 DEF v
  <1>6. QED
    BY <1>4, <1>5

(* What the result r of a send says of what it moved, left being what it was to send. *)
Moved(r, left, o) ==
  /\ r.kind = "ok" => r.n \in 1..left /\ o + left = WriteSize + r.n
  /\ r.kind = "ENOMEM" => o + left = WriteSize

(* What is left after a send, in integers. *)
LEMMA LeftIs ==
  ASSUME NEW left \in Nat, NEW n \in 1..left, NEW o \in Nat, NEW size \in Nat,
         o + left = size + n
  PROVE  /\ n = left => o = size
         /\ n # left => left - n \in Nat /\ left - n # 0 /\ o + (left - n) = size
  OBVIOUS

(* Write() goes on with the result of its send. *)
LEMMA WriteResumedGood ==
  ASSUME NEW s, UGood(s), Resting(s), NEW copy \in BOOLEAN, NEW fail, NEW o \in Nat,
         s.left # 0, Moved(s.res[Writer], s.left, o)
  PROVE  WriteGoes(s, WriteResumed(s, copy, fail), o)
  <1> DEFINE r == s.res[Writer]
             t == WriteResumed(s, copy, fail)
             u == [s EXCEPT !.left = @ - r.n]
  <1>1. s \in UStream /\ s.left \in Nat /\ WriteSize \in Nat
    BY DEF UGood, UStream, ValidConstants
  <1>2. t = IF r.kind = "ENOMEM" /\ s.copied THEN Send(s, FALSE, fail)
            ELSE IF r.kind # "ok" THEN WriteEnds(s, "failed")
            ELSE IF r.n = s.left THEN WriteEnds(s, "ok")
            ELSE Send(u, copy, fail)
    BY DEF WriteResumed
  <1>3. CASE r.kind = "ENOMEM" /\ s.copied
    BY <1>2, <1>3, SendGood, Zenon DEF Moved
  <1>4. CASE ~(r.kind = "ENOMEM" /\ s.copied) /\ r.kind # "ok"
    BY <1>2, <1>4, WriteEndsGood, Zenon
  <1>5. CASE r.kind = "ok" /\ r.n = s.left
    <2>1. o = WriteSize
      BY <1>1, <1>5, LeftIs DEF Moved
    <2>2. QED
      BY <1>2, <1>5, <2>1, WriteEndsGood
  <1>6. CASE r.kind = "ok" /\ r.n # s.left
    <2>1. s.left - r.n \in Nat /\ s.left - r.n # 0 /\ o + (s.left - r.n) = WriteSize
      BY <1>1, <1>6, LeftIs DEF Moved
    <2>2. /\ u \in UStream /\ u.lane = s.lane /\ u.left = s.left - r.n /\ u.ready = s.ready
          /\ u.fd = s.fd /\ u.life = s.life
      BY <1>1, <2>1 DEF UStream
    <2>3. t = Send(u, copy, fail)
      BY <1>2, <1>6
    <2> HIDE DEF u, t
    <2>4. UGood(u) /\ Resting(u)
      BY <2>2 DEF UGood, Resting
    <2>5. WriteGoes(u, t, o)
      BY <2>1, <2>2, <2>3, <2>4, SendGood
    <2>6. WriteGoes(s, t, o)
      BY <2>2, <2>5 DEF WriteGoes, BeginsOp
    <2>7. QED
      BY <2>6 DEF t
  <1>7. QED
    BY <1>3, <1>4, <1>5, <1>6

-----------------------------------------------------------------------------
(* Deadlines and closing.                                                  *)

(* t is s but for members that do not concern the operations. *)
Steady(s, t) ==
  /\ UGood(t) /\ t.left = s.left /\ (Writing(t) <=> Writing(s))
  /\ t.res[Writer] = s.res[Writer]
  /\ \A d \in Dirs : KeepsLane(s.lane[d], t.lane[d])

(* A deadline times out an operation when it has passed and still stands. *)
LateOk(s, t) ==
  \A d \in Dirs : ~s.lane[d].late /\ t.lane[d].late => s.lane[d].deadline = "past"

(* A lane whose operation stays as it was. *)
LEMMA LaneSteady ==
  ASSUME NEW s, UGood(s), NEW d \in Dirs, NEW m \in ULane, LaneInv(m),
         m.owner = s.lane[d].owner, m.primary = s.lane[d].primary,
         m.handle = s.lane[d].handle, Cancelling(s.lane[d]) => Cancelling(m),
         ~s.lane[d].late /\ m.late => s.lane[d].deadline = "past"
  PROVE  Steady(s, [s EXCEPT !.lane[d] = m]) /\ LateOk(s, [s EXCEPT !.lane[d] = m])
  <1> DEFINE t == [s EXCEPT !.lane[d] = m]
  <1>1. LaneOk(m, d, s.fd)
    BY DEF LaneOk, UGood
  <1>2. UGood(t) /\ SetsLane(s, d, m, t)
    BY <1>1, LaneSet
  <1> HIDE DEF t
  <1>3. Writing(t) <=> Writing(s)
    BY <1>2 DEF Writing, SetsLane, Dirs
  <1>4. \A e \in Dirs : KeepsLane(s.lane[e], t.lane[e])
    BY <1>2 DEF SetsLane, KeepsLane, Running
  <1>5. LateOk(s, t)
    BY <1>2 DEF SetsLane, LateOk
  <1>6. QED
    BY <1>2, <1>3, <1>4, <1>5 DEF Steady, SetsLane, t

(* HandleReadDeadline(): the timer that is due is the one of the deadline that stands. *)
LEMMA HandleDeadlineGood ==
  ASSUME NEW s, UGood(s), NEW d \in Dirs, s.lane[d].timer = "due", NEW fail
  PROVE  LET t == HandleDeadline(s, d, fail) IN Steady(s, t) /\ LateOk(s, t)
  <1> DEFINE l == s.lane[d]
             sub == fail = "none"
             tm == IF fail = "sqe" THEN "retry" ELSE "off"
             m == [l EXCEPT !.late = TRUE, !.requested = TRUE, !.submitted = sub, !.timer = tm]
  <1>1. s \in UStream /\ s.lane \in [Dirs -> ULane] /\ l \in ULane /\ LaneInv(l)
    BY DEF UGood, UStream, LaneOk
  <1>2. HandleDeadline(s, d, fail) = [s EXCEPT !.lane[d] = m]
    <2> DEFINE l1 == [l EXCEPT !.late = TRUE, !.requested = TRUE]
               l2 == [l1 EXCEPT !.submitted = sub, !.timer = tm]
               u == [s EXCEPT !.lane[d].late = TRUE, !.lane[d].requested = TRUE]
    <2>1. HandleDeadline(s, d, fail)
            = [u EXCEPT !.lane[d].submitted = sub, !.lane[d].timer = tm]
      BY DEF HandleDeadline, CancelPending
    <2>2. u = [s EXCEPT !.lane[d] = l1]
      BY <1>1, Zenon DEF UStream, ULane
    <2>3. l1 \in ULane /\ l2 = m
      BY <1>1, Zenon DEF ULane
    <2> HIDE DEF sub, tm, l1, l2, m, u
    <2>4. /\ u \in UStream /\ u.lane \in [Dirs -> ULane] /\ u.lane[d] = l1
          /\ \A x : [u EXCEPT !.lane[d] = x] = [s EXCEPT !.lane[d] = x]
      BY <1>1, <2>2, <2>3, Zenon DEF UStream
    <2>5. [u EXCEPT !.lane[d].submitted = sub, !.lane[d].timer = tm] = [u EXCEPT !.lane[d] = l2]
      BY <2>4, Zenon DEF UStream, ULane, l2
    <2>6. QED
      BY <2>1, <2>3, <2>4, <2>5
  <1>3. sub \in BOOLEAN /\ tm \in {"off", "set", "due", "retry"}
    OBVIOUS
  <1>4. tm # "set" /\ tm # "due" /\ (tm = "retry" => ~sub)
    OBVIOUS
  <1> HIDE DEF sub, tm
  <1>5. /\ m \in ULane /\ m.owner = l.owner /\ m.primary = l.primary /\ m.handle = l.handle
        /\ m.requested /\ m.submitted = sub /\ m.timer = tm /\ m.terminal = l.terminal
    BY <1>1, <1>3, Zenon DEF ULane
  <1> HIDE DEF m
  <1>6. l.owner # NoOne /\ ~l.primary /\ ~Cancelling(l) /\ l.deadline = "past"
    BY <1>1 DEF LaneInv, Cancelling
  <1>7. LaneInv(m)
    BY <1>4, <1>5, <1>6 DEF LaneInv
  <1>8. QED
    BY <1>2, <1>5, <1>6, <1>7, LaneSteady

(* RetryReadDeadlineCancel(). *)
LEMMA CancelPendingGood ==
  ASSUME NEW s, UGood(s), NEW d \in Dirs, s.lane[d].timer = "retry", NEW fail
  PROVE  LET t == CancelPending(s, d, fail) IN Steady(s, t) /\ LateOk(s, t)
  <1> DEFINE l == s.lane[d]
             sub == fail = "none"
             tm == IF fail = "sqe" THEN "retry" ELSE "off"
             m == [l EXCEPT !.submitted = sub, !.timer = tm]
  <1>1. s \in UStream /\ s.lane \in [Dirs -> ULane] /\ l \in ULane /\ LaneInv(l)
    BY DEF UGood, UStream, LaneOk
  <1>2. CancelPending(s, d, fail) = [s EXCEPT !.lane[d] = m]
    BY <1>1, Zenon DEF CancelPending, UStream, ULane
  <1>3. sub \in BOOLEAN /\ tm \in {"off", "set", "due", "retry"}
    OBVIOUS
  <1>4. tm # "set" /\ tm # "due" /\ (tm = "retry" => ~sub)
    OBVIOUS
  <1> HIDE DEF sub, tm
  <1>5. /\ m \in ULane /\ m.owner = l.owner /\ m.primary = l.primary /\ m.handle = l.handle
        /\ m.requested = l.requested /\ m.submitted = sub /\ m.timer = tm
        /\ m.terminal = l.terminal /\ m.late = l.late
    BY <1>1, <1>3, Zenon DEF ULane
  <1> HIDE DEF m
  <1>6. l.owner # NoOne /\ l.requested /\ ~l.primary /\ ~Cancelling(l)
    BY <1>1 DEF LaneInv, Cancelling
  <1>7. LaneInv(m)
    BY <1>4, <1>5, <1>6 DEF LaneInv
  <1>8. QED
    BY <1>2, <1>5, <1>6, <1>7, LaneSteady

(* SetReadDeadline(): the timer follows the deadline until the cancel is requested. *)
LEMMA SetDeadlineGood ==
  ASSUME NEW s, UGood(s), NEW d \in Dirs, NEW due \in {"none", "ahead", "past"}, NEW fail
  PROVE  LET t == SetDeadline(s, d, due, fail) IN Steady(s, t) /\ LateOk(s, t)
  <1> DEFINE l == s.lane[d]
             arms == l.owner # NoOne /\ ~l.requested /\ due # "none" /\ fail = "none"
             tm == IF ~arms THEN "off" ELSE IF due = "past" THEN "due" ELSE "set"
             m == [l EXCEPT !.deadline = due, !.timer = tm]
  <1>1. s \in UStream /\ s.lane \in [Dirs -> ULane] /\ l \in ULane /\ LaneInv(l)
    BY DEF UGood, UStream, LaneOk
  <1>2. SetDeadline(s, d, due, fail) = [s EXCEPT !.lane[d] = m]
    BY <1>1, Zenon DEF SetDeadline, UStream, ULane
  <1>3. /\ tm \in {"off", "set", "due"}
        /\ tm = "set" => ~l.requested /\ due = "ahead" /\ l.owner # NoOne
        /\ tm = "due" => ~l.requested /\ due = "past" /\ l.owner # NoOne
    OBVIOUS
  <1> HIDE DEF tm
  <1>4. /\ m \in ULane /\ m.owner = l.owner /\ m.primary = l.primary /\ m.handle = l.handle
        /\ m.requested = l.requested /\ m.submitted = l.submitted /\ m.timer = tm
        /\ m.terminal = l.terminal /\ m.late = l.late /\ m.deadline = due
    BY <1>1, <1>3, Zenon DEF ULane
  <1> HIDE DEF m
  <1>5. LaneInv(m)
    BY <1>1, <1>3, <1>4 DEF LaneInv
  <1>6. QED
    BY <1>2, <1>4, <1>5, LaneSteady DEF Cancelling

(* The clock passes the deadline and its timer together. *)
LEMMA ExpireGood ==
  ASSUME NEW s, UGood(s), NEW d \in Dirs
  PROVE  LET t == [s EXCEPT !.lane[d].deadline = IF @ = "ahead" THEN "past" ELSE @,
                            !.lane[d].timer = IF @ = "set" THEN "due" ELSE @]
         IN  Steady(s, t) /\ LateOk(s, t)
  <1> DEFINE l == s.lane[d]
             due == IF l.deadline = "ahead" THEN "past" ELSE l.deadline
             tm == IF l.timer = "set" THEN "due" ELSE l.timer
             m == [l EXCEPT !.deadline = due, !.timer = tm]
             t == [s EXCEPT !.lane[d].deadline = IF @ = "ahead" THEN "past" ELSE @,
                            !.lane[d].timer = IF @ = "set" THEN "due" ELSE @]
  <1>1. s \in UStream /\ s.lane \in [Dirs -> ULane] /\ l \in ULane /\ LaneInv(l)
    BY DEF UGood, UStream, LaneOk
  <1>2. t = [s EXCEPT !.lane[d] = m]
    BY <1>1, Zenon DEF UStream, ULane
  <1>3. due \in {"none", "ahead", "past"} /\ tm \in {"off", "set", "due", "retry"}
    BY <1>1 DEF ULane
  <1> HIDE DEF t
  <1>4. /\ m \in ULane /\ m.owner = l.owner /\ m.primary = l.primary /\ m.handle = l.handle
        /\ m.requested = l.requested /\ m.submitted = l.submitted /\ m.timer = tm
        /\ m.terminal = l.terminal /\ m.late = l.late /\ m.deadline = due
    <2> HIDE DEF due, tm
    <2>1. QED
      BY <1>1, <1>3, Zenon DEF ULane
  <1> HIDE DEF m
  <1>5. LaneInv(m)
    BY <1>1, <1>4 DEF LaneInv
  <1>6. Steady(s, t) /\ LateOk(s, t)
    BY <1>2, <1>4, <1>5, LaneSteady DEF Cancelling
  <1>7. QED
    BY <1>6 DEF t

(* A call that leaves the lanes, the works and the results alone. *)
LEMMA RestSteady ==
  ASSUME NEW s, UGood(s), NEW t \in UStream, t.lane = s.lane, t.ready = s.ready,
         t.res = s.res, t.left = s.left, t.life.resource = "Closed" <=> ~t.fd,
         ~t.fd => \A d \in Dirs : s.lane[d].owner = NoOne
  PROVE  Steady(s, t) /\ LateOk(s, t)
  <1>1. UGood(t)
    BY DEF UGood, LaneOk
  <1>2. QED
    BY <1>1 DEF Steady, LateOk, KeepsLane, Writing

-----------------------------------------------------------------------------
(* The invariant.                                                          *)

(* Whether the result of the send that Write() waits for is still to come. *)
Unanswered(k) ==
  k.op["write"] \in {"armed", "doomed"} \/ \E i \in DOMAIN k.cq : OfSend(k.cq[i])

(* What the socket has accepted of Write()'s buffer, what is left and what the results say
   of it add up, wherever the result of the send stands. *)
USent(s, k, o) ==
  /\ s.left # 0 <=> Writing(s)
  /\ s.left = 0 => o = 0
  /\ k.op["write"] \in {"armed", "doomed"} => o + s.left = WriteSize
  /\ \A i \in DOMAIN k.cq : OfSend(k.cq[i]) => Moved(k.cq[i].res, s.left, o)
  /\ Writing(s) /\ ~Unanswered(k) => Moved(s.res[Writer], s.left, o)

UInv ==
  /\ UGood(st) /\ kernel \in UKernel /\ out \in Nat
  /\ QueueOk(kernel, kernel.cq) /\ Names(st, kernel, kernel.cq) /\ Owed(st, kernel, kernel.cq)
  /\ USent(st, kernel, out)

(* A fresh operation in a lane that had none. *)
Fresh(l, m) == l.owner = NoOne /\ Running(m) /\ ~Cancelling(m)

(* A call keeps the operations it finds, and the one it starts is armed. *)
LEMMA HandleLanes ==
  ASSUME UInv, NEW t, UGood(t),
         \A d \in Dirs : KeepsLane(st.lane[d], t.lane[d]) \/ Fresh(st.lane[d], t.lane[d]),
         Handle(t, kernel.cq)
  PROVE  /\ Handled(t, kernel.cq)
         /\ \A d \in Dirs : KeepsLane(st.lane[d], t.lane[d]) => kernel'.op[d] = kernel.op[d]
         /\ \A d \in Dirs : Fresh(st.lane[d], t.lane[d]) =>
              kernel'.op[d] = "armed" /\ ~AnyOp(kernel.cq, d)
  <1> DEFINE q == kernel.cq
  <1>1. /\ kernel \in UKernel /\ q \in Seq(UCqe) /\ t \in UStream /\ QueueOk(kernel, q)
    BY DEF UInv, UKernel, UGood
  <1>2. \A d \in Dirs : /\ NamesOf(st.lane[d], kernel.op[d], kernel.cancel[d], q, d)
                        /\ OwedOf(st.lane[d], kernel.op[d], q, d)
                        /\ st.lane[d].owner = NoOne => ~Cancelling(st.lane[d])
    BY Zenon DEF UInv, Names, Owed, UGood, LaneOk, LaneInv, Cancelling
  <1>3. ASSUME NEW d \in Dirs
        PROVE  NamesOf(t.lane[d], kernel.op[d], kernel.cancel[d], q, d)
    <2>1. CASE KeepsLane(st.lane[d], t.lane[d])
      BY <1>2, <2>1 DEF NamesOf, KeepsLane, Running
    <2>2. CASE Fresh(st.lane[d], t.lane[d])
      BY <1>2, <2>2 DEF NamesOf, Fresh
    <2>3. QED
      BY <2>1, <2>2
  <1>4. Handled(t, q)
    BY <1>1, <1>3, HandleGood DEF Names
  <1> HIDE DEF q
  <1>5. ASSUME NEW d \in Dirs, KeepsLane(st.lane[d], t.lane[d])
        PROVE  kernel'.op[d] = kernel.op[d]
    BY <1>2, <1>4, <1>5, Zenon DEF Handled, Arms, KeepsLane, OwedOf, Running
  <1>6. ASSUME NEW d \in Dirs, Fresh(st.lane[d], t.lane[d])
        PROVE  kernel'.op[d] = "armed" /\ ~AnyOp(q, d)
    <2>1. kernel.op[d] = "none" /\ ~AnyOp(q, d)
      BY <1>2, <1>6, Zenon DEF NamesOf, Fresh
    <2>2. kernel'.op[d] # "none"
      BY <1>4, <1>6, <2>1 DEF Handled, Owed, OwedOf, Fresh
    <2>3. QED
      BY <1>4, <2>1, <2>2 DEF Handled, Arms
  <1>7. QED
    BY <1>4, <1>5, <1>6 DEF q

(* What a call that does not write leaves of Write(). *)
LEMMA SentKept ==
  ASSUME NEW s, NEW t, NEW k, NEW k2, NEW o, USent(s, k, o),
         t.left = s.left, Writing(t) <=> Writing(s), t.res[Writer] = s.res[Writer],
         k2.op["write"] = k.op["write"], k2.cq = k.cq
  PROVE  USent(t, k2, o)
  <1>1. Unanswered(k2) <=> Unanswered(k)
    BY DEF Unanswered
  <1>2. QED
    BY <1>1 DEF USent

(* A call that does not concern the operations keeps the invariant. *)
LEMMA HandleSteady ==
  ASSUME UInv, NEW t, Steady(st, t), Handle(t, kernel.cq), out' = out
  PROVE  UInv'
  <1>1. UGood(t) /\ \A d \in Dirs : KeepsLane(st.lane[d], t.lane[d])
    BY DEF Steady
  <1>2. Handled(t, kernel.cq) /\ \A d \in Dirs : kernel'.op[d] = kernel.op[d]
    BY <1>1, HandleLanes
  <1>3. USent(t, kernel', out)
    BY <1>2, SentKept DEF UInv, Steady, Handled, Dirs
  <1>4. QED
    BY <1>1, <1>2, <1>3 DEF UInv, Handled

(* The loop of Write() goes on: its next send is armed, or it is over. *)
LEMMA WriteStep ==
  ASSUME UInv, NEW s, UGood(s), s.lane = st.lane, Resting(s), NEW t, WriteGoes(s, t, out),
         Handle(t, kernel.cq), out' = IF t.left = 0 THEN 0 ELSE out
  PROVE  UInv' /\ st' = t /\ LateOk(st, t)
  <1>1. /\ UGood(t) /\ \A e \in Dirs : e # "write" => t.lane[e] = st.lane[e]
        /\ t.lane["write"].late => st.lane["write"].late
    BY DEF WriteGoes
  <1>2. LateOk(st, t)
    BY <1>1 DEF LateOk
  <1>3. st.lane["write"].owner = NoOne /\ Writer # NoOne /\ "write" \in Dirs
    BY DEF Resting, UGood, ValidConstants, Dirs
  <1>4. \A e \in Dirs : e # "write" => KeepsLane(st.lane[e], t.lane[e])
    BY <1>1 DEF KeepsLane
  <1>5. out \in Nat /\ out' \in Nat
    BY DEF UInv
  <1>6. kernel.op["write"] = "none" /\ ~AnyOp(kernel.cq, "write")
    BY <1>3 DEF UInv, Names, NamesOf
  <1>7. CASE BeginsOp(s, Writer, "write", t) /\ t.left # 0 /\ out + t.left = WriteSize
    <2>1. Fresh(st.lane["write"], t.lane["write"]) /\ t.lane["write"].owner # NoOne
      BY <1>3, <1>7 DEF BeginsOp, Fresh, Running
    <2>2. /\ Handled(t, kernel.cq) /\ kernel'.op["write"] = "armed"
          /\ ~AnyOp(kernel.cq, "write")
      BY <1>1, <1>3, <1>4, <2>1, HandleLanes
    <2>3. USent(t, kernel', out)
      <3>1. kernel'.cq = kernel.cq /\ Unanswered(kernel')
        BY <2>2 DEF Handled, Unanswered
      <3>2. \A i \in DOMAIN kernel'.cq : ~OfSend(kernel'.cq[i])
        BY <2>2, <3>1 DEF AnyOp, OfOp, OfSend
      <3>3. QED
        BY <1>7, <2>1, <3>1, <3>2, Zenon DEF USent, Writing
    <2>4. QED
      BY <1>1, <1>2, <1>5, <1>7, <2>2, <2>3, Zenon DEF UInv, Handled
  <1>8. CASE /\ KeepsLane(s.lane["write"], t.lane["write"]) /\ ~Writing(t) /\ t.left = 0
             /\ t.res[Writer].kind = "ok" => out = WriteSize
    <2>1. KeepsLane(st.lane["write"], t.lane["write"])
      BY <1>8
    <2>2. Handled(t, kernel.cq) /\ kernel'.op["write"] = "none"
      BY <1>1, <1>3, <1>4, <1>6, <2>1, HandleLanes
    <2>3. USent(t, kernel', 0)
      <3>1. \A i \in DOMAIN kernel'.cq : ~OfSend(kernel'.cq[i])
        BY <1>6, <2>2, Zenon DEF AnyOp, OfOp, OfSend, Handled
      <3>2. QED
        BY <1>8, <2>2, <3>1 DEF USent
    <2>4. QED
      BY <1>1, <1>2, <1>5, <1>8, <2>2, <2>3, Zenon DEF UInv, Handled
  <1>9. QED
    BY <1>7, <1>8 DEF WriteGoes

-----------------------------------------------------------------------------
(* The steps.                                                              *)

(* What no step does: time out an operation early, or end Write() with success before the
   socket has its buffer. *)
StepOk ==
  /\ LateOk(st, st')
  /\ st.left # 0 /\ st'.left = 0 /\ st'.res[Writer].kind = "ok" => out = WriteSize

(* A handler that does not concern the operations. *)
LEMMA SteadyStep ==
  ASSUME UInv, NEW t, Steady(st, t), LateOk(st, t), Handle(t, kernel.cq), out' = out
  PROVE  UInv' /\ StepOk
  <1>1. UInv'
    BY HandleSteady
  <1>2. st' = t
    BY DEF Handle
  <1>3. QED
    BY <1>1, <1>2 DEF StepOk, Steady

(* Write() after a completion was handled. *)
LEMMA SentTail ==
  ASSUME NEW s, NEW t, NEW k \in UKernel, NEW k2, NEW o, USent(s, k, o), k.cq # <<>>,
         Dispatched(s, Head(k.cq), t, k, Tail(k.cq)),
         k2.op["write"] = k.op["write"], k2.cq = Tail(k.cq)
  PROVE  USent(t, k2, o)
  <1> DEFINE q == k.cq
             h == Head(q)
             r == Tail(q)
  <1>1. q \in Seq(UCqe)
    BY DEF UKernel
  <1>2. /\ \A i \in DOMAIN r : i + 1 \in DOMAIN q /\ r[i] = q[i + 1]
        /\ 1 \in DOMAIN q /\ h = q[1]
        /\ \A i \in DOMAIN q : i # 1 => i - 1 \in DOMAIN r /\ r[i - 1] = q[i]
    BY <1>1, TailOf
  <1> HIDE DEF q, h, r
  <1>3. /\ t.left = s.left /\ (Writing(t) <=> Writing(s))
        /\ OfSend(h) => t.res[Writer] \in {h.res, Result("ETIMEDOUT", 0)}
        /\ ~OfSend(h) => t.res[Writer] = s.res[Writer]
    BY DEF Dispatched, h, q
  <1>4. \A i \in DOMAIN q : OfSend(q[i]) => Moved(q[i].res, s.left, o)
    BY DEF USent, q
  <1>5. \A i \in DOMAIN r : OfSend(r[i]) => Moved(r[i].res, t.left, o)
    BY <1>2, <1>3, <1>4
  <1>6. ASSUME Writing(t), ~Unanswered(k2) PROVE Moved(t.res[Writer], t.left, o)
    <2>1. CASE OfSend(h)
      <3>1. Moved(h.res, s.left, o)
        BY <1>2, <1>4, <2>1
      <3>2. Moved(Result("ETIMEDOUT", 0), s.left, o)
        BY DEF Moved, Result
      <3>3. QED
        BY <1>3, <2>1, <3>1, <3>2
    <2>2. CASE ~OfSend(h)
      <3>1. \A i \in DOMAIN r : ~OfSend(r[i])
        BY <1>6 DEF Unanswered, r, q
      <3>2. \A i \in DOMAIN q : ~OfSend(q[i])
        BY <1>2, <2>2, <3>1
      <3>3. ~Unanswered(k)
        BY <1>6, <3>2 DEF Unanswered, q
      <3>4. QED
        BY <1>3, <1>6, <2>2, <3>3 DEF USent
    <2>3. QED
      BY <2>1, <2>2
  <1>7. QED
    BY <1>3, <1>5, <1>6 DEF USent, r, q

(* HandleCqe(). *)
LEMMA HandleCqeStep ==
  ASSUME UInv, HandleCqe
  PROVE  UInv' /\ StepOk
  <1> DEFINE q == kernel.cq
             t == Dispatch(st, Head(q))
             r == Tail(q)
  <1>1. q # <<>> /\ Handle(t, r) /\ out' = out
    BY DEF HandleCqe
  <1>2. /\ q \in Seq(UCqe) /\ kernel \in UKernel /\ UGood(st) /\ QueueOk(kernel, q)
        /\ Names(st, kernel, q) /\ Owed(st, kernel, q)
    BY DEF UInv, UKernel
  <1>3. Dispatched(st, Head(q), t, kernel, r)
    BY <1>1, <1>2, DispatchGood
  <1>4. r \in Seq(UCqe) /\ QueueOk(kernel, r)
    BY <1>1, <1>2, TailOf, TailOp, TailCancel, Zenon DEF QueueOk
  <1> HIDE DEF t, q, r
  <1>5. /\ UGood(t) /\ t \in UStream /\ Names(t, kernel, r) /\ Owed(t, kernel, r)
        /\ t.left = st.left /\ LateOk(st, t)
    BY <1>3 DEF Dispatched, UGood, LateOk
  <1>6. Handled(t, r)
    BY <1>1, <1>2, <1>4, <1>5, HandleGood
  <1>7. \A d \in Dirs : kernel'.op[d] = kernel.op[d]
    BY <1>5, <1>6 DEF Handled, Arms, Owed, OwedOf, Running
  <1>8. USent(t, kernel', out)
    BY <1>1, <1>2, <1>3, <1>6, <1>7, SentTail, Zenon DEF UInv, Handled, Dirs, q, r
  <1>9. QED
    BY <1>1, <1>5, <1>6, <1>8 DEF UInv, Handled, StepOk

(* Read(): the coroutine is suspended in its operation or has its answer. *)
LEMMA ReadStep ==
  ASSUME UInv, NEW c \in Readers, Read(c)
  PROVE  UInv' /\ StepOk
  <1>1. PICK fail : Handle(Taken(Start(st, c, "read", FALSE, fail), c), kernel.cq)
    BY Zenon DEF Read
  <1> DEFINE u == Start(st, c, "read", FALSE, fail)
             t == Taken(u, c)
  <1>2. /\ ~InReady(st.ready, c) /\ UGood(st) /\ c \in Role("read") /\ c \in Users
        /\ c # Writer /\ Writer \in Users /\ c # NoOne /\ "read" \in Dirs
    BY DEF Read, Idle, InReady, UInv, UGood, ValidConstants, Role, Users, Dirs
  <1>3. Starts(st, c, "read", u)
    BY <1>2, StartGood, Zenon
  <1> HIDE DEF u
  <1>4. /\ UGood(t) /\ t.lane = u.lane /\ t.left = u.left /\ t.ready = u.ready
        /\ t.res[Writer] = u.res[Writer]
    <2>1. UGood(u) /\ Result("none", 0) \in UResult
      BY <1>3 DEF Starts, Result, UResult, UKinds
    <2>2. QED
      BY <1>2, <2>1, ResultGood DEF Taken
  <1>5. /\ st' = t /\ out' = out
    BY <1>1, Zenon DEF Read, Handle, u
  <1> HIDE DEF t
  <1>6. /\ t.left = st.left /\ t.lane["write"] = st.lane["write"]
        /\ t.res[Writer] = st.res[Writer] /\ SameReady(st, t)
        /\ t.lane["read"].late => st.lane["read"].late
    BY <1>2, <1>3, <1>4 DEF Starts, Dirs, SameReady
  <1>7. Writing(t) <=> Writing(st)
    BY <1>2, <1>6 DEF Writing, SameReady
  <1>8. KeepsLane(st.lane["read"], t.lane["read"]) \/ Fresh(st.lane["read"], t.lane["read"])
    BY <1>2, <1>3, <1>4 DEF Starts, BeginsOp, Fresh, Running
  <1>9. KeepsLane(st.lane["write"], t.lane["write"])
    BY <1>6 DEF KeepsLane
  <1>10. Handled(t, kernel.cq) /\ kernel'.op["write"] = kernel.op["write"]
    <2>1. \A d \in Dirs : KeepsLane(st.lane[d], t.lane[d]) \/ Fresh(st.lane[d], t.lane[d])
      BY <1>8, <1>9 DEF Dirs
    <2>2. Handle(t, kernel.cq)
      BY <1>1, Zenon DEF t, u
    <2>3. QED
      BY <1>4, <1>9, <2>1, <2>2, HandleLanes DEF Dirs
  <1>11. USent(t, kernel', out)
    BY <1>6, <1>7, <1>10, SentKept DEF UInv, Handled
  <1>12. LateOk(st, t)
    BY <1>6 DEF LateOk, Dirs
  <1>13. QED
    BY <1>4, <1>5, <1>6, <1>10, <1>11, <1>12 DEF UInv, Handled, StepOk

(* Write(). *)
LEMMA CallWriteStep ==
  ASSUME UInv, Write
  PROVE  UInv' /\ StepOk
  <1> DEFINE s == [st EXCEPT !.left = WriteSize]
  <1>1. PICK copy \in BOOLEAN, fail \in {"none", "timer", "sqe"} :
          Handle(Send(s, copy, fail), kernel.cq)
    BY DEF Write
  <1>2. /\ UGood(st) /\ st \in UStream /\ WriteSize \in Nat /\ WriteSize # 0 /\ out' = out
        /\ ~Waiting(st, Writer) /\ ~InReady(st.ready, Writer)
    BY DEF UInv, UGood, ValidConstants, Write, Idle, InReady
  <1>3. Resting(st)
    BY <1>2, WriterWaits DEF Resting
  <1>4. st.left = 0 /\ out = 0
    BY <1>3 DEF UInv, USent, Writing, Resting
  <1>5. /\ s \in UStream /\ s.lane = st.lane /\ s.left = WriteSize /\ s.ready = st.ready
        /\ s.fd = st.fd /\ s.life = st.life
    BY <1>2 DEF UStream
  <1> HIDE DEF s
  <1>6. UGood(s) /\ Resting(s)
    BY <1>2, <1>3, <1>5 DEF UGood, Resting
  <1>7. WriteGoes(s, Send(s, copy, fail), out)
    BY <1>2, <1>4, <1>5, <1>6, SendGood
  <1>8. UInv' /\ LateOk(st, st')
    BY <1>1, <1>2, <1>4, <1>5, <1>6, <1>7, WriteStep
  <1>9. QED
    BY <1>4, <1>8 DEF StepOk

(* The oldest work leaves the ready queue. *)
LEMMA PopGood ==
  ASSUME NEW s, UGood(s), s.ready # <<>>
  PROVE  LET t == [s EXCEPT !.ready = Tail(@)]
             w == Head(s.ready)
         IN  /\ UGood(t) /\ t.lane = s.lane /\ t.res = s.res /\ t.left = s.left
             /\ w \in UWork /\ WorkOk(w, s.lane) /\ InReady(s.ready, w.who)
             /\ w.who # NoOne => ~InReady(t.ready, w.who)
             /\ \A c : c # w.who => (InReady(t.ready, c) <=> InReady(s.ready, c))
  <1> DEFINE t == [s EXCEPT !.ready = Tail(@)]
             w == Head(s.ready)
  <1>1. s \in UStream /\ s.ready \in Seq(UWork) /\ ReadyOk(s.ready, s.lane)
    BY DEF UGood, UStream
  <1>2. /\ Tail(s.ready) \in Seq(UWork) /\ w \in UWork
        /\ ReadyOk(Tail(s.ready), s.lane) /\ WorkOk(w, s.lane)
        /\ w.who # NoOne => ~InReady(Tail(s.ready), w.who)
        /\ \A c : InReady(s.ready, c) <=> c = w.who \/ InReady(Tail(s.ready), c)
    BY <1>1, ReadyTail
  <1>3. /\ t \in UStream /\ t.lane = s.lane /\ t.res = s.res /\ t.left = s.left
        /\ t.ready = Tail(s.ready) /\ t.fd = s.fd /\ t.life = s.life
    BY <1>1, <1>2, Zenon DEF UStream
  <1> HIDE DEF t, w
  <1>4. UGood(t)
    BY <1>2, <1>3 DEF UGood
  <1>5. QED
    BY <1>2, <1>3, <1>4 DEF t, w

(* DrainCompletionReady() resumes Write(), a reader or Close(). *)
LEMMA ResumeStep ==
  ASSUME UInv, Resume
  PROVE  UInv' /\ StepOk
  <1> DEFINE w == Head(st.ready)
             s == [st EXCEPT !.ready = Tail(@)]
  <1>1. UGood(st) /\ st.ready # <<>> /\ ValidConstants /\ Writer \in Users /\ out \in Nat
    BY DEF Resume, UInv, UGood, Users
  <1>2. /\ UGood(s) /\ s.lane = st.lane /\ s.res = st.res /\ s.left = st.left
        /\ w \in UWork /\ WorkOk(w, st.lane) /\ InReady(st.ready, w.who)
        /\ w.who # NoOne => ~InReady(s.ready, w.who)
        /\ \A c : c # w.who => (InReady(s.ready, c) <=> InReady(st.ready, c))
    BY <1>1, PopGood, Zenon
  <1>3. /\ w.who = Writer =>
             \E copy \in BOOLEAN, fail \in {"none", "timer", "sqe"} :
               Handle(WriteResumed(s, copy, fail), kernel.cq)
        /\ w.who # Writer =>
             Handle(IF w.who = NoOne THEN s ELSE Taken(s, w.who), kernel.cq)
        /\ out' = IF st'.left = 0 THEN 0 ELSE out
    BY DEF Resume
  <1> HIDE DEF s, w
  <1>4. CASE w.who = Writer
    <2>1. PICK copy \in BOOLEAN, fail \in {"none", "timer", "sqe"} :
            Handle(WriteResumed(s, copy, fail), kernel.cq)
      BY <1>3, <1>4
    <2> DEFINE t == WriteResumed(s, copy, fail)
    <2>2. Resting(s) /\ st.lane["write"].owner = NoOne
      <3>1. Writer # NoOne /\ "write" \in Dirs /\ st.lane["write"].owner # Writer
        BY <1>1, <1>2, <1>4 DEF WorkOk, ValidConstants, Dirs
      <3>2. st.lane["write"].owner = NoOne
        BY <1>1, <3>1 DEF UGood, LaneOk, Role
      <3>3. QED
        BY <1>2, <1>4, <3>1, <3>2 DEF Resting
    <2>3. Writing(st) /\ st.left # 0
      BY <1>2, <1>4, Zenon DEF Writing, UInv, USent
    <2>4. ~Unanswered(kernel)
      <3>1. kernel.op["write"] = "none" /\ ~AnyOp(kernel.cq, "write")
        BY <2>2, Zenon DEF UInv, Names, NamesOf, Dirs
      <3>2. QED
        BY <3>1 DEF Unanswered, AnyOp, OfOp, OfSend
    <2>5. Moved(s.res[Writer], s.left, out)
      BY <1>2, <2>3, <2>4, Zenon DEF UInv, USent
    <2>6. WriteGoes(s, t, out)
      BY <1>1, <1>2, <2>2, <2>3, <2>5, WriteResumedGood
    <2>7. st' = t
      BY <2>1 DEF Handle
    <2> HIDE DEF t
    <2>8. UInv' /\ LateOk(st, st')
      BY <1>2, <1>3, <2>1, <2>2, <2>6, <2>7, WriteStep, Zenon DEF t
    <2>9. st'.left = 0 /\ st'.res[Writer].kind = "ok" => out = WriteSize
      BY <2>6, <2>7 DEF WriteGoes
    <2>10. QED
      BY <2>8, <2>9 DEF StepOk
  <1>5. CASE w.who # Writer
    <2> DEFINE t == IF w.who = NoOne THEN s ELSE Taken(s, w.who)
    <2>1. /\ UGood(t) /\ t.lane = s.lane /\ t.left = s.left /\ t.ready = s.ready
          /\ t.res[Writer] = s.res[Writer]
      <3>1. w.who \in Users \cup {NoOne} /\ Result("none", 0) \in UResult
        BY <1>2, Zenon DEF UWork, Result, UResult, UKinds
      <3>2. CASE w.who = NoOne
        BY <1>2, <3>2
      <3>3. CASE w.who # NoOne
        BY <1>1, <1>2, <1>5, <3>1, <3>3, ResultGood DEF Taken
      <3>4. QED
        BY <3>2, <3>3
    <2>2. Handle(t, kernel.cq) /\ st' = t
      BY <1>3, <1>5, Zenon DEF Handle
    <2> HIDE DEF t
    <2>3. Steady(st, t) /\ LateOk(st, t)
      BY <1>2, <1>5, <2>1, Zenon DEF Steady, LateOk, KeepsLane, Writing
    <2>4. out' = out
      BY <1>2, <1>3, <2>1, <2>2, Zenon DEF UInv, USent
    <2>5. QED
      BY <2>2, <2>3, <2>4, SteadyStep
  <1>6. QED
    BY <1>4, <1>5

(* Deadlines: timers, retries and calls that set one. *)
LEMMA DeadlineStep ==
  ASSUME UInv, NEW d \in Dirs, DeadlineTimer(d) \/ RetryTimer(d) \/ CallSetDeadline(d)
  PROVE  UInv' /\ StepOk
  <1>1. UGood(st)
    BY DEF UInv
  <1>2. CASE DeadlineTimer(d)
    <2>1. PICK fail : Handle(HandleDeadline(st, d, fail), kernel.cq)
      BY <1>2 DEF DeadlineTimer
    <2>2. st.lane[d].timer = "due" /\ out' = out
      BY <1>2 DEF DeadlineTimer
    <2>3. QED
      BY <1>1, <2>1, <2>2, HandleDeadlineGood, SteadyStep
  <1>3. CASE RetryTimer(d)
    <2>1. PICK fail : Handle(CancelPending(st, d, fail), kernel.cq)
      BY <1>3 DEF RetryTimer
    <2>2. st.lane[d].timer = "retry" /\ out' = out
      BY <1>3 DEF RetryTimer
    <2>3. QED
      BY <1>1, <2>1, <2>2, CancelPendingGood, SteadyStep
  <1>4. CASE CallSetDeadline(d)
    <2>1. PICK due \in {"none", "ahead", "past"}, fail \in {"none", "timer"} :
            Handle(SetDeadline(st, d, due, fail), kernel.cq)
      BY <1>4 DEF CallSetDeadline
    <2>2. out' = out
      BY <1>4 DEF CallSetDeadline
    <2>3. QED
      BY <1>1, <2>1, <2>2, SetDeadlineGood, SteadyStep
  <1>5. QED
    BY <1>2, <1>3, <1>4

(* A half close, on an open stream, and the end of Close() when nothing is pending. *)
LEMMA LifeGood ==
  ASSUME NEW s, UGood(s)
  PROVE  /\ LET t == [s EXCEPT !.life = CloseReadSide(@)] IN Steady(s, t) /\ LateOk(s, t)
         /\ LET t == [s EXCEPT !.life = ShutdownSide(@)] IN Steady(s, t) /\ LateOk(s, t)
         /\ (\A d \in Dirs : s.lane[d].owner = NoOne) =>
              Steady(s, CloseNow(s)) /\ LateOk(s, CloseNow(s))
         /\ MayClose(s.life) =>
              /\ LET t == [s EXCEPT !.life = AbortClosePreparation(PrepareClose(@))]
                 IN  Steady(s, t) /\ LateOk(s, t)
              /\ LET t == [s EXCEPT !.life = PrepareClose(@), !.closing = TRUE, !.swept = FALSE]
                 IN  Steady(s, t) /\ LateOk(s, t)
  <1>1. /\ s \in UStream /\ s.life \in ULife /\ (s.life.resource = "Closed" <=> ~s.fd)
        /\ \A d \in Dirs : s.lane[d].owner # NoOne => s.fd
    BY DEF UGood, UStream, LaneOk
  <1>2. ASSUME NEW life \in ULife, life.resource = "Closed" <=> ~s.fd
        PROVE  LET t == [s EXCEPT !.life = life] IN Steady(s, t) /\ LateOk(s, t)
    <2> DEFINE t == [s EXCEPT !.life = life]
    <2>1. /\ t \in UStream /\ t.lane = s.lane /\ t.ready = s.ready /\ t.res = s.res
          /\ t.left = s.left /\ t.life = life /\ t.fd = s.fd
      BY <1>1 DEF UStream
    <2> HIDE DEF t
    <2>2. Steady(s, t) /\ LateOk(s, t)
      BY <1>1, <1>2, <2>1, RestSteady
    <2>3. QED
      BY <2>2 DEF t
  <1>3. /\ CloseReadSide(s.life) \in ULife /\ CloseReadSide(s.life).resource = s.life.resource
        /\ ShutdownSide(s.life) \in ULife /\ ShutdownSide(s.life).resource = s.life.resource
    BY <1>1 DEF CloseReadSide, ShutdownSide, ULife
  <1>4. MayClose(s.life) => /\ AbortClosePreparation(PrepareClose(s.life)) \in ULife
                            /\ AbortClosePreparation(PrepareClose(s.life)).resource = "Open"
                            /\ s.life.resource = "Open"
    BY <1>1, Zenon DEF AbortClosePreparation, PrepareClose, MayClose, ULife
  <1>5. ASSUME \A d \in Dirs : s.lane[d].owner = NoOne
        PROVE  Steady(s, CloseNow(s)) /\ LateOk(s, CloseNow(s))
    <2> DEFINE life == MarkClosed(s.life)
               t == CloseNow(s)
    <2>1. life \in ULife /\ life.resource = "Closed"
      BY <1>1 DEF MarkClosed, ULife
    <2>2. t = [s EXCEPT !.fd = FALSE, !.life = life]
      BY DEF CloseNow
    <2> HIDE DEF life, t
    <2>3. /\ t \in UStream /\ t.lane = s.lane /\ t.ready = s.ready /\ t.res = s.res
          /\ t.left = s.left /\ t.life = life /\ t.fd = FALSE
      BY <1>1, <2>1, <2>2, Zenon DEF UStream
    <2>4. Steady(s, t) /\ LateOk(s, t)
      BY <1>5, <2>1, <2>3, RestSteady
    <2>5. QED
      BY <2>4 DEF t
  <1>6. ASSUME MayClose(s.life)
        PROVE  LET t == [s EXCEPT !.life = PrepareClose(@), !.closing = TRUE, !.swept = FALSE]
               IN  Steady(s, t) /\ LateOk(s, t)
    <2> DEFINE life == PrepareClose(s.life)
               t == [s EXCEPT !.life = life, !.closing = TRUE, !.swept = FALSE]
    <2>1. life \in ULife /\ life.resource = "Closing"
      BY <1>1 DEF PrepareClose, ULife
    <2> HIDE DEF life
    <2>2. /\ t \in UStream /\ t.lane = s.lane /\ t.ready = s.ready /\ t.res = s.res
          /\ t.left = s.left /\ t.life = life /\ t.fd = s.fd
      BY <1>1, <2>1, Zenon DEF UStream
    <2> HIDE DEF t
    <2>3. t.life.resource = "Closed" <=> ~t.fd
      BY <1>1, <1>4, <1>6, <2>1, <2>2
    <2>4. ~t.fd => \A d \in Dirs : s.lane[d].owner = NoOne
      BY <1>1, <2>2
    <2>5. Steady(s, t) /\ LateOk(s, t)
      BY <2>2, <2>3, <2>4, RestSteady
    <2>6. QED
      BY <2>5 DEF t, life
  <1>7. QED
    BY <1>1, <1>2, <1>3, <1>4, <1>5, <1>6

(* CloseRead(), CloseWrite() and Close(). *)
LEMMA CloseStep ==
  ASSUME UInv, CloseRead \/ CloseWrite \/ Close
  PROVE  UInv' /\ StepOk
  <1>1. UGood(st)
    BY DEF UInv
  <1>2. CASE CloseRead
    BY <1>1, <1>2, LifeGood, SteadyStep, Zenon DEF CloseRead
  <1>3. CASE CloseWrite
    BY <1>1, <1>3, LifeGood, SteadyStep, Zenon DEF CloseWrite
  <1>4. CASE Close
    <2> DEFINE idle == \A d \in Dirs : st.lane[d].owner = NoOne
    <2>1. PICK fail : Handle(IF idle THEN CloseNow(st)
                   ELSE IF stopping \/ fail = "sqe"
                   THEN [st EXCEPT !.life = AbortClosePreparation(PrepareClose(@))]
                   ELSE [st EXCEPT !.life = PrepareClose(@), !.closing = TRUE,
                                   !.swept = FALSE], kernel.cq)
      BY <1>4 DEF Close
    <2>2. MayClose(st.life) /\ out' = out
      BY <1>4 DEF Close
    <2>3. CASE idle
      <3>1. Handle(CloseNow(st), kernel.cq)
        BY <2>1, <2>3
      <3>2. QED
        BY <1>1, <2>2, <2>3, <3>1, LifeGood, SteadyStep, Zenon
    <2>4. CASE ~idle /\ (stopping \/ fail = "sqe")
      <3>1. Handle([st EXCEPT !.life = AbortClosePreparation(PrepareClose(@))], kernel.cq)
        BY <2>1, <2>4
      <3>2. QED
        BY <1>1, <2>2, <3>1, LifeGood, SteadyStep, Zenon
    <2>5. CASE ~idle /\ ~(stopping \/ fail = "sqe")
      <3>1. Handle([st EXCEPT !.life = PrepareClose(@), !.closing = TRUE, !.swept = FALSE],
                   kernel.cq)
        BY <2>1, <2>5
      <3>2. QED
        BY <1>1, <2>2, <3>1, LifeGood, SteadyStep, Zenon
    <2>6. QED
      BY <2>3, <2>4, <2>5
  <1>5. QED
    BY <1>2, <1>3, <1>4

-----------------------------------------------------------------------------
(* The kernel's steps.                                                     *)

(* The stream is the loop's: a kernel step leaves it. *)
LEMMA KernelStep ==
  ASSUME UInv, st' = st, kernel' \in UKernel, out' \in Nat,
         QueueOk(kernel', kernel'.cq), Names(st, kernel', kernel'.cq),
         Owed(st, kernel', kernel'.cq), USent(st, kernel', out')
  PROVE  UInv' /\ StepOk
  BY DEF UInv, StepOk, LateOk

(* An operation completes, or gives its buffer back. *)
LEMMA OpStep ==
  ASSUME UInv, NEW d \in Dirs, NEW c \in UCqe, OfOp(c, d),
         \/ kernel.op[d] \in {"armed", "doomed"} /\ c.what = "op"
         \/ kernel.op[d] = "borrowed" /\ c.what = "notify",
         NEW new, new = IF Final(c) THEN "none" ELSE "borrowed",
         Post(c, [kernel EXCEPT !.op[d] = new])
  PROVE  /\ st' = st /\ kernel' \in UKernel /\ kernel'.cq = Append(kernel.cq, c)
         /\ kernel'.op[d] = new /\ \A e \in Dirs : e # d => kernel'.op[e] = kernel.op[e]
         /\ QueueOk(kernel', kernel'.cq) /\ Names(st, kernel', kernel'.cq)
         /\ Owed(st, kernel', kernel'.cq)
  <1> DEFINE q == kernel.cq
             r == Append(q, c)
  <1>1. /\ kernel \in UKernel /\ q \in Seq(UCqe) /\ new \in {"none", "borrowed"}
    BY DEF UInv, UKernel
  <1>2. /\ r \in Seq(UCqe)
        /\ \A e : AnyOp(r, e) <=> AnyOp(q, e) \/ OfOp(c, e)
        /\ \A e : AnyCancel(r, e) <=> AnyCancel(q, e) \/ OfCancel(c, e)
    BY <1>1, PostAny
  <1>3. \A e : ~OfCancel(c, e) /\ (e # d => ~OfOp(c, e))
    BY DEF OfOp, OfCancel
  <1>4. OpQueue(kernel.op[d], q, d) /\ OpQueue(new, r, d)
    <2>1. OpQueue(kernel.op[d], q, d)
      BY DEF UInv, QueueOk
    <2>2. QED
      BY <1>1, <2>1, PostOp
  <1>5. \A e \in Dirs : CancelQueue(kernel.cancel[e], r, e)
    BY <1>1, <1>3, PostOther, Zenon DEF UInv, QueueOk
  <1>6. \A e \in Dirs : e # d => OpQueue(kernel.op[e], r, e)
    BY <1>1, <1>3, PostOther, Zenon DEF UInv, QueueOk
  <1>7. st' = st /\ kernel' = [kernel EXCEPT !.op[d] = new, !.cq = r]
    BY <1>1 DEF Post, UKernel
  <1> HIDE DEF r
  <1>8. /\ kernel' \in UKernel /\ kernel'.cq = r /\ kernel'.cancel = kernel.cancel
        /\ kernel'.op[d] = new /\ \A e \in Dirs : e # d => kernel'.op[e] = kernel.op[e]
    BY <1>1, <1>2, <1>7, Zenon DEF UKernel
  <1>9. QueueOk(kernel', r)
    BY <1>4, <1>5, <1>6, <1>8 DEF QueueOk
  <1> HIDE DEF q
  <1>10. \A e \in Dirs : /\ NamesOf(st.lane[e], kernel.op[e], kernel.cancel[e], q, e)
                         /\ OwedOf(st.lane[e], kernel.op[e], q, e)
    BY DEF UInv, Names, Owed, q
  <1>11. Names(st, kernel', r)
    <2>1. NamesOf(st.lane[d], new, kernel.cancel[d], r, d)
      BY <1>2, <1>3, <1>10 DEF NamesOf
    <2>2. \A e \in Dirs : e # d => NamesOf(st.lane[e], kernel.op[e], kernel.cancel[e], r, e)
      BY <1>2, <1>3, <1>10 DEF NamesOf
    <2>3. QED
      BY <1>8, <2>1, <2>2 DEF Names
  <1>12. Owed(st, kernel', r)
    BY <1>2, <1>8, <1>10 DEF Owed, OwedOf
  <1>13. QED
    BY <1>7, <1>8, <1>9, <1>11, <1>12 DEF r, q

(* Posting a completion leaves the ones before it in their places. *)
LEMMA QueueGrows ==
  ASSUME NEW k \in UKernel, NEW c \in UCqe
  PROVE  /\ Append(k.cq, c) \in Seq(UCqe) /\ Len(k.cq) \in Nat
         /\ DOMAIN k.cq = 1..Len(k.cq) /\ DOMAIN Append(k.cq, c) = 1..(Len(k.cq) + 1)
         /\ \A i \in 1..Len(k.cq) : Append(k.cq, c)[i] = k.cq[i]
         /\ Append(k.cq, c)[Len(k.cq) + 1] = c
  <1>1. k.cq \in Seq(UCqe)
    BY DEF UKernel
  <1>2. QED
    BY <1>1, AppendAt

(* What a posted completion says of Write() ... *)
LEMMA SentPost ==
  ASSUME NEW s, NEW k \in UKernel, NEW k2, NEW o, USent(s, k, o), NEW c \in UCqe, ~OfSend(c),
         k2.op["write"] \in {"armed", "doomed"} <=> k.op["write"] \in {"armed", "doomed"},
         k2.cq = Append(k.cq, c)
  PROVE  USent(s, k2, o)
  <1> DEFINE q == k.cq
             r == Append(q, c)
  <1>1. /\ r \in Seq(UCqe) /\ Len(q) \in Nat
        /\ DOMAIN q = 1..Len(q) /\ DOMAIN r = 1..(Len(q) + 1)
        /\ \A i \in 1..Len(q) : r[i] = q[i]
        /\ r[Len(q) + 1] = c
    BY QueueGrows, Zenon
  <1> HIDE DEF r, q
  <1>2. /\ \A i \in DOMAIN r : OfSend(r[i]) => i \in DOMAIN q /\ r[i] = q[i]
        /\ \A i \in DOMAIN q : i \in DOMAIN r /\ r[i] = q[i]
    BY <1>1
  <1>3. Unanswered(k2) <=> Unanswered(k)
    BY <1>2 DEF Unanswered, r, q
  <1>4. \A i \in DOMAIN r : OfSend(r[i]) => Moved(r[i].res, s.left, o)
    BY <1>2 DEF USent, q
  <1>5. QED
    BY <1>3, <1>4 DEF USent, r, q

(* ... and that of a send. *)
LEMMA SentAnswered ==
  ASSUME NEW s, NEW k \in UKernel, NEW k2, NEW o, NEW o2, USent(s, k, o), NEW c \in UCqe,
         OfSend(c), ~AnyOp(k.cq, "write"), Writing(s), Moved(c.res, s.left, o2),
         k2.op["write"] \notin {"armed", "doomed"}, k2.cq = Append(k.cq, c)
  PROVE  USent(s, k2, o2)
  <1> DEFINE q == k.cq
             r == Append(q, c)
  <1>1. /\ r \in Seq(UCqe) /\ Len(q) \in Nat
        /\ DOMAIN q = 1..Len(q) /\ DOMAIN r = 1..(Len(q) + 1)
        /\ \A i \in 1..Len(q) : r[i] = q[i]
        /\ r[Len(q) + 1] = c
    BY QueueGrows, Zenon
  <1> HIDE DEF r, q
  <1>2. \A i \in DOMAIN r : OfSend(r[i]) => r[i] = c
    BY <1>1 DEF AnyOp, OfOp, OfSend, q
  <1>3. \E i \in DOMAIN r : OfSend(r[i])
    BY <1>1
  <1>4. Unanswered(k2)
    BY <1>3 DEF Unanswered, r, q
  <1>5. \A i \in DOMAIN r : OfSend(r[i]) => Moved(r[i].res, s.left, o2)
    BY <1>2
  <1>6. QED
    BY <1>4, <1>5 DEF USent, r, q

(* A completion of the record's type. *)
LEMMA CqeIs ==
  ASSUME NEW what \in {"op", "notify", "cancel", "sweep"}, NEW d \in Dirs,
         NEW kind \in UKinds, NEW n \in Nat, NEW more \in BOOLEAN
  PROVE  LET c == Cqe(what, d, Result(kind, n), more)
         IN  /\ c \in UCqe /\ c.what = what /\ c.dir = d /\ c.more = more
             /\ c.res.kind = kind /\ c.res.n = n
  BY DEF Cqe, UCqe, UResult, Result

(* What a pending send has moved so far, in integers. *)
LEMMA MovedIs ==
  ASSUME NEW left \in Nat, NEW n \in 1..left, NEW o \in Nat, NEW size \in Nat,
         o + left = size
  PROVE  n \in Nat /\ o + n \in Nat /\ (o + n) + left = size + n
  OBVIOUS

(* A receive completes. *)
LEMMA KernelRecvStep ==
  ASSUME UInv, KernelRecv
  PROVE  UInv' /\ StepOk
  <1>1. PICK kind \in {"data", "eof"} :
          Post(Cqe("op", "read", Result(kind, 0), FALSE), [kernel EXCEPT !.op["read"] = "none"])
    BY Zenon DEF KernelRecv
  <1> DEFINE c == Cqe("op", "read", Result(kind, 0), FALSE)
  <1>2. c \in UCqe /\ c.what = "op" /\ c.dir = "read" /\ c.more = FALSE /\ "read" \in Dirs
    <2>1. "read" \in Dirs /\ kind \in UKinds
      BY DEF Dirs, UKinds
    <2>2. QED
      BY <2>1 DEF Cqe, UCqe, UResult, Result
  <1>3. Post(c, [kernel EXCEPT !.op["read"] = "none"])
    BY <1>1, Zenon
  <1> HIDE DEF c
  <1>4. OfOp(c, "read") /\ Final(c) /\ ~OfSend(c)
    BY <1>2 DEF OfOp, Final, OfSend
  <1>5. /\ st' = st /\ kernel' \in UKernel /\ kernel'.cq = Append(kernel.cq, c)
        /\ kernel'.op["write"] = kernel.op["write"]
        /\ QueueOk(kernel', kernel'.cq) /\ Names(st, kernel', kernel'.cq)
        /\ Owed(st, kernel', kernel'.cq)
    BY <1>2, <1>3, <1>4, OpStep DEF KernelRecv, Dirs
  <1>6. USent(st, kernel', out)
    BY <1>2, <1>4, <1>5, SentPost DEF UInv
  <1>7. out' = out /\ out \in Nat
    BY DEF KernelRecv, UInv
  <1>8. QED
    BY <1>5, <1>6, <1>7, KernelStep

(* A send completes with what it moved. *)
LEMMA KernelSendStep ==
  ASSUME UInv, KernelSend
  PROVE  UInv' /\ StepOk
  <1>1. PICK n \in 1..st.left, more \in BOOLEAN :
          /\ out' = out + n
          /\ Post(Cqe("op", "write", Result("ok", n), more),
                  [kernel EXCEPT !.op["write"] = IF more THEN "borrowed" ELSE "none"])
    BY DEF KernelSend
  <1> DEFINE c == Cqe("op", "write", Result("ok", n), more)
             new == IF more THEN "borrowed" ELSE "none"
  <1>2. /\ kernel.op["write"] \in {"armed", "doomed"} /\ "write" \in Dirs /\ kernel \in UKernel
        /\ st.left \in Nat /\ out \in Nat /\ WriteSize \in Nat /\ out + st.left = WriteSize
    BY DEF KernelSend, UInv, UGood, UStream, ValidConstants, USent, Dirs
  <1>3. n \in Nat /\ out' \in Nat /\ out' + st.left = WriteSize + n
    BY <1>1, <1>2, MovedIs
  <1>4. /\ c \in UCqe /\ c.what = "op" /\ c.dir = "write" /\ c.more = more
        /\ c.res.kind = "ok" /\ c.res.n = n
    BY <1>2, <1>3, CqeIs DEF UKinds
  <1>5. Post(c, [kernel EXCEPT !.op["write"] = new])
    BY <1>1
  <1> HIDE DEF c
  <1>6. OfOp(c, "write") /\ (Final(c) <=> ~more) /\ OfSend(c)
    BY <1>4 DEF OfOp, Final, OfSend
  <1>7. new = (IF Final(c) THEN "none" ELSE "borrowed") /\ new \notin {"armed", "doomed"}
    BY <1>6
  <1> HIDE DEF new
  <1>8. /\ st' = st /\ kernel' \in UKernel /\ kernel'.cq = Append(kernel.cq, c)
        /\ kernel'.op["write"] = new
        /\ QueueOk(kernel', kernel'.cq) /\ Names(st, kernel', kernel'.cq)
        /\ Owed(st, kernel', kernel'.cq)
    BY <1>2, <1>4, <1>5, <1>6, <1>7, OpStep
  <1>9. Writing(st) /\ ~AnyOp(kernel.cq, "write")
    <2>1. kernel.cq \in Seq(UCqe) /\ OpQueue(kernel.op["write"], kernel.cq, "write")
      BY <1>2 DEF UKernel, UInv, QueueOk
    <2>2. ~AnyOp(kernel.cq, "write")
      BY <1>2, <2>1, OpQueueIs
    <2>3. QED
      BY <1>2, <2>2 DEF UInv, Names, NamesOf, Writing
  <1>10. Moved(c.res, st.left, out')
    BY <1>1, <1>3, <1>4 DEF Moved
  <1>11. USent(st, kernel, out)
    BY DEF UInv
  <1>12. USent(st, kernel', out')
    BY <1>2, <1>4, <1>6, <1>7, <1>8, <1>9, <1>10, <1>11, SentAnswered, Zenon
  <1>13. QED
    BY <1>3, <1>8, <1>12, KernelStep

(* An operation fails: cancelled, or a zero-copy send for want of memory. *)
LEMMA KernelFailStep ==
  ASSUME UInv, NEW d \in Dirs, KernelFail(d)
  PROVE  UInv' /\ StepOk
  <1>1. PICK kind \in {"ECANCELED", "ENOMEM"}, more \in BOOLEAN :
          Post(Cqe("op", d, Result(kind, 0), more),
               [kernel EXCEPT !.op[d] = IF more THEN "borrowed" ELSE "none"])
    BY DEF KernelFail
  <1> DEFINE c == Cqe("op", d, Result(kind, 0), more)
             new == IF more THEN "borrowed" ELSE "none"
  <1>2. /\ kernel.op[d] \in {"armed", "doomed"} /\ kernel \in UKernel
        /\ out \in Nat /\ out' = out
    BY DEF KernelFail, UInv
  <1>3. c \in UCqe /\ c.what = "op" /\ c.dir = d /\ c.more = more /\ c.res.kind = kind
    BY CqeIs DEF UKinds
  <1>4. Post(c, [kernel EXCEPT !.op[d] = new])
    BY <1>1
  <1> HIDE DEF c
  <1>5. OfOp(c, d) /\ (Final(c) <=> ~more) /\ (OfSend(c) <=> d = "write")
    BY <1>3 DEF OfOp, Final, OfSend
  <1>6. new = (IF Final(c) THEN "none" ELSE "borrowed") /\ new \notin {"armed", "doomed"}
    BY <1>5
  <1> HIDE DEF new
  <1>7. /\ st' = st /\ kernel' \in UKernel /\ kernel'.cq = Append(kernel.cq, c)
        /\ kernel'.op[d] = new /\ \A e \in Dirs : e # d => kernel'.op[e] = kernel.op[e]
        /\ QueueOk(kernel', kernel'.cq) /\ Names(st, kernel', kernel'.cq)
        /\ Owed(st, kernel', kernel'.cq)
    BY <1>2, <1>3, <1>4, <1>5, <1>6, OpStep
  <1>8. USent(st, kernel, out)
    BY DEF UInv
  <1>9. USent(st, kernel', out)
    <2>1. CASE d = "write"
      <3>1. Writing(st) /\ ~AnyOp(kernel.cq, "write")
        <4>1. kernel.cq \in Seq(UCqe) /\ OpQueue(kernel.op[d], kernel.cq, d)
          BY <1>2 DEF UKernel, UInv, QueueOk
        <4>2. ~AnyOp(kernel.cq, "write")
          BY <1>2, <2>1, <4>1, OpQueueIs
        <4>3. QED
          BY <1>2, <2>1, <4>2, Zenon DEF UInv, Names, NamesOf, Writing
      <3>2. Moved(c.res, st.left, out)
        BY <1>2, <1>3, <1>8, <2>1 DEF Moved, USent
      <3>3. QED
        BY <1>2, <1>3, <1>5, <1>6, <1>7, <1>8, <2>1, <3>1, <3>2, SentAnswered, Zenon
    <2>2. CASE d # "write"
      <3>1. kernel'.op["write"] = kernel.op["write"] /\ ~OfSend(c)
        BY <1>5, <1>7, <2>2 DEF Dirs
      <3>2. QED
        BY <1>2, <1>3, <1>7, <1>8, <3>1, SentPost
    <2>3. QED
      BY <2>1, <2>2
  <1>10. QED
    BY <1>2, <1>7, <1>9, KernelStep, Zenon

(* The kernel is done with the buffer of a zero-copy send. *)
LEMMA KernelNotifyStep ==
  ASSUME UInv, KernelNotify
  PROVE  UInv' /\ StepOk
  <1> DEFINE c == Cqe("notify", "write", Result("none", 0), FALSE)
  <1>1. /\ Post(c, [kernel EXCEPT !.op["write"] = "none"]) /\ "write" \in Dirs
        /\ kernel.op["write"] = "borrowed" /\ out' = out /\ out \in Nat /\ kernel \in UKernel
    BY Zenon DEF KernelNotify, UInv, Dirs
  <1>2. c \in UCqe /\ c.what = "notify" /\ c.dir = "write"
    <2>1. "none" \in UKinds
      BY DEF UKinds
    <2>2. QED
      BY <1>1, <2>1 DEF Cqe, UCqe, UResult, Result
  <1> HIDE DEF c
  <1>3. OfOp(c, "write") /\ Final(c) /\ ~OfSend(c)
    BY <1>2 DEF OfOp, Final, OfSend
  <1>4. /\ st' = st /\ kernel' \in UKernel /\ kernel'.cq = Append(kernel.cq, c)
        /\ kernel'.op["write"] = "none"
        /\ QueueOk(kernel', kernel'.cq) /\ Names(st, kernel', kernel'.cq)
        /\ Owed(st, kernel', kernel'.cq)
    BY <1>1, <1>2, <1>3, OpStep
  <1>5. USent(st, kernel', out)
    BY <1>1, <1>2, <1>3, <1>4, SentPost DEF UInv
  <1>6. QED
    BY <1>1, <1>4, <1>5, KernelStep

(* A request finds operations to cancel, and completes without a completion of theirs. *)
LEMMA DoomStep ==
  ASSUME UInv, st' = st, out' = out, kernel' \in UKernel, kernel'.cq = kernel.cq,
         \A d \in Dirs : \/ kernel'.op[d] = kernel.op[d]
                         \/ kernel.op[d] = "armed" /\ kernel'.op[d] = "doomed",
         \A d \in Dirs : \/ kernel'.cancel[d] = kernel.cancel[d]
                         \/ kernel.cancel[d] = "sent" /\ kernel'.cancel[d] = "applied"
  PROVE  UInv' /\ StepOk
  <1> DEFINE q == kernel.cq
  <1>1. q \in Seq(UCqe) /\ out \in Nat
    BY DEF UInv, UKernel
  <1>2. QueueOk(kernel', q)
    <2> SUFFICES ASSUME NEW d \in Dirs
                 PROVE  OpQueue(kernel'.op[d], q, d) /\ CancelQueue(kernel'.cancel[d], q, d)
      BY DEF QueueOk
    <2>1. OpQueue(kernel.op[d], q, d) /\ CancelQueue(kernel.cancel[d], q, d)
      BY DEF UInv, QueueOk
    <2> HIDE DEF q
    <2>2. OpQueue(kernel'.op[d], q, d)
      <3>1. kernel.op[d] = "armed" => ~AnyOp(q, d)
        BY <1>1, <2>1, OpQueueIs
      <3>2. QED
        BY <2>1, <3>1 DEF OpQueue, AnyOp
    <2>3. CancelQueue(kernel'.cancel[d], q, d)
      BY <2>1 DEF CancelQueue
    <2>4. QED
      BY <2>2, <2>3
  <1>3. Names(st, kernel', q) /\ Owed(st, kernel', q)
    BY Zenon DEF UInv, Names, NamesOf, Owed, OwedOf
  <1>4. USent(st, kernel', out)
    <2>1. kernel'.op["write"] \in {"armed", "doomed"} <=> kernel.op["write"] \in {"armed", "doomed"}
      BY DEF Dirs
    <2>2. Unanswered(kernel') <=> Unanswered(kernel)
      BY <2>1 DEF Unanswered
    <2>3. QED
      BY <2>1, <2>2, Zenon DEF UInv, USent
  <1>5. QED
    BY <1>1, <1>2, <1>3, <1>4, KernelStep

(* A deadline cancel finds its target, and then completes. *)
LEMMA KernelCancelStep ==
  ASSUME UInv, NEW d \in Dirs, KernelCancel(d)
  PROVE  UInv' /\ StepOk
  <1>1. kernel \in UKernel /\ out \in Nat /\ out' = out /\ st' = st
    BY DEF UInv, KernelCancel, Post
  <1>2. CASE /\ kernel.cancel[d] = "sent"
             /\ kernel' = [kernel EXCEPT !.cancel[d] = "applied",
                                         !.op[d] = Doom(kernel.op)[d]]
    <2>1. Doom(kernel.op)[d] = IF kernel.op[d] = "armed" THEN "doomed" ELSE kernel.op[d]
      BY DEF Doom
    <2> DEFINE x == Doom(kernel.op)[d]
    <2>2. x \in {"none", "armed", "doomed", "borrowed"}
      BY <1>1, <2>1 DEF UKernel
    <2> HIDE DEF x
    <2>3. kernel' = [kernel EXCEPT !.cancel[d] = "applied", !.op[d] = x]
      BY <1>2 DEF x
    <2>4. /\ kernel' \in UKernel /\ kernel'.cq = kernel.cq
          /\ kernel'.op = [kernel.op EXCEPT ![d] = x]
          /\ kernel'.cancel = [kernel.cancel EXCEPT ![d] = "applied"]
      BY <1>1, <2>2, <2>3, Zenon DEF UKernel
    <2>5. /\ \A e \in Dirs : \/ kernel'.op[e] = kernel.op[e]
                             \/ kernel.op[e] = "armed" /\ kernel'.op[e] = "doomed"
          /\ \A e \in Dirs : \/ kernel'.cancel[e] = kernel.cancel[e]
                             \/ kernel.cancel[e] = "sent" /\ kernel'.cancel[e] = "applied"
      BY <1>1, <1>2, <2>1, <2>4 DEF UKernel, x
    <2>6. QED
      BY <1>1, <2>4, <2>5, DoomStep
  <1>3. CASE /\ kernel.cancel[d] = "applied"
             /\ Post(Cqe("cancel", d, Result("none", 0), FALSE),
                     [kernel EXCEPT !.cancel[d] = "none"])
    <2> DEFINE c == Cqe("cancel", d, Result("none", 0), FALSE)
               q == kernel.cq
               r == Append(q, c)
    <2>1. c \in UCqe /\ c.what = "cancel" /\ c.dir = d
      <3>1. "none" \in UKinds
        BY DEF UKinds
      <3>2. QED
        BY <3>1 DEF Cqe, UCqe, UResult, Result
    <2>2. kernel' = [kernel EXCEPT !.cancel[d] = "none", !.cq = r]
      BY <1>1, <1>3 DEF Post, UKernel
    <2> HIDE DEF c
    <2>3. /\ OfCancel(c, d) /\ ~OfSend(c)
          /\ \A e : ~OfOp(c, e) /\ (e # d => ~OfCancel(c, e))
      BY <2>1 DEF OfCancel, OfSend, OfOp
    <2>4. /\ q \in Seq(UCqe) /\ r \in Seq(UCqe)
          /\ \A e : AnyOp(r, e) <=> AnyOp(q, e)
          /\ \A e : AnyCancel(r, e) <=> AnyCancel(q, e) \/ OfCancel(c, e)
      BY <1>1, <2>1, <2>3, PostAny DEF UKernel
    <2>5. CancelQueue("none", r, d)
      BY <1>3, <2>1, <2>3, <2>4, PostCancel DEF UInv, QueueOk
    <2>6. /\ \A e \in Dirs : OpQueue(kernel.op[e], r, e)
          /\ \A e \in Dirs : e # d => CancelQueue(kernel.cancel[e], r, e)
      BY <2>1, <2>3, <2>4, PostOther, Zenon DEF UInv, QueueOk
    <2> HIDE DEF r
    <2>7. /\ kernel' \in UKernel /\ kernel'.cq = r /\ kernel'.op = kernel.op
          /\ kernel'.cancel[d] = "none"
          /\ \A e \in Dirs : e # d => kernel'.cancel[e] = kernel.cancel[e]
      BY <1>1, <2>2, <2>4, Zenon DEF UKernel
    <2>8. QueueOk(kernel', r)
      BY <2>5, <2>6, <2>7 DEF QueueOk
    <2>9. \A e \in Dirs : /\ NamesOf(st.lane[e], kernel.op[e], kernel.cancel[e], q, e)
                          /\ OwedOf(st.lane[e], kernel.op[e], q, e)
      BY DEF UInv, Names, Owed
    <2> HIDE DEF q
    <2>10. Names(st, kernel', r)
      <3>1. NamesOf(st.lane[d], kernel.op[d], "none", r, d)
        BY <1>3, <2>4, <2>9 DEF NamesOf
      <3>2. \A e \in Dirs : e # d => NamesOf(st.lane[e], kernel.op[e], kernel.cancel[e], r, e)
        BY <2>3, <2>4, <2>9, Zenon DEF NamesOf
      <3>3. QED
        BY <2>7, <3>1, <3>2 DEF Names
    <2>11. Owed(st, kernel', r)
      BY <2>4, <2>7, <2>9, Zenon DEF Owed, OwedOf
    <2>12. USent(st, kernel', out)
      BY <1>1, <2>1, <2>3, <2>7, SentPost DEF UInv, r, q
    <2>13. QED
      BY <1>1, <2>7, <2>8, <2>10, <2>11, <2>12, KernelStep
  <1>4. QED
    BY <1>2, <1>3, Zenon DEF KernelCancel

(* Close()'s cancel by descriptor, and the cancels of a stopping loop. *)
LEMMA KernelSweepStep ==
  ASSUME UInv, KernelSweep \/ KernelCancelAll
  PROVE  UInv' /\ StepOk
  <1>1. kernel \in UKernel /\ out \in Nat /\ out' = out /\ st' = st
    BY DEF UInv, KernelSweep, KernelCancelAll, Post
  <1>2. /\ Doom(kernel.op) \in [Dirs -> {"none", "armed", "doomed", "borrowed"}]
        /\ \A e \in Dirs : \/ Doom(kernel.op)[e] = kernel.op[e]
                           \/ kernel.op[e] = "armed" /\ Doom(kernel.op)[e] = "doomed"
    BY <1>1 DEF Doom, UKernel
  <1>3. CASE \/ kernel' = [kernel EXCEPT !.sweep = "applied", !.op = Doom(@)]
             \/ kernel' = [kernel EXCEPT !.op = Doom(@)]
    <2> DEFINE x == Doom(kernel.op)
    <2>1. \/ kernel' = [kernel EXCEPT !.sweep = "applied", !.op = x]
          \/ kernel' = [kernel EXCEPT !.op = x]
      BY <1>3
    <2> HIDE DEF x
    <2>2. x \in [Dirs -> {"none", "armed", "doomed", "borrowed"}]
      BY <1>2 DEF x
    <2>3. /\ kernel' \in UKernel /\ kernel'.cq = kernel.cq /\ kernel'.op = x
          /\ kernel'.cancel = kernel.cancel
      BY <1>1, <2>1, <2>2, Zenon DEF UKernel
    <2>4. QED
      BY <1>1, <1>2, <2>3, DoomStep DEF x
  <1>4. CASE Post(Cqe("sweep", "read", Result("none", 0), FALSE),
                  [kernel EXCEPT !.sweep = "none"])
    <2> DEFINE c == Cqe("sweep", "read", Result("none", 0), FALSE)
               q == kernel.cq
               r == Append(q, c)
    <2>1. c \in UCqe /\ c.what = "sweep"
      <3>1. "none" \in UKinds /\ "read" \in Dirs
        BY DEF UKinds, Dirs
      <3>2. QED
        BY <3>1 DEF Cqe, UCqe, UResult, Result
    <2>2. kernel' = [kernel EXCEPT !.sweep = "none", !.cq = r]
      BY <1>1, <1>4 DEF Post, UKernel
    <2> HIDE DEF c
    <2>3. ~OfSend(c) /\ \A e : ~OfOp(c, e) /\ ~OfCancel(c, e)
      BY <2>1 DEF OfCancel, OfSend, OfOp
    <2>4. /\ q \in Seq(UCqe) /\ r \in Seq(UCqe)
          /\ \A e : (AnyOp(r, e) <=> AnyOp(q, e)) /\ (AnyCancel(r, e) <=> AnyCancel(q, e))
      BY <1>1, <2>1, <2>3, PostAny DEF UKernel
    <2>5. \A e \in Dirs : OpQueue(kernel.op[e], r, e) /\ CancelQueue(kernel.cancel[e], r, e)
      BY <2>1, <2>3, <2>4, PostOther, Zenon DEF UInv, QueueOk
    <2> HIDE DEF r
    <2>6. /\ kernel' \in UKernel /\ kernel'.cq = r /\ kernel'.op = kernel.op
          /\ kernel'.cancel = kernel.cancel
      BY <1>1, <2>2, <2>4, Zenon DEF UKernel
    <2>7. QueueOk(kernel', r)
      BY <2>5, <2>6 DEF QueueOk
    <2>8. Names(st, kernel', r) /\ Owed(st, kernel', r)
      BY <2>4, <2>6, Zenon DEF UInv, Names, NamesOf, Owed, OwedOf
    <2>9. USent(st, kernel', out)
      BY <1>1, <2>1, <2>3, <2>6, SentPost DEF UInv, r, q
    <2>10. QED
      BY <1>1, <2>6, <2>7, <2>8, <2>9, KernelStep
  <1>5. QED
    BY <1>3, <1>4, Zenon DEF KernelSweep, KernelCancelAll

-----------------------------------------------------------------------------
(* The theorems.                                                           *)

(* A stream that was just adopted. *)
LEMMA InitInv ==
  ASSUME ValidConstants, Init
  PROVE  UInv
  <1>1. /\ NewLane \in ULane /\ NewLane.owner = NoOne /\ ~NewLane.requested
        /\ ~NewLane.submitted /\ ~NewLane.primary /\ NewLane.timer = "off"
    BY DEF NewLane, ULane
  <1>2. NewLifecycle \in ULife /\ NewLifecycle.resource = "Open"
    BY DEF NewLifecycle, ULife
  <1>3. Result("none", 0) \in UResult
    BY DEF Result, UResult, UKinds
  <1>4. /\ st \in UStream /\ st.fd = TRUE /\ st.life = NewLifecycle /\ st.ready = <<>>
        /\ st.left = 0 /\ st.lane = [d \in Dirs |-> NewLane]
    <2> HIDE DEF ULane, ULife, UResult
    <2>1. [d \in Dirs |-> NewLane] \in [Dirs -> ULane]
      BY <1>1
    <2>2. [c \in Users |-> Result("none", 0)] \in [Users -> UResult]
      BY <1>3
    <2>3. <<>> \in Seq(UWork)
      OBVIOUS
    <2>4. NewStream \in UStream
      BY <1>2, <2>1, <2>2, <2>3 DEF NewStream, UStream
    <2>5. QED
      BY <2>4 DEF Init, NewStream
  <1>5. UGood(st)
    BY <1>1, <1>2, <1>4 DEF UGood, LaneOk, LaneInv, ReadyOk, ReadyOnce
  <1>6. /\ kernel \in UKernel /\ kernel.cq = <<>> /\ out = 0
        /\ \A d \in Dirs : kernel.op[d] = "none" /\ kernel.cancel[d] = "none"
    BY DEF Init, UKernel
  <1>7. QueueOk(kernel, kernel.cq)
    BY <1>6 DEF QueueOk, OpQueue, CancelQueue
  <1>8. Names(st, kernel, kernel.cq) /\ Owed(st, kernel, kernel.cq)
    BY <1>1, <1>4, <1>6 DEF Names, NamesOf, Owed, OwedOf, Running, AnyOp, AnyCancel
  <1>9. USent(st, kernel, out)
    BY <1>1, <1>4, <1>6 DEF USent, Writing, InReady, Unanswered, Dirs
  <1>10. QED
    BY <1>5, <1>6, <1>7, <1>8, <1>9 DEF UInv

(* Every step of the loop thread and of the kernel keeps the invariant. *)
LEMMA NextInv ==
  ASSUME UInv, Next
  PROVE  UInv' /\ StepOk
  <1>1. CASE HandleCqe
    BY <1>1, HandleCqeStep
  <1>2. CASE Write
    BY <1>2, CallWriteStep
  <1>3. CASE Resume
    BY <1>3, ResumeStep
  <1>4. CASE CloseRead \/ CloseWrite \/ Close
    BY <1>4, CloseStep
  <1>5. CASE \E c \in Readers : Read(c)
    BY <1>5, ReadStep
  <1>6. CASE \E d \in Dirs : DeadlineTimer(d) \/ RetryTimer(d) \/ CallSetDeadline(d)
    BY <1>6, DeadlineStep
  <1>7. CASE \E d \in Dirs : Expire(d)
    <2>1. PICK d \in Dirs : Expire(d)
      BY <1>7
    <2>2. UGood(st) /\ kernel' = kernel /\ out' = out
      BY <2>1 DEF UInv, Expire
    <2>3. Steady(st, st') /\ LateOk(st, st')
      BY <2>1, <2>2, ExpireGood, Zenon DEF Expire
    <2>4. USent(st', kernel, out)
      BY <2>3, SentKept DEF Steady, UInv
    <2>5. Names(st', kernel, kernel.cq) /\ Owed(st', kernel, kernel.cq)
      BY <2>3, Zenon DEF UInv, Names, NamesOf, Owed, OwedOf, Steady, KeepsLane, Running
    <2>6. QED
      BY <2>2, <2>3, <2>4, <2>5, Zenon DEF UInv, StepOk, Steady
  <1>8. CASE \E d \in Dirs : KernelFail(d)
    BY <1>8, KernelFailStep
  <1>9. CASE \E d \in Dirs : KernelCancel(d)
    BY <1>9, KernelCancelStep
  <1>10. CASE KernelRecv
    BY <1>10, KernelRecvStep
  <1>11. CASE KernelSend
    BY <1>11, KernelSendStep
  <1>12. CASE KernelNotify
    BY <1>12, KernelNotifyStep
  <1>13. CASE KernelSweep \/ KernelCancelAll
    BY <1>13, KernelSweepStep
  <1>14. CASE LoopRequestStop
    BY <1>14 DEF LoopRequestStop, UInv, StepOk, LateOk
  <1>15. QED
    BY <1>1, <1>2, <1>3, <1>4, <1>5, <1>6, <1>7, <1>8, <1>9, <1>10, <1>11, <1>12, <1>13,
       <1>14 DEF Next

(* A step that changes nothing. *)
LEMMA StutterInv ==
  ASSUME UInv, UNCHANGED vars
  PROVE  UInv' /\ StepOk
  BY DEF UInv, StepOk, LateOk, vars

(* The invariant holds at every step, and no step does what it must not. *)
THEOREM Invariance == ValidConstants /\ Spec => []UInv /\ [][StepOk]_vars
  <1>1. ValidConstants /\ Init => UInv
    BY InitInv
  <1>2. UInv /\ [Next]_vars => UInv' /\ [StepOk]_vars
    BY NextInv, StutterInv
  <1>3. QED
    BY <1>1, <1>2, PTL DEF Spec

(* What a state owes to the invariant: the kernel and the completions name only operations
   whose coroutine is suspended in them ... *)
LEMMA FramesOutlive ==
  ASSUME UInv
  PROVE  FrameOutlivesRequests
  <1> SUFFICES ASSUME NEW d \in Dirs
               PROVE  /\ Named("op", d) => st.lane[d].owner # NoOne /\ ~st.lane[d].primary /\ st.fd
                      /\ Named("cancel", d) => /\ st.lane[d].owner # NoOne /\ st.fd
                                               /\ st.lane[d].submitted /\ ~st.lane[d].terminal
                      /\ st.lane[d].timer # "off" => st.lane[d].owner # NoOne /\ st.fd
    BY DEF FrameOutlivesRequests
  <1>1. NamesOf(st.lane[d], kernel.op[d], kernel.cancel[d], kernel.cq, d)
    BY DEF UInv, Names
  <1>2. LaneOk(st.lane[d], d, st.fd)
    BY DEF UInv, UGood
  <1>3. Named("op", d) => kernel.op[d] # "none" \/ AnyOp(kernel.cq, d)
    BY DEF Named, AnyOp, OfOp
  <1>4. Named("cancel", d) => kernel.cancel[d] # "none" \/ AnyCancel(kernel.cq, d)
    BY DEF Named, AnyCancel, OfCancel
  <1>5. QED
    BY <1>1, <1>2, <1>3, <1>4, Zenon DEF NamesOf, LaneOk, LaneInv, Cancelling

(* ... and the works of coroutines have their handles, if one coroutine reads. *)
LEMMA HandlesKept ==
  ASSUME UInv, OneReader
  PROVE  ReadyKeepsHandle
  BY Zenon DEF UInv, UGood, ReadyOk, WorkOk, ReadyKeepsHandle

(* An operation of the io_uring stream lives in its coroutine's frame: as long as the kernel
   or a completion names it, its coroutine is suspended in it and the descriptor is open,
   and its deadline's timer does not outlast it. *)
THEOREM RequestsInFrames == ValidConstants /\ Spec => []FrameOutlivesRequests
  <1>1. UInv => FrameOutlivesRequests
    BY FramesOutlive
  <1>2. QED
    BY <1>1, Invariance, PTL

(* The work of a coroutine still has its handle when DrainCompletionReady() runs it: the
   CHECK of Work::Run(), if one coroutine reads. *)
THEOREM WorkHasHandle == ValidConstants /\ OneReader /\ Spec => []ReadyKeepsHandle
  <1> SUFFICES ASSUME OneReader PROVE ValidConstants /\ Spec => []ReadyKeepsHandle
    OBVIOUS
  <1>1. UInv => ReadyKeepsHandle
    BY HandlesKept
  <1>2. QED
    BY <1>1, Invariance, PTL

(* Write() succeeds when the socket has accepted all of its buffer and no more. *)
THEOREM WriteSendsOnce == ValidConstants /\ Spec => WritesOnce
  <1>1. [StepOk]_vars =>
          [st.left # 0 /\ st'.left = 0 /\ st'.res[Writer].kind = "ok" => out = WriteSize]_vars
    BY DEF StepOk
  <1>2. QED
    BY <1>1, Invariance, PTL DEF WritesOnce

(* An operation is timed out only by a deadline that has passed and still stands. *)
THEOREM DeadlineStands == ValidConstants /\ Spec => TimeoutsAreDue
  <1>1. [StepOk]_vars =>
          [\A d \in Dirs : ~st.lane[d].late /\ st'.lane[d].late =>
             st.lane[d].deadline = "past"]_vars
    BY DEF StepOk, LateOk
  <1>2. QED
    BY <1>1, Invariance, PTL DEF TimeoutsAreDue
===============================================================================
