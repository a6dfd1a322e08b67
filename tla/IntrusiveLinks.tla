----------------------------- MODULE IntrusiveLinks -----------------------------
(***************************************************************************)
(* detail::IntrusiveList and detail::IntrusiveQueue                        *)
(* (include/alyrn/detail/intrusive_list.h, intrusive_queue.h): two lists,  *)
(* or two queues, that elements are linked into through hooks of their     *)
(* own.  A head is a sentinel; a null link means "not linked".  A walk     *)
(* over a list runs a callback per element, which may unlink its own       *)
(* element and link others, as the participants of a loop's stop do.       *)
(***************************************************************************)
EXTENDS Integers, SequencesExt

CONSTANT MaxNodes    \* bound: elements

Elements == 1..MaxNodes
Heads == {-1, -2}
Null == 0
Idle == [head |-> Null, cur |-> Null, todo |-> <<>>]

VARIABLES
  kind,    \* "list" or "queue"
  next,    \* next_ of every head and element
  prev,    \* prev_; a queue has none
  tail,    \* tail_ of every queue
  order,   \* what callers expect of every head, in order
  walk     \* ForEachSafe() of a list: the element it is at, those it is to visit

linkVars == <<kind, next, prev, tail, order, walk>>

LinksInit ==
  /\ kind \in {"list", "queue"} /\ walk = Idle
  /\ next = [n \in Heads \cup Elements |-> IF n \in Heads THEN n ELSE Null]
  /\ prev = next
  /\ tail = [h \in Heads |-> h] /\ order = [h \in Heads |-> <<>>]

InList(n) == next[n] # Null
Owner(n) == CHOOSE h \in Heads : n \in ToSet(order[h])
Free == walk = Idle

-----------------------------------------------------------------------------
(* Lists.  Links are pairs <<next, prev>> before and after a step.         *)

LinkBetween(l, node, before, after) ==
  <<[l[1] EXCEPT ![node] = after, ![before] = node],
    [l[2] EXCEPT ![node] = before, ![after] = node]>>

SpliceOut(l, node) ==
  <<[l[1] EXCEPT ![l[2][node]] = l[1][node]], [l[2] EXCEPT ![l[1][node]] = l[2][node]]>>

(* SpliceOut() and clear_hook(). *)
Unlink(l, node) ==
  LET s == SpliceOut(l, node)
  IN  <<[s[1] EXCEPT ![node] = Null], [s[2] EXCEPT ![node] = Null]>>

Links == <<next, prev>>
List(l) == kind = "list" /\ next' = l[1] /\ prev' = l[2] /\ UNCHANGED <<kind, tail>>

PushFront(h, n) ==
  /\ Free /\ ~InList(n)
  /\ List(LinkBetween(Links, n, h, next[h]))
  /\ order' = [order EXCEPT ![h] = <<n>> \o @] /\ UNCHANGED walk

PushBack(h, n) ==
  /\ Free /\ ~InList(n)
  /\ List(LinkBetween(Links, n, prev[h], h))
  /\ order' = [order EXCEPT ![h] = Append(@, n)] /\ UNCHANGED walk

PopFront(h) ==
  /\ Free /\ next[h] # h
  /\ List(Unlink(Links, next[h]))
  /\ order' = [order EXCEPT ![h] = Tail(@)] /\ UNCHANGED walk

Erase(n) ==
  /\ Free /\ InList(n)
  /\ List(Unlink(Links, n))
  /\ order' = [order EXCEPT ![Owner(n)] = SelectSeq(@, LAMBDA m : m # n)] /\ UNCHANGED walk

(* Loses the back link of the first element that moves. *)
BugSplice(h, other) ==
  /\ Free /\ h # other /\ next[other] # other
  /\ List(<<[next EXCEPT ![prev[h]] = next[other], ![prev[other]] = h, ![other] = other],
            [prev EXCEPT ![h] = prev[other], ![other] = other]>>)
  /\ order' = [order EXCEPT ![h] = @ \o order[other], ![other] = <<>>] /\ UNCHANGED walk

Splice(h, other) ==
  /\ Free /\ h # other /\ next[other] # other
  /\ List(<<[next EXCEPT ![prev[h]] = next[other], ![prev[other]] = h, ![other] = other],
            [prev EXCEPT ![next[other]] = prev[h], ![h] = prev[other], ![other] = other]>>)
  /\ order' = [order EXCEPT ![h] = @ \o order[other], ![other] = <<>>] /\ UNCHANGED walk

(* The elements from a link to the head, as Clear() passes them. *)
RECURSIVE From(_, _, _)
From(nx, n, h) == IF n = h THEN <<>> ELSE <<n>> \o From(nx, nx[n], h)

Clear(h) ==
  LET all == ToSet(From(next, next[h], h))
      Reset(f) == [n \in DOMAIN f |-> IF n \in all THEN Null ELSE IF n = h THEN h ELSE f[n]]
  IN  /\ Free
      /\ List(<<Reset(next), Reset(prev)>>)
      /\ order' = [order EXCEPT ![h] = <<>>] /\ UNCHANGED walk

(* ForEachSafe() *)
BeginWalk(h) ==
  /\ kind = "list" /\ Free /\ next[h] # h
  /\ walk' = [head |-> h, cur |-> next[h], todo |-> order[h]]
  /\ UNCHANGED <<kind, next, prev, tail, order>>

(* Goes on from the element it is at, after the callback. *)
BugWalkStep(l, after) == l[1][walk.cur]

(* Goes on with the element that came next before the callback. *)
WalkStep(l, after) == after

(* One element: the callback unlinks it and links others behind, or leaves *)
(* it to the walk to remove.                                               *)
Visit(self, pushed, remove) ==
  LET h == walk.head
      after == next[walk.cur]
      erased == IF self THEN Unlink(Links, walk.cur) ELSE Links
      called == IF pushed = Null THEN erased ELSE LinkBetween(erased, pushed, erased[2][h], h)
      l == IF remove THEN Unlink(called, walk.cur) ELSE called
      new == IF pushed = Null THEN <<>> ELSE <<pushed>>
      cur == WalkStep(l, after)
  IN  /\ ~Free /\ ~(self /\ remove)
      /\ pushed # Null => ~InList(pushed)
      /\ List(l)
      /\ order' = [order EXCEPT
           ![h] = SelectSeq(@, LAMBDA m : m # walk.cur \/ ~(self \/ remove)) \o new]
      /\ walk' = IF cur = h THEN Idle
                 ELSE [walk EXCEPT !.cur = cur,
                         !.todo = Tail(@) \o IF Len(@) > 1 THEN new ELSE <<>>]

-----------------------------------------------------------------------------
(* Queues.                                                                 *)

Queue(nx, tl) ==
  kind = "queue" /\ Free /\ next' = nx /\ tail' = tl /\ UNCHANGED <<kind, prev, walk>>

QueuePushBack(h, n) ==
  /\ ~InList(n)
  /\ Queue([next EXCEPT ![tail[h]] = n, ![n] = h], [tail EXCEPT ![h] = n])
  /\ order' = [order EXCEPT ![h] = Append(@, n)]

(* Keeps the tail when the last element leaves. *)
BugQueuePopFront(h) ==
  LET n == next[h]
  IN  /\ n # h
      /\ Queue([next EXCEPT ![h] = next[n], ![n] = Null], tail)
      /\ order' = [order EXCEPT ![h] = Tail(@)]

QueuePopFront(h) ==
  LET n == next[h]
  IN  /\ n # h
      /\ Queue([next EXCEPT ![h] = next[n], ![n] = Null],
               IF next[n] = h THEN [tail EXCEPT ![h] = h] ELSE tail)
      /\ order' = [order EXCEPT ![h] = Tail(@)]

QueueClear(h) ==
  LET all == ToSet(From(next, next[h], h))
  IN  /\ Queue([n \in DOMAIN next |-> IF n \in all THEN Null ELSE IF n = h THEN h ELSE next[n]],
               [tail EXCEPT ![h] = h])
      /\ order' = [order EXCEPT ![h] = <<>>]

QueueSplice(h, other) ==
  /\ h # other /\ next[other] # other
  /\ Queue([next EXCEPT ![tail[h]] = next[other], ![tail[other]] = h, ![other] = other],
           [tail EXCEPT ![h] = tail[other], ![other] = other])
  /\ order' = [order EXCEPT ![h] = @ \o order[other], ![other] = <<>>]

(* ForEachSafe() from an element on: the links and the tail it leaves. *)
RECURSIVE QueueRemoveIf(_, _, _, _, _, _)
QueueRemoveIf(nx, tl, h, before, cur, gone) ==
  IF cur = h THEN <<nx, tl>>
  ELSE IF cur \notin gone THEN QueueRemoveIf(nx, tl, h, cur, nx[cur], gone)
  ELSE QueueRemoveIf([nx EXCEPT ![before] = nx[cur], ![cur] = Null],
                     IF tl[h] = cur THEN [tl EXCEPT ![h] = before] ELSE tl,
                     h, before, nx[cur], gone)

QueueForEachSafe(h, gone) ==
  LET r == QueueRemoveIf(next, tail, h, h, next[h], gone)
  IN  /\ Queue(r[1], r[2])
      /\ order' = [order EXCEPT ![h] = SelectSeq(@, LAMBDA n : n \notin gone)]

-----------------------------------------------------------------------------
LinksNext ==
  \/ \E h \in Heads :
       \/ PopFront(h) \/ Clear(h) \/ BeginWalk(h) \/ QueuePopFront(h) \/ QueueClear(h)
       \/ \E n \in Elements : PushFront(h, n) \/ PushBack(h, n) \/ QueuePushBack(h, n)
       \/ \E other \in Heads : Splice(h, other) \/ QueueSplice(h, other)
       \/ \E gone \in SUBSET Elements : QueueForEachSafe(h, gone)
  \/ \E n \in Elements : Erase(n)
  \/ \E self, remove \in BOOLEAN, pushed \in Elements \cup {Null} : Visit(self, pushed, remove)

LinksSpec == LinksInit /\ [][LinksNext]_linkVars

-----------------------------------------------------------------------------
(* The links lead through exactly the elements that callers expect, in     *)
(* their order and back, an element that is in no list has null hooks, a   *)
(* queue knows its last element, and a walk is at the first element it has *)
(* still to visit, whatever its callbacks have linked and unlinked.        *)
LinksHoldOrder ==
  /\ \A h \in Heads : From(next, next[h], h) = order[h]
  /\ \A n \in Elements : InList(n) = (\E h \in Heads : n \in ToSet(order[h]))
  /\ kind = "list" => \A n \in DOMAIN next : InList(n) => prev[next[n]] = n
  /\ kind = "queue" =>
       \A h \in Heads : tail[h] = IF order[h] = <<>> THEN h ELSE Last(order[h])
  /\ ~Free => walk.todo # <<>> /\ walk.cur = Head(walk.todo)
================================================================================
