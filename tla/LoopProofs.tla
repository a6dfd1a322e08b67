------------------------------- MODULE LoopProofs ------------------------------
(***************************************************************************)
(* The loops of both backends, for any number of posting threads and       *)
(* callbacks, and of requests on io_uring: no wakeup is lost, accepted     *)
(* callbacks run in order, and the counts of the io_uring loop are true.   *)
(***************************************************************************)
EXTENDS EpollLoop, UringLoop, SequenceTheorems, FiniteSetTheorems, TLAPS

Upto(n) == [k \in 1..n |-> k]

(* Where the loop thread does not go back to epoll_wait(). *)
ShuttingDown == {"shutdown", "pending", "close", "closing", "stop", "done"}

(* Somebody makes, or has made, the eventfd readable. *)
Announced == wakefd \/ owes # {}

-----------------------------------------------------------------------------
(* Sequences of callbacks.                                                 *)

(* A callback accepted now, as Post() appends it, is the next of the order. *)
LEMMA UptoGrows ==
  ASSUME NEW s \in Seq(Nat), NEW n \in Nat, s = Upto(n)
  PROVE  Append(s, n + 1) = Upto(n + 1)
<1>1. Len(s) = n
  BY DEF Upto
<1>2. Append(s, n + 1) = [k \in 1..(n + 1) |-> IF k = n + 1 THEN n + 1 ELSE s[k]]
  BY <1>1
<1> QED
  BY <1>1, <1>2 DEF Upto

(* Appending to the queue appends to all that was accepted. *)
LEMMA AppendLast ==
  ASSUME NEW r \in Seq(Nat), NEW b \in Seq(Nat), NEW p \in Seq(Nat), NEW x \in Nat
  PROVE  r \o b \o Append(p, x) = Append(r \o b \o p, x)
<1> DEFINE rb == r \o b
<1>1. rb \in Seq(Nat)
  OBVIOUS
<1> HIDE DEF rb
<1>2. rb \o Append(p, x) = Append(rb \o p, x)
  BY <1>1
<1> QED
  BY <1>2 DEF rb

(* Running the first callback of a batch moves it to the ones that ran. *)
LEMMA HeadMoves ==
  ASSUME NEW r \in Seq(Nat), NEW b \in Seq(Nat), b # <<>>
  PROVE  /\ Append(r, Head(b)) \o Tail(b) = r \o b
         /\ Head(b) \in Nat /\ Tail(b) \in Seq(Nat)
<1>1. Head(b) \in Nat /\ Tail(b) \in Seq(Nat) /\ Len(b) \in Nat /\ Len(b) # 0
  BY HeadTailProperties, EmptySeq
<1>2. Len(Append(r, Head(b)) \o Tail(b)) = Len(r \o b)
  BY <1>1
<1>3. ASSUME NEW k \in 1..Len(r \o b)
      PROVE  (Append(r, Head(b)) \o Tail(b))[k] = (r \o b)[k]
  BY <1>1
<1>4. Append(r, Head(b)) \o Tail(b) \in Seq(Nat) /\ r \o b \in Seq(Nat)
  BY <1>1
<1> QED
  BY <1>1, <1>2, <1>3, <1>4, SeqEqual

-----------------------------------------------------------------------------
(* The mailbox.                                                            *)

(* A step of Post() on any thread, or none. *)
Grows ==
  \/ posted' = posted /\ accepted' = accepted
  \/ ~closed /\ accepted' = accepted + 1 /\ posted' = Append(posted, accepted + 1)

(* What user code on the loop thread does to the mailbox: it announces what it posts. *)
UserEffect ==
  /\ Grows
  /\ state' \in {"created", "running", "stopping", "stopped"}
  /\ posted' \in Seq(Nat) /\ accepted' \in Nat /\ work' \in Nat
  /\ wakefd' \in BOOLEAN /\ closed' = closed /\ owes' = owes
  /\ posted' # <<>> => posted # <<>> \/ wakefd'
  /\ wakefd => wakefd'
  /\ state' # state => state \in {"created", "running"} /\ state' = "stopping" /\ wakefd'

(* That is all that UserCode may do. *)
LEMMA UserCodeStep ==
  ASSUME MailboxType, NEW scheduled \in Nat, UserCode(scheduled)
  PROVE  UserEffect
<1>1. work' \in Nat /\ closed' = closed /\ owes' = owes
  BY LoopBounds DEF UserCode
<1>2. CASE PostHere
  <2>1. accepted + 1 \in Nat /\ Append(posted, accepted + 1) \in Seq(Nat)
    BY DEF MailboxType
  <2>2. Grows /\ posted' \in Seq(Nat) /\ accepted' \in Nat
    BY <1>2, <2>1 DEF PostHere, Grows
  <2>3. state' = state /\ wakefd' = (wakefd \/ posted = <<>>)
    BY <1>2 DEF PostHere
  <2>4. wakefd' \in BOOLEAN /\ (posted # <<>> \/ wakefd') /\ (wakefd => wakefd')
    BY <2>3, Zenon DEF MailboxType
  <2> QED
    BY <1>1, <2>2, <2>3, <2>4 DEF UserEffect, MailboxType
<1>3. CASE StopHere
  BY <1>1, <1>3 DEF StopHere, Grows, UserEffect, MailboxType
<1>4. CASE UNCHANGED <<state, posted, wakefd, accepted>>
  BY <1>1, <1>4 DEF Grows, UserEffect, MailboxType
<1> QED
  BY <1>2, <1>3, <1>4 DEF UserCode

(* Accepting callbacks, or none, keeps the order. *)
LEMMA GrowsInOrder ==
  ASSUME NEW r \in Seq(Nat), NEW b \in Seq(Nat), posted \in Seq(Nat), accepted \in Nat,
         r \o b \o posted = Upto(accepted), Grows
  PROVE  r \o b \o posted' = Upto(accepted')
<1>1. CASE posted' = posted /\ accepted' = accepted
  BY <1>1
<1>2. CASE accepted' = accepted + 1 /\ posted' = Append(posted, accepted + 1)
  <2> DEFINE n == accepted + 1
             all == r \o b \o posted
  <2>0. n \in Nat
    OBVIOUS
  <2> HIDE DEF n
  <2>1. r \o b \o Append(posted, n) = Append(r \o b \o posted, n)
    BY <2>0, AppendLast, Zenon
  <2>2. all = Upto(accepted)
    OBVIOUS
  <2>3. all \in Seq(Nat)
    <3>1. r \o b \in Seq(Nat)
      OBVIOUS
    <3> QED
      BY <3>1, ConcatProperties, Zenon
  <2> HIDE DEF all
  <2>4. Append(all, accepted + 1) = Upto(accepted + 1)
    BY <2>2, <2>3, UptoGrows, Zenon
  <2> QED
    BY <1>2, <2>1, <2>4, Zenon DEF n, all
<1> QED
  BY <1>1, <1>2 DEF Grows

(* Callbacks stay in order while one runs, and when the queue is swapped out. *)
LEMMA InOrderKept ==
  ASSUME MailboxType, ran \o batch \o posted = Upto(accepted),
         \/ /\ Grows
            /\ ran' \in Seq(Nat) /\ batch' \in Seq(Nat) /\ ran' \o batch' = ran \o batch
         \/ TakePosted /\ batch = <<>>
  PROVE  (ran \o batch \o posted = Upto(accepted))'
  <1>1. CASE Grows /\ ran' \in Seq(Nat) /\ batch' \in Seq(Nat) /\ ran' \o batch' = ran \o batch
    <2> DEFINE r == ran'
               b == batch'
    <2>1. r \in Seq(Nat) /\ b \in Seq(Nat) /\ posted \in Seq(Nat) /\ accepted \in Nat
      BY <1>1 DEF MailboxType
    <2>2. r \o b \o posted = Upto(accepted) /\ Grows
      BY <1>1
    <2> HIDE DEF r, b
    <2>3. r \o b \o posted' = Upto(accepted')
      BY <2>1, <2>2, GrowsInOrder, Zenon
    <2>4. QED
      BY <2>3 DEF r, b, Upto
  <1>2. CASE TakePosted /\ batch = <<>>
    <2>1. ran \in Seq(Nat) /\ posted \in Seq(Nat)
      BY DEF MailboxType
    <2>2. ran \o <<>> \o posted = ran \o posted /\ ran \o posted \o <<>> = ran \o posted
      BY <2>1
    <2>3. QED
      BY <1>2, <2>2 DEF TakePosted, Upto
  <1>3. QED
    BY <1>1, <1>2, Zenon

(* Running the first callback of the batch, on either loop. *)
LEMMA CallbackMoves ==
  ASSUME MailboxType, batch # <<>>, batch' = Tail(batch), ran' = Append(ran, Head(batch))
  PROVE  ran' \in Seq(Nat) /\ batch' \in Seq(Nat) /\ ran' \o batch' = ran \o batch
<1>1. ran \in Seq(Nat) /\ batch \in Seq(Nat)
  BY DEF MailboxType
<1>2. /\ Append(ran, Head(batch)) \o Tail(batch) = ran \o batch
      /\ Head(batch) \in Nat /\ Tail(batch) \in Seq(Nat)
  BY <1>1, HeadMoves, Zenon
<1>3. Append(ran, Head(batch)) \in Seq(Nat)
  BY <1>1, <1>2, AppendProperties
<1> QED
  BY <1>2, <1>3, Zenon

-----------------------------------------------------------------------------
(* The inductive invariant of epoll::Loop.                                 *)

(* What was posted is announced, unless the thread is about to take it; a stop is
   announced where epoll_wait() could miss it. *)
NewsAnnounced ==
  /\ posted # <<>> => Announced \/ pc \in {"swap"} \cup ShuttingDown
  /\ state = "stopping" => Announced \/ pc # "poll"

(* The queue, the batch and what ran are all that was accepted, in order. *)
Ordered ==
  /\ ran \o batch \o posted = Upto(accepted)
  /\ pc \notin {"posted", "closing"} => batch = <<>>
  /\ pc \in {"stop", "done"} => closed /\ posted = <<>>
  /\ state = "stopped" => pc = "done"

IInv == TypeOK /\ NewsAnnounced /\ Ordered

(* A handler, a coroutine or a callback keeps the invariant: r and b stand for what ran
   and for the batch after the step, which together are what they were. *)
LEMMA UserCodeKeeps ==
  ASSUME IInv, NEW scheduled \in Nat, UserCode(scheduled),
         ran' \in Seq(Nat), batch' \in Seq(Nat), ran' \o batch' = ran \o batch,
         batch = <<>> => batch' = <<>>,
         pc' = pc, pc \notin {"poll", "stop", "done"},
         turn' \in Nat, active' \subseteq {"wakeup", "other"}
  PROVE  IInv'
<1>1. TypeOK
  BY DEF IInv
<1>2. UserEffect
  BY <1>1, UserCodeStep DEF TypeOK
<1>3. TypeOK'
  BY <1>1, <1>2, Zenon DEF UserEffect, TypeOK, MailboxType
<1>4. NewsAnnounced'
  BY <1>2 DEF UserEffect, IInv, NewsAnnounced, Announced
<1>5. (ran \o batch \o posted = Upto(accepted))'
  BY <1>1, <1>2, InOrderKept, Zenon DEF UserEffect, TypeOK, IInv, Ordered
<1>6. Ordered'
  BY <1>2, <1>5 DEF UserEffect, IInv, Ordered
<1> QED
  BY <1>3, <1>4, <1>6 DEF IInv

(* RunCallback moves the first callback of the batch to the ones that ran. *)
LEMMA CallbackKeeps ==
  ASSUME IInv, RunCallback, pc' = pc, pc \in {"posted", "closing"}, UNCHANGED <<turn, active>>
  PROVE  IInv'
<1>1. MailboxType /\ batch # <<>> /\ batch' = Tail(batch)
  BY DEF IInv, TypeOK, RunCallback
<1>2. ran' \in Seq(Nat) /\ batch' \in Seq(Nat) /\ ran' \o batch' = ran \o batch
  BY <1>1, CallbackMoves, Zenon DEF RunCallback
<1>3. UserCode(work) /\ work \in Nat /\ turn' \in Nat /\ active' \subseteq {"wakeup", "other"}
  BY DEF RunCallback, IInv, TypeOK, MailboxType
<1> QED
  BY <1>1, <1>2, <1>3, UserCodeKeeps, Zenon

(* RunPosted() and DrainPostedAndClose() swap the queue out while no batch is left. *)
LEMMA TakeKeeps ==
  ASSUME IInv, TakePosted, UNCHANGED <<turn, active>>,
         \/ pc = "swap" /\ pc' = "posted"
         \/ pc = "close" /\ pc' = "closing"
  PROVE  IInv'
<1>1. MailboxType /\ batch = <<>>
  BY DEF IInv, Ordered, TypeOK
<1>2. (ran \o batch \o posted = Upto(accepted))'
  BY <1>1, InOrderKept DEF IInv, Ordered
<1>3. TypeOK' /\ NewsAnnounced'
  BY DEF IInv, TypeOK, MailboxType, NewsAnnounced, Announced, TakePosted, Steps
<1>4. Ordered'
  BY <1>1, <1>2 DEF IInv, Ordered, TakePosted
<1> QED
  BY <1>3, <1>4 DEF IInv

(* The initial state satisfies the invariant. *)
LEMMA InitIInv == Init => IInv
<1> SUFFICES ASSUME Init PROVE IInv
  OBVIOUS
<1>0. TypeOK
  <2>1. <<>> \in Seq(Nat) /\ 0 \in Nat
    OBVIOUS
  <2>2. closed \in BOOLEAN /\ wakefd \in BOOLEAN /\ owes \subseteq Threads
    BY Zenon DEF Init, MailboxInit
  <2> QED
    BY <2>1, <2>2 DEF Init, MailboxInit, TypeOK, MailboxType, Steps
<1>1. NewsAnnounced
  BY DEF Init, MailboxInit, NewsAnnounced
<1>2. <<>> \o <<>> \o <<>> = Upto(0)
  BY DEF Upto
<1>3. Ordered
  BY <1>2 DEF Init, MailboxInit, Ordered
<1> QED
  BY <1>0, <1>1, <1>3 DEF IInv

(* Post(), RequestStop() and the eventfd write of another thread. *)
LEMMA OtherThreadKeeps ==
  ASSUME IInv, NEW t \in Threads, OtherThread(t)
  PROVE  IInv'
<1> USE DEF IInv, OtherThread, thread
<1>1. CASE Post(t)
  <2>1. Grows /\ posted' \in Seq(Nat) /\ accepted' \in Nat /\ owes' \subseteq Threads
    BY <1>1 DEF Post, Grows, TypeOK, MailboxType
  <2>2. (ran \o batch \o posted = Upto(accepted))'
    <3>1. ran \in Seq(Nat) /\ batch \in Seq(Nat) /\ posted \in Seq(Nat) /\ accepted \in Nat
      BY DEF TypeOK, MailboxType
    <3>2. ran \o batch \o posted' = Upto(accepted')
      BY <2>1, <3>1, GrowsInOrder, Zenon DEF Ordered
    <3> QED
      BY <1>1, <3>2, Zenon DEF Post, Upto
  <2>3. TypeOK'
    BY <1>1, <2>1 DEF Post, TypeOK, MailboxType
  <2>4. NewsAnnounced'
    BY <1>1 DEF Post, NewsAnnounced, Announced
  <2>5. Ordered'
    BY <1>1, <2>2, Zenon DEF Post, Ordered
  <2> QED
    BY <2>3, <2>4, <2>5
<1>2. CASE RequestStop(t)
  <2>1. TypeOK'
    BY <1>2 DEF RequestStop, TypeOK, MailboxType
  <2>2. NewsAnnounced'
    BY <1>2 DEF RequestStop, NewsAnnounced, Announced
  <2>3. Ordered'
    BY <1>2 DEF RequestStop, Ordered, Upto
  <2> QED
    BY <2>1, <2>2, <2>3
<1>3. CASE Wakeup(t)
  <2>1. TypeOK'
    BY <1>3 DEF Wakeup, TypeOK, MailboxType
  <2>2. NewsAnnounced'
    BY <1>3 DEF Wakeup, NewsAnnounced, Announced
  <2>3. Ordered'
    BY <1>3 DEF Wakeup, Ordered, Upto
  <2> QED
    BY <2>1, <2>2, <2>3
<1> QED
  BY <1>1, <1>2, <1>3

(* Every step of the loop and of the other threads keeps the invariant. *)
LEMMA NextIInv == IInv /\ [Next]_vars => IInv'
<1> SUFFICES ASSUME IInv, [Next]_vars PROVE IInv'
  OBVIOUS
<1> USE DEF Goto
<1>1. CASE Start
  <2>1. TypeOK'
    BY <1>1 DEF IInv, Start, TypeOK, MailboxType, Steps
  <2>2. NewsAnnounced'
    BY <1>1 DEF IInv, Start, NewsAnnounced, Announced, ShuttingDown
  <2>3. Ordered'
    BY <1>1 DEF IInv, Start, Ordered, Upto
  <2> QED
    BY <2>1, <2>2, <2>3 DEF IInv
<1>2. CASE Top
  <2>1. TypeOK'
    BY <1>2 DEF IInv, Top, TypeOK, MailboxType, Steps
  <2>2. NewsAnnounced'
    BY <1>2 DEF IInv, Top, NewsAnnounced, Announced, ShuttingDown
  <2>3. Ordered'
    BY <1>2 DEF IInv, Top, Ordered, Upto
  <2> QED
    BY <2>1, <2>2, <2>3 DEF IInv
<1>3. CASE Work
  <2>1. UserCode(work) /\ work \in Nat /\ turn' \in Nat /\ active' \subseteq {"wakeup", "other"}
    BY <1>3 DEF IInv, Work, TypeOK, MailboxType
  <2>2. ran' \in Seq(Nat) /\ batch' \in Seq(Nat) /\ ran' \o batch' = ran \o batch /\ batch' = batch
    BY <1>3 DEF IInv, Work, TypeOK, MailboxType
  <2>3. pc' = pc /\ pc = "work"
    BY <1>3 DEF Work
  <2> QED
    BY <2>1, <2>2, <2>3, UserCodeKeeps
<1>4. CASE Retest
  <2>1. TypeOK'
    BY <1>4 DEF IInv, Retest, TypeOK, MailboxType, Steps, mailbox
  <2>2. NewsAnnounced'
    BY <1>4 DEF IInv, Retest, NewsAnnounced, Announced, ShuttingDown, mailbox
  <2>3. Ordered'
    BY <1>4 DEF IInv, Retest, Ordered, Upto, mailbox
  <2> QED
    BY <2>1, <2>2, <2>3 DEF IInv
<1>5. CASE Poll \/ PollTimeout
  <2>1. TypeOK'
    BY <1>5 DEF IInv, Poll, PollTimeout, TypeOK, MailboxType, Steps, mailbox
  <2>2. NewsAnnounced'
    BY <1>5 DEF IInv, Poll, PollTimeout, NewsAnnounced, Announced, ShuttingDown, mailbox
  <2>3. Ordered'
    BY <1>5 DEF IInv, Poll, PollTimeout, Ordered, Upto, mailbox
  <2> QED
    BY <2>1, <2>2, <2>3 DEF IInv
<1>6. CASE HandleEvent
  <2>1. UserCode(work) /\ work \in Nat /\ turn' \in Nat /\ active' \subseteq {"wakeup", "other"}
    BY <1>6 DEF IInv, HandleEvent, TypeOK, MailboxType
  <2>2. ran' \in Seq(Nat) /\ batch' \in Seq(Nat) /\ ran' \o batch' = ran \o batch /\ batch' = batch
    BY <1>6 DEF IInv, HandleEvent, TypeOK, MailboxType
  <2>3. pc' = pc /\ pc = "dispatch"
    BY <1>6 DEF HandleEvent
  <2> QED
    BY <2>1, <2>2, <2>3, UserCodeKeeps
<1>7. CASE DrainWakeup
  <2>1. TypeOK'
    BY <1>7, Zenon DEF IInv, DrainWakeup, TypeOK, MailboxType, Steps
  <2>2. NewsAnnounced'
    BY <1>7 DEF IInv, DrainWakeup, NewsAnnounced
  <2>3. Ordered'
    BY <1>7 DEF IInv, DrainWakeup, Ordered, Upto
  <2> QED
    BY <2>1, <2>2, <2>3 DEF IInv
<1>8. CASE NextTurn
  <2>1. TypeOK'
    BY <1>8 DEF IInv, NextTurn, TypeOK, MailboxType, Steps, mailbox
  <2>2. NewsAnnounced'
    BY <1>8 DEF IInv, NextTurn, NewsAnnounced, Announced, ShuttingDown, mailbox
  <2>3. Ordered'
    BY <1>8 DEF IInv, NextTurn, Ordered, Upto, mailbox
  <2> QED
    BY <2>1, <2>2, <2>3 DEF IInv
<1>9. CASE Swap
  BY <1>9, TakeKeeps DEF Swap
<1>10. CASE RunPosted
  <2>1. CASE Goto("posted", "posted") /\ RunCallback /\ UNCHANGED <<turn, active>>
    BY <2>1, CallbackKeeps
  <2>2. CASE Goto("posted", "dispatch") /\ batch = <<>> /\ UNCHANGED <<mailbox, turn, active>>
    <3>1. TypeOK'
      BY <2>2 DEF IInv, TypeOK, MailboxType, Steps, mailbox
    <3>2. NewsAnnounced'
      BY <2>2 DEF IInv, NewsAnnounced, Announced, ShuttingDown, mailbox
    <3>3. Ordered'
      BY <2>2 DEF IInv, Ordered, Upto, mailbox
    <3> QED
      BY <3>1, <3>2, <3>3 DEF IInv
  <2> QED
    BY <1>10, <2>1, <2>2 DEF RunPosted
<1>11. CASE BeginShutdown
  <2>1. TypeOK'
    BY <1>11, LoopBounds DEF IInv, BeginShutdown, TypeOK, MailboxType, Steps
  <2>2. NewsAnnounced'
    BY <1>11 DEF IInv, BeginShutdown, NewsAnnounced, Announced, ShuttingDown
  <2>3. Ordered'
    BY <1>11 DEF IInv, BeginShutdown, Ordered, Upto
  <2> QED
    BY <2>1, <2>2, <2>3 DEF IInv
<1>12. CASE RunPending
  <2>1. CASE Goto("pending", "pending") /\ RunWork /\ UNCHANGED <<turn, active>>
    <3>1. /\ UserCode(work - 1) /\ work - 1 \in Nat
          /\ turn' \in Nat /\ active' \subseteq {"wakeup", "other"}
      BY <2>1 DEF IInv, RunWork, TypeOK, MailboxType
    <3>2. /\ ran' \in Seq(Nat) /\ batch' \in Seq(Nat)
          /\ ran' \o batch' = ran \o batch /\ batch' = batch
      BY <2>1 DEF IInv, RunWork, TypeOK, MailboxType
    <3>3. pc' = pc /\ pc = "pending"
      BY <2>1
    <3> QED
      BY <3>1, <3>2, <3>3, UserCodeKeeps
  <2>2. CASE Goto("pending", "close") /\ work = 0 /\ UNCHANGED <<mailbox, turn, active>>
    <3>1. TypeOK'
      BY <2>2 DEF IInv, TypeOK, MailboxType, Steps, mailbox
    <3>2. NewsAnnounced'
      BY <2>2 DEF IInv, NewsAnnounced, Announced, ShuttingDown, mailbox
    <3>3. Ordered'
      BY <2>2 DEF IInv, Ordered, Upto, mailbox
    <3> QED
      BY <3>1, <3>2, <3>3 DEF IInv
  <2> QED
    BY <1>12, <2>1, <2>2 DEF RunPending
<1>13. CASE DrainPostedAndClose
  <2>1. CASE Goto("close", "stop") /\ ClosePosted /\ UNCHANGED <<turn, active>>
    <3>1. TypeOK'
      BY <2>1 DEF IInv, ClosePosted, TypeOK, MailboxType, Steps
    <3>2. NewsAnnounced'
      BY <2>1 DEF IInv, ClosePosted, NewsAnnounced, Announced, ShuttingDown
    <3>3. Ordered'
      BY <2>1 DEF IInv, ClosePosted, Ordered, Upto
    <3> QED
      BY <3>1, <3>2, <3>3 DEF IInv
  <2>2. CASE Goto("close", "closing") /\ posted # <<>> /\ TakePosted /\ UNCHANGED <<turn, active>>
    BY <2>2, TakeKeeps
  <2>3. CASE Goto("closing", "closing") /\ RunCallback /\ UNCHANGED <<turn, active>>
    BY <2>3, CallbackKeeps
  <2>4. CASE Goto("closing", "pending") /\ batch = <<>> /\ UNCHANGED <<mailbox, turn, active>>
    <3>1. TypeOK'
      BY <2>4 DEF IInv, TypeOK, MailboxType, Steps, mailbox
    <3>2. NewsAnnounced'
      BY <2>4 DEF IInv, NewsAnnounced, Announced, ShuttingDown, mailbox
    <3>3. Ordered'
      BY <2>4 DEF IInv, Ordered, Upto, mailbox
    <3> QED
      BY <3>1, <3>2, <3>3 DEF IInv
  <2> QED
    BY <1>13, <2>1, <2>2, <2>3, <2>4 DEF DrainPostedAndClose
<1>14. CASE Stopped
  <2>1. TypeOK'
    BY <1>14 DEF IInv, Stopped, TypeOK, MailboxType, Steps
  <2>2. NewsAnnounced'
    BY <1>14 DEF IInv, Stopped, NewsAnnounced, Announced, ShuttingDown
  <2>3. Ordered'
    BY <1>14 DEF IInv, Stopped, Ordered, Upto
  <2> QED
    BY <2>1, <2>2, <2>3 DEF IInv
<1>15. CASE \E t \in Threads : OtherThread(t)
  BY <1>15, OtherThreadKeeps
<1>16. CASE UNCHANGED vars
  <2>1. TypeOK'
    BY <1>16 DEF IInv, TypeOK, MailboxType, vars, mailbox, thread
  <2>2. NewsAnnounced'
    BY <1>16 DEF IInv, NewsAnnounced, Announced, vars, mailbox, thread
  <2>3. Ordered'
    BY <1>16 DEF IInv, Ordered, Upto, vars, mailbox, thread
  <2> QED
    BY <2>1, <2>2, <2>3 DEF IInv
<1> QED
  BY <1>1, <1>2, <1>3, <1>4, <1>5, <1>6, <1>7, <1>8, <1>9, <1>10, <1>11, <1>12, <1>13,
     <1>14, <1>15, <1>16 DEF Next, LoopStep

-----------------------------------------------------------------------------
(* Every state of the loop satisfies the invariant. *)
LEMMA Invariant == Spec => []IInv
<1>1. Init => IInv
  BY InitIInv
<1>2. IInv /\ [Next]_vars => IInv'
  BY NextIInv
<1> QED
  BY <1>1, <1>2, PTL DEF Spec

(* However many threads post and stop, the loop never sleeps in epoll_wait() on a callback
   or a stop that nobody is going to announce. *)
THEOREM WakeupsAreNotLost == Spec => []NoLostWakeup
<1>1. IInv => NoLostWakeup
  <2> SUFFICES ASSUME IInv, pc = "poll", ~wakefd
               PROVE  /\ posted # <<>> => owes # {}
                      /\ state = "stopping" => owes # {}
    BY DEF NoLostWakeup
  <2> QED
    BY DEF IInv, NewsAnnounced, Announced, ShuttingDown
<1> QED
  BY <1>1, Invariant, PTL

(* Whatever threads race the stop, accepted callbacks run once, in order, and all of them
   before the loop is stopped. *)
THEOREM PostsRunInOrder == Spec => []AcceptedRunInOrder
<1>1. IInv => AcceptedRunInOrder
  <2> SUFFICES ASSUME IInv PROVE AcceptedRunInOrder
    OBVIOUS
  <2>1. ran \o batch \o posted = [k \in 1..accepted |-> k]
    BY DEF IInv, Ordered, Upto
  <2>2. ASSUME state = "stopped" PROVE closed /\ Len(ran) = accepted
    <3>1. pc = "done" /\ closed /\ posted = <<>> /\ batch = <<>>
      BY <2>2 DEF IInv, Ordered
    <3>2. ran \in Seq(Nat) /\ accepted \in Nat
      BY DEF IInv, TypeOK, MailboxType
    <3>3. ran = [k \in 1..accepted |-> k]
      BY <2>1, <3>1, <3>2
    <3> QED
      BY <3>1, <3>2, <3>3
  <2> QED
    BY <2>1, <2>2 DEF AcceptedRunInOrder
<1> QED
  BY <1>1, Invariant, PTL
-----------------------------------------------------------------------------
(* The inductive invariant of uring::Loop.                                 *)

AllOps == Ops \cup {Wake, CancelAll}

RingType ==
  [sq : Seq(AllOps), kernel : SUBSET AllOps, doomed : SUBSET AllOps,
   cq : Seq([op : AllOps, more : BOOLEAN]), inflight : Nat,
   wakePending : BOOLEAN, wakeInflight : BOOLEAN, cancelPending : BOOLEAN]

(* The requests of a ring r whose last completion is there, and those that inflight_
   counts. *)
Final(r) == {r.cq[k].op : k \in {k \in DOMAIN r.cq : ~r.cq[k].more}}

InFlight(r) == r.kernel \cup Final(r)

Alive(r) == Range(r.sq) \cup InFlight(r)

(* A request is in one place at a time. *)
Once(r) ==
  /\ IsInjective(r.sq)
  /\ Range(r.sq) \cap InFlight(r) = {} /\ r.kernel \cap Final(r) = {}
  /\ \A j, k \in DOMAIN r.cq :
       r.cq[j].op = r.cq[k].op /\ ~r.cq[j].more /\ ~r.cq[k].more => j = k

Counted(r) == IsFiniteSet(InFlight(r)) /\ r.inflight = Cardinality(InFlight(r))

(* FlushSubmit() may be wrong about where the wake request is, but not about whether there
   is one. *)
Flagged(r) ==
  /\ ~(r.wakePending /\ r.wakeInflight)
  /\ r.wakePending => Wake \in Range(r.sq)
  /\ r.wakePending \/ r.wakeInflight <=> Wake \in Alive(r)
  /\ CancelAll \in Alive(r) => r.cancelPending

(* A completion that announces more is followed by another one, if not yet then later. *)
Announces(r) ==
  \A k \in DOMAIN r.cq : r.cq[k].more =>
    /\ r.cq[k].op \in Ops
    /\ \/ r.cq[k].op \in r.kernel
       \/ \E j \in DOMAIN r.cq : j > k /\ r.cq[j].op = r.cq[k].op /\ ~r.cq[j].more

RingInv(r) == r \in RingType /\ Once(r) /\ Counted(r) /\ Flagged(r) /\ Announces(r)

UringSteps ==
  {"start", "swap", "posted", "top", "poll", "reap", "handled", "completions", "ready",
   "wait", "blocked", "shutdown", "drain", "turn", "drainwait", "drainblocked", "close",
   "closing", "pending", "stop", "done"}

UringTypeOK ==
  /\ MailboxType
  /\ step \in UringSteps
  /\ reap \in [from : {"start", "poll", "wait", "drain"}, count : Nat]
  /\ step \in {"reap", "handled", "completions"} => reap.from # "start"
  /\ step = "start" => reap.from = "start"
  /\ step # "start" => state # "created"

(* Where the loop goes to sleep without another look at its state. *)
Sleepy == {"poll", "ready", "wait", "blocked"}

UringNews ==
  /\ posted # <<>> => Announced \/ step = "swap"
  /\ state = "stopping" => Announced \/ step \notin Sleepy

UringOrdered ==
  /\ ran \o batch \o posted = Upto(accepted)
  /\ step \notin {"posted", "closing"} => batch = <<>>
  /\ step \in {"stop", "done"} => closed /\ posted = <<>>
  /\ state = "stopped" => step = "done"

(* The wake request was completed and is not armed again yet. *)
Unarmed == step \in {"swap", "posted"} /\ reap.from # "start"

Quiet(r) ==
  /\ Range(r.sq) \cup r.kernel \subseteq {Wake}
  /\ \A k \in DOMAIN r.cq : r.cq[k].op = Wake

Armed ==
  /\ Unarmed => Wake \notin Alive(ring)
  /\ state \in {"created", "running"} \/ step \in Sleepy => Unarmed \/ Wake \in Alive(ring)
  /\ step = "blocked" => ring.sq = <<>>
  /\ step \in {"close", "closing", "pending", "stop", "done"} => Quiet(ring)

UringIInv == UringTypeOK /\ UringNews /\ UringOrdered /\ Armed /\ RingInv(ring)

-----------------------------------------------------------------------------
(* What the operations on the ring keep.                                   *)

(* A batch of submissions splits the queue in two. *)
LEMMA SplitRange ==
  ASSUME NEW S, NEW s \in Seq(S), IsInjective(s), NEW n \in 0..Len(s)
  PROVE  LET a == SubSeq(s, 1, n)
             b == SubSeq(s, n + 1, Len(s))
         IN  /\ b \in Seq(S) /\ IsInjective(b) /\ Len(b) = Len(s) - n
             /\ Range(s) = Range(a) \cup Range(b) /\ Range(a) \cap Range(b) = {}
             /\ Range(a) \subseteq S
             /\ IsFiniteSet(Range(a)) /\ Cardinality(Range(a)) = n
  <1> DEFINE a == SubSeq(s, 1, n)
             b == SubSeq(s, n + 1, Len(s))
  <1>1. /\ a \in Seq(S) /\ Len(a) = n /\ \A i \in 1..n : a[i] = s[i]
        /\ DOMAIN a = 1..n
    OBVIOUS
  <1>2. /\ b \in Seq(S) /\ Len(b) = Len(s) - n
        /\ DOMAIN b = 1..(Len(s) - n)
        /\ \A i \in 1..(Len(s) - n) : b[i] = s[n + i]
    OBVIOUS
  <1>3. DOMAIN s = 1..Len(s) /\ Len(s) \in Nat
    OBVIOUS
  <1> HIDE DEF a, b
  <1>4. IsInjective(a) /\ IsInjective(b)
    <2>1. ASSUME NEW i \in 1..n, NEW j \in 1..n, a[i] = a[j] PROVE i = j
      BY <1>1, <1>3, <2>1 DEF IsInjective
    <2>2. ASSUME NEW i \in 1..(Len(s) - n), NEW j \in 1..(Len(s) - n), b[i] = b[j]
          PROVE  i = j
      <3>1. s[n + i] = s[n + j] /\ n + i \in 1..Len(s) /\ n + j \in 1..Len(s)
        BY <1>2, <1>3, <2>2
      <3>2. n + i = n + j
        BY <1>3, <3>1 DEF IsInjective
      <3>3. QED
        BY <3>2, <1>3
    <2>3. QED
      BY <1>1, <1>2, <2>1, <2>2, Zenon DEF IsInjective
  <1>5. Range(s) = Range(a) \cup Range(b)
    <2>1. ASSUME NEW i \in 1..Len(s) PROVE s[i] \in Range(a) \cup Range(b)
      <3>1. CASE i <= n
        BY <1>1, <3>1 DEF Range
      <3>2. CASE ~(i <= n)
        <4>1. i - n \in 1..(Len(s) - n) /\ n + (i - n) = i
          BY <3>2, <1>3
        <4>2. QED
          BY <1>2, <4>1 DEF Range
      <3>3. QED
        BY <3>1, <3>2
    <2>2. ASSUME NEW i \in 1..n PROVE a[i] \in Range(s)
      BY <1>1, <1>3 DEF Range
    <2>3. ASSUME NEW i \in 1..(Len(s) - n) PROVE b[i] \in Range(s)
      <3>1. n + i \in 1..Len(s) /\ b[i] = s[n + i]
        BY <1>2, <1>3
      <3>2. QED
        BY <1>3, <3>1 DEF Range
    <2>4. Range(s) \subseteq Range(a) \cup Range(b)
      BY <1>3, <2>1 DEF Range
    <2>5. Range(a) \subseteq Range(s) /\ Range(b) \subseteq Range(s)
      BY <1>1, <1>2, <2>2, <2>3, Zenon DEF Range
    <2>6. QED
      BY <2>4, <2>5
  <1>6. Range(a) \cap Range(b) = {}
    <2>1. ASSUME NEW i \in 1..n, NEW j \in 1..(Len(s) - n) PROVE a[i] # b[j]
      <3>1. a[i] = s[i] /\ b[j] = s[n + j] /\ i # n + j /\ i \in 1..Len(s) /\ n + j \in 1..Len(s)
        BY <1>1, <1>2, <1>3
      <3>2. QED
        BY <1>3, <3>1 DEF IsInjective
    <2>2. QED
      BY <1>1, <1>2, <2>1 DEF Range
  <1>7. IsFiniteSet(Range(a)) /\ Cardinality(Range(a)) = n
    <2>1. IsFiniteSet(1..n) /\ Cardinality(1..n) = n
      BY FS_Interval
    <2>2. a \in Bijection(1..n, Range(a))
      <3>1. a \in [1..n -> Range(a)]
        BY <1>1 DEF Range
      <3>2. QED
        BY <1>1, <1>4, <3>1 DEF Bijection, Injection, Surjection, Range
    <2>3. ExistsBijection(1..n, Range(a))
      BY <2>2 DEF ExistsBijection
    <2>4. QED
      BY <2>1, <2>3, FS_Bijection
  <1>8. Range(a) \subseteq S
    BY <1>1 DEF Range
  <1>9. QED
    BY <1>2, <1>4, <1>5, <1>6, <1>7, <1>8 DEF a, b

(* Sets of requests that share none count up. *)
LEMMA DisjointCardinality ==
  ASSUME NEW S, NEW T, IsFiniteSet(S), IsFiniteSet(T), S \cap T = {}
  PROVE  IsFiniteSet(S \cup T) /\ Cardinality(S \cup T) = Cardinality(S) + Cardinality(T)
  <1>1. /\ IsFiniteSet(S \cup T)
        /\ Cardinality(S \cup T) = Cardinality(S) + Cardinality(T) - Cardinality(S \cap T)
    BY FS_Union
  <1>2. Cardinality(S \cap T) = 0
    BY FS_EmptySet
  <1>3. Cardinality(S) \in Nat /\ Cardinality(T) \in Nat
    BY FS_CardinalityType
  <1>4. QED
    BY <1>1, <1>2, <1>3

(* FlushSubmit(), whatever part of the queue the kernel takes. *)
LEMMA FlushKeeps ==
  ASSUME NEW r, RingInv(r), NEW n \in 0..Len(r.sq)
  PROVE  /\ RingInv(Flushed(r, n)) /\ Alive(Flushed(r, n)) = Alive(r)
         /\ Len(Flushed(r, n).sq) = Len(r.sq) - n
  <1> DEFINE f == Flushed(r, n)
             a == Range(SubSeq(r.sq, 1, n))
             b == SubSeq(r.sq, n + 1, Len(r.sq))
  <1>1. r \in RingType /\ Once(r) /\ Counted(r) /\ Flagged(r) /\ Announces(r)
    BY DEF RingInv
  <1>2. /\ b \in Seq(AllOps) /\ IsInjective(b) /\ Len(b) = Len(r.sq) - n
        /\ Range(r.sq) = a \cup Range(b) /\ a \cap Range(b) = {} /\ a \subseteq AllOps
        /\ IsFiniteSet(a) /\ Cardinality(a) = n
    BY <1>1, SplitRange DEF RingType, Once
  <1>3. /\ f = [r EXCEPT !.sq = b, !.kernel = @ \cup a, !.inflight = @ + n,
                         !.wakePending = @ /\ n = 0,
                         !.wakeInflight = @ \/ (r.wakePending /\ n # 0)]
        /\ n \in Nat /\ (n = 0 => a = {})
    BY <1>1, <1>2, FS_EmptySet DEF Flushed, RingType
  <1> HIDE DEF a, b, f
  <1>4. f \in RingType
    <2>1. r.inflight + n \in Nat /\ r.kernel \cup a \in SUBSET AllOps
      BY <1>1, <1>2, <1>3 DEF RingType
    <2>2. /\ (r.wakePending /\ n = 0) \in BOOLEAN
          /\ (r.wakeInflight \/ (r.wakePending /\ n # 0)) \in BOOLEAN
      OBVIOUS
    <2>3. QED
      BY <1>1, <1>2, <1>3, <2>1, <2>2, Zenon DEF RingType
  <1>5. /\ f.sq = b /\ f.kernel = r.kernel \cup a /\ f.cq = r.cq
        /\ f.inflight = r.inflight + n /\ f.cancelPending = r.cancelPending
        /\ f.wakePending = (r.wakePending /\ n = 0)
        /\ f.wakeInflight = (r.wakeInflight \/ (r.wakePending /\ n # 0))
    BY <1>1, <1>3 DEF RingType
  <1>6. Final(f) = Final(r)
    BY <1>5 DEF Final
  <1>7. InFlight(f) = InFlight(r) \cup a /\ InFlight(r) \cap a = {} /\ Alive(f) = Alive(r)
    BY <1>1, <1>2, <1>5, <1>6 DEF InFlight, Alive, Once
  <1>8. Once(f)
    BY <1>1, <1>2, <1>5, <1>6, <1>7 DEF Once, InFlight
  <1>9. Counted(f)
    <2>1. IsFiniteSet(InFlight(r)) /\ r.inflight = Cardinality(InFlight(r)) /\ r.inflight \in Nat
      BY <1>1 DEF Counted, RingType
    <2> DEFINE i == InFlight(r)
    <2>2. IsFiniteSet(i) /\ IsFiniteSet(a) /\ i \cap a = {} /\ Cardinality(a) = n
      BY <1>2, <1>7, <2>1
    <2> HIDE DEF i
    <2>3. IsFiniteSet(i \cup a) /\ Cardinality(i \cup a) = Cardinality(i) + Cardinality(a)
      BY <2>2, DisjointCardinality, Zenon
    <2>4. Cardinality(i \cup a) = r.inflight + n
      BY <1>3, <2>1, <2>2, <2>3 DEF i
    <2>5. QED
      BY <1>5, <1>7, <2>3, <2>4 DEF Counted, i
  <1>10. Flagged(f)
    <2>1. f.wakePending => Wake \in Range(f.sq)
      BY <1>1, <1>2, <1>3, <1>5, Zenon DEF Flagged
    <2>2. QED
      BY <1>1, <1>5, <1>7, <2>1, Zenon DEF Flagged
  <1>11. Announces(f)
    BY <1>1, <1>5 DEF Announces
  <1>12. QED
    BY <1>2, <1>4, <1>5, <1>7, <1>8, <1>9, <1>10, <1>11 DEF RingInv, f

(* SubmitOp() of a request that is not in the ring yet. *)
LEMMA PrepareKeeps ==
  ASSUME NEW r, RingInv(r), NEW op \in AllOps, op \notin Alive(r)
  PROVE  RingInv(Prepared(r, op)) /\ Alive(Prepared(r, op)) = Alive(r) \cup {op}
  <1> DEFINE p == Prepared(r, op)
  <1>1. r \in RingType /\ Once(r) /\ Counted(r) /\ Flagged(r) /\ Announces(r)
    BY DEF RingInv
  <1>2. /\ p.sq = Append(r.sq, op) /\ p.kernel = r.kernel /\ p.cq = r.cq
        /\ p.inflight = r.inflight /\ p.wakeInflight = r.wakeInflight
        /\ p.wakePending = (r.wakePending \/ op = Wake)
        /\ p.cancelPending = (r.cancelPending \/ op = CancelAll)
    BY <1>1 DEF Prepared, RingType
  <1>3. /\ p.sq \in Seq(AllOps) /\ Range(p.sq) = Range(r.sq) \cup {op}
        /\ IsInjective(p.sq)
    <2> DEFINE s == r.sq
               t == Append(r.sq, op)
    <2>1. s \in Seq(AllOps) /\ IsInjective(s) /\ op \notin Range(s)
      BY <1>1 DEF RingType, Once, Alive
    <2>2. /\ t \in Seq(AllOps) /\ DOMAIN t = 1..(Len(s) + 1) /\ DOMAIN s = 1..Len(s)
          /\ Len(s) \in Nat /\ t[Len(s) + 1] = op
          /\ \A i \in 1..Len(s) : t[i] = s[i]
      BY <2>1
    <2> HIDE DEF s, t
    <2>3. \A i \in DOMAIN t : i = Len(s) + 1 \/ i \in 1..Len(s)
      BY <2>2
    <2>4. Range(t) = Range(s) \cup {op}
      BY <2>2, <2>3 DEF Range
    <2>5. IsInjective(t)
      BY <2>1, <2>2, <2>3 DEF IsInjective, Range
    <2>6. QED
      BY <1>2, <2>2, <2>4, <2>5 DEF s, t
  <1>4. p \in RingType
    <2>1. /\ (r.wakePending \/ op = Wake) \in BOOLEAN
          /\ (r.cancelPending \/ op = CancelAll) \in BOOLEAN
      OBVIOUS
    <2>2. Append(r.sq, op) \in Seq(AllOps)
      BY <1>2, <1>3
    <2>3. QED
      BY <1>1, <2>1, <2>2, Zenon DEF Prepared, RingType
  <1> HIDE DEF p
  <1>5. Final(p) = Final(r) /\ InFlight(p) = InFlight(r) /\ Alive(p) = Alive(r) \cup {op}
    BY <1>2, <1>3 DEF Final, InFlight, Alive
  <1>6. Once(p)
    BY <1>1, <1>2, <1>3, <1>5 DEF Once, Alive
  <1>7. Counted(p)
    BY <1>1, <1>2, <1>5 DEF Counted
  <1>8. Flagged(p)
    BY <1>1, <1>2, <1>3, <1>5, Zenon DEF Flagged
  <1>9. Announces(p)
    BY <1>1, <1>2 DEF Announces
  <1>10. QED
    BY <1>4, <1>5, <1>6, <1>7, <1>8, <1>9 DEF RingInv, p

(* SubmitOp() with the flush it needs when the queue is full, and without success. *)
LEMMA SubmitKeeps ==
  ASSUME NEW r, RingInv(r), NEW op \in AllOps, op \notin Alive(r)
  PROVE  /\ RingInv(Submitted(r, op)) /\ Alive(Submitted(r, op)) = Alive(r) \cup {op}
         /\ \A s \in NotSubmitted(r) : RingInv(s) /\ Alive(s) = Alive(r)
  <1>1. Len(r.sq) \in Nat
    BY DEF RingInv, RingType
  <1>2. /\ RingInv(Flushed(r, Len(r.sq))) /\ Alive(Flushed(r, Len(r.sq))) = Alive(r)
        /\ \A n \in 0..(Len(r.sq) - 1) :
             RingInv(Flushed(r, n)) /\ Alive(Flushed(r, n)) = Alive(r)
    BY <1>1, FlushKeeps
  <1>3. RingInv(Submitted(r, op)) /\ Alive(Submitted(r, op)) = Alive(r) \cup {op}
    BY <1>2, PrepareKeeps DEF Submitted
  <1>4. \A s \in NotSubmitted(r) : RingInv(s) /\ Alive(s) = Alive(r)
    BY <1>2 DEF NotSubmitted
  <1>5. QED
    BY <1>3, <1>4

(* The elements of a queue once its head is taken. *)
LEMMA TailElements ==
  ASSUME NEW S, NEW c \in Seq(S), c # <<>>
  PROVE  /\ Tail(c) \in Seq(S) /\ DOMAIN Tail(c) = 1..(Len(c) - 1)
         /\ \A k \in 1..(Len(c) - 1) : Tail(c)[k] = c[k + 1]
         /\ Head(c) = c[1] /\ Head(c) \in S
  OBVIOUS

(* HandleCqe() takes the oldest completion and accounts for it. *)
Handled(r) ==
  [r EXCEPT !.cq = Tail(@), !.inflight = @ - BitOf(~Head(r.cq).more),
            !.wakeInflight = @ /\ Head(r.cq).op # Wake,
            !.cancelPending = @ /\ Head(r.cq).op # CancelAll]

LEMMA HandleKeeps ==
  ASSUME NEW r, RingInv(r), r.cq # <<>>
  PROVE  /\ RingInv(Handled(r)) /\ Head(r.cq) \in [op : AllOps, more : BOOLEAN]
         /\ Alive(Handled(r)) \subseteq Alive(r)
         /\ Alive(r) \subseteq Alive(Handled(r)) \cup {Head(r.cq).op}
         /\ Head(r.cq).op \notin Ops => Head(r.cq).op \notin Alive(Handled(r))
         /\ Quiet(r) => Quiet(Handled(r))
         /\ Handled(r).sq = r.sq
  <1> DEFINE h == Handled(r)
             c == r.cq
             t == Tail(r.cq)
             e == Head(r.cq)
  <1>1. r \in RingType /\ Once(r) /\ Counted(r) /\ Flagged(r) /\ Announces(r)
    BY DEF RingInv
  <1>2. /\ c \in Seq([op : AllOps, more : BOOLEAN]) /\ c # <<>>
        /\ Len(c) \in Nat \ {0} /\ DOMAIN c = 1..Len(c)
    BY <1>1 DEF RingType
  <1>3. /\ t \in Seq([op : AllOps, more : BOOLEAN]) /\ DOMAIN t = 1..(Len(c) - 1)
        /\ \A k \in 1..(Len(c) - 1) : t[k] = c[k + 1]
        /\ e = c[1] /\ e \in [op : AllOps, more : BOOLEAN]
    BY <1>2, TailElements, Zenon DEF t, e, c
  <1>4. /\ h.sq = r.sq /\ h.kernel = r.kernel /\ h.cq = t /\ h.wakePending = r.wakePending
        /\ h.inflight = r.inflight - BitOf(~e.more)
        /\ h.wakeInflight = (r.wakeInflight /\ e.op # Wake)
        /\ h.cancelPending = (r.cancelPending /\ e.op # CancelAll)
    BY <1>1 DEF Handled, RingType
  <1>h. /\ h = [r EXCEPT !.cq = t, !.inflight = r.inflight - BitOf(~e.more),
                        !.wakeInflight = (r.wakeInflight /\ e.op # Wake),
                        !.cancelPending = (r.cancelPending /\ e.op # CancelAll)]
    BY DEF Handled
  <1> HIDE DEF c, t, e, h
  <1>5. \A k \in DOMAIN c : k = 1 \/ (k - 1 \in DOMAIN t /\ c[k] = t[k - 1])
    BY <1>2, <1>3
  <1>6. \A k \in DOMAIN t : k + 1 \in DOMAIN c /\ t[k] = c[k + 1] /\ k \in Int
    BY <1>2, <1>3
  <1>7. Final(r) = {c[k].op : k \in {k \in DOMAIN c : ~c[k].more}}
        /\ Final(h) = {t[k].op : k \in {k \in DOMAIN t : ~t[k].more}}
    BY <1>4 DEF Final, c
  <1>8. /\ Final(h) \subseteq Final(r)
        /\ Final(r) \subseteq Final(h) \cup (IF e.more THEN {} ELSE {e.op})
    <2>1. ASSUME NEW k \in DOMAIN t, ~t[k].more PROVE t[k].op \in Final(r)
      BY <1>6, <1>7, <2>1
    <2>2. ASSUME NEW k \in DOMAIN c, ~c[k].more
          PROVE  c[k].op \in Final(h) \/ (~e.more /\ c[k].op = e.op)
      BY <1>3, <1>5, <1>7, <2>2
    <2>3. QED
      BY <1>7, <2>1, <2>2
  <1>9. ~e.more => e.op \in Final(r) /\ e.op \notin Final(h)
    <2> SUFFICES ASSUME ~e.more PROVE e.op \in Final(r) /\ e.op \notin Final(h)
      OBVIOUS
    <2>1. 1 \in DOMAIN c /\ c[1] = e
      BY <1>2, <1>3
    <2>2. ASSUME NEW k \in DOMAIN t, ~t[k].more PROVE t[k].op # e.op
      <3>1. k + 1 \in DOMAIN c /\ ~c[k + 1].more /\ k + 1 # 1 /\ t[k] = c[k + 1]
        BY <1>3, <1>6, <2>2
      <3>2. QED
        BY <1>1, <2>1, <3>1 DEF Once, c
    <2>3. QED
      BY <1>7, <2>1, <2>2
  <1>10. e.more => e.op \in Ops
    BY <1>1, <1>2, <1>3 DEF Announces, c
  <1>11. /\ InFlight(h) = InFlight(r) \ (IF e.more THEN {} ELSE {e.op})
         /\ ~e.more => e.op \in InFlight(r)
    BY <1>1, <1>4, <1>8, <1>9 DEF InFlight, Once, c
  <1>12. Once(h)
    <2>1. \A j, k \in DOMAIN t : t[j].op = t[k].op /\ ~t[j].more /\ ~t[k].more => j = k
      <3> SUFFICES ASSUME NEW j \in DOMAIN t, NEW k \in DOMAIN t,
                          t[j].op = t[k].op, ~t[j].more, ~t[k].more
                   PROVE  j = k
        OBVIOUS
      <3>1. j + 1 = k + 1
        BY <1>1, <1>6 DEF Once, c
      <3>2. QED
        BY <1>6, <3>1
    <2>2. QED
      BY <1>1, <1>4, <1>8, <1>11, <2>1 DEF Once
  <1>13. Counted(h) /\ h.inflight \in Nat
    <2> DEFINE i == InFlight(r)
    <2>1. IsFiniteSet(i) /\ r.inflight = Cardinality(i) /\ r.inflight \in Nat
      BY <1>1 DEF Counted, RingType
    <2>2. CASE e.more
      BY <1>4, <1>11, <2>1, <2>2 DEF Counted, BitOf
    <2>3. CASE ~e.more
      <3>1. InFlight(h) = i \ {e.op} /\ e.op \in i /\ h.inflight = r.inflight - 1
        BY <1>4, <1>11, <2>3 DEF BitOf
      <3> HIDE DEF i
      <3>2. IsFiniteSet(i \ {e.op}) /\ Cardinality(i \ {e.op}) = Cardinality(i) - 1
        BY <2>1, <3>1, FS_RemoveElement
      <3>3. Cardinality(i \ {e.op}) \in Nat
        BY <3>2, FS_CardinalityType
      <3>4. QED
        BY <2>1, <3>1, <3>2, <3>3 DEF Counted
    <2>4. QED
      BY <2>2, <2>3
  <1>14. h \in RingType
    <2>1. /\ (r.wakeInflight /\ e.op # Wake) \in BOOLEAN
          /\ (r.cancelPending /\ e.op # CancelAll) \in BOOLEAN
      OBVIOUS
    <2>2. r.inflight - BitOf(~e.more) \in Nat
      BY <1>4, <1>13
    <2>3. QED
      BY <1>1, <1>3, <1>h, <2>1, <2>2, Zenon DEF RingType
  <1>15. /\ Alive(h) = Alive(r) \ (IF e.more THEN {} ELSE {e.op})
         /\ e.op \notin Ops => e.op \notin Alive(h)
    BY <1>1, <1>4, <1>10, <1>11 DEF Alive, Once
  <1>16. Flagged(h)
    <2>1. Range(h.sq) = Range(r.sq)
      BY <1>4
    <2>2. CASE e.op = Wake
      <3>1. ~e.more /\ Wake \in InFlight(r) /\ Wake \notin Alive(h) /\ Wake # CancelAll
        BY <1>10, <1>11, <1>15, <2>2, OpsDiffer
      <3>2. ~r.wakePending
        BY <1>1, <3>1 DEF Flagged, Once
      <3>3. QED
        BY <1>1, <1>4, <1>15, <2>1, <2>2, <3>1, <3>2, Zenon DEF Flagged
    <2>3. CASE e.op = CancelAll
      <3>1. CancelAll \notin Alive(h) /\ Wake # CancelAll
        BY <1>15, <2>3, OpsDiffer
      <3>2. QED
        BY <1>1, <1>4, <1>15, <2>1, <2>3, <3>1, Zenon DEF Flagged
    <2>4. CASE e.op \notin {Wake, CancelAll}
      BY <1>1, <1>4, <1>15, <2>1, <2>4, Zenon DEF Flagged
    <2>5. QED
      BY <2>2, <2>3, <2>4
  <1>17. Announces(h)
    <2> SUFFICES ASSUME NEW k \in DOMAIN t, t[k].more
                 PROVE  /\ t[k].op \in Ops
                        /\ \/ t[k].op \in r.kernel
                           \/ \E j \in DOMAIN t : j > k /\ t[j].op = t[k].op /\ ~t[j].more
      BY <1>4 DEF Announces
    <2>1. k + 1 \in DOMAIN c /\ c[k + 1] = t[k] /\ k \in Int /\ k >= 1
      BY <1>3, <1>6
    <2>2. /\ c[k + 1].op \in Ops
          /\ \/ c[k + 1].op \in r.kernel
             \/ \E j \in DOMAIN c : j > k + 1 /\ c[j].op = c[k + 1].op /\ ~c[j].more
      BY <1>1, <2>1 DEF Announces, c
    <2>3. ASSUME NEW j \in DOMAIN c, j > k + 1, c[j].op = c[k + 1].op, ~c[j].more
          PROVE  j - 1 \in DOMAIN t /\ j - 1 > k /\ t[j - 1].op = t[k].op /\ ~t[j - 1].more
      BY <1>2, <1>5, <2>1, <2>3
    <2>4. QED
      BY <2>1, <2>2, <2>3
  <1>18. Quiet(r) => Quiet(h)
    BY <1>4, <1>6 DEF Quiet, c
  <1>19. QED
    BY <1>3, <1>4, <1>12, <1>13, <1>14, <1>15, <1>16, <1>17, <1>18 DEF RingInv, h, e

(* The elements of a queue that grew by one. *)
LEMMA AppendElements ==
  ASSUME NEW S, NEW c \in Seq(S), NEW e \in S
  PROVE  /\ Append(c, e) \in Seq(S) /\ Len(c) \in Nat /\ DOMAIN c = 1..Len(c)
         /\ DOMAIN Append(c, e) = 1..(Len(c) + 1)
         /\ Append(c, e)[Len(c) + 1] = e
         /\ \A k \in 1..Len(c) : Append(c, e)[k] = c[k]
  OBVIOUS

(* The kernel is done with a request: it moves to the completion queue, where inflight_
   still counts it. *)
LEMMA CompleteKeeps ==
  ASSUME NEW r, RingInv(r), NEW op \in r.kernel, NEW doomed \in SUBSET AllOps
  PROVE  LET c == [r EXCEPT !.kernel = @ \ {op}, !.doomed = doomed,
                            !.cq = Append(@, Cqe(op, FALSE))]
         IN  /\ RingInv(c) /\ Alive(c) = Alive(r) /\ c.sq = r.sq
             /\ Quiet(r) => Quiet(c)
  <1> DEFINE e == Cqe(op, FALSE)
             q == Append(r.cq, e)
             c == [r EXCEPT !.kernel = @ \ {op}, !.doomed = doomed, !.cq = q]
             last == Len(r.cq) + 1
  <1>1. r \in RingType /\ Once(r) /\ Counted(r) /\ Flagged(r) /\ Announces(r)
    BY DEF RingInv
  <1>2. op \in AllOps /\ e \in [op : AllOps, more : BOOLEAN] /\ e.op = op /\ ~e.more
    BY <1>1 DEF RingType, Cqe
  <1>3. r.cq \in Seq([op : AllOps, more : BOOLEAN])
    BY <1>1 DEF RingType
  <1>4. /\ q \in Seq([op : AllOps, more : BOOLEAN]) /\ DOMAIN q = 1..last
        /\ Len(r.cq) \in Nat /\ DOMAIN r.cq = 1..Len(r.cq)
        /\ q[last] = e /\ \A k \in 1..Len(r.cq) : q[k] = r.cq[k]
    <2> DEFINE T == [op : AllOps, more : BOOLEAN]
               b == r.cq
    <2>1. e \in T /\ b \in Seq(T)
      BY <1>2, <1>3, Zenon
    <2> HIDE DEF T, b, e
    <2>2. /\ Append(b, e) \in Seq(T) /\ Len(b) \in Nat /\ DOMAIN b = 1..Len(b)
          /\ DOMAIN Append(b, e) = 1..(Len(b) + 1)
          /\ Append(b, e)[Len(b) + 1] = e
          /\ \A k \in 1..Len(b) : Append(b, e)[k] = b[k]
      BY <2>1, AppendElements
    <2>3. QED
      BY <2>2, Zenon DEF T, b
  <1>5. c \in RingType
    BY <1>1, <1>4, Zenon DEF RingType
  <1>6. /\ c.sq = r.sq /\ c.kernel = r.kernel \ {op} /\ c.cq = q /\ c.inflight = r.inflight
        /\ c.wakePending = r.wakePending /\ c.wakeInflight = r.wakeInflight
        /\ c.cancelPending = r.cancelPending
    BY <1>1, Zenon DEF RingType
  <1> HIDE DEF c, q, e
  <1>7. /\ last \in DOMAIN q /\ last \in Nat
        /\ \A k \in DOMAIN q : k = last \/ (k \in DOMAIN r.cq /\ k < last)
        /\ \A k \in DOMAIN r.cq : k \in DOMAIN q /\ k < last /\ q[k] = r.cq[k]
    BY <1>4
  <1> HIDE DEF last
  <1>8. Final(c) = Final(r) \cup {op}
    <2>1. \A k \in DOMAIN q : ~q[k].more => q[k].op \in Final(r) \cup {op}
      BY <1>2, <1>4, <1>7 DEF Final
    <2>2. op \in Final(c)
      BY <1>2, <1>4, <1>6, <1>7 DEF Final
    <2>3. \A k \in DOMAIN r.cq : ~r.cq[k].more => r.cq[k].op \in Final(c)
      BY <1>6, <1>7 DEF Final
    <2>4. QED
      BY <1>6, <2>1, <2>2, <2>3 DEF Final
  <1>9. InFlight(c) = InFlight(r) /\ Alive(c) = Alive(r)
    BY <1>6, <1>8 DEF InFlight, Alive
  <1>10. Once(c)
    <2>1. \A k \in DOMAIN r.cq : ~r.cq[k].more => r.cq[k].op # op
      BY <1>1 DEF Once, Final
    <2>2. \A j, k \in DOMAIN q : q[j].op = q[k].op /\ ~q[j].more /\ ~q[k].more => j = k
      BY <1>1, <1>2, <1>4, <1>7, <2>1 DEF Once
    <2>3. QED
      BY <1>1, <1>6, <1>8, <1>9, <2>2 DEF Once
  <1>11. Counted(c) /\ Flagged(c)
    BY <1>1, <1>6, <1>9 DEF Counted, Flagged
  <1>12. Announces(c)
    <2> SUFFICES ASSUME NEW k \in DOMAIN q, q[k].more
                 PROVE  /\ q[k].op \in Ops
                        /\ \/ q[k].op \in r.kernel \ {op}
                           \/ \E j \in DOMAIN q : j > k /\ q[j].op = q[k].op /\ ~q[j].more
      BY <1>6 DEF Announces
    <2>1. k \in DOMAIN r.cq /\ q[k] = r.cq[k] /\ last > k
      BY <1>2, <1>4, <1>7
    <2>2. CASE q[k].op = op
      BY <1>1, <1>2, <1>4, <1>7, <2>1, <2>2 DEF Announces
    <2>3. CASE q[k].op # op
      BY <1>1, <1>7, <2>1, <2>3 DEF Announces
    <2>4. QED
      BY <2>2, <2>3
  <1>13. Quiet(r) => Quiet(c)
    BY <1>2, <1>4, <1>6, <1>7 DEF Quiet
  <1>14. QED
    BY <1>5, <1>6, <1>9, <1>10, <1>11, <1>12, <1>13 DEF RingInv, c, q, e

(* A multishot request delivers a completion and stays in the kernel. *)
LEMMA DeliverKeeps ==
  ASSUME NEW r, RingInv(r), NEW op \in r.kernel, op \in Ops
  PROVE  LET c == [r EXCEPT !.cq = Append(@, Cqe(op, TRUE))]
         IN  /\ RingInv(c) /\ Alive(c) = Alive(r) /\ c.sq = r.sq
             /\ ~Quiet(r)
  <1> DEFINE e == Cqe(op, TRUE)
             q == Append(r.cq, e)
             c == [r EXCEPT !.cq = q]
             last == Len(r.cq) + 1
  <1>1. r \in RingType /\ Once(r) /\ Counted(r) /\ Flagged(r) /\ Announces(r)
    BY DEF RingInv
  <1>2. op \in AllOps /\ e \in [op : AllOps, more : BOOLEAN] /\ e.op = op /\ e.more
    BY <1>1 DEF RingType, Cqe
  <1>3. r.cq \in Seq([op : AllOps, more : BOOLEAN])
    BY <1>1 DEF RingType
  <1>4. /\ q \in Seq([op : AllOps, more : BOOLEAN]) /\ DOMAIN q = 1..last
        /\ Len(r.cq) \in Nat /\ DOMAIN r.cq = 1..Len(r.cq)
        /\ q[last] = e /\ \A k \in 1..Len(r.cq) : q[k] = r.cq[k]
    <2> DEFINE T == [op : AllOps, more : BOOLEAN]
               b == r.cq
    <2>1. e \in T /\ b \in Seq(T)
      BY <1>2, <1>3, Zenon
    <2> HIDE DEF T, b, e
    <2>2. /\ Append(b, e) \in Seq(T) /\ Len(b) \in Nat /\ DOMAIN b = 1..Len(b)
          /\ DOMAIN Append(b, e) = 1..(Len(b) + 1)
          /\ Append(b, e)[Len(b) + 1] = e
          /\ \A k \in 1..Len(b) : Append(b, e)[k] = b[k]
      BY <2>1, AppendElements
    <2>3. QED
      BY <2>2, Zenon DEF T, b
  <1>5. c \in RingType
    BY <1>1, <1>4, Zenon DEF RingType
  <1>6. /\ c.sq = r.sq /\ c.kernel = r.kernel /\ c.cq = q /\ c.inflight = r.inflight
        /\ c.wakePending = r.wakePending /\ c.wakeInflight = r.wakeInflight
        /\ c.cancelPending = r.cancelPending
    BY <1>1, Zenon DEF RingType
  <1> HIDE DEF c, q, e
  <1>7. /\ \A k \in DOMAIN q : k = last \/ k \in DOMAIN r.cq
        /\ \A k \in DOMAIN r.cq : k \in DOMAIN q /\ q[k] = r.cq[k]
    BY <1>4
  <1> HIDE DEF last
  <1>8. Final(c) = Final(r)
    <2>1. \A k \in DOMAIN q : ~q[k].more => q[k].op \in Final(r)
      BY <1>2, <1>4, <1>7 DEF Final
    <2>2. \A k \in DOMAIN r.cq : ~r.cq[k].more => r.cq[k].op \in Final(c)
      BY <1>6, <1>7 DEF Final
    <2>3. QED
      BY <1>6, <2>1, <2>2 DEF Final
  <1>9. InFlight(c) = InFlight(r) /\ Alive(c) = Alive(r)
    BY <1>6, <1>8 DEF InFlight, Alive
  <1>10. Once(c)
    <2>1. \A j, k \in DOMAIN q : q[j].op = q[k].op /\ ~q[j].more /\ ~q[k].more => j = k
      BY <1>1, <1>2, <1>4, <1>7 DEF Once
    <2>2. QED
      BY <1>1, <1>6, <1>8, <1>9, <2>1 DEF Once
  <1>11. Counted(c) /\ Flagged(c)
    BY <1>1, <1>6, <1>9 DEF Counted, Flagged
  <1>12. Announces(c)
    <2> SUFFICES ASSUME NEW k \in DOMAIN q, q[k].more
                 PROVE  /\ q[k].op \in Ops
                        /\ \/ q[k].op \in r.kernel
                           \/ \E j \in DOMAIN q : j > k /\ q[j].op = q[k].op /\ ~q[j].more
      BY <1>6 DEF Announces
    <2>1. CASE k = last
      BY <1>2, <1>4, <2>1
    <2>2. CASE k # last
      BY <1>1, <1>7, <2>2 DEF Announces
    <2>3. QED
      BY <2>1, <2>2
  <1>13. ~Quiet(r)
    BY OpsDiffer DEF Quiet
  <1>14. QED
    BY <1>5, <1>6, <1>9, <1>10, <1>11, <1>12, <1>13 DEF RingInv, c, q, e

(* IsDrained() tells the truth. *)
LEMMA DrainedQuiet ==
  ASSUME RingInv(ring), PendingSubmitCount = 0, InflightCount = 0
  PROVE  Quiet(ring)
  <1> DEFINE r == ring
             i == InFlight(ring)
  <1>1. r \in RingType /\ Once(r) /\ Counted(r) /\ Flagged(r) /\ Announces(r)
    BY DEF RingInv
  <1>2. /\ Len(r.sq) = BitOf(r.wakePending) /\ r.inflight = BitOf(r.wakeInflight)
        /\ r.sq \in Seq(AllOps) /\ IsFiniteSet(i) /\ Cardinality(i) = r.inflight
    BY <1>1 DEF RingType, PendingSubmitCount, InflightCount, BitOf, Counted
  <1>3. Range(r.sq) \subseteq {Wake}
    <2>1. CASE r.wakePending
      <3>1. Len(r.sq) = 1 /\ Wake \in Range(r.sq)
        BY <1>1, <1>2, <2>1 DEF BitOf, Flagged
      <3>2. QED
        BY <1>2, <3>1 DEF Range
    <2>2. CASE ~r.wakePending
      <3>1. Len(r.sq) = 0
        BY <1>2, <2>2 DEF BitOf
      <3>2. QED
        BY <1>2, <3>1 DEF Range
    <2>3. QED
      BY <2>1, <2>2
  <1>4. i \subseteq {Wake}
    <2>1. CASE r.wakeInflight
      <3>1. Cardinality(i) = 1 /\ Wake \in Alive(r) /\ ~r.wakePending
        BY <1>1, <1>2, <2>1 DEF BitOf, Flagged
      <3>2. Len(r.sq) = 0
        BY <1>2, <3>1 DEF BitOf
      <3>3. Range(r.sq) = {}
        BY <1>2, <3>2 DEF Range
      <3>4. Wake \in i
        BY <3>1, <3>3 DEF Alive
      <3> HIDE DEF i
      <3>5. \E x : i = {x}
        BY <1>2, <3>1, FS_Singleton, Zenon
      <3>6. QED
        BY <3>4, <3>5
    <2>2. CASE ~r.wakeInflight
      <3>1. Cardinality(i) = 0
        BY <1>2, <2>2 DEF BitOf
      <3> HIDE DEF i
      <3>2. QED
        BY <1>2, <3>1, FS_EmptySet
    <2>3. QED
      BY <2>1, <2>2
  <1>5. ASSUME NEW k \in DOMAIN r.cq PROVE r.cq[k].op = Wake
    <2>1. CASE ~r.cq[k].more
      BY <1>4, <2>1 DEF InFlight, Final
    <2>2. CASE r.cq[k].more
      BY <1>1, <1>4, <2>2 DEF Announces, InFlight, Final
    <2>3. QED
      BY <2>1, <2>2
  <1>6. QED
    BY <1>3, <1>4, <1>5 DEF Quiet, InFlight

-----------------------------------------------------------------------------
(* The steps of uring::Loop::Run() and of other threads.                   *)

(* What the loop thread and the mailbox have to keep, whatever happens to the ring. *)
MailInv == UringTypeOK /\ UringNews /\ UringOrdered

(* User code where it runs on the loop thread. *)
LEMMA EffectKeeps ==
  ASSUME MailInv, UserEffect, ran' \in Seq(Nat), batch' \in Seq(Nat),
         ran' \o batch' = ran \o batch, batch = <<>> => batch' = <<>>,
         UNCHANGED <<step, reap>>,
         step \in {"posted", "completions", "ready", "turn", "closing", "pending"}
  PROVE  MailInv'
  <1>1. MailboxType /\ MailboxType'
    BY Zenon DEF MailInv, UringTypeOK, MailboxType, UserEffect
  <1>2. UringTypeOK'
    BY <1>1 DEF MailInv, UringTypeOK, UserEffect
  <1>3. UringNews'
    BY DEF MailInv, UringNews, Announced, UserEffect
  <1>4. (ran \o batch \o posted = Upto(accepted))'
    BY <1>1, InOrderKept DEF MailInv, UringOrdered, UserEffect
  <1>5. UringOrdered'
    BY <1>4 DEF MailInv, UringOrdered, UserEffect
  <1>6. QED
    BY <1>2, <1>3, <1>5 DEF MailInv

(* A move of the loop thread that leaves the mailbox alone, or stops the loop.  It goes to
   sleep only after it has looked at the state. *)
LEMMA MoveKeeps ==
  ASSUME MailInv,
         UNCHANGED mailbox \/ (StopLoop /\ step' \notin Sleepy),
         step \notin {"start", "swap", "done"},
         step' \in UringSteps \ {"start", "swap", "stop", "done"},
         step' \in Sleepy => step \in Sleepy \/ state = "running",
         step' \notin {"posted", "closing"} => batch = <<>>,
         reap' \in [from : {"start", "poll", "wait", "drain"}, count : Nat],
         step' \in {"reap", "handled", "completions"} => reap'.from # "start"
  PROVE  MailInv'
  <1>1. /\ UNCHANGED <<posted, closed, owes, accepted, batch, ran, work>>
        /\ state' = state \/ (state = "running" /\ state' = "stopping" /\ wakefd')
        /\ wakefd' \in BOOLEAN /\ (wakefd => wakefd')
        /\ step' \in Sleepy => state' = state
    BY Zenon DEF StopLoop, mailbox, MailInv, UringTypeOK, MailboxType
  <1>2. UringTypeOK'
    BY <1>1 DEF MailInv, UringTypeOK, MailboxType
  <1>3. UringNews'
    BY <1>1 DEF MailInv, UringNews, Announced
  <1>4. UringOrdered'
    BY <1>1 DEF MailInv, UringOrdered, Upto
  <1>5. QED
    BY <1>2, <1>3, <1>4 DEF MailInv

(* Swapping the queue out, in RunPosted() and in DrainPostedAndClose(). *)
LEMMA SwapKeeps ==
  ASSUME MailInv, TakePosted, UNCHANGED reap,
         \/ step = "swap" /\ step' = "posted"
         \/ step = "close" /\ step' = "closing"
  PROVE  MailInv'
  <1>1. MailboxType /\ batch = <<>> /\ ran \o batch \o posted = Upto(accepted)
    BY DEF MailInv, UringTypeOK, UringOrdered
  <1>2. (ran \o batch \o posted = Upto(accepted))'
    BY <1>1, InOrderKept
  <1>3. UringTypeOK'
    BY DEF MailInv, UringTypeOK, MailboxType, TakePosted, UringSteps
  <1>4. UringNews'
    BY DEF MailInv, UringNews, Announced, TakePosted, Sleepy
  <1>5. UringOrdered'
    BY <1>2, Zenon DEF MailInv, UringOrdered, TakePosted
  <1>6. QED
    BY <1>3, <1>4, <1>5 DEF MailInv

(* Other threads. *)
LEMMA OtherMailKeeps ==
  ASSUME MailInv, NEW t \in Threads, UringOther(t)
  PROVE  MailInv'
  <1> USE DEF MailInv, UringOther, ringVars
  <1>0. MailboxType
    BY DEF UringTypeOK
  <1>1. CASE Post(t)
    <2>1. Grows /\ posted' \in Seq(Nat) /\ accepted' \in Nat /\ owes' \subseteq Threads
      BY <1>0, <1>1 DEF Post, Grows, MailboxType
    <2>2. ran' \in Seq(Nat) /\ batch' \in Seq(Nat) /\ ran' \o batch' = ran \o batch
      BY <1>0, <1>1 DEF Post, MailboxType
    <2>3. (ran \o batch \o posted = Upto(accepted))'
      BY <1>0, <2>1, <2>2, InOrderKept DEF UringOrdered
    <2>4. UringTypeOK'
      BY <1>1, <2>1 DEF Post, UringTypeOK, MailboxType
    <2>5. UringNews'
      BY <1>1 DEF Post, UringNews, Announced
    <2>6. UringOrdered'
      BY <1>1, <2>3, Zenon DEF Post, UringOrdered
    <2>7. QED
      BY <2>4, <2>5, <2>6
  <1>2. CASE RequestStop(t)
    <2>1. UringTypeOK'
      BY <1>2 DEF RequestStop, UringTypeOK, MailboxType
    <2>2. UringNews'
      BY <1>2 DEF RequestStop, UringNews, Announced
    <2>3. UringOrdered'
      BY <1>2 DEF RequestStop, UringOrdered, Upto
    <2>4. QED
      BY <2>1, <2>2, <2>3
  <1>3. CASE Wakeup(t)
    <2>1. UringTypeOK'
      BY <1>3 DEF Wakeup, UringTypeOK, MailboxType
    <2>2. UringNews'
      BY <1>3 DEF Wakeup, UringNews, Announced
    <2>3. UringOrdered'
      BY <1>3 DEF Wakeup, UringOrdered, Upto
    <2>4. QED
      BY <2>1, <2>2, <2>3
  <1>4. QED
    BY <1>1, <1>2, <1>3

(* A callback or a coroutine, which may also submit a request. *)
LEMMA UringCodeKeeps ==
  ASSUME UringIInv, NEW scheduled \in Nat, UringCode(scheduled),
         ran' \in Seq(Nat), batch' \in Seq(Nat), ran' \o batch' = ran \o batch,
         batch = <<>> => batch' = <<>>,
         UNCHANGED <<step, reap>>, step \in {"posted", "completions", "ready"}
  PROVE  UringIInv'
  <1>1. MailInv /\ MailboxType /\ RingInv(ring) /\ Armed
    BY DEF UringIInv, MailInv, UringTypeOK
  <1>2. CASE UserCode(scheduled) /\ UNCHANGED ring
    <2>1. UserEffect
      BY <1>1, <1>2, UserCodeStep
    <2>2. MailInv'
      BY <1>1, <2>1, EffectKeeps
    <2>3. state' \in {"created", "running"} => state \in {"created", "running"}
      BY <2>1 DEF UserEffect
    <2>4. Armed'
      BY <1>1, <1>2, <2>3 DEF Armed, Unarmed
    <2>5. QED
      BY <1>1, <1>2, <2>2, <2>4 DEF UringIInv, MailInv
  <1>3. CASE /\ state = "running"
             /\ \E op \in Ops :
                  Idle(op) /\ ring' \in {Submitted(ring, op)} \cup NotSubmitted(ring)
             /\ work' = scheduled
             /\ UNCHANGED <<state, posted, closed, wakefd, owes, accepted>>
    <2>1. UserEffect
      BY <1>1, <1>3 DEF UserEffect, Grows, MailboxType
    <2>2. MailInv'
      BY <1>1, <2>1, EffectKeeps
    <2>3. PICK op \in Ops :
            Idle(op) /\ ring' \in {Submitted(ring, op)} \cup NotSubmitted(ring)
      BY <1>3
    <2>4. op \in AllOps /\ op # Wake /\ op \notin Alive(ring)
      BY <2>3, OpsDiffer DEF AllOps, Idle, Alive, InFlight, Final
    <2>5. RingInv(ring') /\ Alive(ring') \in {Alive(ring), Alive(ring) \cup {op}}
      BY <1>1, <2>3, <2>4, SubmitKeeps
    <2>6. Armed'
      BY <1>1, <1>3, <2>4, <2>5 DEF Armed, Unarmed, Sleepy
    <2>7. QED
      BY <2>2, <2>5, <2>6 DEF UringIInv, MailInv
  <1>4. QED
    BY <1>2, <1>3 DEF UringCode

(* FlushSubmit() where the loop calls it. *)
LEMMA FlushStep ==
  ASSUME RingInv(ring), NEW from, NEW to, FlushOk(from, to) \/ FlushFails(from, to)
  PROVE  /\ RingInv(ring') /\ Alive(ring') = Alive(ring)
         /\ FlushOk(from, to) => ring'.sq = <<>>
  <1>1. Len(ring.sq) \in Nat
    BY DEF RingInv, RingType
  <1>2. CASE FlushOk(from, to)
    <2>1. ring' = Flushed(ring, Len(ring.sq)) /\ Len(ring.sq) \in 0..Len(ring.sq)
      BY <1>1, <1>2 DEF FlushOk
    <2>2. RingInv(ring') /\ Alive(ring') = Alive(ring) /\ Len(ring'.sq) = 0
      BY <1>1, <2>1, FlushKeeps
    <2>3. ring'.sq \in Seq(AllOps)
      BY <2>2 DEF RingInv, RingType
    <2>4. QED
      BY <2>2, <2>3
  <1>3. CASE ~FlushOk(from, to)
    <2>1. PICK n \in 0..(Len(ring.sq) - 1) : ring' = Flushed(ring, n)
      BY <1>3 DEF FlushFails
    <2>2. n \in 0..Len(ring.sq)
      BY <1>1
    <2>3. QED
      BY <1>3, <2>1, <2>2, FlushKeeps
  <1>4. QED
    BY <1>2, <1>3

(* A move of the loop thread with a ring that has the same requests. *)
LEMMA RingMoveKeeps ==
  ASSUME Armed, RingInv(ring'), Alive(ring') = Alive(ring),
         ~Unarmed, step' # "swap", step' = "posted" => reap'.from = "start",
         state' \in {"created", "running"} => state \in {"created", "running"},
         step' \in Sleepy => step \in Sleepy \/ state = "running",
         step' = "blocked" => ring'.sq = <<>>,
         step' \in {"close", "closing", "pending", "stop", "done"} => Quiet(ring')
  PROVE  Armed' /\ RingInv(ring)'
  BY DEF Armed, Unarmed

(* Run() up to the shutdown keeps the invariant. *)
LEMMA RunKeeps ==
  ASSUME UringIInv,
         \/ UStart \/ USwap \/ UCallback \/ UPosted \/ UTop \/ UPoll \/ UHandleCqe
         \/ UOnCqeHandled \/ UCompletions \/ UReaped \/ URunReady \/ UWait \/ UWake
         \/ UTimeout
  PROVE  UringIInv'
  <1>0. MailInv /\ Armed /\ RingInv(ring) /\ MailboxType /\ UringTypeOK
    BY DEF UringIInv, MailInv, UringTypeOK
  <1>t. /\ reap \in [from : {"start", "poll", "wait", "drain"}, count : Nat]
        /\ step \in {"reap", "handled", "completions"} => reap.from # "start"
        /\ step \notin {"posted", "closing"} => batch = <<>>
    BY <1>0 DEF UringTypeOK, MailInv, UringOrdered
  <1>q. SUFFICES MailInv' /\ Armed' /\ RingInv(ring)'
    BY DEF UringIInv, MailInv
  <1>1. CASE UStart
    <2>1. UringTypeOK'
      BY <1>0, <1>1 DEF UStart, At, UringTypeOK, MailboxType, UringSteps
    <2>2. UringNews'
      BY <1>0, <1>1 DEF UStart, At, MailInv, UringNews, Announced, Sleepy
    <2>3. UringOrdered'
      BY <1>0, <1>1 DEF UStart, At, MailInv, UringOrdered, Upto
    <2>4. Armed' /\ RingInv(ring)'
      BY <1>0, <1>1 DEF UStart, At, Armed, Unarmed, Sleepy, UringTypeOK, MailboxType
    <2>5. QED
      BY <2>1, <2>2, <2>3, <2>4 DEF MailInv
  <1>2. CASE USwap
    <2>1. MailInv'
      BY <1>0, <1>2, SwapKeeps DEF USwap, At
    <2>2. Armed' /\ RingInv(ring)'
      BY <1>0, <1>2 DEF USwap, At, TakePosted, Armed, Unarmed, Sleepy
    <2>3. QED
      BY <2>1, <2>2
  <1>3. CASE UCallback
    <2>1. batch # <<>> /\ work \in Nat
      BY <1>0, <1>3 DEF UCallback, MailboxType
    <2>2. ran' \in Seq(Nat) /\ batch' \in Seq(Nat) /\ ran' \o batch' = ran \o batch
      BY <1>0, <1>3, CallbackMoves, Zenon DEF UCallback
    <2>3. UringIInv'
      BY <1>3, <2>1, <2>2, UringCodeKeeps, Zenon DEF UCallback, At
    <2>4. QED
      BY <2>3 DEF UringIInv, MailInv
  <1>4. CASE UPosted
    <2>1. step = "posted" /\ batch = <<>> /\ UNCHANGED reap
      BY <1>4 DEF UPosted
    <2>2. CASE reap.from = "start" /\ step' = "top" /\ UNCHANGED <<mailbox, ring>>
      <3>1. MailInv'
        BY <1>0, <1>t, <2>1, <2>2, MoveKeeps DEF UringSteps, Sleepy
      <3>2. Armed' /\ RingInv(ring)'
        BY <1>0, <2>1, <2>2, RingMoveKeeps DEF Unarmed, Sleepy, mailbox
      <3>3. QED
        BY <3>1, <3>2
    <2>3. CASE reap.from # "start" /\ step' = "handled"
      <3>1. Wake \in AllOps /\ Wake \notin Alive(ring)
        BY <1>0, <2>1, <2>3 DEF Armed, Unarmed, AllOps
      <3>2. UNCHANGED mailbox \/ StopLoop
        BY <1>4, <2>3 DEF UPosted
      <3>3. MailInv'
        BY <1>0, <1>t, <2>1, <2>3, <3>2, MoveKeeps DEF UringSteps, Sleepy
      <3>4. CASE state = "running" /\ ring' = Submitted(ring, Wake) /\ UNCHANGED mailbox
        <4>1. RingInv(ring') /\ Wake \in Alive(ring')
          BY <1>0, <3>1, <3>4, SubmitKeeps
        <4>2. QED
          BY <2>3, <3>3, <4>1 DEF Armed, Unarmed, Sleepy
      <3>5. CASE state = "running" /\ ring' \in NotSubmitted(ring) /\ StopLoop
        <4>1. RingInv(ring')
          BY <1>0, <3>1, <3>5, SubmitKeeps
        <4>2. state' = "stopping"
          BY <3>5 DEF StopLoop
        <4>3. QED
          BY <2>3, <3>3, <4>1, <4>2 DEF Armed, Unarmed, Sleepy
      <3>6. CASE state # "running" /\ UNCHANGED <<mailbox, ring>>
        <4>1. state' \notin {"created", "running"}
          BY <1>0, <2>1, <3>6 DEF mailbox, UringTypeOK
        <4>2. QED
          BY <1>0, <2>3, <3>3, <3>6, <4>1 DEF Armed, Unarmed, Sleepy
      <3>7. QED
        BY <1>4, <2>3, <3>4, <3>5, <3>6 DEF UPosted
    <2>4. QED
      BY <1>4, <2>2, <2>3 DEF UPosted
  <1>5. CASE UTop
    <2>1. /\ step = "top" /\ UNCHANGED <<mailbox, reap, ring>>
          /\ step' = "shutdown" \/ (step' = "poll" /\ state = "running")
      BY <1>5 DEF UTop
    <2>2. MailInv'
      BY <1>0, <1>t, <2>1, MoveKeeps DEF UringSteps, Sleepy
    <2>3. Armed' /\ RingInv(ring)'
      BY <1>0, <2>1, RingMoveKeeps DEF Unarmed, Sleepy, mailbox
    <2>4. QED
      BY <2>2, <2>3
  <1>6. CASE UPoll
    <2>1. RingInv(ring') /\ Alive(ring') = Alive(ring)
      BY <1>0, <1>6, FlushStep DEF UPoll
    <2>2. CASE FlushOk("poll", "reap") /\ reap' = [from |-> "poll", count |-> 0] /\ UNCHANGED mailbox
      <3>1. step = "poll" /\ step' = "reap"
        BY <2>2 DEF FlushOk, At
      <3>2. MailInv'
        BY <1>0, <1>t, <2>2, <3>1, MoveKeeps DEF UringSteps, Sleepy
      <3>3. Armed' /\ RingInv(ring)'
        BY <1>0, <2>1, <2>2, <3>1, RingMoveKeeps DEF Unarmed, Sleepy, mailbox
      <3>4. QED
        BY <3>2, <3>3
    <2>3. CASE FlushFails("poll", "shutdown") /\ StopLoop /\ UNCHANGED reap
      <3>1. step = "poll" /\ step' = "shutdown"
        BY <2>3 DEF FlushFails, At
      <3>2. MailInv'
        BY <1>0, <1>t, <2>3, <3>1, MoveKeeps DEF UringSteps, Sleepy
      <3>3. Armed' /\ RingInv(ring)'
        BY <1>0, <2>1, <2>3, <3>1, RingMoveKeeps DEF Unarmed, Sleepy, StopLoop
      <3>4. QED
        BY <3>2, <3>3
    <2>4. QED
      BY <1>6, <2>2, <2>3 DEF UPoll
  <1>7. CASE UHandleCqe
    <2> DEFINE e == Head(ring.cq)
    <2>1. /\ step = "reap" /\ ring.cq # <<>>
          /\ reap' = [reap EXCEPT !.count = @ + 1]
          /\ UNCHANGED <<state, posted, closed, owes, accepted, batch, ran>>
      BY <1>7 DEF UHandleCqe
    <2>2. /\ RingInv(Handled(ring)) /\ e \in [op : AllOps, more : BOOLEAN]
          /\ Alive(Handled(ring)) \subseteq Alive(ring)
          /\ Alive(ring) \subseteq Alive(Handled(ring)) \cup {e.op}
          /\ e.op \notin Ops => e.op \notin Alive(Handled(ring))
      BY <1>0, <2>1, HandleKeeps
    <2>3. /\ ring' = Handled(ring)
          /\ \/ e.op = Wake /\ step' = "swap" /\ wakefd' = FALSE /\ work' = work
             \/ e.op # Wake /\ step' = "handled" /\ wakefd' = wakefd /\ work' \in {work, work + 1}
      <3>1. ring \in RingType
        BY <1>0 DEF RingInv
      <3>2. CASE e.op = Wake
        BY <1>7, <3>1, <3>2, OpsDiffer, Zenon DEF UHandleCqe, Handled, RingType
      <3>3. CASE e.op = CancelAll
        BY <1>7, <3>1, <3>3, OpsDiffer, Zenon DEF UHandleCqe, Handled, RingType
      <3>4. CASE e.op \notin {Wake, CancelAll}
        BY <1>7, <3>1, <3>4, Zenon DEF UHandleCqe, Handled, RingType
      <3>5. QED
        BY <3>2, <3>3, <3>4, Zenon
    <2>4. reap' \in [from : {"start", "poll", "wait", "drain"}, count : Nat] /\ reap'.from = reap.from
      BY <1>t, <2>1
    <2>5. UringTypeOK'
      <3>1. wakefd' \in BOOLEAN
        BY <1>0, <2>3, Zenon DEF MailboxType
      <3>2. work' \in Nat
        BY <1>0, <2>3 DEF MailboxType
      <3>3. MailboxType'
        BY <1>0, <2>1, <3>1, <3>2 DEF MailboxType
      <3>4. step' \in {"swap", "handled"} /\ reap'.from # "start" /\ state' # "created"
        BY <1>0, <1>t, <2>1, <2>3, <2>4 DEF UringTypeOK
      <3>5. QED
        BY <2>4, <3>3, <3>4 DEF UringTypeOK, UringSteps
    <2>6. UringNews'
      BY <1>0, <2>1, <2>3 DEF MailInv, UringNews, Announced, Sleepy
    <2>7. UringOrdered'
      BY <1>0, <2>1, <2>3 DEF MailInv, UringOrdered, Upto
    <2>8. Armed'
      <3>1. CASE e.op = Wake
        <4>1. Wake \notin Alive(ring')
          BY <2>2, <2>3, <3>1, OpsDiffer
        <4>2. QED
          BY <1>t, <2>1, <2>3, <2>4, <3>1, <4>1 DEF Armed, Unarmed, Sleepy
      <3>2. CASE e.op # Wake
        <4>1. Wake \in Alive(ring) <=> Wake \in Alive(ring')
          BY <2>2, <2>3, <3>2
        <4>2. QED
          BY <1>0, <2>1, <2>3, <2>4, <3>2, <4>1 DEF Armed, Unarmed, Sleepy
      <3>3. QED
        BY <3>1, <3>2
    <2>9. QED
      BY <2>2, <2>3, <2>5, <2>6, <2>7, <2>8 DEF MailInv
  <1>8. CASE UOnCqeHandled
    <2>1. RingInv(ring') /\ Alive(ring') = Alive(ring)
      BY <1>0, <1>8, FlushStep DEF UOnCqeHandled
    <2>2. /\ step = "handled" /\ step' \in {"completions", "reap"} /\ UNCHANGED reap
          /\ UNCHANGED mailbox \/ StopLoop
      BY <1>8 DEF UOnCqeHandled, FlushOk, FlushFails, At
    <2>3. MailInv'
      BY <1>0, <1>t, <2>2, MoveKeeps DEF UringSteps, Sleepy
    <2>4. state' \in {"created", "running"} => state \in {"created", "running"}
      BY <2>2 DEF mailbox, StopLoop
    <2>5. Armed' /\ RingInv(ring)'
      BY <1>0, <2>1, <2>2, <2>4, RingMoveKeeps DEF Unarmed, Sleepy
    <2>6. QED
      BY <2>3, <2>5
  <1>9. CASE UCompletions
    <2>1. CASE /\ At("completions", "completions")
               /\ work # 0 /\ UringCode(work - 1)
               /\ UNCHANGED <<batch, ran, reap>>
      <3>1. work - 1 \in Nat /\ ran' \in Seq(Nat) /\ batch' \in Seq(Nat)
        BY <1>0, <2>1 DEF MailboxType
      <3>2. UringIInv'
        BY <2>1, <3>1, UringCodeKeeps DEF At
      <3>3. QED
        BY <3>2 DEF UringIInv, MailInv
    <2>2. CASE At("completions", "reap") /\ UNCHANGED <<mailbox, reap, ring>>
      <3>1. MailInv'
        BY <1>0, <1>t, <2>2, MoveKeeps DEF At, UringSteps, Sleepy
      <3>2. Armed' /\ RingInv(ring)'
        BY <1>0, <2>2, RingMoveKeeps DEF At, Unarmed, Sleepy, mailbox
      <3>3. QED
        BY <3>1, <3>2
    <2>3. QED
      BY <1>9, <2>1, <2>2 DEF UCompletions
  <1>10. CASE UReaped
    <2>1. /\ step = "reap" /\ UNCHANGED <<mailbox, reap, ring>>
          /\ step' \in {"ready", "shutdown", "top", "drain"}
          /\ step' = "ready" => state = "running"
      BY <1>10, <1>t DEF UReaped
    <2>2. MailInv'
      BY <1>0, <1>t, <2>1, MoveKeeps DEF UringSteps, Sleepy
    <2>3. Armed' /\ RingInv(ring)'
      BY <1>0, <2>1, RingMoveKeeps DEF Unarmed, Sleepy, mailbox
    <2>4. QED
      BY <2>2, <2>3
  <1>11. CASE URunReady
    <2>1. CASE /\ At("ready", "ready")
               /\ work # 0 /\ UringCode(work - 1)
               /\ UNCHANGED <<batch, ran, reap>>
      <3>1. work - 1 \in Nat /\ ran' \in Seq(Nat) /\ batch' \in Seq(Nat)
        BY <1>0, <2>1 DEF MailboxType
      <3>2. UringIInv'
        BY <2>1, <3>1, UringCodeKeeps DEF At
      <3>3. QED
        BY <3>2 DEF UringIInv, MailInv
    <2>2. CASE /\ step = "ready" /\ step' \in {"wait", "top"}
               /\ UNCHANGED <<mailbox, reap, ring>>
      <3>1. MailInv'
        BY <1>0, <1>t, <2>2, MoveKeeps DEF UringSteps, Sleepy
      <3>2. Armed' /\ RingInv(ring)'
        BY <1>0, <2>2, RingMoveKeeps DEF Unarmed, Sleepy, mailbox
      <3>3. QED
        BY <3>1, <3>2
    <2>3. QED
      BY <1>11, <2>1, <2>2 DEF URunReady
  <1>12. CASE UWait
    <2>1. RingInv(ring') /\ Alive(ring') = Alive(ring)
      BY <1>0, <1>12, FlushStep DEF UWait
    <2>2. CASE FlushOk("wait", "blocked") /\ UNCHANGED <<mailbox, reap>>
      <3>1. step = "wait" /\ step' = "blocked" /\ ring'.sq = <<>>
        BY <1>0, <2>2, FlushStep DEF FlushOk, At
      <3>2. MailInv'
        BY <1>0, <1>t, <2>2, <3>1, MoveKeeps DEF UringSteps, Sleepy
      <3>3. Armed' /\ RingInv(ring)'
        BY <1>0, <2>1, <2>2, <3>1, RingMoveKeeps DEF Unarmed, Sleepy, mailbox
      <3>4. QED
        BY <3>2, <3>3
    <2>3. CASE FlushFails("wait", "shutdown") /\ StopLoop /\ UNCHANGED reap
      <3>1. step = "wait" /\ step' = "shutdown"
        BY <2>3 DEF FlushFails, At
      <3>2. MailInv'
        BY <1>0, <1>t, <2>3, <3>1, MoveKeeps DEF UringSteps, Sleepy
      <3>3. Armed' /\ RingInv(ring)'
        BY <1>0, <2>1, <2>3, <3>1, RingMoveKeeps DEF Unarmed, Sleepy, StopLoop
      <3>4. QED
        BY <3>2, <3>3
    <2>4. QED
      BY <1>12, <2>2, <2>3 DEF UWait
  <1>13. CASE UWake \/ UTimeout
    <2>1. /\ step = "blocked" /\ UNCHANGED <<mailbox, ring>>
          /\ \/ step' = "reap" /\ reap' = [from |-> "wait", count |-> 0]
             \/ step' = "top" /\ UNCHANGED reap
      BY <1>13 DEF UWake, UTimeout, At
    <2>2. MailInv'
      BY <1>0, <1>t, <2>1, MoveKeeps DEF UringSteps, Sleepy
    <2>3. Armed' /\ RingInv(ring)'
      BY <1>0, <2>1, RingMoveKeeps DEF Unarmed, Sleepy, mailbox
    <2>4. QED
      BY <2>2, <2>3
  <1>14. QED
    BY <1>1, <1>2, <1>3, <1>4, <1>5, <1>6, <1>7, <1>8, <1>9, <1>10, <1>11, <1>12, <1>13

(* The shutdown keeps the invariant.  The loop closes its queue only after IsDrained(),
   and nothing is submitted from then on. *)
LEMMA ShutdownKeeps ==
  ASSUME UringIInv,
         \/ UBeginShutdown \/ UDrain \/ CancelPending \/ UDrainWait \/ UDrainWake
         \/ UDrainTimeout \/ UDrainPostedAndClose \/ UStopped
  PROVE  UringIInv'
  <1>0. MailInv /\ Armed /\ RingInv(ring) /\ MailboxType /\ UringTypeOK
    BY DEF UringIInv, MailInv, UringTypeOK
  <1>t. /\ reap \in [from : {"start", "poll", "wait", "drain"}, count : Nat]
        /\ step \notin {"posted", "closing"} => batch = <<>>
    BY <1>0 DEF UringTypeOK, MailInv, UringOrdered
  <1>q. SUFFICES MailInv' /\ Armed' /\ RingInv(ring)'
    BY DEF UringIInv, MailInv
  <1>1. CASE UBeginShutdown
    <2>1. /\ step = "shutdown" /\ step' = "drain" /\ work' \in Nat
          /\ UNCHANGED <<state, posted, closed, wakefd, owes, accepted, batch, ran, reap, ring>>
      BY <1>0, <1>1, LoopBounds DEF UBeginShutdown, At, MailboxType
    <2>2. UringTypeOK'
      BY <1>0, <2>1 DEF UringTypeOK, MailboxType, UringSteps
    <2>3. UringNews' /\ UringOrdered'
      BY <1>0, <2>1 DEF MailInv, UringNews, Announced, Sleepy, UringOrdered, Upto
    <2>4. Armed' /\ RingInv(ring)'
      BY <1>0, <2>1 DEF Armed, Unarmed, Sleepy
    <2>5. QED
      BY <2>2, <2>3, <2>4 DEF MailInv
  <1>w. ASSUME RunWork, UNCHANGED <<step, reap, ring>>, step \in {"turn", "pending"}
        PROVE  MailInv' /\ Armed' /\ RingInv(ring)'
    <2>1. work - 1 \in Nat /\ UserCode(work - 1) /\ UNCHANGED <<batch, ran>>
      BY <1>0, <1>w DEF RunWork, MailboxType
    <2>2. UserEffect
      BY <1>0, <2>1, UserCodeStep
    <2>3. MailInv'
      BY <1>0, <1>w, <2>1, <2>2, EffectKeeps DEF MailboxType
    <2>4. state' \in {"created", "running"} => state \in {"created", "running"}
      BY <2>2 DEF UserEffect
    <2>5. Armed' /\ RingInv(ring)'
      BY <1>0, <1>w, <2>4 DEF Armed, Unarmed, Sleepy
    <2>6. QED
      BY <2>3, <2>5
  <1>2. CASE UDrain
    <2>1. CASE At("turn", "turn") /\ RunWork /\ UNCHANGED <<reap, ring>>
      BY <1>w, <2>1 DEF At
    <2>2. CASE /\ step = "drain" /\ UNCHANGED <<mailbox, reap, ring>>
               /\ (step' = "close" /\ IsDrained) \/ step' = "turn"
      <3>1. MailInv'
        BY <1>0, <1>t, <2>2, MoveKeeps DEF UringSteps, Sleepy
      <3>2. step' = "close" => Quiet(ring')
        BY <1>0, <2>2, DrainedQuiet DEF IsDrained
      <3>3. Armed' /\ RingInv(ring)'
        BY <1>0, <2>2, <3>2, RingMoveKeeps DEF Unarmed, Sleepy, mailbox
      <3>4. QED
        BY <3>1, <3>3
    <2>3. QED
      BY <1>2, <2>1, <2>2 DEF UDrain, At
  <1>3. CASE CancelPending
    <2>1. step = "turn" /\ step' \in {"close", "drain", "drainwait"} /\ UNCHANGED <<mailbox, reap>>
      BY <1>3 DEF CancelPending
    <2>2. MailInv'
      BY <1>0, <1>t, <2>1, MoveKeeps DEF UringSteps, Sleepy
    <2>3. CASE ring' = ring /\ (step' = "close" => IsDrained)
      <3>1. step' = "close" => Quiet(ring')
        BY <1>0, <2>3, DrainedQuiet DEF IsDrained
      <3>2. Armed' /\ RingInv(ring)'
        BY <1>0, <2>1, <2>3, <3>1, RingMoveKeeps DEF Unarmed, Sleepy, mailbox
      <3>3. QED
        BY <2>2, <3>2
    <2>4. CASE /\ ~ring.cancelPending /\ step' = "drainwait"
               /\ ring' \in {Submitted(ring, CancelAll)} \cup NotSubmitted(ring)
      <3>1. CancelAll \in AllOps /\ CancelAll \notin Alive(ring)
        BY <1>0, <2>4 DEF RingInv, Flagged, AllOps
      <3>2. RingInv(ring') /\ Alive(ring) \subseteq Alive(ring')
        BY <1>0, <2>4, <3>1, SubmitKeeps
      <3>3. Armed'
        BY <1>0, <2>1, <2>4, <3>2 DEF Armed, Unarmed, Sleepy, mailbox
      <3>4. QED
        BY <2>2, <3>2, <3>3
    <2>5. QED
      BY <1>3, <2>3, <2>4 DEF CancelPending
  <1>4. CASE UDrainWait
    <2>1. RingInv(ring') /\ Alive(ring') = Alive(ring)
      BY <1>0, <1>4, FlushStep DEF UDrainWait
    <2>2. step = "drainwait" /\ step' \in {"drainblocked", "drain"} /\ UNCHANGED <<mailbox, reap>>
      BY <1>4 DEF UDrainWait, FlushOk, FlushFails, At
    <2>3. MailInv'
      BY <1>0, <1>t, <2>2, MoveKeeps DEF UringSteps, Sleepy
    <2>4. Armed' /\ RingInv(ring)'
      BY <1>0, <2>1, <2>2, RingMoveKeeps DEF Unarmed, Sleepy, mailbox
    <2>5. QED
      BY <2>3, <2>4
  <1>5. CASE UDrainWake \/ UDrainTimeout
    <2>1. /\ step = "drainblocked" /\ UNCHANGED <<mailbox, ring>>
          /\ \/ step' = "reap" /\ reap' = [from |-> "drain", count |-> 0]
             \/ step' = "drain" /\ UNCHANGED reap
      BY <1>5 DEF UDrainWake, UDrainTimeout, At
    <2>2. MailInv'
      BY <1>0, <1>t, <2>1, MoveKeeps DEF UringSteps, Sleepy
    <2>3. Armed' /\ RingInv(ring)'
      BY <1>0, <2>1, RingMoveKeeps DEF Unarmed, Sleepy, mailbox
    <2>4. QED
      BY <2>2, <2>3
  <1>6. CASE UDrainPostedAndClose
    <2>1. CASE At("close", "stop") /\ ClosePosted /\ UNCHANGED <<reap, ring>>
      <3>1. UringTypeOK'
        BY <1>0, <2>1 DEF At, ClosePosted, UringTypeOK, MailboxType, UringSteps
      <3>2. UringNews'
        BY <1>0, <2>1 DEF At, ClosePosted, MailInv, UringNews, Announced, Sleepy
      <3>3. UringOrdered'
        BY <1>0, <2>1 DEF At, ClosePosted, MailInv, UringOrdered, Upto
      <3>4. Armed' /\ RingInv(ring)'
        BY <1>0, <2>1 DEF At, ClosePosted, Armed, Unarmed, Sleepy
      <3>5. QED
        BY <3>1, <3>2, <3>3, <3>4 DEF MailInv
    <2>2. CASE At("close", "closing") /\ posted # <<>> /\ TakePosted /\ UNCHANGED <<reap, ring>>
      <3>1. MailInv'
        BY <1>0, <2>2, SwapKeeps DEF At
      <3>2. Armed' /\ RingInv(ring)'
        BY <1>0, <2>2 DEF At, TakePosted, Armed, Unarmed, Sleepy
      <3>3. QED
        BY <3>1, <3>2
    <2>3. CASE At("closing", "closing") /\ RunCallback /\ UNCHANGED <<reap, ring>>
      <3>1. batch # <<>> /\ work \in Nat /\ UserCode(work)
        BY <1>0, <2>3 DEF RunCallback, MailboxType
      <3>2. ran' \in Seq(Nat) /\ batch' \in Seq(Nat) /\ ran' \o batch' = ran \o batch
        BY <1>0, <2>3, CallbackMoves DEF RunCallback
      <3>3. UserEffect
        BY <1>0, <3>1, UserCodeStep
      <3>4. MailInv'
        BY <1>0, <2>3, <3>1, <3>2, <3>3, EffectKeeps DEF At
      <3>5. state' \in {"created", "running"} => state \in {"created", "running"}
        BY <3>3 DEF UserEffect
      <3>6. Armed' /\ RingInv(ring)'
        BY <1>0, <2>3, <3>5 DEF At, Armed, Unarmed, Sleepy
      <3>7. QED
        BY <3>4, <3>6
    <2>4. CASE At("pending", "pending") /\ RunWork /\ UNCHANGED <<reap, ring>>
      BY <1>w, <2>4 DEF At
    <2>5. CASE /\ \/ step = "closing" /\ step' = "pending" /\ batch = <<>>
                  \/ step = "pending" /\ step' = "close"
               /\ UNCHANGED <<mailbox, reap, ring>>
      <3>1. MailInv'
        BY <1>0, <1>t, <2>5, MoveKeeps DEF UringSteps, Sleepy
      <3>2. Quiet(ring')
        BY <1>0, <2>5 DEF Armed
      <3>3. Armed' /\ RingInv(ring)'
        BY <1>0, <2>5, <3>2, RingMoveKeeps DEF Unarmed, Sleepy, mailbox
      <3>4. QED
        BY <3>1, <3>3
    <2>6. QED
      BY <1>6, <2>1, <2>2, <2>3, <2>4, <2>5 DEF UDrainPostedAndClose, At
  <1>7. CASE UStopped
    <2>1. UringTypeOK'
      BY <1>0, <1>7 DEF UStopped, At, UringTypeOK, MailboxType, UringSteps
    <2>2. UringNews' /\ UringOrdered'
      BY <1>0, <1>7 DEF UStopped, At, MailInv, UringNews, Announced, Sleepy, UringOrdered, Upto
    <2>3. Armed' /\ RingInv(ring)'
      BY <1>0, <1>7 DEF UStopped, At, Armed, Unarmed, Sleepy
    <2>4. QED
      BY <2>1, <2>2, <2>3 DEF MailInv
  <1>8. QED
    BY <1>1, <1>2, <1>3, <1>4, <1>5, <1>6, <1>7

(* The kernel keeps the invariant: completing a request changes no count of the loop. *)
LEMMA KernelKeeps ==
  ASSUME UringIInv, KernelStep
  PROVE  UringIInv'
  <1>0. MailInv /\ Armed /\ RingInv(ring)
    BY DEF UringIInv, MailInv
  <1>1. UNCHANGED <<mailbox, step, reap>>
    BY Zenon DEF KernelStep, KernelComplete, KernelDelivers, KernelCancels, KernelWake,
           KernelCancelAll, Kernel
  <1>2. /\ RingInv(ring') /\ Alive(ring') = Alive(ring) /\ ring'.sq = ring.sq
        /\ Quiet(ring) => Quiet(ring')
    <2>1. ring \in RingType /\ ring.kernel \subseteq AllOps /\ ring.doomed \subseteq AllOps
      BY <1>0 DEF RingInv, RingType
    <2>2. ASSUME NEW op, KernelComplete(op) PROVE <1>2!:
      <3> DEFINE d == ring.doomed \ {op}
      <3>1. op \in ring.kernel /\ d \in SUBSET AllOps
        BY <2>1, <2>2 DEF KernelComplete
      <3>2. ring' = [ring EXCEPT !.kernel = @ \ {op}, !.doomed = d,
                                 !.cq = Append(@, Cqe(op, FALSE))]
        BY <2>1, <2>2 DEF KernelComplete, Kernel, RingType
      <3> HIDE DEF d
      <3>3. QED
        BY <1>0, <3>1, <3>2, CompleteKeeps, Zenon
    <2>3. ASSUME NEW op \in Ops, KernelDelivers(op) PROVE <1>2!:
      <3>1. op \in ring.kernel /\ ring' = [ring EXCEPT !.cq = Append(@, Cqe(op, TRUE))]
        BY <2>3 DEF KernelDelivers, Kernel
      <3>2. QED
        BY <1>0, <3>1, DeliverKeeps, Zenon
    <2>4. CASE KernelCancelAll
      <3> DEFINE d == ring.kernel \ {CancelAll}
      <3>1. CancelAll \in ring.kernel /\ d \in SUBSET AllOps
        BY <2>1, <2>4 DEF KernelCancelAll
      <3>2. ring' = [ring EXCEPT !.kernel = @ \ {CancelAll}, !.doomed = d,
                                 !.cq = Append(@, Cqe(CancelAll, FALSE))]
        BY <2>4 DEF KernelCancelAll, Kernel
      <3> HIDE DEF d
      <3>3. QED
        BY <1>0, <3>1, <3>2, CompleteKeeps, Zenon
    <2>5. QED
      BY <2>2, <2>3, <2>4, Zenon DEF KernelStep, KernelWake, KernelCancels
  <1>3. MailInv'
    BY <1>0, <1>1 DEF mailbox, MailInv, UringTypeOK, MailboxType, UringNews, Announced,
                      UringOrdered, Upto
  <1>4. Armed'
    BY <1>0, <1>1, <1>2 DEF Armed, Unarmed, mailbox
  <1>5. QED
    BY <1>2, <1>3, <1>4 DEF UringIInv, MailInv

(* Init() arms the poll on the eventfd, and the counts start true. *)
LEMMA UringInitIInv == UringInit => UringIInv
  <1> SUFFICES ASSUME UringInit PROVE UringIInv
    OBVIOUS
  <1>1. UringTypeOK
    <2>1. MailboxType
      <3>1. <<>> \in Seq(Nat) /\ 0 \in Nat
        OBVIOUS
      <3>2. closed \in BOOLEAN /\ wakefd \in BOOLEAN /\ owes \subseteq Threads
        BY Zenon DEF UringInit, MailboxInit
      <3>3. QED
        BY <3>1, <3>2 DEF UringInit, MailboxInit, MailboxType
    <2>2. step = "start" /\ reap.from = "start" /\ state = "created"
      BY DEF UringInit, MailboxInit
    <2>3. reap \in [from : {"start", "poll", "wait", "drain"}, count : Nat]
      BY DEF UringInit
    <2>4. QED
      BY <2>1, <2>2, <2>3 DEF UringTypeOK, UringSteps
  <1>2. UringNews
    BY DEF UringInit, MailboxInit, UringNews, Sleepy
  <1>3. UringOrdered
    BY DEF UringInit, MailboxInit, UringOrdered, Upto
  <1>4. /\ ring.sq = <<Wake>> /\ ring.cq = <<>> /\ ring.kernel = {} /\ ring.inflight = 0
        /\ ring.wakePending = TRUE /\ ring.wakeInflight = FALSE /\ ring.cancelPending = FALSE
    BY DEF UringInit, NewRing
  <1>5. Range(ring.sq) = {Wake} /\ IsInjective(ring.sq)
    BY <1>4 DEF Range, IsInjective
  <1>6. DOMAIN ring.cq = {} /\ Final(ring) = {} /\ InFlight(ring) = {}
    BY <1>4 DEF Final, InFlight
  <1>7. Alive(ring) = {Wake}
    BY <1>5, <1>6 DEF Alive
  <1>8. RingInv(ring)
    <2>1. ring \in RingType
      <3>1. <<Wake>> \in Seq(AllOps)
        BY DEF AllOps
      <3>2. <<>> \in Seq([op : AllOps, more : BOOLEAN])
        OBVIOUS
      <3>3. {} \in SUBSET AllOps /\ 0 \in Nat /\ TRUE \in BOOLEAN /\ FALSE \in BOOLEAN
        OBVIOUS
      <3>4. QED
        BY <3>1, <3>2, <3>3, Zenon DEF UringInit, NewRing, RingType
    <2>2. Once(ring)
      BY <1>4, <1>5, <1>6 DEF Once
    <2>3. Announces(ring)
      BY <1>6 DEF Announces
    <2>4. Counted(ring)
      BY <1>4, <1>6, FS_EmptySet DEF Counted
    <2>5. Flagged(ring)
      BY <1>4, <1>5, <1>7, OpsDiffer DEF Flagged
    <2>6. QED
      BY <2>1, <2>2, <2>3, <2>4, <2>5 DEF RingInv
  <1>9. Armed
    BY <1>7 DEF UringInit, MailboxInit, Armed, Unarmed, Sleepy
  <1>10. QED
    BY <1>1, <1>2, <1>3, <1>8, <1>9 DEF UringIInv

(* Every step of the loop, the kernel and other threads keeps the invariant. *)
LEMMA UringNextIInv == UringIInv /\ [UringNext]_uvars => UringIInv'
  <1> SUFFICES ASSUME UringIInv, [UringNext]_uvars PROVE UringIInv'
    OBVIOUS
  <1>1. CASE UringStep \/ UTimeout \/ UDrainTimeout
    BY <1>1, RunKeeps, ShutdownKeeps DEF UringStep
  <1>2. CASE KernelStep
    BY <1>2, KernelKeeps
  <1>3. ASSUME NEW t \in Threads, UringOther(t) PROVE UringIInv'
    <2>1. MailInv'
      BY <1>3, OtherMailKeeps DEF UringIInv, MailInv
    <2>2. UNCHANGED <<step, reap, ring>>
      BY <1>3 DEF UringOther, ringVars
    <2>3. state' \in {"created", "running"} => state \in {"created", "running"}
      BY <1>3 DEF UringOther, Post, RequestStop, Wakeup
    <2>4. Armed' /\ RingInv(ring)'
      BY <2>2, <2>3 DEF UringIInv, Armed, Unarmed
    <2>5. QED
      BY <2>1, <2>4 DEF UringIInv, MailInv
  <1>4. CASE UNCHANGED uvars
    BY <1>4 DEF uvars, mailbox, ringVars, UringIInv, UringTypeOK, MailboxType, UringNews,
                Announced, UringOrdered, Upto, Armed, Unarmed
  <1>5. QED
    BY <1>1, <1>2, <1>3, <1>4 DEF UringNext

(* The invariant of the io_uring loop. *)
LEMMA UringInvariant == UringSpec => []UringIInv
  <1>1. UringInit => UringIInv
    BY UringInitIInv
  <1>2. UringIInv /\ [UringNext]_uvars => UringIInv'
    BY UringNextIInv
  <1>3. QED
    BY <1>1, <1>2, PTL DEF UringSpec

(* The io_uring loop sleeps only with the poll on its eventfd armed and with no news
   unannounced, and IsDrained() is never wrong, for any number of threads and requests. *)
THEOREM UringCountsHold == UringSpec => []UringCountsAreTrue
  <1>1. UringIInv => WakeIsArmed
    <2> SUFFICES ASSUME UringIInv, step = "blocked", ring.cq = <<>>
                 PROVE  /\ Wake \in ring.kernel
                        /\ posted # <<>> \/ state = "stopping" => wakefd \/ owes # {}
      BY DEF WakeIsArmed
    <2>1. Wake \in Alive(ring) /\ ring.sq = <<>>
      BY DEF UringIInv, Armed, Unarmed, Sleepy
    <2>2. Range(ring.sq) = {} /\ Final(ring) = {}
      BY <2>1 DEF Range, Final
    <2>3. Wake \in ring.kernel
      BY <2>1, <2>2 DEF Alive, InFlight
    <2>4. QED
      BY <2>3 DEF UringIInv, UringNews, Announced, Sleepy
  <1>2. UringIInv => DrainedIsQuiet
    <2>1. ASSUME UringIInv, IsDrained PROVE Quiet(ring)
      BY <2>1, DrainedQuiet DEF UringIInv, IsDrained
    <2>2. ASSUME UringIInv, state = "stopped" PROVE Quiet(ring)
      BY <2>2 DEF UringIInv, UringOrdered, Armed
    <2>3. QED
      BY <2>1, <2>2 DEF DrainedIsQuiet, Quiet
  <1>3. QED
    BY <1>1, <1>2, UringInvariant, PTL DEF UringCountsAreTrue

(* Callbacks posted to the io_uring loop from any thread run once and in the order they
   were accepted, and all of them have run when the loop is stopped. *)
THEOREM UringPostsRunInOrder == UringSpec => []AcceptedRunInOrder
  <1>1. UringIInv => AcceptedRunInOrder
    <2> SUFFICES ASSUME UringIInv PROVE AcceptedRunInOrder
      OBVIOUS
    <2>1. ran \o batch \o posted = Upto(accepted) /\ ran \in Seq(Nat) /\ accepted \in Nat
      BY DEF UringIInv, UringTypeOK, MailboxType, UringOrdered
    <2>2. state = "stopped" => closed /\ posted = <<>> /\ batch = <<>>
      BY DEF UringIInv, UringOrdered
    <2>3. state = "stopped" => Len(ran) = accepted
      <3> SUFFICES ASSUME state = "stopped" PROVE Len(ran) = accepted
        OBVIOUS
      <3>1. ran \o <<>> \o <<>> = ran
        BY <2>1
      <3>2. ran = Upto(accepted)
        BY <2>1, <2>2, <3>1
      <3>3. QED
        BY <2>1, <3>2 DEF Upto
    <2>4. QED
      BY <2>1, <2>2, <2>3 DEF AcceptedRunInOrder, Upto
  <1>2. QED
    BY <1>1, UringInvariant, PTL
================================================================================
