----------------------------- MODULE ChannelFifo -----------------------------
(***************************************************************************)
(* What coro::Channel promises its users about one channel.  A send is     *)
(* accepted once, into the buffer or by a receiver; until then its value   *)
(* stands in line with its sender, who may still give up.  Receives take   *)
(* the accepted values in the order they were accepted, so at every moment *)
(* sent = taken \o buffered: an accepted value is not lost, not handed     *)
(* over twice and not overtaken.  A closed channel accepts nothing, and    *)
(* still hands over what it holds.                                         *)
(***************************************************************************)
EXTENDS Naturals, Sequences

CONSTANTS Values, Capacity

VARIABLES
  sent,      \* the values accepted, in order
  buffered,  \* those that no receiver has yet
  waiting,   \* the values of the senders in line
  taken,     \* the values receivers got, in order
  closed

vars == <<sent, buffered, waiting, taken, closed>>

Init ==
  /\ sent = <<>> /\ buffered = <<>> /\ waiting = <<>> /\ taken = <<>>
  /\ closed = FALSE

(* A value is sent once: nobody offered it here before. *)
Fresh(v) ==
  /\ \A k \in DOMAIN sent : sent[k] # v
  /\ \A k \in DOMAIN waiting : waiting[k] # v

Send(v) ==
  /\ ~closed /\ Fresh(v)
  /\ waiting = <<>> /\ Len(buffered) < Capacity
  /\ sent' = Append(sent, v)
  /\ buffered' = Append(buffered, v)
  /\ UNCHANGED <<waiting, taken, closed>>

(* A receiver that waits takes the value at once.  Nothing is buffered and nobody
   is in line, unless the receiver is a select that also offers a value here: it
   leaves the line. *)
HandOver(v) ==
  /\ ~closed /\ Fresh(v)
  /\ buffered = <<>> /\ Len(waiting) <= 1
  /\ sent' = Append(sent, v)
  /\ taken' = Append(taken, v)
  /\ waiting' = <<>>
  /\ UNCHANGED <<buffered, closed>>

(* A full channel keeps the sender in line. *)
Wait(v) ==
  /\ ~closed /\ Fresh(v)
  /\ Len(buffered) = Capacity
  /\ waiting' = Append(waiting, v)
  /\ UNCHANGED <<sent, buffered, taken, closed>>

Receive ==
  /\ waiting = <<>> /\ buffered # <<>>
  /\ taken' = Append(taken, Head(buffered))
  /\ buffered' = Tail(buffered)
  /\ UNCHANGED <<sent, waiting, closed>>

(* The first sender in line is accepted as a receive makes room for its value, or
   takes it if there is no buffer. *)
ReceiveAndAdmit ==
  /\ waiting # <<>>
  /\ LET line == Append(buffered, Head(waiting))
     IN  taken' = Append(taken, Head(line)) /\ buffered' = Tail(line)
  /\ sent' = Append(sent, Head(waiting))
  /\ waiting' = Tail(waiting)
  /\ UNCHANGED closed

(* Senders that give up: selects that chose another case, or a coroutine destroyed
   while it waits.  A Close() elsewhere may end several selects at once. *)
Withdraw(gone) ==
  /\ ~closed
  /\ waiting' = SelectSeq(waiting, LAMBDA v : v \notin gone)
  /\ UNCHANGED <<sent, buffered, taken, closed>>

Close ==
  /\ ~closed /\ closed' = TRUE /\ waiting = <<>>
  /\ UNCHANGED <<sent, buffered, waiting, taken>>

Next ==
  \/ \E v \in Values : Send(v) \/ HandOver(v) \/ Wait(v)
  \/ Receive \/ ReceiveAndAdmit \/ Close
  \/ \E gone \in SUBSET Values : Withdraw(gone)

Spec == Init /\ [][Next]_vars
==============================================================================
