----------------------------- MODULE ChannelSelect -----------------------------
(***************************************************************************)
(* coro::Channel and coro::Select (include/alyrn/coro/channel.h, select.h) *)
(* as coroutines of one scheduler use them: sends, receives, selects over  *)
(* several channels, the Try operations, Close(), and the destruction of a *)
(* coroutine that waits.                                                   *)
(*                                                                         *)
(* Everything happens on the scheduler's thread, so every call is one step.*)
(* A case is a send on or a receive from a channel; a coroutine registers  *)
(* itself with one registration [who, case] per case, and a plain send or  *)
(* receive is a wait with a single case.  A send carries the number of the *)
(* call that made it.  Left out: two cases of one select that do the same  *)
(* to one channel, and SelectDefault(), which turns a select that would    *)
(* wait into a step that changes nothing.  What the callers must not do    *)
(* (send on a closed channel, close it with a sender waiting, destroy a    *)
(* coroutine that is already scheduled) ends the program and is guarded    *)
(* against.                                                                *)
(***************************************************************************)
EXTENDS ChannelRing, FiniteSets

LOCAL INSTANCE SequencesExt

CONSTANTS
  Coroutines,
  Channels,
  Unbuffered,   \* the channels of capacity 0
  Capacity,     \* the capacity of the others
  MaxSends,     \* bound: how many values are ever sent
  None          \* no case has won

VARIABLES
  world,  \* the channels, the coroutines' awaiters and the scheduler's queue:
          \*   chan   ring, senders_, receivers_ and closed_ of every channel
          \*   co     per coroutine its phase, and of its awaiter the cases, the
          \*          value to send, the active_ and queued_ registrations and
          \*          the winner
          \*   ready  the scheduler's queue
          \*   accepted, taken  per channel, in order, the values whose send
          \*          succeeded and the values receivers got (history)
  sends   \* sends begun

vars == <<world, sends>>

Cases == [op : {"send", "recv"}, ch : Channels]

Case(op, ch) == [op |-> op, ch |-> ch]

Idle == [phase |-> "idle", cases |-> {}, value |-> 0, active |-> {}, queued |-> {},
         winner |-> None]

NewChannel(ch) ==
  LET capacity == IF ch \in Unbuffered THEN 0 ELSE Capacity
  IN  [ring |-> NewRing(capacity, RingSize(capacity)), senders |-> <<>>,
       receivers |-> <<>>, closed |-> FALSE]

Init ==
  /\ world = [chan |-> [ch \in Channels |-> NewChannel(ch)],
              co |-> [c \in Coroutines |-> Idle], ready |-> <<>>,
              accepted |-> [ch \in Channels |-> <<>>],
              taken |-> [ch \in Channels |-> <<>>]]
  /\ sends = 0

Registration(c, case) == [who |-> c, case |-> case]

Without(queue, c) == SelectSeq(queue, LAMBDA reg : reg.who # c)

-----------------------------------------------------------------------------
(* SelectState and the registrations.                                      *)

(* A CancelLosers() that deactivates the losers and leaves them queued. *)
BugCancelLosers(w, c) == [w EXCEPT !.co[c].active = {}, !.co[c].queued = {}]

(* Cancel() of every registration still active: out of the channel's queue if
   it is in one. *)
CancelLosers(w, c) ==
  LET left(case) == w.co[c].active \cap w.co[c].queued \cap {case} # {}
  IN  [w EXCEPT
        !.co[c].active = {}, !.co[c].queued = {},
        !.chan = [ch \in Channels |->
          [@[ch] EXCEPT
            !.senders = IF left(Case("send", ch)) THEN Without(@, c) ELSE @,
            !.receivers = IF left(Case("recv", ch)) THEN Without(@, c) ELSE @]]]

ResumeIfWaiting(w, c) ==
  IF w.co[c].phase # "waiting" THEN w
  ELSE [w EXCEPT !.co[c].phase = "scheduled", !.ready = Append(@, c)]

Undecided(w, reg) ==
  reg.case \in w.co[reg.who].active /\ w.co[reg.who].winner = None

Accept(w, ch, value) == [w EXCEPT !.accepted[ch] = Append(@, value)]

(* Complete() of a send, which thereby succeeds, or CompleteClosed() of a receive. *)
Complete(w, reg) ==
  LET c == reg.who
      u == [w EXCEPT !.co[c].active = @ \ {reg.case}, !.co[c].queued = @ \ {reg.case}]
      won == [u EXCEPT !.co[c].winner = reg.case]
  IN  IF reg.case \notin w.co[c].active THEN w
      ELSE IF w.co[c].winner # None THEN u
      ELSE ResumeIfWaiting(
             CancelLosers(IF reg.case.op = "send" THEN Accept(won, reg.case.ch, w.co[c].value)
                          ELSE won, c), c)

(* CompleteValue(): a registration that is out of the race drops the value. *)
CompleteValue(w, reg, value) ==
  Complete(IF Undecided(w, reg)
             THEN [w EXCEPT !.taken[reg.case.ch] = Append(@, value)] ELSE w,
           reg)

-----------------------------------------------------------------------------
(* The channel.                                                            *)

(* A closed channel is ready for a send too, which then ends the program. *)
SendReady(w, ch) == w.chan[ch].receivers # <<>> \/ ~Full(w.chan[ch].ring)

ReceiveReady(w, ch) ==
  \/ w.chan[ch].closed \/ w.chan[ch].senders # <<>>
  \/ w.chan[ch].ring.size # 0

(* A send that need not wait, and succeeds: TrySend(), SendAwaiter,
   CommitSelectSend(). *)
Offer(w, ch, value) ==
  LET sent == Accept(w, ch, value)
  IN  IF w.chan[ch].receivers # <<>>
        THEN CompleteValue([sent EXCEPT !.chan[ch].receivers = Tail(@)],
                           Head(w.chan[ch].receivers), value)
        ELSE [sent EXCEPT !.chan[ch].ring = PushBuffer(@, value)]

HasValue(w, ch) == w.chan[ch].ring.size # 0 \/ w.chan[ch].senders # <<>>

NextValue(w, ch) ==
  IF w.chan[ch].ring.size # 0 THEN Oldest(w.chan[ch].ring)
  ELSE w.co[Head(w.chan[ch].senders).who].value

(* A drain that leaves the oldest sender waiting beside a free slot. *)
BugTake(w, ch) ==
  LET popped == [w EXCEPT !.chan[ch].ring = PopBuffer(@)]
      sender == Head(w.chan[ch].senders)
  IN  IF w.chan[ch].ring.size # 0 THEN popped
      ELSE Complete([w EXCEPT !.chan[ch].senders = Tail(@)], sender)

(* A receive that need not wait takes NextValue; draining a full buffer admits the
   oldest sender. *)
Take(w, ch) ==
  LET buffered == w.chan[ch].ring.size # 0
      popped == IF buffered THEN [w EXCEPT !.chan[ch].ring = PopBuffer(@)] ELSE w
      sender == Head(w.chan[ch].senders)
      admitted == [popped EXCEPT !.chan[ch].senders = Tail(@),
                                 !.chan[ch].ring = IF buffered
                                   THEN PushBuffer(@, w.co[sender.who].value) ELSE @]
  IN  IF w.chan[ch].senders = <<>> THEN popped ELSE Complete(admitted, sender)

Received(w, ch) ==
  IF HasValue(w, ch)
    THEN Take([w EXCEPT !.taken[ch] = Append(@, NextValue(w, ch))], ch) ELSE w

(* The registrations of a coroutine that has to wait. *)
Park(w, c, cases, value) ==
  LET add(queue, case) ==
        IF case \in cases THEN Append(queue, Registration(c, case)) ELSE queue
  IN  [w EXCEPT
        !.co[c] = [phase |-> "waiting", cases |-> cases, value |-> value,
                   active |-> cases, queued |-> cases, winner |-> None],
        !.chan = [ch \in Channels |->
          [@[ch] EXCEPT !.senders = add(@, Case("send", ch)),
                        !.receivers = add(@, Case("recv", ch))]]]

-----------------------------------------------------------------------------
(* What coroutines and callbacks on the scheduler's thread do.             *)

TrySend(ch) ==
  /\ ~world.chan[ch].closed
  /\ sends < MaxSends /\ sends' = sends + 1
  /\ world' = IF SendReady(world, ch) THEN Offer(world, ch, sends') ELSE world

TryReceive(ch) ==
  /\ ReceiveReady(world, ch)
  /\ world' = Received(world, ch)
  /\ UNCHANGED sends

(* co_await (channel << value) *)
AwaitSend(c, ch) ==
  /\ world.co[c].phase = "idle"
  /\ ~world.chan[ch].closed
  /\ sends < MaxSends /\ sends' = sends + 1
  /\ world' = IF SendReady(world, ch) THEN Offer(world, ch, sends')
              ELSE Park(world, c, {Case("send", ch)}, sends')

(* co_await (channel >> output) *)
AwaitReceive(c, ch) ==
  /\ world.co[c].phase = "idle"
  /\ world' = IF ReceiveReady(world, ch) THEN Received(world, ch)
              ELSE Park(world, c, {Case("recv", ch)}, 0)
  /\ UNCHANGED sends

IsReady(w, case) ==
  IF case.op = "send" THEN SendReady(w, case.ch) ELSE ReceiveReady(w, case.ch)

(* CommitSelectSend() and CommitSelectReceive() of the chosen case, which cancels
   the others before they were ever queued. *)
Commit(w, case, value) ==
  IF case.op = "send" THEN Offer(w, case.ch, value) ELSE Received(w, case.ch)

(* co_await Select(...): one of the ready cases, or a wait for all of them. *)
Select(c, cases) ==
  LET ready == {case \in cases : IsReady(world, case)}
      sending == \E case \in cases : case.op = "send"
      value == sends + 1
  IN  /\ world.co[c].phase = "idle"
      /\ \A case \in cases : case.op = "send" => ~world.chan[case.ch].closed
      /\ sending => sends < MaxSends
      /\ sends' = IF sending THEN value ELSE sends
      /\ IF ready = {} THEN world' = Park(world, c, cases, value)
         ELSE \E case \in ready : world' = Commit(world, case, value)

Close(ch) ==
  LET open == world.chan[ch]
      shut == [world EXCEPT !.chan[ch].closed = TRUE]
  IN  /\ ~open.closed
      /\ open.senders = <<>>
      /\ world' = IF open.ring.size # 0 THEN shut
                  ELSE FoldLeft(Complete, [shut EXCEPT !.chan[ch].receivers = <<>>],
                                open.receivers)
      /\ UNCHANGED sends

(* The scheduler resumes the coroutine, which reads its result. *)
Resume ==
  /\ world.ready # <<>>
  /\ world' = [world EXCEPT !.ready = Tail(@), !.co[Head(world.ready)] = Idle]
  /\ UNCHANGED sends

(* The destructors of the awaiter, or of the registrations, of a coroutine that
   waits; another coroutine takes its place. *)
Destroy(c) ==
  /\ world.co[c].phase = "waiting"
  /\ world' = [CancelLosers(world, c) EXCEPT !.co[c] = Idle]
  /\ UNCHANGED sends

Next ==
  \/ Resume
  \/ \E ch \in Channels : TrySend(ch) \/ TryReceive(ch) \/ Close(ch)
  \/ \E c \in Coroutines :
       \/ Destroy(c)
       \/ \E ch \in Channels : AwaitSend(c, ch) \/ AwaitReceive(c, ch)
       \/ \E cases \in SUBSET Cases : Cardinality(cases) > 1 /\ Select(c, cases)

Spec == Init /\ [][Next]_vars

-----------------------------------------------------------------------------
(* Properties.                                                             *)

WaitingValues(ch) ==
  [k \in DOMAIN world.chan[ch].senders |-> world.co[world.chan[ch].senders[k].who].value]

Fifo(ch) == INSTANCE ChannelFifo WITH
  Values <- 1..MaxSends,
  Capacity <- IF ch \in Unbuffered THEN 0 ELSE Capacity,
  sent <- world.accepted[ch],
  buffered <- Contents(world.chan[ch].ring),
  waiting <- WaitingValues(ch),
  taken <- world.taken[ch],
  closed <- world.chan[ch].closed

(* Whatever mix of sends, receives, selects, Try operations, closes and destroyed
   waiters: a send that succeeded put its value in the channel once, and receivers get
   these values in that order, each once.  No value is lost to a select that chose
   something else (CompleteValue() of a registration out of the race drops it), none is
   overtaken, and only a sender that still waits takes its value back. *)
ImplementsFifo ==
  /\ \A ch \in Channels : Fifo(ch)!Init
  /\ [][\A ch \in Channels : [Fifo(ch)!Next]_(Fifo(ch)!vars)]_vars

(* Nobody waits for what is there: a receiver waits only at an empty, open channel, a
   sender only at a full, open one, and a sender and a receiver wait at the same channel
   only when both are the same select.  ~Channel()'s check, Close()'s early return for a
   buffer that is not empty, and SelectSendReady()/SelectReceiveReady() rest on it. *)
NoMissedMatch ==
  \A ch \in Channels :
    LET chan == world.chan[ch]
    IN  /\ chan.receivers # <<>> => chan.ring.size = 0 /\ ~chan.closed
        /\ chan.senders # <<>> => Full(chan.ring) /\ ~chan.closed
        /\ \A j \in DOMAIN chan.senders, k \in DOMAIN chan.receivers :
             chan.senders[j].who = chan.receivers[k].who

Registrations(queue) == {queue[k] : k \in DOMAIN queue}

(* A select is decided once: while it waits, each of its cases stands once in the queue
   of its channel; from the moment one wins, none does, and the coroutine is scheduled
   exactly once.  So "Channel sender was not queued", "queued twice" and "value taken
   twice" cannot fire, and no destroyed awaiter is left in a queue. *)
DecidedOnce ==
  /\ \A ch \in Channels :
       LET chan == world.chan[ch]
           waiting(case) == {Registration(c, case) : c \in
             {c \in Coroutines : world.co[c].phase = "waiting" /\ case \in world.co[c].queued}}
       IN  /\ Registrations(chan.senders) = waiting(Case("send", ch))
           /\ Registrations(chan.receivers) = waiting(Case("recv", ch))
           /\ Len(chan.senders) = Cardinality(Registrations(chan.senders))
           /\ Len(chan.receivers) = Cardinality(Registrations(chan.receivers))
  /\ \A c \in Coroutines :
       /\ world.co[c].phase = "waiting" =>
            world.co[c].queued = world.co[c].cases /\ world.co[c].winner = None
       /\ Len(SelectSeq(world.ready, LAMBDA r : r = c))
            = IF world.co[c].phase = "scheduled" THEN 1 ELSE 0
================================================================================
