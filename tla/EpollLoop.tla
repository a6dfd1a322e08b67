------------------------------- MODULE EpollLoop -------------------------------
(***************************************************************************)
(* epoll::Loop::Run() (src/epoll/loop.cc) among threads that post and stop.*)
(*                                                                         *)
(* The loop thread is a program with a step per access to what it shares   *)
(* with other threads and per callback.  epoll_wait() also returns for     *)
(* events of other channels, the timerfd's among them, whose handlers run  *)
(* user code, and when its timeout of ten seconds is up.                   *)
(***************************************************************************)
EXTENDS LoopMailbox

VARIABLES
  pc,       \* what the loop thread does next
  turn,     \* coroutines of the batch that DoPendingWork() runs
  active    \* active_channels_: subset of {"wakeup", "other"}

thread == <<pc, turn, active>>
vars == <<mailbox, thread>>

Init == MailboxInit /\ pc = "start" /\ turn = 0 /\ active = {}

Goto(from, to) == pc = from /\ pc' = to

-----------------------------------------------------------------------------
(* Run().                                                                  *)

(* The compare-exchange that starts the loop, unless a stop came first. *)
Start ==
  /\ Goto("start", "top")
  /\ state' = IF state = "created" THEN "running" ELSE state
  /\ UNCHANGED <<posted, closed, wakefd, owes, accepted, batch, ran, work, turn, active>>

(* while (State() == kRunning), and DoPendingWork() takes the batch. *)
Top ==
  /\ pc = "top"
  /\ pc' = IF state = "running" THEN "work" ELSE "shutdown"
  /\ turn' = IF state = "running" THEN work ELSE turn
  /\ work' = IF state = "running" THEN 0 ELSE work
  /\ UNCHANGED <<state, posted, closed, wakefd, owes, accepted, batch, ran, active>>

(* RunBatch(): what it schedules stays in the queue for a later turn. *)
Work ==
  /\ Goto("work", "work")
  /\ turn # 0 /\ turn' = turn - 1
  /\ UserCode(work)
  /\ UNCHANGED <<batch, ran, active>>

(* The second look at the state, before the poll. *)
Retest ==
  /\ pc = "work" /\ turn = 0
  /\ pc' = IF state = "running" THEN "poll" ELSE "shutdown"
  /\ UNCHANGED <<mailbox, turn, active>>

(* epoll_wait() reports the eventfd if it is readable, and any other channel. *)
Poll ==
  /\ Goto("poll", "dispatch")
  /\ active' \in SUBSET {"wakeup", "other"}
  /\ wakefd <=> "wakeup" \in active'
  /\ active' # {} \/ work # 0
  /\ UNCHANGED <<mailbox, turn>>

PollTimeout ==
  /\ Goto("poll", "dispatch")
  /\ ~wakefd
  /\ active' = {}
  /\ UNCHANGED <<mailbox, turn>>

(* HandleEventUnchecked() of another channel. *)
HandleEvent ==
  /\ Goto("dispatch", "dispatch")
  /\ "other" \in active /\ active' = active \ {"other"}
  /\ UserCode(work)
  /\ UNCHANGED <<batch, ran, turn>>

(* Reads the eventfd and forgets what was posted. *)
BugDrainWakeup ==
  /\ Goto("dispatch", "dispatch")
  /\ "wakeup" \in active /\ active' = active \ {"wakeup"}
  /\ wakefd' = FALSE
  /\ UNCHANGED <<state, posted, closed, owes, accepted, batch, ran, work, turn>>

(* DrainWakeup() reads the eventfd until it is empty, and only then runs what was posted. *)
DrainWakeup ==
  /\ Goto("dispatch", "swap")
  /\ "wakeup" \in active /\ active' = active \ {"wakeup"}
  /\ wakefd' = FALSE
  /\ UNCHANGED <<state, posted, closed, owes, accepted, batch, ran, work, turn>>

NextTurn ==
  /\ Goto("dispatch", "top")
  /\ active = {}
  /\ UNCHANGED <<mailbox, turn, active>>

Swap == Goto("swap", "posted") /\ TakePosted /\ UNCHANGED <<turn, active>>

RunPosted ==
  \/ Goto("posted", "posted") /\ RunCallback /\ UNCHANGED <<turn, active>>
  \/ Goto("posted", "dispatch") /\ batch = <<>> /\ UNCHANGED <<mailbox, turn, active>>

(* BeginShutdown() asks the registered resources to stop, which schedules those who wait
   on them. *)
BeginShutdown ==
  /\ Goto("shutdown", "pending")
  /\ work' \in work..(IF work > MaxWork THEN work ELSE MaxWork)
  /\ UNCHANGED <<state, posted, closed, wakefd, owes, accepted, batch, ran, turn, active>>

RunPending ==
  \/ Goto("pending", "pending") /\ RunWork /\ UNCHANGED <<turn, active>>
  \/ Goto("pending", "close") /\ work = 0 /\ UNCHANGED <<mailbox, turn, active>>

(* A drain that closes the queue whatever is in it. *)
BugDrainPostedAndClose ==
  \/ Goto("close", "stop") /\ closed' = TRUE
     /\ UNCHANGED <<state, posted, wakefd, owes, accepted, batch, ran, work, turn, active>>
  \/ Goto("closing", "closing") /\ RunCallback /\ UNCHANGED <<turn, active>>

DrainPostedAndClose ==
  \/ Goto("close", "stop") /\ ClosePosted /\ UNCHANGED <<turn, active>>
  \/ Goto("close", "closing") /\ posted # <<>> /\ TakePosted /\ UNCHANGED <<turn, active>>
  \/ Goto("closing", "closing") /\ RunCallback /\ UNCHANGED <<turn, active>>
  \/ Goto("closing", "pending") /\ batch = <<>> /\ UNCHANGED <<mailbox, turn, active>>

Stopped ==
  /\ Goto("stop", "done")
  /\ state' = "stopped"
  /\ UNCHANGED <<posted, closed, wakefd, owes, accepted, batch, ran, work, turn, active>>

-----------------------------------------------------------------------------
LoopStep ==
  \/ Start \/ Top \/ Work \/ Retest \/ HandleEvent \/ DrainWakeup \/ NextTurn
  \/ Swap \/ RunPosted \/ BeginShutdown \/ RunPending \/ DrainPostedAndClose \/ Stopped

OtherThread(t) ==
  /\ Post(t) \/ RequestStop(t) \/ Wakeup(t)
  /\ UNCHANGED thread

Next == LoopStep \/ Poll \/ PollTimeout \/ \E t \in Threads : OtherThread(t)

(* The loop thread runs, and epoll_wait() returns when the eventfd is readable; nothing is
   assumed of its timeout or of other channels.  A coroutine does not reschedule itself
   forever.  A thread that changed the queue or the state goes on to write the eventfd. *)
Fairness ==
  /\ WF_vars(LoopStep)
  /\ WF_vars(Poll /\ (wakefd \/ work # 0))
  /\ \A t \in Threads : WF_vars(Wakeup(t) /\ UNCHANGED thread)

Spec == Init /\ [][Next]_vars /\ Fairness

-----------------------------------------------------------------------------
Steps == {"start", "top", "work", "poll", "dispatch", "swap", "posted",
          "shutdown", "pending", "close", "closing", "stop", "done"}

TypeOK ==
  /\ MailboxType
  /\ pc \in Steps /\ turn \in Nat /\ active \subseteq {"wakeup", "other"}

(* The loop never sleeps on news: when epoll_wait() has nothing to report, every callback
   that was posted, and a stop, is about to be announced by the thread that brought it.
   Post() wakes only for the first callback, and DrainWakeup() reads the eventfd before it
   takes the queue; both depend on it. *)
NoLostWakeup ==
  pc = "poll" /\ ~wakefd =>
    /\ posted # <<>> => owes # {}
    /\ state = "stopping" => owes # {}
================================================================================
