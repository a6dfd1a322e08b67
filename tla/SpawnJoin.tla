------------------------------ MODULE SpawnJoin ------------------------------
(***************************************************************************)
(* The life cycle shared by a spawned root coroutine and its JoinHandle    *)
(* (include/alyrn/coro/detail/spawn_state.h, spawn_root.h, coro/spawn.h).  *)
(*                                                                         *)
(* Each root has two actors.  The PRODUCER is the scheduler thread that    *)
(* runs the root to its final suspend and calls SpawnState::Finish().  The *)
(* CONSUMER is the owner of the JoinHandle: it may block in Wait(), join   *)
(* with co_await, or let the handle go.  Both touch one SpawnState, which  *)
(* lives INSIDE the root's coroutine frame: whoever loses the race for     *)
(* `phase` has to free that frame, and nobody may touch it afterwards.     *)
(*                                                                         *)
(* Every atomic access, and every access to plain fields between two       *)
(* atomic ones, is a step of its own.  A failed ALYRN_CHECK takes the      *)
(* actor to "panic".  The handle has one consumer, as spawn_state.h        *)
(* requires: Wait() and co_await do not race on one handle, and a          *)
(* suspended joiner is not destroyed.                                      *)
(***************************************************************************)

CONSTANT Roots      \* the roots in flight

VARIABLES
  phase,     \* phase_, the atomic word
  result,    \* result_: "empty", "stored" or "taken"
  waiter,    \* waiter_scheduler_ and waiter_resume_: "unset", "set", or
             \* "queued" while waiter_resume_ is in the scheduler's queue
  frame,     \* the root frame, and root_work_ in it: "live" or "freed"
  producer,  \* next step of the producer
  consumer   \* next step of the consumer

vars == <<phase, result, waiter, frame, producer, consumer>>

Phases == {"RunningJoinable", "WaiterParked", "RunningDetached",
           "Finished", "CompletedWaiterScheduled"}
ProducerSteps == {"scheduled", "running", "final", "notify", "publish",
                  "schedule", "destroy", "done", "panic"}
ConsumerSteps == {"attached", "load", "wait", "asleep", "write", "park",
                  "undo", "parked", "take", "joined", "release", "destroy",
                  "gone", "panic"}

(* The state Spawn() leaves: root_work_ set and scheduled, handle returned. *)
Init ==
  /\ phase = [r \in Roots |-> "RunningJoinable"]
  /\ result = [r \in Roots |-> "empty"]
  /\ waiter = [r \in Roots |-> "unset"]
  /\ frame = [r \in Roots |-> "live"]
  /\ producer = [r \in Roots |-> "scheduled"]
  /\ consumer = [r \in Roots |-> "attached"]

ProducerStep(r, from, to) ==
  /\ producer[r] = from
  /\ producer' = [producer EXCEPT ![r] = to]

ConsumerStep(r, from, to) ==
  /\ consumer[r] = from
  /\ consumer' = [consumer EXCEPT ![r] = to]

-----------------------------------------------------------------------------
(* The producer.                                                           *)

(* The scheduler runs root_work_, which resumes the root coroutine. *)
RunRoot(r) ==
  /\ ProducerStep(r, "scheduled", "running")
  /\ UNCHANGED <<phase, result, waiter, frame, consumer>>

(* return_value() stores the child's value; final_suspend follows. *)
StoreResult(r) ==
  /\ ProducerStep(r, "running", IF result[r] = "empty" THEN "final" ELSE "panic")
  /\ result' = [result EXCEPT ![r] = "stored"]
  /\ UNCHANGED <<phase, waiter, frame, consumer>>

(* The compare-exchange of Finish(), and the branch its outcome selects. *)
Finish(r) ==
  /\ ProducerStep(r, "final",
       CASE phase[r] = "RunningJoinable" -> "notify"
         [] phase[r] = "WaiterParked"    -> "publish"
         [] phase[r] = "RunningDetached" -> "destroy"
         [] OTHER                        -> "panic")
  /\ phase' = IF phase[r] = "RunningJoinable"
              THEN [phase EXCEPT ![r] = "Finished"] ELSE phase
  /\ UNCHANGED <<result, waiter, frame, consumer>>

(* phase_.notify_one(): a consumer asleep in Wait() loads phase_ again. *)
NotifyOne(r) ==
  /\ ProducerStep(r, "notify", "done")
  /\ consumer' = IF consumer[r] = "asleep"
                 THEN [consumer EXCEPT ![r] = "load"] ELSE consumer
  /\ UNCHANGED <<phase, result, waiter, frame>>

(* A waiter was parked: the store that precedes its scheduling. *)
PublishWaiter(r) ==
  /\ ProducerStep(r, "publish", "schedule")
  /\ phase' = [phase EXCEPT ![r] = "CompletedWaiterScheduled"]
  /\ UNCHANGED <<result, waiter, frame, consumer>>

(* Read waiter_scheduler_ and hand it waiter_resume_. *)
ScheduleWaiter(r) ==
  /\ ProducerStep(r, "schedule", IF waiter[r] = "set" THEN "done" ELSE "panic")
  /\ waiter' = [waiter EXCEPT ![r] = "queued"]
  /\ UNCHANGED <<phase, result, frame, consumer>>

(* A final awaiter that forgets to free a detached root. *)
BugDestroyDetached(r) ==
  /\ ProducerStep(r, "destroy", "done")
  /\ UNCHANGED <<phase, result, waiter, frame, consumer>>

(* SpawnFinalAwaiter frees the frame of a detached root. *)
DestroyDetached(r) ==
  /\ ProducerStep(r, "destroy", "done")
  /\ frame' = [frame EXCEPT ![r] = "freed"]
  /\ UNCHANGED <<phase, result, waiter, consumer>>

Producer(r) ==
  \/ RunRoot(r) \/ StoreResult(r) \/ Finish(r) \/ NotifyOne(r)
  \/ PublishWaiter(r) \/ ScheduleWaiter(r) \/ DestroyDetached(r)

-----------------------------------------------------------------------------
(* The consumer.                                                           *)

(* JoinHandle::Wait(). *)
CallWait(r) ==
  /\ ConsumerStep(r, "attached", "load")
  /\ UNCHANGED <<phase, result, waiter, frame, producer>>

(* A Wait() whose loop knows only the phase of an asynchronous joiner. *)
BugWaitLoad(r) ==
  /\ ConsumerStep(r, "load",
       IF phase[r] = "CompletedWaiterScheduled" THEN "take" ELSE "wait")
  /\ UNCHANGED <<phase, result, waiter, frame, producer>>

(* The loads of Wait(): the loop condition and the check behind the loop. *)
WaitLoad(r) ==
  /\ ConsumerStep(r, "load",
       CASE phase[r] = "RunningJoinable" -> "wait"
         [] phase[r] = "Finished"        -> "take"
         [] OTHER                        -> "panic")
  /\ UNCHANGED <<phase, result, waiter, frame, producer>>

(* phase_.wait(kRunningJoinable) sleeps unless the word already changed. *)
AtomicWait(r) ==
  /\ ConsumerStep(r, "wait",
       IF phase[r] = "RunningJoinable" THEN "asleep" ELSE "load")
  /\ UNCHANGED <<phase, result, waiter, frame, producer>>

(* co_await std::move(handle): await_ready() asks IsFinished(). *)
CallCoAwait(r) ==
  /\ ConsumerStep(r, "attached",
       IF phase[r] = "Finished" THEN "take" ELSE "write")
  /\ UNCHANGED <<phase, result, waiter, frame, producer>>

(* TryParkWaiter() fills the plain fields before it publishes them. *)
ParkWrite(r) ==
  /\ ConsumerStep(r, "write", "park")
  /\ waiter' = [waiter EXCEPT ![r] = "set"]
  /\ UNCHANGED <<phase, result, frame, producer>>

(* A park that stores its phase without comparing the old one. *)
BugParkExchange(r) ==
  /\ ConsumerStep(r, "park", "parked")
  /\ phase' = [phase EXCEPT ![r] = "WaiterParked"]
  /\ UNCHANGED <<result, waiter, frame, producer>>

(* The compare-exchange of TryParkWaiter(). *)
ParkExchange(r) ==
  /\ ConsumerStep(r, "park",
       IF phase[r] = "RunningJoinable" THEN "parked" ELSE "undo")
  /\ phase' = IF phase[r] = "RunningJoinable"
              THEN [phase EXCEPT ![r] = "WaiterParked"] ELSE phase
  /\ UNCHANGED <<result, waiter, frame, producer>>

(* The exchange failed: clear the fields and do not suspend. *)
ParkUndo(r) ==
  /\ ConsumerStep(r, "undo", "take")
  /\ waiter' = [waiter EXCEPT ![r] = "unset"]
  /\ UNCHANGED <<phase, result, frame, producer>>

(* The waiter's scheduler pops waiter_resume_ and resumes the joiner. *)
ResumeWaiter(r) ==
  /\ waiter[r] = "queued"
  /\ ConsumerStep(r, "parked", "take")
  /\ waiter' = [waiter EXCEPT ![r] = "set"]
  /\ UNCHANGED <<phase, result, frame, producer>>

(* result_.Take(), of Wait() and of await_resume(). *)
TakeResult(r) ==
  /\ ConsumerStep(r, "take", IF result[r] = "stored" THEN "joined" ELSE "panic")
  /\ result' = [result EXCEPT ![r] = "taken"]
  /\ UNCHANGED <<phase, waiter, frame, producer>>

(* Detach(), the destructor of the handle, or a move assignment over it. *)
CallRelease(r) ==
  /\ \/ ConsumerStep(r, "attached", "release")
     \/ ConsumerStep(r, "joined", "release")
  /\ UNCHANGED <<phase, result, waiter, frame, producer>>

(* A release that takes a running root for a finished one. *)
BugReleaseHandle(r) ==
  /\ ConsumerStep(r, "release", "destroy")
  /\ UNCHANGED <<phase, result, waiter, frame, producer>>

(* The compare-exchange of ReleaseHandle(), and the check behind it. *)
ReleaseHandle(r) ==
  /\ ConsumerStep(r, "release",
       CASE phase[r] = "RunningJoinable" -> "gone"
         [] phase[r] \in {"Finished", "CompletedWaiterScheduled"} -> "destroy"
         [] OTHER -> "panic")
  /\ phase' = IF phase[r] = "RunningJoinable"
              THEN [phase EXCEPT ![r] = "RunningDetached"] ELSE phase
  /\ UNCHANGED <<result, waiter, frame, producer>>

(* DestroyRoot(): the consumer frees the finished root. *)
DestroyRoot(r) ==
  /\ ConsumerStep(r, "destroy", IF frame[r] = "live" THEN "gone" ELSE "panic")
  /\ frame' = [frame EXCEPT ![r] = "freed"]
  /\ UNCHANGED <<phase, result, waiter, producer>>

(* The calls the owner of a handle may or may not make ... *)
Call(r) == CallWait(r) \/ CallCoAwait(r) \/ CallRelease(r)

(* ... and the steps of a call it has made. *)
Consumer(r) ==
  \/ WaitLoad(r) \/ AtomicWait(r)
  \/ ParkWrite(r) \/ ParkExchange(r) \/ ParkUndo(r) \/ ResumeWaiter(r)
  \/ TakeResult(r) \/ ReleaseHandle(r) \/ DestroyRoot(r)

(* Every root has finished and every handle is gone: nothing is left to do. *)
AllOver ==
  /\ \A r \in Roots : producer[r] = "done" /\ consumer[r] = "gone"
  /\ UNCHANGED vars

Next == (\E r \in Roots : Producer(r) \/ Call(r) \/ Consumer(r)) \/ AllOver

(* Schedulers run what is scheduled and a thread inside a call keeps going; *)
(* nothing obliges the owner of a handle to make a call.                    *)
Fairness == \A r \in Roots : WF_vars(Producer(r)) /\ WF_vars(Consumer(r))

Spec == Init /\ [][Next]_vars /\ Fairness

-----------------------------------------------------------------------------
(* Properties.                                                             *)

TypeOK ==
  /\ phase \in [Roots -> Phases]
  /\ result \in [Roots -> {"empty", "stored", "taken"}]
  /\ waiter \in [Roots -> {"unset", "set", "queued"}]
  /\ frame \in [Roots -> {"live", "freed"}]
  /\ producer \in [Roots -> ProducerSteps]
  /\ consumer \in [Roots -> ConsumerSteps]

(* No ALYRN_CHECK of SpawnState can fail: the result is stored once and     *)
(* taken only when stored, Finish(), Wait() and ReleaseHandle() meet only   *)
(* the phases they expect, and no frame is freed twice.                     *)
NoPanic == \A r \in Roots : producer[r] # "panic" /\ consumer[r] # "panic"

(* The frame is freed once, by whoever gets out last: it outlives everyone  *)
(* who may still read or write the SpawnState in it (once it is freed the   *)
(* consumer is gone, waiter_resume_ is in no queue, and the producer has    *)
(* nothing left but, at most, the notify_one() of Finish(), see             *)
(* NotifyBeforeDestroy), and no interleaving of Finish() and                *)
(* ReleaseHandle() leaks it.                                                *)
FrameFreedOnce ==
  \A r \in Roots :
    /\ frame[r] = "freed" => consumer[r] = "gone" /\ waiter[r] # "queued"
                               /\ producer[r] \in {"notify", "done"}
    /\ producer[r] = "done" /\ consumer[r] = "gone" => frame[r] = "freed"

(* waiter_scheduler_ and waiter_resume_ are plain fields: when Finish()     *)
(* reads them, TryParkWaiter() has written them and suspended for good.     *)
WaiterFieldsRaceFree ==
  \A r \in Roots : producer[r] \in {"publish", "schedule"} =>
    consumer[r] = "parked" /\ waiter[r] = "set"

(* The inductive invariant behind the properties above: what each          *)
(* phase says about the two actors, the waiter fields and the frame.        *)
PhaseInv(r) ==
  /\ phase[r] = "RunningJoinable" =>
       /\ producer[r] \in {"scheduled", "running", "final"}
       /\ consumer[r] \in {"attached", "load", "wait", "asleep", "write",
                           "park", "release"}
       /\ waiter[r] # "queued" /\ frame[r] = "live"
  /\ phase[r] = "WaiterParked" =>
       /\ producer[r] \in {"scheduled", "running", "final", "publish"}
       /\ consumer[r] = "parked" /\ waiter[r] = "set" /\ frame[r] = "live"
  /\ phase[r] = "RunningDetached" =>
       /\ producer[r] \in {"scheduled", "running", "final", "destroy", "done"}
       /\ consumer[r] = "gone" /\ waiter[r] # "queued"
       /\ frame[r] = "freed" <=> producer[r] = "done"
  /\ phase[r] = "Finished" =>
       /\ producer[r] \in {"notify", "done"}
       /\ consumer[r] \notin {"parked", "panic"} /\ waiter[r] # "queued"
       /\ consumer[r] = "asleep" => producer[r] = "notify"
       /\ frame[r] = "freed" <=> consumer[r] = "gone"
  /\ phase[r] = "CompletedWaiterScheduled" =>
       /\ producer[r] \in {"schedule", "done"}
       /\ consumer[r] \in {"parked", "take", "joined", "release", "destroy",
                           "gone"}
       /\ producer[r] = "schedule" => consumer[r] = "parked" /\ waiter[r] = "set"
       /\ producer[r] = "done" => (waiter[r] = "queued" <=> consumer[r] = "parked")
       /\ frame[r] = "freed" <=> consumer[r] = "gone"

(* The result is empty until the root has run, and taken only by the joiner; *)
(* the waiter fields are set when TryParkWaiter() publishes them.            *)
ResultInv(r) ==
  /\ result[r] = "empty" <=> producer[r] \in {"scheduled", "running"}
  /\ result[r] = "taken" => consumer[r] \in {"joined", "release", "destroy", "gone"}
  /\ consumer[r] = "park" => waiter[r] = "set"

(* No phase, actor, waiter field or frame is ever in a combination that      *)
(* SpawnState does not provide for, in any interleaving of Finish(), Wait(), *)
(* TryParkWaiter() and ReleaseHandle().                                      *)
JoinInv == TypeOK /\ \A r \in Roots : PhaseInv(r) /\ ResultInv(r)

(* A Wait() or co_await that started ends with the result: Finish() never   *)
(* misses a sleeper and never forgets a parked waiter.                      *)
JoinReturns ==
  \A r \in Roots :
    consumer[r] \in {"load", "wait", "asleep", "write", "park", "parked"}
      ~> consumer[r] = "joined"

(* "unblock a possible Wait(); the caller destroys later": the frame that   *)
(* holds phase_ is still there when Finish() calls phase_.notify_one().     *)
NotifyBeforeDestroy == \A r \in Roots : producer[r] = "notify" => frame[r] = "live"
=============================================================================
