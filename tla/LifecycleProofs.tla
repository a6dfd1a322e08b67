---------------------------- MODULE LifecycleProofs ----------------------------
(***************************************************************************)
(* Proofs about what coroutines run on and wait for, for any number of     *)
(* them: SpawnState and JoinHandle (SpawnJoin), the workers of a Runtime   *)
(* (RuntimeLifecycle), the ring of a Channel (ChannelRing), and the state  *)
(* machines of the sources (SourceMachines) for all valid options.  Those  *)
(* of the sources implement DrainBarrier step by step.                     *)
(***************************************************************************)
EXTENDS SpawnJoin, RuntimeLifecycle, ChannelRing, SourceMachines, SequenceTheorems, TLAPS

-----------------------------------------------------------------------------
(* Spawn and join.                                                         *)

(* The state Spawn() leaves satisfies the invariant. *)
LEMMA InitJoinInv == Init => JoinInv
  BY DEF Init, JoinInv, TypeOK, PhaseInv, ResultInv, Phases, ProducerSteps,
         ConsumerSteps

(* Every step of the producer keeps the invariant. *)
LEMMA ProducerJoinInv ==
  ASSUME JoinInv, NEW r \in Roots, Producer(r)
  PROVE  JoinInv'
<1> USE DEF JoinInv, TypeOK, Phases, ProducerSteps, ConsumerSteps, PhaseInv,
            ResultInv, ProducerStep
<1>1. CASE RunRoot(r)
  BY <1>1 DEF RunRoot
<1>2. CASE StoreResult(r)
  BY <1>2 DEF StoreResult
<1>3. CASE Finish(r)
  BY <1>3 DEF Finish
<1>4. CASE NotifyOne(r)
  BY <1>4 DEF NotifyOne
<1>5. CASE PublishWaiter(r)
  BY <1>5 DEF PublishWaiter
<1>6. CASE ScheduleWaiter(r)
  BY <1>6 DEF ScheduleWaiter
<1>7. CASE DestroyDetached(r)
  BY <1>7 DEF DestroyDetached
<1> QED
  BY <1>1, <1>2, <1>3, <1>4, <1>5, <1>6, <1>7 DEF Producer

(* Every call on a handle, and every step of a call, keeps the invariant. *)
LEMMA ConsumerJoinInv ==
  ASSUME JoinInv, NEW r \in Roots, Call(r) \/ Consumer(r)
  PROVE  JoinInv'
<1> USE DEF JoinInv, TypeOK, Phases, ProducerSteps, ConsumerSteps, PhaseInv,
            ResultInv, ConsumerStep
<1>1. CASE CallWait(r)
  BY <1>1 DEF CallWait
<1>2. CASE WaitLoad(r)
  BY <1>2 DEF WaitLoad
<1>3. CASE AtomicWait(r)
  BY <1>3 DEF AtomicWait
<1>4. CASE CallCoAwait(r)
  BY <1>4 DEF CallCoAwait
<1>5. CASE ParkWrite(r)
  BY <1>5 DEF ParkWrite
<1>6. CASE ParkExchange(r)
  BY <1>6 DEF ParkExchange
<1>7. CASE ParkUndo(r)
  BY <1>7 DEF ParkUndo
<1>8. CASE ResumeWaiter(r)
  BY <1>8 DEF ResumeWaiter
<1>9. CASE TakeResult(r)
  BY <1>9 DEF TakeResult
<1>10. CASE CallRelease(r)
  BY <1>10 DEF CallRelease
<1>11. CASE ReleaseHandle(r)
  BY <1>11 DEF ReleaseHandle
<1>12. CASE DestroyRoot(r)
  BY <1>12 DEF DestroyRoot
<1> QED
  BY <1>1, <1>2, <1>3, <1>4, <1>5, <1>6, <1>7, <1>8, <1>9, <1>10, <1>11, <1>12, Zenon
     DEF Call, Consumer

(* JoinInv is invariant: in every interleaving of Finish(), Wait(),         *)
(* TryParkWaiter() and ReleaseHandle() the phase determines who may still   *)
(* use the frame and who frees it.                                          *)
THEOREM JoinInvariant == Spec => []JoinInv
<1>1. Init => JoinInv
  BY InitJoinInv
<1>2. JoinInv /\ [Next]_vars => JoinInv'
  <2> SUFFICES ASSUME JoinInv, [Next]_vars
               PROVE  JoinInv'
    OBVIOUS
  <2>1. CASE \E r \in Roots : Producer(r)
    BY <2>1, ProducerJoinInv
  <2>2. CASE \E r \in Roots : Call(r) \/ Consumer(r)
    BY <2>2, ConsumerJoinInv
  <2>3. CASE UNCHANGED vars
    BY <2>3 DEF vars, JoinInv, TypeOK, PhaseInv, ResultInv
  <2> QED
    BY <2>1, <2>2, <2>3 DEF Next, AllOver
<1> QED
  BY <1>1, <1>2, PTL DEF Spec

(* No check in SpawnState fails, for any number of roots: in particular no  *)
(* frame is freed twice and no result is taken before it is stored.         *)
THEOREM JoinNeverPanics == Spec => []NoPanic
<1>1. JoinInv => NoPanic
  BY Zenon DEF JoinInv, TypeOK, Phases, PhaseInv, NoPanic
<1> QED
  BY <1>1, JoinInvariant, PTL

(* The frame outlives the SpawnState accesses of both sides, and is freed   *)
(* whoever gets out last.                                                   *)
THEOREM FrameIsSafe == Spec => []FrameFreedOnce
<1>1. JoinInv => FrameFreedOnce
  BY Zenon DEF JoinInv, TypeOK, Phases, PhaseInv, FrameFreedOnce
<1> QED
  BY <1>1, JoinInvariant, PTL

(* The plain waiter fields are never read while they are written. *)
THEOREM WaiterFieldsAreRaceFree == Spec => []WaiterFieldsRaceFree
<1>1. JoinInv => WaiterFieldsRaceFree
  BY DEF JoinInv, TypeOK, Phases, PhaseInv, WaiterFieldsRaceFree
<1> QED
  BY <1>1, JoinInvariant, PTL

-----------------------------------------------------------------------------
(* The life cycle of a Runtime.                                            *)

Threads == {"none", "init", "published", "registered", "run", "gone"}

WorkerType ==
  [thread : Threads, ok : BOOLEAN, started : BOOLEAN, stopped : BOOLEAN, drained : BOOLEAN,
   loop : {"created", "running", "stopping", "stopped"}, stopToken : BOOLEAN,
   drainToken : BOOLEAN, posted : BOOLEAN, listening : BOOLEAN, draining : BOOLEAN,
   live : Nat, timer : BOOLEAN]

(* The places of the control thread at which the group has been published. *)
Published == {"recheck", "started", "joining"}

RuntimeTypeOK ==
  /\ state \in {"created", "starting", "running", "draining", "stopping", "stopped"}
  /\ stopRequested \in BOOLEAN /\ workers \in BOOLEAN /\ running \in BOOLEAN
  /\ control \in {"idle", "starting", "waiting", "rollback", "unwind", "caught", "rethrow"}
                   \union Published
  /\ next \in Nat \ {0}
  /\ wk \in [Workers -> WorkerType]

(* What the place of its thread says about a worker. *)
WorkerInv(k) ==
  /\ k.thread \in {"none", "init"} => ~k.started
  /\ k.thread # "gone" => ~k.stopped
  /\ k.thread = "gone" => (k.stopped <=> k.started)
  /\ k.drained => k.started
  /\ k.draining => k.thread \in {"run", "gone"}
  /\ k.thread = "run" /\ k.loop = "running" /\ k.draining => k.live # 0 /\ k.timer

(* What the place of the control thread says about the runtime. *)
GroupInv ==
  /\ state \in {"running", "draining", "stopping"} <=> workers
  /\ workers <=> control \in Published
  /\ control = "idle" => AllGone

(* WorkerGroup::Start() goes from the first worker to the last: the later ones have no
   thread yet. *)
StartInv ==
  \A w \in Workers :
    \/ control = "starting" /\ w >= next
    \/ control = "waiting" /\ w > next
    => wk[w].thread = "none"

(* The inductive invariant. *)
IInv == RuntimeTypeOK /\ GroupInv /\ StartInv /\ \A w \in Workers : WorkerInv(wk[w])

-----------------------------------------------------------------------------
(* Worker::Stop(), Worker::RequestDrain() and Loop::RequestStop() ask a worker to end;
   none of them moves its thread or breaks what holds of it. *)
LEMMA AskedWorker ==
  ASSUME NEW k \in WorkerType, WorkerInv(k)
  PROVE  /\ StopLoop(k) \in WorkerType /\ WorkerInv(StopLoop(k))
         /\ Stopped(k) \in WorkerType /\ WorkerInv(Stopped(k))
         /\ DrainAsked(k) \in WorkerType /\ WorkerInv(DrainAsked(k))
         /\ StopLoop(k).thread = k.thread
         /\ Stopped(k).thread = k.thread
         /\ DrainAsked(k).thread = k.thread
  <1>1. /\ StopLoop(k) \in WorkerType
        /\ StopLoop(k).thread = k.thread
        /\ WorkerInv(StopLoop(k))
    BY DEF StopLoop, WorkerType, WorkerInv, Threads
  <1>2. /\ Stopped(k) \in WorkerType
        /\ Stopped(k).thread = k.thread
        /\ WorkerInv(Stopped(k))
    BY Zenon DEF Stopped, StopLoop, WorkerType, WorkerInv, Threads
  <1>3. /\ DrainAsked(k) \in WorkerType
        /\ DrainAsked(k).thread = k.thread
        /\ WorkerInv(DrainAsked(k))
    BY Zenon DEF DrainAsked, WorkerType, WorkerInv, Threads
  <1>4. QED
    BY <1>1, <1>2, <1>3

(* The same of all workers at once: nobody's thread moves. *)
AllAsked ==
  /\ wk' \in [Workers -> WorkerType]
  /\ \A w \in Workers : WorkerInv(wk'[w]) /\ wk'[w].thread = wk[w].thread

(* WorkerGroup::RequestStop() and RequestDrain() keep the workers in order. *)
LEMMA AllAskedKeeps ==
  ASSUME IInv,
         \/ wk' = AllStopped
         \/ wk' = [w \in Workers |-> DrainAsked(wk[w])]
         \/ UNCHANGED wk
  PROVE  AllAsked
  <1>1. \A w \in Workers : wk[w] \in WorkerType /\ WorkerInv(wk[w])
    BY DEF IInv, RuntimeTypeOK
  <1>2. CASE wk' = AllStopped
    BY <1>1, <1>2, AskedWorker DEF AllStopped, AllAsked
  <1>3. CASE wk' = [w \in Workers |-> DrainAsked(wk[w])]
    BY <1>1, <1>3, AskedWorker DEF AllAsked
  <1>4. CASE UNCHANGED wk
    BY <1>1, <1>4 DEF AllAsked, IInv, RuntimeTypeOK
  <1>5. QED
    BY <1>2, <1>3, <1>4

(* The locked part of RequestStop(), and BeginStopLocked(), change the state only from one
   with a group to another one. *)
LEMMA RequestStopLockedKeeps ==
  ASSUME IInv,
         \/ RequestStopLocked
         \/ BeginStopLocked /\ state = "running"
  PROVE  /\ AllAsked
         /\ state' \in {"created", "starting", "running", "draining", "stopping", "stopped"}
         /\ state' \in {"running", "draining", "stopping"}
              <=> state \in {"running", "draining", "stopping"}
  <1>1. AllAsked
    BY AllAskedKeeps DEF RequestStopLocked, BeginStopLocked
  <1>2. QED
    BY <1>1 DEF RequestStopLocked, BeginStopLocked, IInv, RuntimeTypeOK

(* A step of one worker thread keeps the invariant if it keeps its own part of it. *)
LEMMA OneWorkerKeeps ==
  ASSUME IInv, NEW w \in Workers, NEW k, Worker(w, k),
         k \in WorkerType, WorkerInv(k),
         wk[w].thread \notin {"none", "gone"}
  PROVE  IInv'
  <1>1. /\ wk' = [wk EXCEPT ![w] = k]
        /\ UNCHANGED <<state, stopRequested, workers, control, running, next, request>>
    BY DEF Worker, runtime
  <1>2. RuntimeTypeOK'
    BY <1>1 DEF IInv, RuntimeTypeOK
  <1>3. control # "idle"
    BY DEF IInv, GroupInv, AllGone
  <1>4. GroupInv'
    BY <1>1, <1>3 DEF IInv, GroupInv
  <1>5. StartInv'
    BY <1>1 DEF IInv, RuntimeTypeOK, StartInv
  <1>6. \A v \in Workers : WorkerInv(wk[v])'
    BY <1>1 DEF IInv, RuntimeTypeOK, WorkerInv
  <1>7. QED
    BY <1>2, <1>4, <1>5, <1>6 DEF IInv

-----------------------------------------------------------------------------
(* The control thread keeps the invariant: the group is published when the runtime is said
   to run, and given up when no thread of it is left. *)
LEMMA ControlKeeps ==
  ASSUME IInv, ControlStep \/ Start \/ Stop
  PROVE  IInv'
  <1> USE NAssumption
  <1>1. CASE Start
    <2>1. NewWorker \in WorkerType /\ WorkerInv(NewWorker)
      BY DEF NewWorker, WorkerType, WorkerInv, Threads
    <2>2. RuntimeTypeOK'
      <3>1. wk' \in [Workers -> WorkerType]
        BY <1>1, <2>1 DEF Start
      <3>2. /\ state' \in {"created", "starting", "running", "draining", "stopping", "stopped"}
            /\ stopRequested' \in BOOLEAN /\ workers' \in BOOLEAN /\ running' \in BOOLEAN
        BY <1>1, Zenon DEF Start, IInv, RuntimeTypeOK
      <3>3. control' = "starting" /\ next' \in Nat \ {0}
        BY <1>1 DEF Start
      <3>4. QED
        BY <3>1, <3>2, <3>3 DEF RuntimeTypeOK
    <2>3. GroupInv'
      BY <1>1 DEF Start, IInv, GroupInv, StartInv, Published
    <2>4. \A w \in Workers : WorkerInv(wk[w])'
      BY <1>1, <2>1 DEF Start, WorkerInv
    <2>5. StartInv'
      BY <1>1 DEF Start, StartInv, NewWorker
    <2>6. QED
      BY <2>2, <2>3, <2>4, <2>5 DEF IInv
  <1>2. CASE StartWorker
    <2>1. next \in Workers
      BY <1>2 DEF StartWorker, IInv, RuntimeTypeOK, Workers
    <2>2. /\ UNCHANGED <<state, stopRequested, workers, running, next>>
          /\ control = "starting" /\ control' \in {"waiting", "caught"}
          /\ wk' = wk \/ wk' = [wk EXCEPT ![next].thread = "init"]
      BY <1>2 DEF StartWorker, Goto, runtime
    <2>3. RuntimeTypeOK'
      BY <2>1, <2>2 DEF IInv, RuntimeTypeOK, WorkerType, Threads
    <2>4. GroupInv'
      BY <2>2 DEF IInv, GroupInv, StartInv, Published
    <2>5. StartInv'
      BY <2>1, <2>2 DEF IInv, RuntimeTypeOK, StartInv, Workers
    <2>6. \A w \in Workers : WorkerInv(wk[w])'
      <3>1. wk[next].thread = "none"
        BY <2>1, <2>2 DEF IInv, RuntimeTypeOK, StartInv, Workers
      <3>2. QED
        BY <2>1, <2>2, <3>1 DEF IInv, RuntimeTypeOK, WorkerType, WorkerInv
    <2>7. QED
      BY <2>3, <2>4, <2>5, <2>6 DEF IInv
  <1>3. CASE WorkerStarted
    <2>1. /\ UNCHANGED <<state, stopRequested, workers, running, wk>>
          /\ control = "waiting" /\ control' \in {"starting", "rollback"}
          /\ next' = next \/ next' = next + 1
          /\ control' = "starting" => next' = next + 1
      BY <1>3 DEF WorkerStarted, runtime
    <2>2. StartInv'
      BY <2>1 DEF IInv, RuntimeTypeOK, StartInv, Workers
    <2>3. RuntimeTypeOK' /\ GroupInv'
      BY <2>1 DEF IInv, RuntimeTypeOK, GroupInv, StartInv, Published, AllGone
    <2>4. QED
      BY <2>1, <2>2, <2>3 DEF IInv
  <1>4. CASE Rollback
    <2>1. /\ UNCHANGED <<state, stopRequested, workers, running, next>>
          /\ control \in {"rollback", "caught"} /\ control' \in {"unwind", "rethrow"}
          /\ wk' = AllStopped
      BY <1>4 DEF Rollback, Goto, runtime
    <2>2. AllAsked
      BY <2>1, AllAskedKeeps
    <2>3. QED
      BY <2>1, <2>2 DEF AllAsked, IInv, RuntimeTypeOK, GroupInv, StartInv, Published
  <1>5. CASE StartFails
    BY <1>5, Zenon DEF StartFails, Goto, IInv, RuntimeTypeOK, GroupInv, StartInv, Published, AllGone
  <1>6. CASE StartThrows
    BY <1>6 DEF StartThrows, Goto, runtime, IInv, RuntimeTypeOK, GroupInv, StartInv, Published, AllGone
  <1>7. CASE StartSucceeds
    BY <1>7 DEF StartSucceeds, Goto, IInv, RuntimeTypeOK, GroupInv, StartInv, Published
  <1>8. CASE Recheck
    <2>1. /\ UNCHANGED <<stopRequested, workers, running, next>>
          /\ control = "recheck" /\ control' = "started"
          /\ RequestStopLocked \/ UNCHANGED <<state, wk>>
      BY <1>8 DEF Recheck, Goto, runtime
    <2>2. CASE RequestStopLocked
      BY <2>1, <2>2, RequestStopLockedKeeps
         DEF AllAsked, IInv, RuntimeTypeOK, GroupInv, StartInv, Published
    <2>3. CASE UNCHANGED <<state, wk>>
      BY <2>1, <2>3 DEF IInv, RuntimeTypeOK, GroupInv, StartInv, Published
    <2>4. QED
      BY <2>1, <2>2, <2>3
  <1>9. CASE Stop
    <2>1. /\ UNCHANGED <<workers, running, next>> /\ stopRequested' = TRUE
          /\ control = "started" /\ control' = "joining"
          /\ \/ BeginStopLocked /\ state = "running"
             \/ UNCHANGED <<state, wk>>
      BY <1>9 DEF Stop, Goto
    <2>2. CASE BeginStopLocked /\ state = "running"
      BY <2>1, <2>2, RequestStopLockedKeeps
         DEF AllAsked, IInv, RuntimeTypeOK, GroupInv, StartInv, Published
    <2>3. CASE UNCHANGED <<state, wk>>
      BY <2>1, <2>3 DEF IInv, RuntimeTypeOK, GroupInv, StartInv, Published
    <2>4. QED
      BY <2>1, <2>2, <2>3
  <1>10. CASE Joined
    BY <1>10, Zenon DEF Joined, Goto, IInv, RuntimeTypeOK, GroupInv, StartInv, Published, AllGone
  <1>11. QED
    BY <1>1, <1>2, <1>3, <1>4, <1>5, <1>6, <1>7, <1>8, <1>9, <1>10 DEF ControlStep

(* A thread that calls RequestStop() keeps it. *)
LEMMA RequesterKeeps ==
  ASSUME IInv, NEW r \in Requesters, CallRequestStop(r) \/ RequestStopLock(r)
  PROVE  IInv'
  <1>1. CASE CallRequestStop(r)
    BY <1>1 DEF CallRequestStop, IInv, RuntimeTypeOK, GroupInv, StartInv, AllGone
  <1>2. CASE RequestStopLock(r)
    <2>1. RequestStopLocked /\ UNCHANGED <<stopRequested, workers, control, running, next>>
      BY <1>2 DEF RequestStopLock
    <2>2. /\ AllAsked
          /\ RuntimeTypeOK'
          /\ state' \in {"running", "draining", "stopping"}
               <=> state \in {"running", "draining", "stopping"}
      BY <2>1, RequestStopLockedKeeps DEF IInv, RuntimeTypeOK, AllAsked
    <2>3. GroupInv'
      BY <2>1, <2>2 DEF IInv, GroupInv, AllAsked, AllGone
    <2>4. StartInv'
      BY <2>1, <2>2 DEF IInv, StartInv, AllAsked
    <2>5. QED
      BY <2>2, <2>3, <2>4 DEF IInv, AllAsked
  <1>3. QED
    BY <1>1, <1>2

(* So does every step of a worker thread. *)
LEMMA WorkerKeeps ==
  ASSUME IInv, NEW w \in Workers,
         WorkerStep(w) \/ Accept(w) \/ OnConnectionDone(w)
  PROVE  IInv'
  <1> DEFINE k == wk[w]
  <1>0. k \in WorkerType /\ WorkerInv(k)
    BY DEF IInv, RuntimeTypeOK
  <1>1. CASE SetupFails(w)
    <2> DEFINE k2 == [k EXCEPT !.thread = "gone", !.ok = FALSE]
    <2>1. Worker(w, k2) /\ k.thread = "init"
      BY <1>1 DEF SetupFails
    <2>2. k2 \in WorkerType /\ WorkerInv(k2)
      BY <1>0, <2>1, Zenon DEF WorkerType, WorkerInv, Threads
    <2>3. QED
      BY <2>1, <2>2, OneWorkerKeeps
  <1>2. CASE StartHook(w)
    <2> DEFINE good == [k EXCEPT !.thread = "published", !.started = TRUE, !.listening = TRUE]
               bad == [k EXCEPT !.thread = "published", !.ok = FALSE]
    <2>1. k.thread = "init" /\ (Worker(w, good) \/ Worker(w, StopLoop(bad)))
      BY <1>2 DEF StartHook
    <2>2. good \in WorkerType /\ WorkerInv(good) /\ bad \in WorkerType /\ WorkerInv(bad)
      BY <1>0, <2>1, Zenon DEF WorkerType, WorkerInv, Threads
    <2>3. QED
      BY <2>1, <2>2, AskedWorker, OneWorkerKeeps
  <1>3. CASE RegisterDrain(w)
    <2> DEFINE k2 == [k EXCEPT !.thread = "registered", !.posted = k.drainToken]
    <2>1. Worker(w, k2) /\ k.thread = "published"
      BY <1>3 DEF RegisterDrain
    <2>2. k2 \in WorkerType /\ WorkerInv(k2)
      BY <1>0, <2>1, Zenon DEF WorkerType, WorkerInv, Threads
    <2>3. QED
      BY <2>1, <2>2, OneWorkerKeeps
  <1>4. CASE RunLoop(w)
    <2> DEFINE k2 == [k EXCEPT !.thread = "run",
                               !.loop = IF @ = "created" THEN "running" ELSE @]
    <2>1. k.thread = "registered" /\ (Worker(w, k2) \/ Worker(w, StopLoop(k2)))
      BY <1>4 DEF RunLoop
    <2>2. k2 \in WorkerType /\ WorkerInv(k2)
      BY <1>0, <2>1, Zenon DEF WorkerType, WorkerInv, Threads
    <2>3. QED
      BY <2>1, <2>2, AskedWorker, OneWorkerKeeps
  <1>5. CASE BeginDrain(w)
    <2> DEFINE k2 == [k EXCEPT !.posted = FALSE, !.draining = TRUE, !.drained = k.started]
               timed == [k2 EXCEPT !.timer = TRUE]
    <2>1. /\ k.thread = "run" /\ k.loop = "running"
          /\ Worker(w, StopLoop(k2)) \/ (k.live # 0 /\ Worker(w, timed))
      BY <1>5, <1>0 DEF BeginDrain, Running, WorkerType
    <2>2. timed \in WorkerType /\ (k.live # 0 => WorkerInv(timed))
      BY <1>0, <2>1, Zenon DEF WorkerType, WorkerInv
    <2>3. StopLoop(k2) \in WorkerType /\ WorkerInv(StopLoop(k2))
      BY <1>0, <2>1, Zenon DEF StopLoop, WorkerType, WorkerInv
    <2>4. QED
      BY <2>1, <2>2, <2>3, OneWorkerKeeps
  <1>6. CASE CloseListener(w)
    <2> DEFINE k2 == [k EXCEPT !.listening = FALSE]
    <2>1. Worker(w, k2) /\ k.thread = "run"
      BY <1>6 DEF CloseListener, Running
    <2>2. k2 \in WorkerType /\ WorkerInv(k2)
      BY <1>0, <2>1, Zenon DEF WorkerType, WorkerInv, Threads
    <2>3. QED
      BY <2>1, <2>2, OneWorkerKeeps
  <1>7. CASE GraceElapses(w)
    <2> DEFINE k2 == StopLoop([k EXCEPT !.timer = FALSE])
    <2>1. Worker(w, k2) /\ k.thread = "run"
      BY <1>7 DEF GraceElapses, Running
    <2>2. k2 \in WorkerType /\ WorkerInv(k2)
      BY <1>0, <2>1, Zenon DEF StopLoop, WorkerType, WorkerInv, Threads
    <2>3. QED
      BY <2>1, <2>2, OneWorkerKeeps
  <1>8. CASE LoopEnds(w)
    <2> DEFINE k2 == [k EXCEPT !.loop = "stopped", !.thread = "gone", !.stopped = k.started]
    <2>1. Worker(w, k2) /\ k.thread = "run"
      BY <1>8 DEF LoopEnds
    <2>2. k2 \in WorkerType /\ WorkerInv(k2)
      BY <1>0, <2>1, Zenon DEF WorkerType, WorkerInv, Threads
    <2>3. QED
      BY <2>1, <2>2, OneWorkerKeeps
  <1>9. CASE Accept(w)
    <2> DEFINE k2 == [k EXCEPT !.live = k.live + 1]
    <2>1. Worker(w, k2) /\ k.thread = "run"
      BY <1>9 DEF Accept, Running
    <2>2. k.live + 1 \in Nat /\ k.live + 1 # 0
      BY <1>0 DEF WorkerType
    <2>3. k2 \in WorkerType /\ WorkerInv(k2)
      BY <1>0, <2>1, <2>2 DEF WorkerType, WorkerInv
    <2>4. QED
      BY <2>1, <2>3, OneWorkerKeeps
  <1>10. CASE OnConnectionDone(w)
    <2> DEFINE k2 == [k EXCEPT !.live = k.live - 1]
    <2>1. /\ k.thread = "run" /\ k.loop = "running" /\ k.live # 0
          /\ Worker(w, IF k2.draining /\ k2.live = 0 THEN StopLoop(k2) ELSE k2)
      BY <1>10 DEF OnConnectionDone, Running
    <2>2. k.live - 1 \in Nat
      BY <1>0, <2>1 DEF WorkerType
    <2>3. k2 \in WorkerType /\ StopLoop(k2) \in WorkerType /\ WorkerInv(StopLoop(k2))
      BY <1>0, <2>1, <2>2, Zenon DEF StopLoop, WorkerType, WorkerInv
    <2>4. ~(k2.draining /\ k2.live = 0) => WorkerInv(k2)
      BY <1>0, <2>1, <2>2 DEF WorkerType, WorkerInv
    <2>5. QED
      BY <2>1, <2>3, <2>4, OneWorkerKeeps
  <1>11. QED
    BY <1>1, <1>2, <1>3, <1>4, <1>5, <1>6, <1>7, <1>8, <1>9, <1>10 DEF WorkerStep

LEMMA RuntimeInvariant == RuntimeSpec => []IInv
  <1>1. RuntimeInit => IInv
    <2>1. NewWorker \in WorkerType /\ WorkerInv(NewWorker) /\ NewWorker.thread = "none"
      BY DEF NewWorker, WorkerType, WorkerInv, Threads
    <2> SUFFICES ASSUME RuntimeInit PROVE IInv
      OBVIOUS
    <2>2. wk \in [Workers -> WorkerType] /\ \A w \in Workers : wk[w] = NewWorker
      BY <2>1 DEF RuntimeInit
    <2>3. RuntimeTypeOK
      <3>1. state = "created" /\ control = "idle" /\ next \in Nat \ {0}
        BY DEF RuntimeInit
      <3>2. stopRequested \in BOOLEAN /\ workers \in BOOLEAN /\ running \in BOOLEAN
        BY Zenon DEF RuntimeInit
      <3>3. QED
        BY <2>2, <3>1, <3>2 DEF RuntimeTypeOK
    <2>4. GroupInv /\ StartInv
      BY <2>1, <2>2 DEF RuntimeInit, GroupInv, StartInv, Published, AllGone
    <2>5. QED
      BY <2>1, <2>2, <2>3, <2>4 DEF IInv
  <1>2. IInv /\ [RuntimeNext]_runtimeVars => IInv'
    <2> SUFFICES ASSUME IInv, [RuntimeNext]_runtimeVars PROVE IInv'
      OBVIOUS
    <2>1. CASE RuntimeNext
      BY <2>1, ControlKeeps, RequesterKeeps, WorkerKeeps DEF RuntimeNext
    <2>2. CASE UNCHANGED runtimeVars
      BY <2>2 DEF runtimeVars, runtime, IInv, RuntimeTypeOK, GroupInv, StartInv, AllGone
    <2>3. QED
      BY <2>1, <2>2
  <1>3. QED
    BY <1>1, <1>2, PTL DEF RuntimeSpec

(* RequestStop() of any thread may reach the workers whenever the state says that they are
   there, and when Start() has failed or the Stop() that joins has returned no worker thread is left:
   RuntimeControl publishes the group after the last worker started and gives it up after
   it has joined them all. *)
THEOREM GroupOutlives == RuntimeSpec => []GroupOutlivesStop
  <1>1. IInv => GroupOutlivesStop
    BY DEF IInv, GroupInv, GroupOutlivesStop
  <1>2. QED
    BY <1>1, RuntimeInvariant, PTL

(* Whatever fails in WorkLoop() and whenever the stop comes, a worker runs its stop hook
   exactly if its start hook succeeded, its drain hook in between, and never drains
   without a connection and a timer to wait for. *)
THEOREM WorkersEnd == RuntimeSpec => []WorkersEndInOrder
  <1>1. IInv => WorkersEndInOrder
    BY DEF IInv, WorkerInv, WorkersEndInOrder, HooksPair, DrainEnds, Running
  <1>2. QED
    BY <1>1, RuntimeInvariant, PTL

-----------------------------------------------------------------------------
(* The ring buffer of a Channel.                                           *)

(* An index that is past the end by at most a round wraps once. *)
LEMMA Wrap ==
  ASSUME NEW mask \in Nat, NEW start \in 0..mask, NEW k \in 0..(mask + 1)
  PROVE  (start + k) % (mask + 1) =
           IF start + k <= mask THEN start + k ELSE start + k - (mask + 1)
  OBVIOUS

(* Two places less than a round apart do not share a slot. *)
LEMMA WrapDistinct ==
  ASSUME NEW mask \in Nat, NEW start \in 0..mask, NEW i \in 0..mask, NEW j \in 0..mask, i < j
  PROVE  (IF start + i <= mask THEN start + i ELSE start + i - (mask + 1)) #
         (IF start + j <= mask THEN start + j ELSE start + j - (mask + 1))
<1>1. CASE start + j <= mask
  BY <1>1
<1>2. CASE start + j > mask
  BY <1>2
<1> QED
  BY <1>1, <1>2

(* The tail of a sequence, as a function. *)
LEMMA TailShifts ==
  ASSUME NEW S, NEW s \in Seq(S), Len(s) > 0
  PROVE  Tail(s) = [k \in 1..(Len(s) - 1) |-> s[k + 1]]
<1> DEFINE t == Tail(s)
<1>1. /\ t \in Seq(S) /\ Len(t) = Len(s) - 1
      /\ \A k \in 1..Len(t) : t[k] = s[k + 1]
  BY HeadTailProperties
<1> HIDE DEF t
<1>2. t = [k \in 1..Len(t) |-> t[k]]
  BY <1>1
<1>3. t = [k \in 1..(Len(s) - 1) |-> s[k + 1]]
  BY <1>1, <1>2
<1> QED
  BY <1>3 DEF t

(* What Masked() computes for the indices the ring uses. *)
LEMMA MaskedWraps ==
  ASSUME NEW ring, ring.mask \in Nat, NEW start \in 0..ring.mask,
         NEW k \in 0..(ring.mask + 1)
  PROVE  /\ Masked(ring, start + k) =
              IF start + k <= ring.mask THEN start + k ELSE start + k - (ring.mask + 1)
         /\ Masked(ring, start + k) \in 0..ring.mask
<1> DEFINE mask == ring.mask
<1>1. Masked(ring, start + k) = (start + k) % (mask + 1)
  BY DEF Masked
<1>2. mask \in Nat /\ start \in 0..mask /\ k \in 0..(mask + 1)
  OBVIOUS
<1> HIDE DEF mask
<1>3. (start + k) % (mask + 1) =
        IF start + k <= mask THEN start + k ELSE start + k - (mask + 1)
  BY <1>2, Wrap, Zenon
<1>4. (start + k) % (mask + 1) \in 0..mask
  BY <1>2, <1>3
<1> QED
  BY <1>1, <1>3, <1>4 DEF mask

(* A new ring is well formed and empty, whatever number of slots std::bit_ceil()
   rounded the capacity up to. *)
THEOREM NewRingOK ==
  ASSUME NEW capacity \in Nat, NEW slots \in Nat, slots >= capacity,
         capacity = 0 => slots = 0
  PROVE  /\ RingOK(NewRing(capacity, slots))
         /\ Contents(NewRing(capacity, slots)) = << >>
<1> DEFINE ring == NewRing(capacity, slots)
<1>1. /\ ring.slots = [k \in 0..(slots - 1) |-> Empty] /\ ring.capacity = capacity
      /\ ring.mask = (IF slots = 0 THEN 0 ELSE slots - 1)
      /\ ring.head = 0 /\ ring.tail = 0 /\ ring.size = 0
  BY DEF NewRing
<1> HIDE DEF ring
<1>2. Masked(ring, 0) = 0
  <2>1. ring.mask \in Nat /\ 0 \in 0..ring.mask /\ 0 \in 0..(ring.mask + 1)
    BY <1>1
  <2>2. Masked(ring, 0 + 0) = IF 0 + 0 <= ring.mask THEN 0 + 0 ELSE 0 + 0 - (ring.mask + 1)
    BY <2>1, MaskedWraps
  <2> QED
    BY <2>1, <2>2
<1>3. RingOK(ring)
  BY <1>1, <1>2 DEF RingOK
<1>4. Contents(ring) = << >>
  BY <1>1 DEF Contents
<1> QED
  BY <1>3, <1>4 DEF ring

(* PushBuffer() on a ring that is not full appends its value, and keeps the ring well
   formed: it overwrites no value that is still wanted. *)
THEOREM PushAppends ==
  ASSUME NEW ring, RingOK(ring), ~Full(ring), NEW value, value # Empty
  PROVE  /\ RingOK(PushBuffer(ring, value))
         /\ Contents(PushBuffer(ring, value)) = Append(Contents(ring), value)
<1> DEFINE new == PushBuffer(ring, value)
<1>1. /\ new.slots = [ring.slots EXCEPT ![ring.tail] = value]
      /\ new.capacity = ring.capacity /\ new.mask = ring.mask /\ new.head = ring.head
      /\ new.tail = Masked(ring, ring.tail + 1) /\ new.size = ring.size + 1
  BY DEF PushBuffer
<1> HIDE DEF new
<1>2. /\ ring.capacity \in Nat /\ ring.mask \in Nat /\ ring.size \in Nat
      /\ ring.size < ring.capacity /\ ring.capacity <= ring.mask + 1
      /\ ring.head \in 0..ring.mask /\ ring.tail \in 0..ring.mask
      /\ DOMAIN ring.slots = 0..ring.mask
  BY DEF RingOK, Full
<1>3. ring.tail = IF ring.head + ring.size <= ring.mask THEN ring.head + ring.size
                  ELSE ring.head + ring.size - (ring.mask + 1)
  <2>1. ring.size \in 0..(ring.mask + 1)
    BY <1>2
  <2>2. Masked(ring, ring.head + ring.size) =
          IF ring.head + ring.size <= ring.mask THEN ring.head + ring.size
          ELSE ring.head + ring.size - (ring.mask + 1)
    BY <1>2, <2>1, MaskedWraps, Zenon
  <2> QED
    BY <2>2 DEF RingOK
<1>4. new.tail \in 0..new.mask /\ new.tail = Masked(new, new.head + new.size)
  <2>1. 1 \in 0..(ring.mask + 1) /\ ring.size + 1 \in 0..(ring.mask + 1)
    BY <1>2
  <2>2. /\ Masked(ring, ring.tail + 1) =
             IF ring.tail + 1 <= ring.mask THEN ring.tail + 1
             ELSE ring.tail + 1 - (ring.mask + 1)
        /\ Masked(ring, ring.tail + 1) \in 0..ring.mask
    BY <1>2, <2>1, MaskedWraps, Zenon
  <2>3. Masked(ring, ring.head + (ring.size + 1)) =
          IF ring.head + (ring.size + 1) <= ring.mask THEN ring.head + (ring.size + 1)
          ELSE ring.head + (ring.size + 1) - (ring.mask + 1)
    BY <1>2, <2>1, MaskedWraps, Zenon
  <2>4. Masked(ring, ring.tail + 1) = Masked(ring, ring.head + (ring.size + 1))
    <3>1. CASE ring.head + ring.size <= ring.mask
      BY <1>2, <1>3, <2>2, <2>3, <3>1
    <3>2. CASE ring.head + ring.size > ring.mask
      <4>1. ring.tail + 1 <= ring.mask
        BY <1>2, <1>3, <3>2
      <4> QED
        BY <1>2, <1>3, <2>2, <2>3, <3>2, <4>1
    <3> QED
      BY <1>2, <3>1, <3>2
  <2>5. Masked(new, new.head + new.size) = Masked(ring, ring.head + (ring.size + 1))
    BY <1>1 DEF Masked
  <2> QED
    BY <1>1, <2>2, <2>4, <2>5
<1>5. ASSUME NEW k \in 1..ring.size
      PROVE  /\ Masked(new, new.head + k - 1) = Masked(ring, ring.head + k - 1)
             /\ Masked(ring, ring.head + k - 1) \in 0..ring.mask
             /\ Masked(ring, ring.head + k - 1) # ring.tail
  <2>1. k - 1 \in 0..(ring.mask + 1) /\ ring.head + (k - 1) = ring.head + k - 1
    BY <1>2
  <2>2. /\ Masked(ring, ring.head + (k - 1)) =
             IF ring.head + (k - 1) <= ring.mask THEN ring.head + (k - 1)
             ELSE ring.head + (k - 1) - (ring.mask + 1)
        /\ Masked(ring, ring.head + (k - 1)) \in 0..ring.mask
    BY <1>2, <2>1, MaskedWraps, Zenon
  <2>3. Masked(ring, ring.head + (k - 1)) # ring.tail
    <3>1. k - 1 \in 0..ring.mask /\ ring.size \in 0..ring.mask /\ k - 1 < ring.size
      BY <1>2
    <3>2. (IF ring.head + (k - 1) <= ring.mask THEN ring.head + (k - 1)
           ELSE ring.head + (k - 1) - (ring.mask + 1)) #
          (IF ring.head + ring.size <= ring.mask THEN ring.head + ring.size
           ELSE ring.head + ring.size - (ring.mask + 1))
      BY <1>2, <3>1, WrapDistinct
    <3> QED
      BY <1>3, <2>2, <3>2
  <2>4. Masked(new, new.head + k - 1) = Masked(ring, ring.head + k - 1)
    BY <1>1 DEF Masked
  <2> QED
    BY <2>1, <2>2, <2>3, <2>4
<1>6. Masked(new, new.head + new.size - 1) = ring.tail
  <2>1. new.head + new.size - 1 = ring.head + ring.size
    BY <1>1, <1>2
  <2> QED
    BY <1>1, <2>1 DEF Masked, RingOK
<1>7. ASSUME NEW k \in 1..new.size
      PROVE  new.slots[Masked(new, new.head + k - 1)] =
               IF k = new.size THEN value
               ELSE ring.slots[Masked(ring, ring.head + k - 1)]
  <2>1. CASE k = new.size
    BY <1>1, <1>2, <1>6, <2>1
  <2>2. CASE k # new.size
    <3>1. k \in 1..ring.size
      BY <1>1, <1>2, <2>2
    <3> QED
      BY <1>1, <1>2, <1>5, <2>2, <3>1
  <2> QED
    BY <2>1, <2>2
<1>8. RingOK(new)
  <2>1. ASSUME NEW k \in 1..new.size
        PROVE  new.slots[Masked(new, new.head + k - 1)] # Empty
    <3>1. k # new.size => k \in 1..ring.size
      BY <1>1, <1>2
    <3> QED
      BY <1>7, <3>1 DEF RingOK
  <2> QED
    BY <1>1, <1>2, <1>4, <2>1 DEF RingOK
<1>9. Contents(new) = Append(Contents(ring), value)
  <2>1. /\ Contents(new) = [k \in 1..(ring.size + 1) |->
              IF k = ring.size + 1 THEN value
              ELSE ring.slots[Masked(ring, ring.head + k - 1)]]
    BY <1>1, <1>7 DEF Contents
  <2>2. /\ Contents(ring) = [k \in 1..ring.size |->
                               ring.slots[Masked(ring, ring.head + k - 1)]]
        /\ Len(Contents(ring)) = ring.size
    BY <1>2 DEF Contents
  <2> QED
    BY <1>2, <2>1, <2>2
<1> QED
  BY <1>8, <1>9 DEF new

(* PopBuffer() takes the oldest value, which is there, and leaves the others in order. *)
THEOREM PopTakesOldest ==
  ASSUME NEW ring, RingOK(ring), ring.size # 0
  PROVE  /\ Oldest(ring) # Empty
         /\ Oldest(ring) = Head(Contents(ring))
         /\ RingOK(PopBuffer(ring))
         /\ Contents(PopBuffer(ring)) = Tail(Contents(ring))
<1> DEFINE new == PopBuffer(ring)
<1>1. /\ new.slots = [ring.slots EXCEPT ![ring.head] = Empty]
      /\ new.capacity = ring.capacity /\ new.mask = ring.mask
      /\ new.head = Masked(ring, ring.head + 1) /\ new.tail = ring.tail
      /\ new.size = ring.size - 1
  BY DEF PopBuffer
<1> HIDE DEF new
<1>2. /\ ring.capacity \in Nat /\ ring.mask \in Nat
      /\ ring.size \in 1..ring.capacity /\ ring.capacity <= ring.mask + 1
      /\ ring.head \in 0..ring.mask /\ ring.tail \in 0..ring.mask
      /\ DOMAIN ring.slots = 0..ring.mask
  BY DEF RingOK
<1>3. Masked(ring, ring.head) = ring.head
  <2>1. 0 \in 0..(ring.mask + 1) /\ ring.head + 0 = ring.head
    BY <1>2
  <2>2. Masked(ring, ring.head + 0) =
          IF ring.head + 0 <= ring.mask THEN ring.head + 0
          ELSE ring.head + 0 - (ring.mask + 1)
    BY <1>2, <2>1, MaskedWraps
  <2> QED
    BY <1>2, <2>1, <2>2
<1>4. Oldest(ring) # Empty /\ Oldest(ring) = Head(Contents(ring))
  BY <1>2, <1>3 DEF Oldest, Contents, RingOK
<1>5. new.head = IF ring.head + 1 <= ring.mask THEN ring.head + 1 ELSE 0
  <2>1. 1 \in 0..(ring.mask + 1)
    BY <1>2
  <2>2. Masked(ring, ring.head + 1) =
          IF ring.head + 1 <= ring.mask THEN ring.head + 1
          ELSE ring.head + 1 - (ring.mask + 1)
    BY <1>2, <2>1, MaskedWraps, Zenon
  <2> QED
    BY <1>1, <1>2, <2>2
<1>6. ASSUME NEW k \in 1..(ring.mask + 1)
      PROVE  Masked(new, new.head + k - 1) = Masked(ring, ring.head + k)
  <2>1. /\ k \in 0..(ring.mask + 1) /\ k - 1 \in 0..(ring.mask + 1)
        /\ new.head \in 0..ring.mask /\ new.head + (k - 1) = new.head + k - 1
    BY <1>2, <1>5
  <2>2. Masked(ring, new.head + (k - 1)) =
          IF new.head + (k - 1) <= ring.mask THEN new.head + (k - 1)
          ELSE new.head + (k - 1) - (ring.mask + 1)
    BY <1>2, <2>1, MaskedWraps, Zenon
  <2>3. Masked(ring, ring.head + k) =
          IF ring.head + k <= ring.mask THEN ring.head + k
          ELSE ring.head + k - (ring.mask + 1)
    BY <1>2, <2>1, MaskedWraps, Zenon
  <2>4. Masked(ring, new.head + (k - 1)) = Masked(ring, ring.head + k)
    BY <1>2, <1>5, <2>2, <2>3
  <2>5. Masked(new, new.head + k - 1) = Masked(ring, new.head + k - 1)
    BY <1>1 DEF Masked
  <2> QED
    BY <2>1, <2>4, <2>5
<1>7. ASSUME NEW k \in 1..new.size
      PROVE  /\ Masked(ring, ring.head + k) \in 0..ring.mask
             /\ Masked(ring, ring.head + k) # ring.head
             /\ new.slots[Masked(new, new.head + k - 1)] =
                  ring.slots[Masked(ring, ring.head + (k + 1) - 1)]
  <2>1. /\ k \in 1..ring.mask /\ k \in 0..(ring.mask + 1) /\ k \in 1..(ring.mask + 1)
        /\ ring.head + (k + 1) - 1 = ring.head + k
    BY <1>1, <1>2
  <2>2. Masked(ring, ring.head + k) =
          IF ring.head + k <= ring.mask THEN ring.head + k
          ELSE ring.head + k - (ring.mask + 1)
    BY <1>2, <2>1, MaskedWraps, Zenon
  <2>3. /\ Masked(ring, ring.head + k) \in 0..ring.mask
        /\ Masked(ring, ring.head + k) # ring.head
    BY <1>2, <2>1, <2>2
  <2> QED
    BY <1>1, <1>2, <1>6, <2>1, <2>3
<1>8. RingOK(new)
  <2>1. new.tail = Masked(new, new.head + new.size)
    <3>1. CASE ring.size <= ring.mask
      <4>1. ring.size \in 1..(ring.mask + 1) /\ ring.size \in 0..ring.mask
        BY <1>2, <3>1
      <4>2. Masked(new, new.head + ring.size - 1) = Masked(ring, ring.head + ring.size)
        BY <1>6, <4>1
      <4>3. new.head + new.size = new.head + ring.size - 1
        BY <1>1, <1>2, <1>5
      <4> QED
        BY <1>1, <4>2, <4>3 DEF RingOK
    <3>2. CASE ring.size > ring.mask
      <4>1. ring.size = ring.mask + 1 /\ ring.size \in 1..(ring.mask + 1)
        BY <1>2, <3>2
      <4>2. Masked(new, new.head + ring.size - 1) = Masked(ring, ring.head + ring.size)
        BY <1>6, <4>1
      <4>3. new.head + new.size = new.head + ring.size - 1
        BY <1>1, <1>2, <1>5
      <4> QED
        BY <1>1, <4>2, <4>3 DEF RingOK
    <3> QED
      BY <1>2, <3>1, <3>2
  <2>2. ASSUME NEW k \in 1..new.size
        PROVE  new.slots[Masked(new, new.head + k - 1)] # Empty
    <3>1. k + 1 \in 1..ring.size
      BY <1>1, <1>2
    <3> QED
      BY <1>7, <3>1 DEF RingOK
  <2> QED
    BY <1>1, <1>2, <1>5, <2>1, <2>2 DEF RingOK
<1>9. Contents(new) = Tail(Contents(ring))
  <2>1. Contents(new) = [k \in 1..(ring.size - 1) |->
                           ring.slots[Masked(ring, ring.head + (k + 1) - 1)]]
    BY <1>1, <1>7 DEF Contents
  <2>2. /\ Contents(ring) = [k \in 1..ring.size |->
                               ring.slots[Masked(ring, ring.head + k - 1)]]
        /\ Len(Contents(ring)) = ring.size
    BY <1>2 DEF Contents
  <2> DEFINE Values == {Contents(ring)[k] : k \in 1..ring.size}
  <2>3. Contents(ring) \in Seq(Values)
    <3>1. /\ DOMAIN Contents(ring) = 1..ring.size
          /\ Contents(ring) = [k \in DOMAIN Contents(ring) |-> Contents(ring)[k]]
      BY <2>2
    <3>2. \A k \in 1..ring.size : Contents(ring)[k] \in Values
      OBVIOUS
    <3> HIDE DEF Values
    <3>3. Contents(ring) \in [1..ring.size -> Values]
      BY <3>1, <3>2
    <3> QED
      BY <1>2, <3>3
  <2> HIDE DEF Values
  <2>4. Tail(Contents(ring)) = [k \in 1..(ring.size - 1) |-> Contents(ring)[k + 1]]
    <3>1. Len(Contents(ring)) > 0
      BY <1>2, <2>2
    <3>2. Tail(Contents(ring)) =
            [k \in 1..(Len(Contents(ring)) - 1) |-> Contents(ring)[k + 1]]
      BY <2>3, <3>1, TailShifts
    <3> QED
      BY <2>2, <3>2, Zenon
  <2>5. ASSUME NEW k \in 1..(ring.size - 1)
        PROVE  Contents(ring)[k + 1] = ring.slots[Masked(ring, ring.head + (k + 1) - 1)]
    <3>1. k + 1 \in 1..ring.size
      BY <1>2
    <3> QED
      BY <2>2, <3>1
  <2> QED
    BY <2>1, <2>4, <2>5
<1> QED
  BY <1>4, <1>8, <1>9 DEF new

-----------------------------------------------------------------------------
(* The receive source.                                                     *)

(* The default resume threshold, like a chosen one, is below the capacity. *)
LEMMA ThresholdInRange == ResumeThreshold(ThresholdOption) \in 0..(EventCapacity - 1)
  BY OptionsValid DEF ResumeThreshold

(* The records the machine ranges over. *)
Machines == [state : SourceStates, queued : Nat, armed : Nat, leases : Nat]

(* What the states of a machine say of its counters: SourceInv of a record. *)
Sound(m) ==
  /\ m \in Machines
  /\ m.queued <= m.leases
  /\ m.queued <= EventCapacity
  /\ m.leases <= BufferCapacity
  /\ m.armed <= PendingDepth
  /\ m.state \in {"Pausing", "Stopping"} => m.armed > 0
  /\ m.state \in {"Paused", "Draining", "Idle", "Terminal"} => m.armed = 0
  /\ m.state = "Draining" => m.leases > 0
  /\ m.state \in {"Idle", "Terminal"} => m.leases = 0

(* The invariant is Sound of the current machine. *)
LEMMA SourceInvIsSound == SourceInv <=> Sound(machine)
  BY DEF SourceInv, SourceTypeOK, Bounded, NoStaleWait, Sound, Machines

(* ReconcileStopping() touches nothing but the state, and leaves no state   *)
(* that waits for something that is already over.                           *)
LEMMA ReconcileEstablishes ==
  ASSUME NEW m \in Machines,
         m.queued <= m.leases,
         m.queued <= EventCapacity,
         m.leases <= BufferCapacity,
         m.armed <= PendingDepth,
         m.state \in {"Paused", "Draining"} => m.armed = 0,
         m.state \notin {"Idle", "Terminal"}
  PROVE  /\ Sound(Reconcile(m))
         /\ Reconcile(m).queued = m.queued
         /\ Reconcile(m).armed = m.armed
         /\ Reconcile(m).leases = m.leases
         /\ m.state \in {"Active", "Pausing", "Paused"} =>
              Reconcile(m).state \in {"Active", "Pausing", "Paused"}
         /\ m.state \in {"Stopping", "Draining"} =>
              /\ Reconcile(m).state \in {"Stopping", "Draining", "Terminal"}
              /\ Reconcile(m).state = "Terminal" <=>
                   m.armed + m.queued + m.leases = 0
  BY DEF Reconcile, SourceStates, Machines, Sound

(* An active machine has nothing to reconcile. *)
LEMMA ReconcileActive ==
  ASSUME NEW m \in Machines, m.state = "Active"
  PROVE  Reconcile(m) = m
<1>1. Reconcile(m) = [m EXCEPT !.state = m.state]
  BY DEF Reconcile
<1> QED
  BY <1>1 DEF Machines

(* Every operation keeps a machine sound. *)
LEMMA StepSound ==
  ASSUME Sound(machine), SourceNext
  PROVE  Sound(machine')
<1> USE OptionsValid, ThresholdInRange DEF Machines, SourceStates, Sound
<1>1. CASE SourceStart
  BY <1>1 DEF SourceStart, Started
<1>2. CASE Arm
  BY <1>2 DEF Arm, TryArm, CanArm, CanQueueEvent
<1>3. CASE Pause
  BY <1>3, ReconcileEstablishes DEF Pause, RequestPause
<1>4. CASE Resume
  BY <1>4 DEF Resume, TryResume, CanResume
<1>5. CASE Acquire
  BY <1>5, ReconcileEstablishes DEF Acquire, AcquireEvent
<1>6. CASE Release
  BY <1>6, ReconcileEstablishes DEF Release, ReleaseLease
<1>7. CASE Discard
  <2>1. /\ machine.queued \in Nat /\ machine.leases \in Nat
        /\ machine.queued > 0 /\ machine.leases > 0
    BY <1>7 DEF Discard
  <2>2. [machine EXCEPT !.leases = @ - 1] \in Machines
    BY <2>1
  <2>3. PICK r \in Machines :
          /\ r = ReleaseLease(machine)
          /\ r.state = "Active" /\ r.armed = machine.armed
          /\ r.queued = machine.queued /\ r.leases = machine.leases - 1
    BY <1>7, <2>1, <2>2, ReconcileActive DEF Discard, ReleaseLease
  <2>4. [r EXCEPT !.queued = @ - 1] \in Machines
    BY <2>1, <2>3
  <2>5. machine' = [r EXCEPT !.queued = @ - 1]
    BY <1>7, <2>1, <2>3, <2>4, ReconcileActive DEF Discard, AcquireEvent
  <2> QED
    BY <2>1, <2>3, <2>4, <2>5
<1>8. CASE SourceStop
  BY <1>8, ReconcileEstablishes DEF SourceStop, RequestStop
<1>9. ASSUME NEW event \in EventDispositions, NEW disposition \in RequestDispositions,
             Complete(event, disposition)
      PROVE  Sound(machine')
  <2> DEFINE k ==
        [state  |-> machine.state,
         queued |-> IF event = "Produced" THEN machine.queued + 1 ELSE machine.queued,
         armed  |-> IF disposition = "Terminal" THEN machine.armed - 1 ELSE machine.armed,
         leases |-> IF event = "None" THEN machine.leases ELSE machine.leases + 1]
  <2>1. machine.armed > 0
    BY <1>9 DEF Complete, CanComplete
  <2>2. /\ machine' = Reconcile(k)
        /\ event = "Produced" => machine.queued < EventCapacity
        /\ event # "None" => machine.leases < BufferCapacity
    BY <1>9 DEF Complete, CompleteMultishotEvent, CanComplete, CanQueueEvent,
                CanDeliverEvent, EventDispositions
  <2>3. /\ k \in Machines
        /\ k.state = machine.state
        /\ k.queued <= k.leases
        /\ k.queued <= EventCapacity
        /\ k.leases <= BufferCapacity
        /\ k.armed <= PendingDepth
    BY <2>1, <2>2
  <2>4. machine.state \in {"Active", "Pausing", "Stopping"}
    BY <2>1
  <2> HIDE DEF k
  <2> QED
    BY <2>2, <2>3, <2>4, ReconcileEstablishes
<1> QED
  BY <1>1, <1>2, <1>3, <1>4, <1>5, <1>6, <1>7, <1>8, <1>9 DEF SourceNext

(* Bounds and waiting conditions hold in every reachable state, whatever    *)
(* the options and whatever the order of completions, takes, releases,      *)
(* pauses and stops.                                                        *)
THEOREM SourceInvariant == SourceSpec => []SourceInv
<1>1. SourceInit => SourceInv
  BY OptionsValid DEF SourceInit, NewMachine, SourceInv, SourceTypeOK, Bounded, NoStaleWait,
                      SourceStates
<1>2. SourceInv /\ [SourceNext]_machine => SourceInv'
  <2> SUFFICES ASSUME SourceInv, [SourceNext]_machine PROVE SourceInv'
    OBVIOUS
  <2>1. CASE SourceNext
    <3>1. Sound(machine')
      BY <2>1, SourceInvIsSound, StepSound
    <3> QED
      BY <3>1 DEF SourceInv, SourceTypeOK, Bounded, NoStaleWait, Sound, Machines
  <2>2. CASE UNCHANGED machine
    BY <2>2 DEF SourceInv, SourceTypeOK, Bounded, NoStaleWait
  <2> QED
    BY <2>1, <2>2
<1> QED
  BY <1>1, <1>2, PTL DEF SourceSpec

(* Every operation but a stop keeps an open source open, and ends a closing *)
(* one exactly when it ends the last of its work.                           *)
LEMMA WorkOrStop ==
  ASSUME Sound(machine), SourceNext
  PROVE  \/ SourceStop
         \/ /\ machine.state \in {"Idle", "Active", "Pausing", "Paused"}
            /\ machine'.state \in {"Active", "Pausing", "Paused"}
         \/ /\ machine.state \in {"Stopping", "Draining"}
            /\ machine'.state \in {"Stopping", "Draining", "Terminal"}
            /\ machine'.state = "Terminal" <=>
                 machine'.armed + machine'.queued + machine'.leases = 0
<1> USE DEF Machines, SourceStates, Sound
<1>1. CASE SourceStart
  BY <1>1 DEF SourceStart, Started
<1>2. CASE Arm
  BY <1>2 DEF Arm, TryArm, CanArm
<1>3. CASE Pause
  BY <1>3 DEF Pause, RequestPause, Reconcile
<1>4. CASE Resume
  BY <1>4 DEF Resume, TryResume, CanResume
<1>5. CASE Acquire
  BY <1>5 DEF Acquire, AcquireEvent, Reconcile
<1>6. CASE Release
  BY <1>6 DEF Release, ReleaseLease, Reconcile
<1>7. CASE Discard
  BY <1>7 DEF Discard, AcquireEvent, ReleaseLease, Reconcile
<1>8. ASSUME NEW event \in EventDispositions, NEW disposition \in RequestDispositions,
             Complete(event, disposition)
      PROVE  \/ /\ machine.state \in {"Active", "Pausing"}
                /\ machine'.state \in {"Active", "Pausing", "Paused"}
             \/ /\ machine.state = "Stopping"
                /\ machine'.state \in {"Stopping", "Draining", "Terminal"}
                /\ machine'.state = "Terminal" <=>
                     machine'.armed + machine'.queued + machine'.leases = 0
  BY <1>8 DEF Complete, CompleteMultishotEvent, CanComplete, Reconcile
<1> QED
  BY <1>1, <1>2, <1>3, <1>4, <1>5, <1>6, <1>7, <1>8 DEF SourceNext

(* Every step of the machine is a step of the drain barrier, or a stutter. *)
LEMMA StepRefinesBarrier ==
  ASSUME SourceInv, SourceInv', [SourceNext]_machine
  PROVE  [Barrier!Next]_<<Phase, Outstanding>>
<1> USE DEF Phase, Outstanding
<1>1. /\ Sound(machine)
      /\ Outstanding \in Nat /\ Outstanding' \in Nat
  BY SourceInvIsSound DEF SourceInv, SourceTypeOK
<1>2. CASE UNCHANGED machine
  BY <1>2
<1>3. CASE SourceNext /\ SourceStop
  <2>1. /\ machine'.armed = machine.armed
        /\ machine'.queued = machine.queued
        /\ machine'.leases = machine.leases
        /\ machine.state \in {"Idle", "Active", "Pausing", "Paused"}
        /\ machine'.state \in {"Stopping", "Draining", "Terminal"}
        /\ machine'.state = "Terminal" <=> Outstanding = 0
    BY <1>1, <1>3 DEF Sound, Machines, SourceStates, SourceStop, RequestStop, Reconcile
  <2> QED
    BY <2>1 DEF Barrier!Next, Barrier!Stop
<1>4. CASE SourceNext /\ ~SourceStop
  <2>1. \/ Phase = "open" /\ Phase' = "open"
        \/ Phase = "closing" /\ Phase' = IF Outstanding' = 0 THEN "over" ELSE "closing"
    BY <1>1, <1>4, WorkOrStop
  <2> QED
    BY <1>1, <2>1 DEF Barrier!Next, Barrier!Work
<1> QED
  BY <1>2, <1>3, <1>4

(* The machine implements the drain barrier, for all valid options: it      *)
(* becomes Terminal exactly when a stop was requested and the last request, *)
(* event or lease is gone, and never leaves Terminal again.                 *)
THEOREM MachineImplementsBarrier == SourceSpec => ImplementsBarrier
<1>1. SourceInit => Barrier!Init
  BY DEF SourceInit, NewMachine, Barrier!Init, Phase, Outstanding
<1>2. SourceInv /\ SourceInv' /\ [SourceNext]_machine => [Barrier!Next]_(Barrier!barrierVars)
  BY StepRefinesBarrier DEF Barrier!barrierVars
<1> QED
  BY <1>1, <1>2, SourceInvariant, PTL DEF SourceSpec, ImplementsBarrier, Barrier!Spec

-----------------------------------------------------------------------------
(* The accept source.                                                      *)

(* The resume threshold, chosen or default, is below the capacity. *)
LEMMA AcceptThresholdInRange ==
  AcceptState!ResumeThreshold(AcceptThreshold) \in 0..(AcceptCapacity - 1)
  BY AcceptOptionsValid DEF AcceptState!ResumeThreshold

(* The records the machine ranges over. *)
AcceptMachines == [state : AcceptState!SourceStates, queued : Nat, armed : Nat]

(* AcceptInv of a record. *)
AcceptSound(m) ==
  /\ m \in AcceptMachines
  /\ m.queued <= AcceptCapacity
  /\ m.armed <= AcceptDepth
  /\ ~multishot => m.queued + m.armed <= AcceptCapacity
  /\ m.state \in {"Pausing", "Stopping"} => m.armed > 0
  /\ m.state \in {"Paused", "Draining", "Idle", "Terminal"} => m.armed = 0
  /\ m.state = "Draining" => m.queued > 0
  /\ m.state \in {"Idle", "Terminal"} => m.queued = 0

(* The invariant is Sound of the current machine. *)
LEMMA AcceptInvIsSound == AcceptState!AcceptInv <=> AcceptSound(accepting)
  BY DEF AcceptState!AcceptInv, AcceptState!TypeOK, AcceptState!Bounded, AcceptState!NoStaleWait,
         AcceptState!RoomReserved, AcceptSound, AcceptMachines

(* ReconcileStopping() touches nothing but the state, and leaves no state   *)
(* that waits for something that is already over.                           *)
LEMMA AcceptReconcileEstablishes ==
  ASSUME NEW m \in AcceptMachines,
         m.queued <= AcceptCapacity,
         m.armed <= AcceptDepth,
         ~multishot => m.queued + m.armed <= AcceptCapacity,
         m.state \in {"Paused", "Draining"} => m.armed = 0,
         m.state \notin {"Idle", "Terminal"}
  PROVE  /\ AcceptSound(AcceptState!Reconcile(m))
         /\ AcceptState!Reconcile(m).queued = m.queued
         /\ AcceptState!Reconcile(m).armed = m.armed
         /\ m.state \in {"Active", "Pausing", "Paused"} =>
              AcceptState!Reconcile(m).state \in {"Active", "Pausing", "Paused"}
         /\ m.state \in {"Stopping", "Draining"} =>
              /\ AcceptState!Reconcile(m).state \in {"Stopping", "Draining", "Terminal"}
              /\ AcceptState!Reconcile(m).state = "Terminal" <=> m.armed + m.queued = 0
  BY DEF AcceptState!Reconcile, AcceptState!SourceStates, AcceptMachines, AcceptSound

(* What a completion gives Reconcile(): a one-shot request hands its        *)
(* reserved queue slot to the event it produced.                            *)
LEMMA CompletionReserves ==
  ASSUME AcceptSound(accepting), NEW produced \in BOOLEAN, NEW more \in BOOLEAN,
         AcceptState!Complete(produced, more)
  PROVE  \E m \in AcceptMachines :
           /\ accepting' = AcceptState!Reconcile(m)
           /\ m.state = accepting.state
           /\ accepting.state \in {"Active", "Pausing", "Stopping"}
           /\ m.queued <= AcceptCapacity
           /\ m.armed <= AcceptDepth
           /\ ~multishot => m.queued + m.armed <= AcceptCapacity
<1> DEFINE m == [state  |-> accepting.state,
                 queued |-> IF produced THEN accepting.queued + 1 ELSE accepting.queued,
                 armed  |-> IF more THEN accepting.armed ELSE accepting.armed - 1]
<1>1. accepting' = AcceptState!Reconcile(m)
  BY DEF AcceptState!Complete, AcceptState!Completed
<1>2. /\ accepting.armed > 0
      /\ produced => accepting.queued < AcceptCapacity
      /\ more => multishot
  BY DEF AcceptState!Complete, AcceptState!CanComplete, AcceptSound, AcceptMachines
<1>3. /\ m \in AcceptMachines /\ m.state = accepting.state
      /\ accepting.state \in {"Active", "Pausing", "Stopping"}
      /\ m.queued <= AcceptCapacity
      /\ m.armed <= AcceptDepth
      /\ ~multishot => m.queued + m.armed <= AcceptCapacity
  BY <1>2, AcceptOptionsValid DEF AcceptSound, AcceptMachines, AcceptState!SourceStates
<1> HIDE DEF m
<1> QED
  BY <1>1, <1>3

(* Every operation keeps a machine sound. *)
LEMMA AcceptStepSound ==
  ASSUME AcceptSound(accepting), AcceptState!Next
  PROVE  AcceptSound(accepting')
<1> USE AcceptOptionsValid, AcceptThresholdInRange
      DEF AcceptMachines, AcceptState!SourceStates, AcceptSound
<1>1. CASE AcceptState!Start
  BY <1>1 DEF AcceptState!Start, AcceptState!Started
<1>2. CASE AcceptState!Arm
  BY <1>2 DEF AcceptState!Arm, AcceptState!TryArm, AcceptState!CanArm
<1>3. CASE AcceptState!Pause
  BY <1>3, AcceptReconcileEstablishes DEF AcceptState!Pause, AcceptState!RequestPause
<1>4. CASE AcceptState!Resume
  BY <1>4 DEF AcceptState!Resume, AcceptState!TryResume, AcceptState!CanResume
<1>5. CASE AcceptState!Consume
  BY <1>5, AcceptReconcileEstablishes DEF AcceptState!Consume, AcceptState!ConsumeEvent
<1>6. CASE AcceptState!Stop
  BY <1>6, AcceptReconcileEstablishes DEF AcceptState!Stop, AcceptState!RequestStop
<1>7. ASSUME NEW produced \in BOOLEAN, NEW more \in BOOLEAN, AcceptState!Complete(produced, more)
      PROVE  AcceptSound(accepting')
  <2>1. PICK m \in AcceptMachines :
          /\ accepting' = AcceptState!Reconcile(m)
          /\ m.state = accepting.state
          /\ accepting.state \in {"Active", "Pausing", "Stopping"}
          /\ m.queued <= AcceptCapacity
          /\ m.armed <= AcceptDepth
          /\ ~multishot => m.queued + m.armed <= AcceptCapacity
    BY <1>7, CompletionReserves
  <2> QED
    BY <2>1, AcceptReconcileEstablishes
<1> QED
  BY <1>1, <1>2, <1>3, <1>4, <1>5, <1>6, <1>7 DEF AcceptState!Next

(* The accept machine keeps its invariant, whichever source moves. *)
LEMMA AcceptInvariant == StatesInit /\ [][StatesNext]_svars => []AcceptState!AcceptInv
<1>1. StatesInit => AcceptState!AcceptInv
  BY AcceptOptionsValid
     DEF StatesInit, AcceptState!Init, AcceptState!NewMachine, AcceptState!AcceptInv,
         AcceptState!TypeOK,
         AcceptState!Bounded, AcceptState!NoStaleWait, AcceptState!RoomReserved,
         AcceptState!SourceStates
<1>2. AcceptState!AcceptInv /\ [StatesNext]_svars => AcceptState!AcceptInv'
  <2> SUFFICES ASSUME AcceptState!AcceptInv, [StatesNext]_svars PROVE AcceptState!AcceptInv'
    OBVIOUS
  <2>1. CASE AcceptState!Next
    <3>1. AcceptSound(accepting') /\ multishot' = multishot
      BY <2>1, AcceptInvIsSound, AcceptStepSound DEF AcceptState!Next
    <3> QED
      BY <3>1 DEF AcceptState!AcceptInv, AcceptState!TypeOK, AcceptState!Bounded,
                  AcceptState!NoStaleWait, AcceptState!RoomReserved, AcceptSound, AcceptMachines
  <2>2. CASE UNCHANGED <<accepting, multishot>>
    BY <2>2 DEF AcceptState!AcceptInv, AcceptState!TypeOK, AcceptState!Bounded,
                AcceptState!NoStaleWait, AcceptState!RoomReserved
  <2> QED
    BY <2>1, <2>2 DEF StatesNext, svars
<1> QED
  BY <1>1, <1>2, PTL

(* Bounds, waiting conditions and the room of one-shot requests hold in     *)
(* every reachable state, whatever the options and the order of calls; and  *)
(* the comment of AcceptSourceOptions holds: a source that TryResume()      *)
(* makes active has room to arm at once.                                    *)
THEOREM AcceptKeepsRoom == StatesSpec => AcceptHasRoom
<1>1. AcceptState!AcceptInv /\ [StatesNext]_svars =>
        [AcceptState!Resume => AcceptState!CanArm(accepting)']_accepting
  BY AcceptOptionsValid, AcceptThresholdInRange
     DEF AcceptState!AcceptInv, AcceptState!TypeOK, AcceptState!NoStaleWait, AcceptState!Resume,
         AcceptState!TryResume, AcceptState!CanResume, AcceptState!CanArm
<1> QED
  BY <1>1, AcceptInvariant, PTL DEF StatesSpec, AcceptHasRoom, AcceptState!ResumeHasRoom

(* Every operation but a stop keeps an open source open, and ends a closing *)
(* one exactly when it ends the last of its work.                           *)
LEMMA AcceptWorkOrStop ==
  ASSUME AcceptSound(accepting), AcceptState!Next
  PROVE  \/ AcceptState!Stop
         \/ /\ accepting.state \in {"Idle", "Active", "Pausing", "Paused"}
            /\ accepting'.state \in {"Active", "Pausing", "Paused"}
         \/ /\ accepting.state \in {"Stopping", "Draining"}
            /\ accepting'.state \in {"Stopping", "Draining", "Terminal"}
            /\ accepting'.state = "Terminal" <=> accepting'.armed + accepting'.queued = 0
<1> USE DEF AcceptMachines, AcceptState!SourceStates, AcceptSound
<1>1. CASE AcceptState!Start
  BY <1>1 DEF AcceptState!Start, AcceptState!Started
<1>2. CASE AcceptState!Arm
  BY <1>2 DEF AcceptState!Arm, AcceptState!TryArm, AcceptState!CanArm
<1>3. CASE AcceptState!Pause
  BY <1>3 DEF AcceptState!Pause, AcceptState!RequestPause, AcceptState!Reconcile
<1>4. CASE AcceptState!Resume
  BY <1>4 DEF AcceptState!Resume, AcceptState!TryResume, AcceptState!CanResume
<1>5. CASE AcceptState!Consume
  BY <1>5 DEF AcceptState!Consume, AcceptState!ConsumeEvent, AcceptState!Reconcile
<1>6. ASSUME NEW produced \in BOOLEAN, NEW more \in BOOLEAN, AcceptState!Complete(produced, more)
      PROVE  \/ /\ accepting.state \in {"Active", "Pausing"}
                /\ accepting'.state \in {"Active", "Pausing", "Paused"}
             \/ /\ accepting.state = "Stopping"
                /\ accepting'.state \in {"Stopping", "Draining", "Terminal"}
                /\ accepting'.state = "Terminal" <=> accepting'.armed + accepting'.queued = 0
  <2>1. PICK m \in AcceptMachines :
          /\ accepting' = AcceptState!Reconcile(m)
          /\ m.state = accepting.state
          /\ accepting.state \in {"Active", "Pausing", "Stopping"}
    BY <1>6, CompletionReserves
  <2> QED
    BY <2>1 DEF AcceptState!Reconcile
<1> QED
  BY <1>1, <1>2, <1>3, <1>4, <1>5, <1>6 DEF AcceptState!Next

(* Every step of the machine is a step of the drain barrier, or a stutter. *)
LEMMA AcceptStepRefinesBarrier ==
  ASSUME AcceptState!AcceptInv, AcceptState!AcceptInv', [AcceptState!Next]_accepting
  PROVE  [AcceptState!Barrier!Next]_<<AcceptState!Phase, AcceptState!Outstanding>>
<1> USE DEF AcceptState!Phase, AcceptState!Outstanding
<1>1. /\ AcceptSound(accepting)
      /\ AcceptState!Outstanding \in Nat /\ AcceptState!Outstanding' \in Nat
  BY AcceptInvIsSound DEF AcceptState!AcceptInv, AcceptState!TypeOK
<1>2. CASE UNCHANGED accepting
  BY <1>2
<1>3. CASE AcceptState!Next /\ AcceptState!Stop
  <2>1. /\ accepting'.armed = accepting.armed
        /\ accepting'.queued = accepting.queued
        /\ accepting.state \in {"Idle", "Active", "Pausing", "Paused"}
        /\ accepting'.state \in {"Stopping", "Draining", "Terminal"}
        /\ accepting'.state = "Terminal" <=> AcceptState!Outstanding = 0
    BY <1>1, <1>3 DEF AcceptSound, AcceptMachines, AcceptState!SourceStates,
                         AcceptState!Stop, AcceptState!RequestStop, AcceptState!Reconcile
  <2> QED
    BY <2>1 DEF AcceptState!Barrier!Next, AcceptState!Barrier!Stop
<1>4. CASE AcceptState!Next /\ ~AcceptState!Stop
  <2>1. \/ AcceptState!Phase = "open" /\ AcceptState!Phase' = "open"
        \/ AcceptState!Phase = "closing" /\
             AcceptState!Phase' = IF AcceptState!Outstanding' = 0 THEN "over" ELSE "closing"
    BY <1>1, <1>4, AcceptWorkOrStop
  <2> QED
    BY <1>1, <2>1 DEF AcceptState!Barrier!Next, AcceptState!Barrier!Work
<1> QED
  BY <1>2, <1>3, <1>4

(* The machine implements the drain barrier, for all valid options: it      *)
(* becomes Terminal exactly when a stop was requested and the last request  *)
(* and the last event are gone, and never leaves Terminal again.            *)
THEOREM AcceptMachineImplementsBarrier == StatesSpec => AcceptImplementsBarrier
<1>1. StatesInit => AcceptState!Barrier!Init
  BY DEF StatesInit, AcceptState!Init, AcceptState!NewMachine, AcceptState!Barrier!Init,
         AcceptState!Phase, AcceptState!Outstanding
<1>2. AcceptState!AcceptInv /\ AcceptState!AcceptInv' /\ [StatesNext]_svars
        => [AcceptState!Barrier!Next]_(AcceptState!Barrier!barrierVars)
  BY AcceptStepRefinesBarrier DEF AcceptState!Barrier!barrierVars, StatesNext, svars
<1> QED
  BY <1>1, <1>2, AcceptInvariant, PTL
     DEF StatesSpec, AcceptImplementsBarrier, AcceptState!AcceptImplementsBarrier,
         AcceptState!Barrier!Spec
================================================================================
