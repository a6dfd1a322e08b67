----------------------------- MODULE ProvidedBuffers -----------------------------
(***************************************************************************)
(* The provided buffers of an io_uring loop: ProvidedBufferStorage and     *)
(* ProvidedBufferPool (include/alyrn/uring/detail), the loop's lookup that *)
(* makes the pool and publishes more of it (src/uring/loop.cc), and the    *)
(* two users whose completions carry a buffer: RecvSource and the copying  *)
(* Recv() of a Stream.  Everything but the kernel's pick runs on the loop. *)
(***************************************************************************)
EXTENDS Integers, SequencesExt

CONSTANTS
  Capacities,   \* values of shared_buffer_capacity_
  BufferSizes,  \* values of shared_buffer_size_, and sizes a source asks for
  Asks,         \* values of source_capacity
  SizeMax       \* the largest std::size_t (and the limit on buffer_size)

VARIABLES
  config,   \* [capacity, size] of the loop's options
  pool,     \* the shared pool, or NoPool
  ring,     \* the ids in the buffer ring, in order
  picked    \* completions that carry a buffer and are not handled

vars == <<config, pool, ring, picked>>

NoPool == [capacity |-> 0, published |-> 0, size |-> 0, bytes |-> 0, inUse |-> {}]

Init ==
  /\ config \in [capacity : Capacities, size : BufferSizes]
  /\ pool = NoPool /\ ring = <<>> /\ picked = {}

PowerOfTwo(n) == \E k \in 0..15 : n = 2^k

(* ProvidedBufferStorage::Create(): the product must not wrap.  Where       *)
(* std::size_t has 64 bits, the limits that CanCreate() puts on both        *)
(* factors keep it from that already.                                       *)
StorageFits(capacity, size) == capacity # 0 /\ size # 0 /\ capacity <= SizeMax \div size

(* ProvidedBufferPool::Create() with its checks. *)
CanCreate(n) ==
  /\ PowerOfTwo(config.capacity) /\ config.size \in 1..SizeMax /\ n \in 1..config.capacity
  /\ StorageFits(config.capacity, config.size)

(* The offset of a slot, in the arithmetic of std::size_t. *)
Slot(p, id) == (id * p.size) % (SizeMax + 1)

(* Publishes what is asked for, however much is left. *)
BugEnsurePublished(p, additional) == p.published + additional

(* EnsurePublished(): as many of the slots that are left as are asked for. *)
EnsurePublished(p, additional) ==
  p.published + (IF additional < p.capacity - p.published THEN additional
                 ELSE p.capacity - p.published)

(* The slots a..(b - 1) are added behind the others. *)
Publish(a, b) == ring \o [i \in 1..(b - a) |-> a + i - 1]

(* Loop::GetSharedProvidedBufferPool(); setting up the ring may fail. *)
GetSharedProvidedBufferPool(size, n) ==
  /\ config.capacity # 0 /\ n \in 1..config.capacity /\ size = config.size
  /\ \/ /\ pool # NoPool
        /\ LET to == EnsurePublished(pool, n)
           IN  ring' = Publish(pool.published, to) /\ pool' = [pool EXCEPT !.published = to]
     \/ /\ pool = NoPool /\ CanCreate(n)
        /\ ring' = Publish(0, n)
        /\ pool' = [capacity |-> config.capacity, published |-> n, size |-> config.size,
                    bytes |-> (config.capacity * config.size) % (SizeMax + 1), inUse |-> {}]
     \/ pool = NoPool /\ UNCHANGED <<ring, pool>>
  /\ UNCHANGED <<config, picked>>

(* The kernel fills the first buffer of the ring for a receive of a source *)
(* or of a Recv(), which ends with data, empty, or with an error.          *)
KernelPicks(user, result) ==
  /\ ring # <<>> /\ ring' = Tail(ring)
  /\ picked' = picked \cup {[id |-> Head(ring), user |-> user, result |-> result]}
  /\ UNCHANGED <<config, pool>>

CanAcquire(p, id) == id < p.capacity /\ id \notin p.inUse
Acquire(p, id) == [p EXCEPT !.inUse = @ \cup {id}]

(* Return(): re-adds a slot that is in use. *)
Return(p, id) ==
  /\ id \in p.inUse
  /\ ring' = Append(ring, id) /\ pool' = [p EXCEPT !.inUse = @ \ {id}]

(* RecvSource::OnCompletion(): AcquireBuffer() takes the slot; its bytes   *)
(* are copied and the last lease returns it, since the kernel is done with *)
(* it (ReturnIfReclaimable()).  A buffer of an empty or a failed receive   *)
(* goes straight back.  All of this is one call.                           *)
SourceCompletes(c) ==
  /\ c.user = "source" /\ CanAcquire(pool, c.id)
  /\ Return(Acquire(pool, c.id), c.id)

(* Forgets the buffer of a receive that failed. *)
BugRecvCompletes(c) ==
  /\ c.user = "recv" /\ CanAcquire(pool, c.id)
  /\ IF c.result = "error" THEN UNCHANGED <<pool, ring>> ELSE Return(Acquire(pool, c.id), c.id)

(* RecvCopyAwaiter::OnComplete(): timed out, failed, empty, copied or not  *)
(* copied for lack of memory, the buffer goes back.                        *)
RecvCompletes(c) ==
  /\ c.user = "recv" /\ CanAcquire(pool, c.id)
  /\ Return(Acquire(pool, c.id), c.id)

Complete(c) ==
  /\ SourceCompletes(c) \/ RecvCompletes(c)
  /\ picked' = picked \ {c} /\ UNCHANGED config

(* Release(), of the pool and of its storage, by a loop without requests. *)
Release ==
  /\ pool # NoPool /\ picked = {}
  /\ pool' = NoPool /\ ring' = <<>> /\ UNCHANGED <<config, picked>>

Next ==
  \/ \E size \in BufferSizes, n \in Asks : GetSharedProvidedBufferPool(size, n)
  \/ \E user \in {"source", "recv"}, result \in {"data", "empty", "error"} : KernelPicks(user, result)
  \/ \E c \in picked : Complete(c)
  \/ Release

Spec == Init /\ [][Next]_vars

-----------------------------------------------------------------------------
(* Every published slot is in the ring or in a completion that was not     *)
(* handled, and in one of them only, so that the kernel never fills a slot *)
(* that is still read, and none is lost to a receive that failed; the ring *)
(* never holds more than it has entries; a completion's slot can be taken; *)
(* and the slots are disjoint parts of the storage, whatever the sizes the *)
(* options ask for.                                                        *)
BuffersPublishedOnce ==
  LET out == {c.id : c \in picked}
  IN  /\ IsInjective(ring) /\ \A c, d \in picked : c.id = d.id => c = d
      /\ ToSet(ring) \cup out = 0..(pool.published - 1) /\ ToSet(ring) \cap out = {}
      /\ pool.published <= pool.capacity
      /\ \A c \in picked : CanAcquire(pool, c.id)
      /\ \A id \in 0..(pool.capacity - 1) :
           /\ Slot(pool, id) + pool.size <= pool.bytes
           /\ \A other \in 0..(id - 1) : Slot(pool, other) + pool.size <= Slot(pool, id)
================================================================================
