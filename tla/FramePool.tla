------------------------------- MODULE FramePool -------------------------------
(***************************************************************************)
(* Where coroutine frames live (include/alyrn/coro/frame_allocator.h): the *)
(* size-class pool of a worker, CoroFramePoolResource, and the heap for    *)
(* frames that fit no class.                                               *)
(*                                                                         *)
(* Only the owner thread allocates from a pool.  A frame may be destroyed  *)
(* on any thread: a foreign one pushes its slot on the remote stack of the *)
(* class with a compare-and-swap, and the owner takes that stack whole.    *)
(* One size class stands for all, since they share nothing.                *)
(***************************************************************************)
EXTENDS Naturals, Sequences, FiniteSets

CONSTANTS
  Foreign,         \* threads other than the owner
  SlotsPerChunk,   \* SlotsPerChunk() of the class
  MaxChunks,       \* bound: chunks
  BytesBits,       \* kFrameMetadataBytesBits
  HeapSizes,       \* sizes of heap allocations
  Alignments       \* their alignments, as exponents

Slots == 1..(MaxChunks * SlotsPerChunk)
Null == 0
Resources == {"pool", "heap"}

VARIABLES
  next,      \* next of every free node
  free,      \* free_list of the class
  remote,    \* remote of the class
  chunks,    \* chunks that are registered in the slab map
  live,      \* slots that hold a frame
  heap,      \* heap frames: their resource, their metadata, and what was allocated
  push,      \* per foreign thread, the slot it frees and the head it has read
  scope      \* resources of the FrameAllocatorScopes that the owner has entered

poolVars == <<next, free, remote, chunks, live, heap, push, scope>>

NoPush == [slot |-> Null, old |-> Null]

PoolInit ==
  /\ next = [s \in Slots |-> Null] /\ free = Null /\ remote = Null /\ chunks = 0
  /\ live = {} /\ heap = {} /\ scope = <<"heap">>
  /\ push = [t \in Foreign |-> NoPush]

(* CurrentFrameResource() *)
Current == scope[Len(scope)]

EnterScope(r) ==
  /\ Len(scope) < 2 /\ scope' = Append(scope, r)
  /\ UNCHANGED <<next, free, remote, chunks, live, heap, push>>

LeaveScope ==
  /\ Len(scope) > 1 /\ scope' = SubSeq(scope, 1, Len(scope) - 1)
  /\ UNCHANGED <<next, free, remote, chunks, live, heap, push>>

-----------------------------------------------------------------------------
(* The pool.                                                               *)

(* LookupSlab() and IsSlot(): slots of the chunks that are registered. *)
IsSlot(s) == s \in 1..(chunks * SlotsPerChunk)

(* The loop of DrainRemote(): moves a chain to the free list, node by node. *)
RECURSIVE Moved(_, _, _)
Moved(nx, list, head) ==
  IF list = Null THEN <<nx, head>> ELSE Moved([nx EXCEPT ![list] = head], nx[list], list)

(* The nodes that AddChunk() chains, the last one first. *)
RECURSIVE Carved(_, _, _, _)
Carved(nx, head, s, last) ==
  IF s > last THEN <<nx, head>> ELSE Carved([nx EXCEPT ![s] = head], s, s + 1, last)

(* Takes the first node of the stack and lets go of the others. *)
BugDrainRemote ==
  /\ remote # Null /\ remote' = Null
  /\ free' = remote /\ next' = [next EXCEPT ![remote] = free]
  /\ UNCHANGED <<chunks, live, heap, push, scope>>

(* DrainCurrent(), which the loop calls every turn. *)
DrainRemote ==
  LET m == Moved(next, remote, free)
  IN  /\ remote # Null /\ remote' = Null
      /\ next' = m[1] /\ free' = m[2]
      /\ UNCHANGED <<chunks, live, heap, push, scope>>

(* Does not look at the remote stack. *)
BugAvailable == IF free # Null THEN <<next, free, remote>> ELSE <<next, Null, remote>>

(* The chains after AllocatePooled() has looked for a free slot. *)
Available ==
  IF free # Null THEN <<next, free, remote>>
  ELSE LET m == Moved(next, remote, Null) IN <<m[1], m[2], Null>>

AllocatePooled ==
  LET a == Available
      first == chunks * SlotsPerChunk + 1
      c == IF a[2] # Null THEN <<a[1], a[2]>>
           ELSE Carved(a[1], Null, first, first + SlotsPerChunk - 1)
  IN  /\ Current = "pool"
      /\ a[2] = Null => chunks < MaxChunks
      /\ chunks' = IF a[2] = Null THEN chunks + 1 ELSE chunks
      /\ live' = live \cup {c[2]} /\ free' = c[1][c[2]]
      /\ next' = [c[1] EXCEPT ![c[2]] = Null] /\ remote' = a[3]
      /\ UNCHANGED <<heap, push, scope>>

(* FreeSlot() on the owner's thread. *)
FreeSlot(s) ==
  /\ s \in live /\ IsSlot(s)
  /\ next' = [next EXCEPT ![s] = free] /\ free' = s /\ live' = live \ {s}
  /\ UNCHANGED <<remote, chunks, heap, push, scope>>

(* FreeSlot() on a foreign thread: PushRemote() reads the head ... *)
BeginPush(t, s) ==
  /\ push[t] = NoPush /\ s \in live /\ IsSlot(s)
  /\ live' = live \ {s} /\ push' = [push EXCEPT ![t] = [slot |-> s, old |-> remote]]
  /\ UNCHANGED <<next, free, remote, chunks, heap, scope>>

(* Stores the head without comparing it. *)
BugPushRemote(t) ==
  LET p == push[t]
  IN  /\ p.slot # Null
      /\ next' = [next EXCEPT ![p.slot] = p.old]
      /\ remote' = p.slot /\ push' = [push EXCEPT ![t] = NoPush]
      /\ UNCHANGED <<free, chunks, live, heap, scope>>

(* ... links its node before it and swaps, or reads the head again. *)
PushRemote(t) ==
  LET p == push[t]
  IN  /\ p.slot # Null
      /\ next' = [next EXCEPT ![p.slot] = p.old]
      /\ IF remote = p.old
         THEN remote' = p.slot /\ push' = [push EXCEPT ![t] = NoPush]
         ELSE push' = [push EXCEPT ![t].old = remote] /\ UNCHANGED remote
      /\ UNCHANGED <<free, chunks, live, heap, scope>>

(* ~CoroFramePoolResource() when no frame of it is left. *)
ReleaseChunks ==
  /\ chunks > 0 /\ live = {} /\ \A t \in Foreign : push[t] = NoPush
  /\ chunks' = 0 /\ free' = Null /\ remote' = Null /\ next' = [s \in Slots |-> Null]
  /\ UNCHANGED <<live, heap, push, scope>>

-----------------------------------------------------------------------------
(* Frames on the heap, with a header in front.                             *)

(* Shifts the exponent by one bit too few. *)
BugPackFrameMetadata(bytes, exponent) == bytes + exponent * 2^(BytesBits - 1)

PackFrameMetadata(bytes, exponent) == bytes + exponent * 2^BytesBits
UnpackFrameBytes(metadata) == metadata % 2^BytesBits
UnpackFrameAlignment(metadata) == metadata \div 2^BytesBits

(* AllocateHeapFrame(): a size that the header cannot encode is refused. *)
AllocateHeapFrame(bytes, exponent) ==
  /\ bytes < 2^BytesBits
  /\ heap = {}
  /\ heap' = heap \cup {[resource |-> Current, bytes |-> bytes, exponent |-> exponent,
                         metadata |-> PackFrameMetadata(bytes, exponent)]}
  /\ UNCHANGED <<next, free, remote, chunks, live, push, scope>>

(* DeallocateFrame() of a frame that is in no slab. *)
DeallocateHeapFrame(f) ==
  /\ f \in heap /\ heap' = heap \ {f}
  /\ UNCHANGED <<next, free, remote, chunks, live, push, scope>>

PoolNext ==
  \/ AllocatePooled \/ DrainRemote \/ ReleaseChunks \/ LeaveScope
  \/ \E r \in Resources : EnterScope(r)
  \/ \E s \in Slots : FreeSlot(s)
  \/ \E t \in Foreign : PushRemote(t) \/ \E s \in Slots : BeginPush(t, s)
  \/ \E b \in HeapSizes, e \in Alignments : AllocateHeapFrame(b, e)
  \/ \E f \in heap : DeallocateHeapFrame(f)

PoolSpec == PoolInit /\ [][PoolNext]_poolVars

-----------------------------------------------------------------------------
(* The nodes of a chain, or more of them than there are slots. *)
RECURSIVE Chain(_, _)
Chain(head, fuel) ==
  IF head = Null \/ fuel = 0 THEN <<>> ELSE <<head>> \o Chain(next[head], fuel - 1)

Pushing == {push[t].slot : t \in Foreign} \ {Null}

(* Every slot of a registered chunk is in one place: it holds a frame, a   *)
(* thread is freeing it, or it is once in the free list or on the remote   *)
(* stack.  None is lost or handed out twice, however the pushes of foreign *)
(* threads interleave with the owner.  A heap frame is given back with the *)
(* size and alignment it was allocated with.                               *)
SlotsHaveOneOwner ==
  LET chained == Chain(free, Cardinality(Slots) + 1) \o Chain(remote, Cardinality(Slots) + 1)
      inChains == {chained[i] : i \in DOMAIN chained}
  IN  /\ Len(chained) = Cardinality(inChains)
      /\ live \cap Pushing = {} /\ inChains \cap (live \cup Pushing) = {}
      /\ inChains \cup live \cup Pushing = 1..(chunks * SlotsPerChunk)
      /\ \A f \in heap : UnpackFrameBytes(f.metadata) = f.bytes
                           /\ UnpackFrameAlignment(f.metadata) = f.exponent

(* The pool takes another chunk from its upstream only when no slot is     *)
(* free, not even one that a foreign thread has freed.                     *)
GrowthIsNeeded == chunks' > chunks => free = Null /\ remote = Null
GrowsWhenFull == [][GrowthIsNeeded]_poolVars
================================================================================
