----------------------------- MODULE MCStructures ------------------------------
(***************************************************************************)
(* What the runtime keeps things in, for TLC, one at a time: channels,     *)
(* intrusive trees, lists and queues, the pools for frames, objects and    *)
(* receive buffers, and Buffer.  `part` says which one moves; the others   *)
(* are off, or new (channels).  The coroutines at the channels are         *)
(* interchangeable.                                                        *)
(***************************************************************************)
EXTENDS ChannelSelect, TLC

CONSTANTS
  TreeNodes, LinkNodes,
  Foreign, SlotsPerChunk, MaxChunks, BytesBits, HeapSizes, Alignments,
  Threads, PoolSlots, MaxOverflow,
  Buffers, Bytes, BlockSize, Hints, IovCounts, MaxBytes, MaxBlocks,
  Capacities, BufferSizes, Asks, SizeMax

VARIABLES
  part,
  tree, size, held,                                         \* of IntrusiveTree
  kind, next, prev, tail, order, walk,                      \* of IntrusiveLinks
  fnext, ffree, remote, chunks, live, heap, push, scope,    \* of FramePool
  free, allocated, releasing, overflow, objects, at,        \* of ObjectPool
  buf, text,                                                \* of Buffer
  config, pool, ring, picked                                \* of ProvidedBuffers

tvars == <<tree, size, held>>
lvars == <<kind, next, prev, tail, order, walk>>
fvars == <<fnext, ffree, remote, chunks, live, heap, push, scope>>
ovars == <<free, allocated, releasing, overflow, objects, at>>
bvars == <<buf, text>>
pvars == <<config, pool, ring, picked>>

Tree == INSTANCE IntrusiveTree WITH MaxNodes <- TreeNodes
Links == INSTANCE IntrusiveLinks WITH MaxNodes <- LinkNodes
Frames == INSTANCE FramePool WITH next <- fnext, free <- ffree
Objects == INSTANCE ObjectPool WITH Capacity <- PoolSlots
Buf == INSTANCE Buffer
Provided == INSTANCE ProvidedBuffers

Symmetry == Permutations(Coroutines)

Off == "off"    \* what the variables of a part that does not move are

MCInit ==
  /\ part \in {"channels", "tree", "links", "frames", "objects", "buffer", "provided"}
  /\ Init
  /\ \/ part = "tree" /\ Tree!TreeInit
     \/ part # "tree" /\ tree = Off /\ size = Off /\ held = Off
  /\ \/ part = "links" /\ Links!LinksInit
     \/ part # "links" /\ kind = Off /\ next = Off /\ prev = Off /\ tail = Off /\ order = Off
        /\ walk = Off
  /\ \/ part = "frames" /\ Frames!PoolInit
     \/ part # "frames" /\ fnext = Off /\ ffree = Off /\ remote = Off /\ chunks = Off /\ live = Off
        /\ heap = Off /\ push = Off /\ scope = Off
  /\ \/ part = "objects" /\ Objects!Init
     \/ part # "objects" /\ free = Off /\ allocated = Off /\ releasing = Off /\ overflow = Off /\ objects = Off
        /\ at = Off
  /\ \/ part = "buffer" /\ Buf!Init
     \/ part # "buffer" /\ buf = Off /\ text = Off
  /\ \/ part = "provided" /\ Provided!Init
     \/ part # "provided" /\ config = Off /\ pool = Off /\ ring = Off /\ picked = Off

MCNext ==
  /\ \/ part = "channels" /\ Next /\ UNCHANGED <<tvars, lvars, fvars, ovars, bvars, pvars>>
     \/ part = "tree" /\ Tree!TreeNext /\ UNCHANGED <<vars, lvars, fvars, ovars, bvars, pvars>>
     \/ part = "links" /\ Links!LinksNext /\ UNCHANGED <<vars, tvars, fvars, ovars, bvars, pvars>>
     \/ part = "frames" /\ Frames!PoolNext /\ UNCHANGED <<vars, tvars, lvars, ovars, bvars, pvars>>
     \/ part = "objects" /\ Objects!Next /\ UNCHANGED <<vars, tvars, lvars, fvars, bvars, pvars>>
     \/ part = "buffer" /\ Buf!Next /\ UNCHANGED <<vars, tvars, lvars, fvars, ovars, pvars>>
     \/ part = "provided" /\ Provided!Next /\ UNCHANGED <<vars, tvars, lvars, fvars, ovars, bvars>>
  /\ UNCHANGED part

MCSpec ==
  MCInit /\ [][MCNext]_<<part, vars, tvars, lvars, fvars, ovars, bvars, pvars>>

-----------------------------------------------------------------------------
(* The red-black tree of the timers and the intrusive lists and queues hold *)
(* exactly what callers put in and did not take out, in order: every link   *)
(* of IntrusiveRBTree, IntrusiveList and IntrusiveQueue agrees with it, the *)
(* tree is balanced with the right minimum, and ForEachSafe() visits what   *)
(* it should though its callback unlinks the element it is given.           *)
ContainersHoldElements ==
  /\ part = "tree" => Tree!TreeHoldsSet
  /\ part = "links" => Links!LinksHoldOrder

(* A slot has one owner: of the coroutine frame pool it is free, on the     *)
(* remote list, on its way there from another thread, or a frame; of an     *)
(* ObjectPool free, being built or destroyed, or an object.  The frame pool *)
(* adds a chunk only if no slot is free, here or on the remote list.        *)
SlotsHaveOneOwner ==
  /\ [](part = "frames" => Frames!SlotsHaveOneOwner)
  /\ [](part = "objects" => Objects!PoolHandsOutOnce)
  /\ [][part = "frames" => Frames!GrowthIsNeeded]_fvars

(* A Buffer reads as the bytes that were appended or committed and not      *)
(* drained, whatever blocks hold them: every view, Find() and iovec agree,  *)
(* and a reservation lies behind them.                                      *)
BufferReadsAsText == part = "buffer" => Buf!BufferReadsAsText

(* The shared pool keeps its storage within the size type, and every buffer *)
(* of it that was published is in the buffer ring once, or carried by one   *)
(* completion: none is lost and none given to the kernel twice.             *)
BuffersPublishedOnce == part = "provided" => Provided!BuffersPublishedOnce
================================================================================
