----------------------------- MODULE ChannelRing -----------------------------
(***************************************************************************)
(* The ring buffer of coro::Channel (include/alyrn/coro/channel.h).        *)
(*                                                                         *)
(* The ring has a power of two of slots, so that an index wraps with a     *)
(* mask, and holds at most `capacity` values, which need not be a power of *)
(* two.  A ring is a record of the fields of the class; masking with       *)
(* 2^k - 1 is the remainder modulo 2^k.                                    *)
(***************************************************************************)
EXTENDS Integers, Sequences

CONSTANT Empty   \* a slot without a value

IsPowerOfTwo(n) == \E k \in 0..n : n = 2^k

(* std::bit_ceil, and no slot at all for an unbuffered channel.  *)
RingSize(capacity) ==
  IF capacity = 0 THEN 0
  ELSE CHOOSE n \in capacity..(2 * capacity) :
         IsPowerOfTwo(n) /\ \A m \in capacity..(n - 1) : ~IsPowerOfTwo(m)

NewRing(capacity, slots) ==
  [slots |-> [k \in 0..(slots - 1) |-> Empty], capacity |-> capacity,
   mask |-> IF slots = 0 THEN 0 ELSE slots - 1, head |-> 0, tail |-> 0, size |-> 0]

Masked(ring, index) == index % (ring.mask + 1)

Full(ring) == ring.size = ring.capacity

BugPushBuffer(ring, value) ==   \* wraps at the capacity
  [ring EXCEPT !.slots[ring.tail] = value, !.tail = (@ + 1) % ring.capacity, !.size = @ + 1]

PushBuffer(ring, value) ==
  [slots |-> [ring.slots EXCEPT ![ring.tail] = value], capacity |-> ring.capacity,
   mask |-> ring.mask, head |-> ring.head, tail |-> Masked(ring, ring.tail + 1),
   size |-> ring.size + 1]

Oldest(ring) == ring.slots[ring.head]

PopBuffer(ring) ==
  [slots |-> [ring.slots EXCEPT ![ring.head] = Empty], capacity |-> ring.capacity,
   mask |-> ring.mask, head |-> Masked(ring, ring.head + 1), tail |-> ring.tail,
   size |-> ring.size - 1]

-----------------------------------------------------------------------------
(* What the ring stands for: its values, oldest first.  *)
Contents(ring) == [k \in 1..ring.size |-> ring.slots[Masked(ring, ring.head + k - 1)]]

(* The used slots are the `size` ones from head on, each with a value (PopBuffer() checks
   it), and end where tail is; the ring has room for `capacity` of them. *)
RingOK(ring) ==
  /\ ring.capacity \in Nat /\ ring.mask \in Nat
  /\ ring.size \in 0..ring.capacity
  /\ ring.capacity # 0 => ring.capacity <= ring.mask + 1
  /\ ring.head \in 0..ring.mask /\ ring.tail \in 0..ring.mask
  /\ ring.tail = Masked(ring, ring.head + ring.size)
  /\ DOMAIN ring.slots = IF ring.capacity = 0 THEN {} ELSE 0..ring.mask
  /\ \A k \in 1..ring.size : ring.slots[Masked(ring, ring.head + k - 1)] # Empty
==============================================================================
