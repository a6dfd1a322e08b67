--------------------------------- MODULE Buffer ---------------------------------
(***************************************************************************)
(* net::Buffer (include/alyrn/net/buffer.h): a chain of byte blocks with   *)
(* one write reservation at a time.  A block keeps its capacity, its       *)
(* write_pos and the bytes that can still be read from it (read_pos is     *)
(* their difference).  Allocation may throw between any two blocks.        *)
(***************************************************************************)
EXTENDS Integers, SequencesExt

CONSTANTS
  Buffers,     \* the names of the buffers, moved into one another
  Bytes,       \* the values of a byte
  BlockSize,   \* block_size_
  Hints,       \* sizes asked for by PrepareWrite() and TryPrepareWriteOne()
  IovCounts,   \* max_iov, not zero
  MaxBytes,    \* bound: readable bytes of all buffers
  MaxBlocks    \* bound: blocks of all buffers

VARIABLES
  buf,    \* per buffer: blocks_, readable_bytes_, write_reserved_, reserved_bytes_
  text    \* per buffer: the bytes that were written and not drained

vars == <<buf, text>>

Larger(a, b) == IF a > b THEN a ELSE b
Smaller(a, b) == IF a < b THEN a ELSE b

NewBlock(capacity) == [capacity |-> capacity, write |-> 0, bytes |-> <<>>, reserved |-> FALSE]
Writable(block) == block.capacity - block.write
Fill(block, bytes) == [block EXCEPT !.write = @ + Len(bytes), !.bytes = @ \o bytes]

EmptyBuffer == [blocks |-> <<>>, readable |-> 0, reserving |-> FALSE, reserved |-> 0]

Init == buf = [b \in Buffers |-> EmptyBuffer] /\ text = [b \in Buffers |-> <<>>]

Sum(seq) == FoldLeft(LAMBDA a, b : a + b, 0, seq)
Texts(n) == UNION {[1..k -> Bytes] : k \in 0..n}
Room == MaxBytes - MapThenSumSet(LAMBDA b : buf[b].readable, Buffers)
RoomForBlocks(x, b) ==
  Len(x.blocks) + MapThenSumSet(LAMBDA c : Len(buf[c].blocks), Buffers \ {b}) <= MaxBlocks

(* A step of buffer b to x whose readable bytes should then be t. *)
Becomes(b, x, t) ==
  /\ RoomForBlocks(x, b)
  /\ buf' = [buf EXCEPT ![b] = x] /\ text' = [text EXCEPT ![b] = t]

-----------------------------------------------------------------------------
(* Reservations *)

ClearWriteReservation(x) ==
  [x EXCEPT !.blocks = [i \in DOMAIN @ |-> [@[i] EXCEPT !.reserved = FALSE]],
            !.reserving = FALSE, !.reserved = 0]

(* The blocks that the reservation lends to the caller, in order, at most n. *)
FillReservedWriteIov(x, n) ==
  LET lent == SelectSeq([i \in DOMAIN x.blocks |-> i],
                        LAMBDA i : x.blocks[i].reserved /\ Writable(x.blocks[i]) > 0)
  IN  SubSeq(lent, 1, Smaller(n, Len(lent)))

(* Reserves every block that has room, not only the last one. *)
BugEnsureTailWritable(blocks, hint, n) ==
  LET all == [i \in DOMAIN blocks |-> [blocks[i] EXCEPT !.reserved = Writable(blocks[i]) > 0]]
  IN  IF blocks # <<>> /\ Sum([i \in DOMAIN all |-> Writable(all[i])]) >= hint
      THEN all
      ELSE all \o <<[NewBlock(Larger(BlockSize, hint)) EXCEPT !.reserved = TRUE]>>

(* EnsureTailWritable(): the room of the last block, and one new block for *)
(* the rest (which always suffices) when a second view is allowed.         *)
EnsureTailWritable(blocks, hint, n) ==
  LET lend == blocks # <<>> /\ Writable(Last(blocks)) > 0
      room == IF lend THEN Writable(Last(blocks)) ELSE 0
      kept == IF lend THEN [blocks EXCEPT ![Len(blocks)].reserved = TRUE] ELSE blocks
  IN  IF room < hint /\ (IF lend THEN 1 ELSE 0) < n
      THEN kept \o <<[NewBlock(Larger(BlockSize, hint - room)) EXCEPT !.reserved = TRUE]>>
      ELSE kept

(* PrepareWrite(), both forms; the new block, or the vector of views that  *)
(* the first form returns, may fail to be allocated.                       *)
PrepareWrite(b, hint, n) ==
  LET asked == IF hint = 0 THEN BlockSize ELSE hint
      held == [buf[b] EXCEPT !.blocks = EnsureTailWritable(@, asked, n), !.reserving = TRUE]
      iov == FillReservedWriteIov(held, n)
      lent == Sum([i \in DOMAIN iov |-> Writable(held.blocks[iov[i]])])
  IN  /\ ~buf[b].reserving
      /\ \/ Becomes(b, [held EXCEPT !.reserved = lent], text[b])
         \/ /\ Len(held.blocks) > Len(buf[b].blocks)
            /\ UNCHANGED vars
         \/ Becomes(b, ClearWriteReservation(held), text[b])

(* TryPrepareWriteOne() *)
TryPrepareWriteOne(b, hint) ==
  LET asked == IF hint = 0 THEN BlockSize ELSE hint
      blocks == buf[b].blocks
      lent == IF blocks = <<>> THEN <<NewBlock(Larger(BlockSize, asked))>> ELSE blocks
  IN  /\ ~buf[b].reserving
      /\ blocks # <<>> => Writable(Last(blocks)) >= asked
      /\ Becomes(b, [buf[b] EXCEPT !.blocks = [lent EXCEPT ![Len(lent)].reserved = TRUE],
                                   !.reserving = TRUE,
                                   !.reserved = Writable(Last(lent))], text[b])

(* How many of n bytes each reserved block takes, in order. *)
Shares(blocks, n) ==
  LET room(i) == IF blocks[i].reserved THEN Writable(blocks[i]) ELSE 0
      before(i) == Sum([j \in 1..(i - 1) |-> room(j)])
  IN  [i \in DOMAIN blocks |-> Larger(0, Smaller(room(i), n - before(i)))]

(* The bytes of `bytes` that go to each block when they take `shares`. *)
Portions(bytes, shares) ==
  [i \in DOMAIN shares |->
     LET start == Sum(SubSeq(shares, 1, i - 1)) IN SubSeq(bytes, start + 1, start + shares[i])]

(* The peer's bytes are in the lent views, in the order of the views; then *)
(* CommitWrite(): the reserved blocks take them, in the order of blocks_.  *)
CommitWrite(b, bytes) ==
  LET x == buf[b]
      portions == Portions(bytes, Shares(x.blocks, Len(bytes)))
      taken == [x EXCEPT !.blocks = [i \in DOMAIN @ |-> Fill(@[i], portions[i])],
                         !.readable = @ + Len(bytes)]
  IN  /\ x.reserving /\ Len(bytes) <= x.reserved
      /\ Becomes(b, ClearWriteReservation(taken), text[b] \o bytes)

(* Leaves the last block marked. *)
BugAbortWrite(b) ==
  /\ buf[b].reserving
  /\ Becomes(b, [buf[b] EXCEPT !.reserving = FALSE, !.reserved = 0], text[b])

(* AbortWrite(): the blocks that were added stay. *)
AbortWrite(b) ==
  /\ buf[b].reserving
  /\ Becomes(b, ClearWriteReservation(buf[b]), text[b])

-----------------------------------------------------------------------------
(* Committed bytes *)

(* Append(): what fits goes into the last block (EnsureOneTailBlock() adds *)
(* none), the rest into one new block; if that cannot be allocated, the    *)
(* first part stays.                                                       *)
AppendBytes(b, bytes) ==
  LET blocks == buf[b].blocks
      first == IF blocks = <<>> THEN 0 ELSE Smaller(Len(bytes), Writable(Last(blocks)))
      rest == SubSeq(bytes, first + 1, Len(bytes))
      filled == IF first = 0 THEN blocks
                ELSE [blocks EXCEPT ![Len(blocks)] = Fill(@, SubSeq(bytes, 1, first))]
      grown == IF rest = <<>> THEN filled
               ELSE filled \o <<Fill(NewBlock(Larger(BlockSize, Len(rest))), rest)>>
  IN  /\ ~buf[b].reserving /\ bytes # <<>>
      /\ \/ Becomes(b, [buf[b] EXCEPT !.blocks = grown, !.readable = @ + Len(bytes)],
                    text[b] \o bytes)
         \/ /\ rest # <<>>
            /\ Becomes(b, [buf[b] EXCEPT !.blocks = filled, !.readable = @ + first],
                       text[b] \o SubSeq(bytes, 1, first))

(* Keeps a front block that is empty, and stops at it. *)
BugDrained(blocks, n) ==
  IF blocks = <<>> \/ n = 0 THEN blocks
  ELSE LET m == Smaller(n, Len(Head(blocks).bytes))
       IN  <<[Head(blocks) EXCEPT !.bytes = SubSeq(@, m + 1, Len(@))]>> \o Tail(blocks)

RECURSIVE Drained(_, _)
(* The loop of DrainCommitted(): takes n bytes off the front blocks and     *)
(* deletes each one that this empties, and those that were empty before.    *)
Drained(blocks, n) ==
  IF n = 0 \/ blocks = <<>> THEN blocks
  ELSE LET front == Head(blocks)
           m == Smaller(n, Len(front.bytes))
       IN  IF m = Len(front.bytes)
           THEN Drained(Tail(blocks), n - m)
           ELSE <<[front EXCEPT !.bytes = SubSeq(@, m + 1, Len(@))]>> \o Tail(blocks)

Drain(b, n) ==
  LET m == Smaller(n, buf[b].readable)
  IN  /\ ~buf[b].reserving
      /\ Becomes(b, [buf[b] EXCEPT !.blocks = Drained(@, m), !.readable = @ - m],
                 SubSeq(text[b], m + 1, Len(text[b])))

(* DrainAll(), Clear() *)
DrainAll(b) ==
  /\ ~buf[b].reserving
  /\ Becomes(b, EmptyBuffer, <<>>)

Unread(blocks) == FlattenSeq([i \in DOMAIN blocks |-> blocks[i].bytes])

(* Linearize(): drops the drained blocks in front; then, when the first n  *)
(* bytes span blocks, moves them into one new front block, if it can be    *)
(* allocated.                                                              *)
Linearize(b, n) ==
  LET first == SelectInSeq(buf[b].blocks, LAMBDA block : block.bytes # <<>>)
      blocks == SubSeq(buf[b].blocks, first, Len(buf[b].blocks))
      merged == Fill(NewBlock(Larger(BlockSize, n)), SubSeq(Unread(blocks), 1, n))
  IN  /\ ~buf[b].reserving /\ n \in 1..buf[b].readable
      /\ \/ /\ Len(Head(blocks).bytes) < n
            /\ Becomes(b, [buf[b] EXCEPT !.blocks = <<merged>> \o Drained(blocks, n)], text[b])
         \/ Becomes(b, [buf[b] EXCEPT !.blocks = blocks], text[b])

(* Move assignment: Clear(), then MoveFromObject(). *)
MoveFromObject(b, other) ==
  /\ b # other /\ ~buf[b].reserving /\ ~buf[other].reserving
  /\ buf' = [buf EXCEPT ![b] = buf[other], ![other] = EmptyBuffer]
  /\ text' = [text EXCEPT ![b] = text[other], ![other] = <<>>]

Next ==
  \E b \in Buffers :
    \/ \E hint \in Hints :
         (\E n \in IovCounts : PrepareWrite(b, hint, n)) \/ TryPrepareWriteOne(b, hint)
    \/ \E bytes \in Texts(Room) : CommitWrite(b, bytes) \/ AppendBytes(b, bytes)
    \/ AbortWrite(b) \/ DrainAll(b)
    \/ \E n \in 1..(MaxBytes + 1) : Drain(b, n) \/ Linearize(b, n)
    \/ \E other \in Buffers : MoveFromObject(b, other)

Spec == Init /\ [][Next]_vars

-----------------------------------------------------------------------------
(* Reading without changing *)

RECURSIVE MatchesFrom(_, _, _, _)
(* The needle occurs from byte i of block k on, through the blocks after it. *)
MatchesFrom(blocks, k, i, needle) ==
  LET bytes == IF k <= Len(blocks) THEN SubSeq(blocks[k].bytes, i, Len(blocks[k].bytes)) ELSE <<>>
      n == Smaller(Len(bytes), Len(needle))
  IN  /\ k <= Len(blocks)
      /\ SubSeq(bytes, 1, n) = SubSeq(needle, 1, n)
      /\ n = Len(needle) \/ MatchesFrom(blocks, k + 1, 1, SubSeq(needle, n + 1, Len(needle)))

NotFound == -1

(* Gives up at the end of a block. *)
BugFind(x, needle, from) ==
  LET offset(k) == Sum([j \in 1..(k - 1) |-> Len(x.blocks[j].bytes)])
      hits == {offset(k) + i - 1 : <<k, i>> \in
                 {p \in (DOMAIN x.blocks) \X (1..MaxBytes) :
                    /\ p[2] + Len(needle) - 1 <= Len(x.blocks[p[1]].bytes)
                    /\ offset(p[1]) + p[2] - 1 >= from
                    /\ MatchesFrom(x.blocks, p[1], p[2], needle)}}
  IN  IF from > x.readable \/ Len(needle) > x.readable - from \/ hits = {} THEN NotFound
      ELSE CHOOSE h \in hits : \A g \in hits : h <= g

(* Find(): the first start, block after block, not before `from` and not   *)
(* after last_start, where the needle continues through the blocks.        *)
Find(x, needle, from) ==
  LET offset(k) == Sum([j \in 1..(k - 1) |-> Len(x.blocks[j].bytes)])
      starts == UNION {{<<k, i>> : i \in 1..Len(x.blocks[k].bytes)} : k \in DOMAIN x.blocks}
      hits == {offset(s[1]) + s[2] - 1 :
                 s \in {s \in starts : /\ offset(s[1]) + s[2] - 1 >= from
                                       /\ offset(s[1]) + s[2] - 1 <= x.readable - Len(needle)
                                       /\ MatchesFrom(x.blocks, s[1], s[2], needle)}}
  IN  IF from > x.readable \/ Len(needle) > x.readable - from THEN NotFound
      ELSE IF needle = <<>> THEN from
      ELSE IF hits = {} THEN NotFound
      ELSE CHOOSE h \in hits : \A g \in hits : h <= g

(* ContiguousView() through FirstReadableBlock() *)
ContiguousView(x) ==
  LET first == SelectInSeq(x.blocks, LAMBDA block : block.bytes # <<>>)
  IN  IF first = 0 THEN <<>> ELSE x.blocks[first].bytes

(* ReadableIov(): the bytes behind at most n views. *)
ReadableIov(x, n) ==
  LET views == SelectSeq(x.blocks, LAMBDA block : block.bytes # <<>>)
  IN  Unread(SubSeq(views, 1, Smaller(n, Len(views))))

-----------------------------------------------------------------------------
(* Whatever the chain of appends, committed and aborted reservations,      *)
(* drains, moves, copies into one block and failed allocations, a buffer   *)
(* reads as the bytes that were written and not drained, in order.  What   *)
(* is lent to a writer is the end of the chain and has the size that       *)
(* CommitWrite() accepts; nothing stays marked after a reservation.  Find  *)
(* answers as a search of the plain text would, at every offset.           *)
BufferReadsAsText ==
  \A b \in Buffers :
    LET x == buf[b]
        lent == {i \in DOMAIN x.blocks : x.blocks[i].reserved}
        needles == Texts(2)
        occurs(needle, i) == SubSeq(text[b], i + 1, i + Len(needle)) = needle
    IN  /\ Unread(x.blocks) = text[b] /\ x.readable = Len(text[b])
        /\ \A i \in DOMAIN x.blocks :
             Len(x.blocks[i].bytes) <= x.blocks[i].write /\ x.blocks[i].write <= x.blocks[i].capacity
        /\ \A i \in lent : \A j \in DOMAIN x.blocks :
             j > i => j \in lent /\ x.blocks[j].bytes = <<>>
        /\ (lent # {}) = x.reserving
        /\ x.reserved = Sum([i \in DOMAIN x.blocks |->
                               IF i \in lent THEN Writable(x.blocks[i]) ELSE 0])
        /\ IsPrefix(ContiguousView(x), text[b]) /\ (ContiguousView(x) = <<>>) = (text[b] = <<>>)
        /\ \A n \in IovCounts : IsPrefix(ReadableIov(x, n), text[b])
        /\ \A needle \in needles, from \in 0..(Len(text[b]) + 1) :
             LET found == {i \in from..(Len(text[b]) - Len(needle)) : occurs(needle, i)}
             IN  Find(x, needle, from) = IF found = {} THEN NotFound
                                         ELSE CHOOSE i \in found : \A j \in found : i <= j
================================================================================
