----------------------------- MODULE ReadBuffer ------------------------------
(***************************************************************************)
(* The connection's read buffer.  Bytes are read ahead of what is needed   *)
(* and a slice of the buffer is handed out, which the next fill overwrites *)
(* unless it took a new array.  A cell stands for the smallest unit the    *)
(* reader tells apart: a frame header, a message header or a parcel.       *)
(***************************************************************************)
EXTENDS Integers, Sequences, SequencesExt

CONSTANTS DefaultBufSize,    \* cells of the first array, and the unit of growth
          MaxCachedBufSize   \* a larger array is not kept

ASSUME BufferAssumption ==
    /\ DefaultBufSize \in Nat \ {0}
    /\ MaxCachedBufSize \in Nat /\ MaxCachedBufSize >= DefaultBufSize

VARIABLES
    heap,      \* every array allocated so far
    store,     \* the array the buffer keeps
    pending,   \* the slice that was read and not consumed
    filling,   \* the fill in progress
    wire       \* cells the peer has sent and nobody has read

bufferVars == <<heap, store, pending, filling, wire>>

Slice(a, from, n) == [at |-> a, from |-> from, len |-> n]
CellsOf(s) == SubSeq(heap[s.at], s.from + 1, s.from + s.len)

Blank == [kind |-> "blank"]
Blanks(n) == [i \in 1..n |-> Blank]

\* The array a with cells copied to it from index i on.
Overlay(a, i, cells) == [j \in 1..Len(a) |-> IF j \in (i + 1)..(i + Len(cells)) THEN cells[j - i] ELSE a[j]]

NotFilling == [need |-> 0, dest |-> 0, have |-> 0]

BufferInit ==
    /\ heap = <<Blanks(DefaultBufSize)>> /\ store = 1
    /\ pending = Slice(1, 0, 0)
    /\ filling = NotFilling
    /\ wire = <<>>

\* Mutant: the size is rounded down.
GrownSizeDown(need) == (need \div DefaultBufSize) * DefaultBufSize
GrownSize(need) == (need \div DefaultBufSize + 1) * DefaultBufSize

\* Mutant: every array is kept.
KeepsAlways(size) == TRUE
Keeps(size) == size <= MaxCachedBufSize

\* Mutant: what is pending stays where it is.
MovedPendingNot == <<>>
MovedPending == CellsOf(pending)

\* fill up to its loop: the array to read into, with what is pending at its front.
BeginFill(need) ==
    /\ filling = NotFilling /\ need > pending.len
    /\ LET grow == need > Len(heap[store])
           size == GrownSize(need)
           dest == IF grow THEN Len(heap) + 1 ELSE store
           arrays == IF grow THEN Append(heap, Blanks(size)) ELSE heap
       IN /\ heap' = [arrays EXCEPT ![dest] = Overlay(@, 0, MovedPending)]
          /\ store' = IF grow /\ Keeps(size) THEN dest ELSE store
          /\ filling' = [need |-> need, dest |-> dest, have |-> pending.len]
    /\ UNCHANGED <<pending, wire>>

\* One Read of the loop: n cells arrive, which may be more than are needed.
ReadSome(n) ==
    /\ filling # NotFilling
    /\ n <= Len(wire) /\ n <= Len(heap[filling.dest]) - filling.have
    /\ LET have == filling.have + n
       IN /\ heap' = [heap EXCEPT ![filling.dest] = Overlay(@, filling.have, SubSeq(wire, 1, n))]
          /\ wire' = SubSeq(wire, n + 1, Len(wire))
          /\ IF have >= filling.need
             THEN pending' = Slice(filling.dest, 0, have) /\ filling' = NotFilling
             ELSE filling' = [filling EXCEPT !.have = have] /\ UNCHANGED pending
    /\ UNCHANGED store

\* A Read returns an error: what arrived before it stays pending.
ReadFails ==
    /\ filling # NotFilling
    /\ pending' = Slice(filling.dest, 0, filling.have)
    /\ filling' = NotFilling
    /\ UNCHANGED <<heap, store, wire>>

\* next: the slice of the need cells that come first, and what is left.
Taken(need) == Slice(pending.at, pending.from, need)
Left(need) == Slice(pending.at, pending.from + need, pending.len - need)

BufferTypeOK ==
    /\ store \in 1..Len(heap)
    /\ pending.at \in 1..Len(heap)
    /\ pending.from + pending.len <= Len(heap[pending.at])
    /\ filling # NotFilling => filling.have <= Len(heap[filling.dest])

\* What the connection keeps between two messages is bounded, however long the
\* messages were: an array above the limit is dropped once its message is consumed.
KeptIsBounded == Len(heap[store]) <= MaxCachedBufSize
=============================================================================
