--------------------------- MODULE RowReaderProofs ----------------------------
(***************************************************************************)
(* Proofs about RowReader, for any number of rows, calls and faults, any   *)
(* sizes of the buffer and of LOBs, and any way the server cuts a result.  *)
(* First, what is taken from the read buffer is what was sent.  Then, what *)
(* the result set gives to its caller: the parcels of a result are laid    *)
(* out row by row, the scan is at the place its state says, and the arrays *)
(* that rows point into are never written again.  Last, the LOBs of rows,  *)
(* sent with the row or fetched later: whichever way its bytes come, and   *)
(* whatever fails between, what the caller gets without an error is the    *)
(* whole LOB of that row.                                                  *)
(***************************************************************************)
EXTENDS RowReader, SetInduction

-----------------------------------------------------------------------------
(* Sequences.                                                              *)

\* What was copied over a sequence is found where it was copied to.
LEMMA OverlayIs ==
    ASSUME NEW S, NEW a \in Seq(S), NEW cells \in Seq(S), NEW i \in Nat, i + Len(cells) <= Len(a)
    PROVE  /\ Overlay(a, i, cells) \in Seq(S) /\ Len(Overlay(a, i, cells)) = Len(a)
           /\ SubSeq(Overlay(a, i, cells), 1, i + Len(cells)) = SubSeq(a, 1, i) \o cells
<1> DEFINE o == Overlay(a, i, cells)
<1>0. Len(a) \in Nat /\ Len(cells) \in Nat
  BY LenProperties
<1>1. o \in Seq(S) /\ Len(o) = Len(a)
  BY <1>0 DEF Overlay
<1>2. \A j \in 1..Len(a) : o[j] = IF j \in (i + 1)..(i + Len(cells)) THEN cells[j - i] ELSE a[j]
  BY <1>0 DEF Overlay
<1> HIDE DEF o
<1>3. /\ SubSeq(o, 1, i + Len(cells)) \in Seq(S) /\ Len(SubSeq(o, 1, i + Len(cells))) = i + Len(cells)
      /\ \A j \in 1..(i + Len(cells)) : SubSeq(o, 1, i + Len(cells))[j] = o[j]
  BY <1>0, <1>1
<1>4. /\ SubSeq(a, 1, i) \in Seq(S) /\ Len(SubSeq(a, 1, i)) = i
      /\ \A j \in 1..i : SubSeq(a, 1, i)[j] = a[j]
  BY <1>0
<1>5. /\ SubSeq(a, 1, i) \o cells \in Seq(S) /\ Len(SubSeq(a, 1, i) \o cells) = i + Len(cells)
      /\ \A j \in 1..(i + Len(cells)) :
            (SubSeq(a, 1, i) \o cells)[j] = IF j <= i THEN a[j] ELSE cells[j - i]
  BY <1>0, <1>4
<1>6. SubSeq(o, 1, i + Len(cells)) = SubSeq(a, 1, i) \o cells
  <2>1. \A j \in 1..(i + Len(cells)) : SubSeq(o, 1, i + Len(cells))[j] = (SubSeq(a, 1, i) \o cells)[j]
    BY <1>0, <1>2, <1>3, <1>5
  <2> QED BY <1>3, <1>5, <2>1, SeqEqual
<1> QED BY <1>1, <1>6 DEF o

\* Concatenation is associative.
LEMMA Associates == \A S : \A s, t, u \in Seq(S) : (s \o t) \o u = s \o (t \o u)
BY ConcatAssociative

\* Cells that move from the front of w to the end of q are not lost.
LEMMA MovingKeeps ==
    ASSUME NEW S, NEW q \in Seq(S), NEW w \in Seq(S), NEW n \in 0..Len(w)
    PROVE  (q \o SubSeq(w, 1, n)) \o SubSeq(w, n + 1, Len(w)) = q \o w
<1>0. Len(w) \in Nat
  BY LenProperties
<1>1. SubSeq(w, 1, n) \in Seq(S) /\ SubSeq(w, n + 1, Len(w)) \in Seq(S)
  BY <1>0
<1>2. SubSeq(w, 1, n) \o SubSeq(w, n + 1, Len(w)) = w
  <2>1. /\ 1 \in 1..Len(w) + 1 /\ n \in (1 - 1)..Len(w) /\ Len(w) \in n..Len(w)
    BY <1>0
  <2>2. SubSeq(w, 1, n) \o SubSeq(w, n + 1, Len(w)) = SubSeq(w, 1, Len(w))
    BY <2>1, ConcatAdjacentSubSeq, Zenon
  <2>3. SubSeq(w, 1, Len(w)) = w
    BY SubSeqFull, Zenon
  <2> QED BY <2>2, <2>3
<1> DEFINE a == SubSeq(w, 1, n)
           b == SubSeq(w, n + 1, Len(w))
<1>3. a \in Seq(S) /\ b \in Seq(S)
  BY <1>1, Zenon
<1>4. a \o b = w
  BY <1>2, Zenon
<1> HIDE DEF a, b
<1>5. (q \o a) \o b = q \o (a \o b)
  BY <1>3, ConcatAssociative
<1>6. (q \o a) \o b = q \o w
  BY <1>4, <1>5, Zenon
<1> QED BY <1>6, Zenon DEF a, b

\* The first cell of a stream is the first one that has arrived.
LEMMA FirstOfStream ==
    ASSUME NEW S, NEW q \in Seq(S), NEW w \in Seq(S), NEW x \in S, NEW m \in Seq(S),
           q \o w = <<x>> \o m, Len(q) >= 1
    PROVE  q[1] = x /\ SubSeq(q, 2, Len(q)) \o w = m
<1>0. Len(q) \in Nat /\ Len(w) \in Nat /\ Len(m) \in Nat
  BY LenProperties
<1> DEFINE t == SubSeq(q, 2, Len(q))
<1>1. Len(t) = Len(q) - 1 /\ t \in Seq(S) /\ \A i \in 1..Len(t) : t[i] = q[i + 1]
  BY <1>0
<1>2. /\ q \o w \in Seq(S) /\ Len(q \o w) = Len(q) + Len(w)
      /\ \A i \in 1..(Len(q) + Len(w)) : (q \o w)[i] = IF i <= Len(q) THEN q[i] ELSE w[i - Len(q)]
  BY ConcatProperties
<1>3. /\ Len(<<x>> \o m) = Len(m) + 1
      /\ \A i \in 1..(Len(m) + 1) : (<<x>> \o m)[i] = IF i = 1 THEN x ELSE m[i - 1]
  BY <1>0
<1>4. q[1] = x
  BY <1>0, <1>2, <1>3
<1> HIDE DEF t
<1>5. /\ t \o w \in Seq(S) /\ Len(t \o w) = Len(m)
      /\ \A i \in 1..(Len(t) + Len(w)) : (t \o w)[i] = IF i <= Len(t) THEN t[i] ELSE w[i - Len(t)]
  <2>1. t \in Seq(S)
    BY <1>1
  <2>2. /\ t \o w \in Seq(S) /\ Len(t \o w) = Len(t) + Len(w)
        /\ \A i \in 1..(Len(t) + Len(w)) : (t \o w)[i] = IF i <= Len(t) THEN t[i] ELSE w[i - Len(t)]
    BY <2>1, ConcatProperties
  <2> QED BY <1>0, <1>1, <1>2, <1>3, <2>2
<1>6. \A i \in 1..Len(m) : (t \o w)[i] = m[i]
  <2>1. SUFFICES ASSUME NEW i \in 1..Len(m)
                 PROVE  (t \o w)[i] = m[i]
    OBVIOUS
  <2>2. m[i] = (q \o w)[i + 1] /\ i + 1 \in 1..(Len(q) + Len(w))
    BY <1>0, <1>2, <1>3
  <2>3. (t \o w)[i] = IF i <= Len(q) - 1 THEN q[i + 1] ELSE w[i - (Len(q) - 1)]
    BY <1>0, <1>1, <1>2, <1>3, <1>5
  <2> QED BY <1>0, <1>2, <2>2, <2>3
<1>7. t \o w = m
  BY <1>5, <1>6, SeqEqual
<1> QED BY <1>4, <1>7 DEF t

\* When as many cells have arrived as the stream has, they are all of it.
LEMMA WholeStream ==
    ASSUME NEW S, NEW q \in Seq(S), NEW w \in Seq(S), NEW x \in S, NEW m \in Seq(S),
           q \o w = <<x>> \o m, Len(q) >= Len(m) + 1
    PROVE  w = <<>> /\ Len(q) = Len(m) + 1 /\ Tail(q) = m
<1>0. Len(q) \in Nat /\ Len(w) \in Nat /\ Len(m) \in Nat /\ <<x>> \in Seq(S) /\ Len(<<x>>) = 1
  BY LenProperties
<1>1. Len(q) + Len(w) = 1 + Len(m)
  BY <1>0, ConcatProperties
<1>2. Len(w) = 0 /\ Len(q) = Len(m) + 1
  BY <1>0, <1>1
<1>3. w = <<>>
  BY <1>2, EmptySeq
<1>4. q = <<x>> \o m
  BY <1>3, ConcatEmptySeq
<1>5. Tail(<<x>> \o m) = m
  <2>1. <<x>> \o m \in Seq(S) /\ <<x>> \o m # <<>> /\ Len(<<x>> \o m) = Len(m) + 1
    BY <1>0, ConcatProperties, EmptySeq
  <2>2. /\ Tail(<<x>> \o m) \in Seq(S) /\ Len(Tail(<<x>> \o m)) = Len(m)
        /\ \A i \in 1..Len(m) : Tail(<<x>> \o m)[i] = (<<x>> \o m)[i + 1]
    BY <1>0, <2>1, HeadTailProperties
  <2>3. \A i \in 1..Len(m) : (<<x>> \o m)[i + 1] = m[i]
    BY <1>0
  <2> QED BY <1>0, <2>2, <2>3, SeqEqual
<1> QED BY <1>2, <1>3, <1>4, <1>5

\* An array that has grown has room for what it was grown for.
LEMMA GrownSizeIs ==
    ASSUME NEW need \in Nat
    PROVE  GrownSize(need) \in Nat /\ GrownSize(need) > need
BY BufferAssumption DEF GrownSize

-----------------------------------------------------------------------------
(* The buffer.                                                             *)

\* The buffer's variables, over any set of cells.
Typed(S) ==
    /\ heap \in Seq(Seq(S)) /\ wire \in Seq(S) /\ Blank \in S
    /\ store \in 1..Len(heap)
    /\ pending \in [at : 1..Len(heap), from : Nat, len : Nat]
    /\ pending.from + pending.len <= Len(heap[pending.at])
    /\ filling # NotFilling => /\ filling \in [need : Nat, dest : 1..Len(heap), have : Nat]
                               /\ filling.have <= Len(heap[filling.dest])

\* The cells that have arrived and were not consumed: what is pending, or what the
\* fill has so far.
Arrived == IF filling = NotFilling THEN CellsOf(pending) ELSE SubSeq(heap[filling.dest], 1, filling.have)

\* A part of a sequence.
LEMMA PartIs ==
    ASSUME NEW S, NEW a \in Seq(S), NEW f \in Nat, NEW n \in Nat, f + n <= Len(a)
    PROVE  /\ SubSeq(a, f + 1, f + n) \in Seq(S) /\ Len(SubSeq(a, f + 1, f + n)) = n
           /\ \A i \in 1..n : SubSeq(a, f + 1, f + n)[i] = a[f + i]
<1>0. Len(a) \in Nat
  BY LenProperties
<1> QED BY <1>0

\* The cells of a slice.
LEMMA CellsAre ==
    ASSUME NEW S, heap \in Seq(Seq(S)),
           NEW s \in [at : 1..Len(heap), from : Nat, len : Nat], s.from + s.len <= Len(heap[s.at])
    PROVE  /\ CellsOf(s) \in Seq(S) /\ Len(CellsOf(s)) = s.len
           /\ \A i \in 1..s.len : CellsOf(s)[i] = heap[s.at][s.from + i]
<1>1. s.at \in 1..Len(heap) /\ s.from \in Nat /\ s.len \in Nat
  OBVIOUS
<1>2. heap[s.at] \in Seq(S)
  BY <1>1, ElementOfSeq
<1> DEFINE a == heap[s.at]
           f == s.from
           n == s.len
<1>3. a \in Seq(S) /\ f \in Nat /\ n \in Nat /\ f + n <= Len(a)
  BY <1>1, <1>2
<1>4. CellsOf(s) = SubSeq(a, f + 1, f + n)
  BY DEF CellsOf
<1> HIDE DEF a, f, n
<1>5. /\ SubSeq(a, f + 1, f + n) \in Seq(S) /\ Len(SubSeq(a, f + 1, f + n)) = n
      /\ \A i \in 1..n : SubSeq(a, f + 1, f + n)[i] = a[f + i]
  BY <1>3, PartIs
<1> QED BY <1>4, <1>5, Zenon DEF a, f, n

\* An array with more cells copied to it, among the arrays.
LEMMA CopiedTo ==
    ASSUME NEW S, NEW arrays \in Seq(Seq(S)), NEW d \in 1..Len(arrays), NEW cells \in Seq(S),
           NEW i \in Nat, i + Len(cells) <= Len(arrays[d])
    PROVE  LET new == [arrays EXCEPT ![d] = Overlay(@, i, cells)]
           IN /\ new \in Seq(Seq(S)) /\ Len(new) = Len(arrays)
              /\ \A j \in 1..Len(arrays) : Len(new[j]) = Len(arrays[j])
              /\ \A j \in 1..Len(arrays) : j # d => new[j] = arrays[j]
              /\ SubSeq(new[d], 1, i + Len(cells)) = SubSeq(arrays[d], 1, i) \o cells
<1> DEFINE o == Overlay(arrays[d], i, cells)
<1>1. arrays[d] \in Seq(S)
  BY ElementOfSeq
<1>2. /\ o \in Seq(S) /\ Len(o) = Len(arrays[d])
      /\ SubSeq(o, 1, i + Len(cells)) = SubSeq(arrays[d], 1, i) \o cells
  BY <1>1, OverlayIs
<1> HIDE DEF o
<1>3. /\ [arrays EXCEPT ![d] = o] \in Seq(Seq(S)) /\ Len([arrays EXCEPT ![d] = o]) = Len(arrays)
      /\ \A j \in 1..Len(arrays) : [arrays EXCEPT ![d] = o][j] = IF j = d THEN o ELSE arrays[j]
  BY <1>2, ExceptSeq
<1>4. [arrays EXCEPT ![d] = Overlay(@, i, cells)] = [arrays EXCEPT ![d] = o]
  BY DEF o
<1> QED BY <1>2, <1>3, <1>4

\* fill begins with what is pending at the front of the array it reads into.
LEMMA BeginFillIs ==
    ASSUME NEW S, Typed(S), KeptIsBounded, NEW need \in Nat, BeginFill(need)
    PROVE  /\ Typed(S)' /\ KeptIsBounded'
           /\ filling = NotFilling /\ filling' # NotFilling
           /\ wire' = wire /\ Arrived' = Arrived
<1>0. /\ heap \in Seq(Seq(S)) /\ wire \in Seq(S) /\ Blank \in S /\ store \in 1..Len(heap) /\ Len(heap) \in Nat
      /\ pending \in [at : 1..Len(heap), from : Nat, len : Nat]
      /\ pending.from + pending.len <= Len(heap[pending.at])
  BY LenProperties DEF Typed
<1>1. /\ CellsOf(pending) \in Seq(S) /\ Len(CellsOf(pending)) = pending.len
  BY <1>0, CellsAre
<1>2. filling = NotFilling /\ need > pending.len /\ pending' = pending /\ wire' = wire
  BY DEF BeginFill
<1> DEFINE grow == need > Len(heap[store])
           room == GrownSize(need)
           d == IF grow THEN Len(heap) + 1 ELSE store
           arrays == IF grow THEN Append(heap, Blanks(room)) ELSE heap
<1>3. /\ heap' = [arrays EXCEPT ![d] = Overlay(@, 0, CellsOf(pending))]
      /\ store' = IF grow /\ Keeps(room) THEN d ELSE store
      /\ filling' = [need |-> need, dest |-> d, have |-> pending.len]
  BY Zenon DEF BeginFill, MovedPending
<1>4. Len(heap[store]) \in Nat
  BY <1>0, ElementOfSeq, LenProperties
<1>5. /\ room \in Nat /\ room > need
      /\ Blanks(room) \in Seq(S) /\ Len(Blanks(room)) = room
  <2>1. room \in Nat /\ room > need
    BY GrownSizeIs
  <2> HIDE DEF room
  <2> QED BY <1>0, <2>1 DEF Blanks
<1> HIDE DEF room
<1>6. /\ arrays \in Seq(Seq(S)) /\ Len(arrays) \in Nat /\ Len(arrays) >= Len(heap)
      /\ \A j \in 1..Len(heap) : arrays[j] = heap[j]
      /\ d \in 1..Len(arrays) /\ need <= Len(arrays[d])
      /\ grow => Len(arrays[d]) = room
  <2>1. CASE grow
    <3>1. /\ arrays = Append(heap, Blanks(room)) /\ d = Len(heap) + 1
      BY <2>1
    <3>2. /\ arrays \in Seq(Seq(S)) /\ Len(arrays) = Len(heap) + 1 /\ arrays[Len(heap) + 1] = Blanks(room)
          /\ \A j \in 1..Len(heap) : arrays[j] = heap[j]
      BY <1>0, <1>5, <3>1
    <3>3. d \in 1..Len(arrays) /\ Len(arrays) \in Nat /\ Len(arrays) >= Len(heap)
      BY <1>0, <3>1, <3>2
    <3>4. Len(arrays[d]) = room
      BY <1>5, <3>1, <3>2
    <3>5. need <= room
      BY <1>5
    <3> QED BY <3>2, <3>3, <3>4, <3>5
  <2>2. CASE ~grow
    BY <1>0, <1>4, <2>2
  <2> QED BY <2>1, <2>2
<1> HIDE DEF d, arrays
<1>7. /\ heap' \in Seq(Seq(S)) /\ Len(heap') = Len(arrays)
      /\ \A j \in 1..Len(arrays) : Len(heap'[j]) = Len(arrays[j])
      /\ SubSeq(heap'[d], 1, 0 + Len(CellsOf(pending))) = SubSeq(arrays[d], 1, 0) \o CellsOf(pending)
  <2>1. 0 + Len(CellsOf(pending)) <= Len(arrays[d]) /\ 0 \in Nat
    <3>1. arrays[d] \in Seq(S)
      BY <1>6, ElementOfSeq
    <3>2. Len(arrays[d]) \in Nat
      BY <3>1, LenProperties
    <3>3. pending.len \in Nat /\ pending.len < need /\ need <= Len(arrays[d])
      BY <1>0, <1>2, <1>6
    <3>4. pending.len <= Len(arrays[d])
      BY <3>2, <3>3
    <3> QED BY <1>1, <3>3, <3>4
  <2> DEFINE moved == CellsOf(pending)
  <2>2. moved \in Seq(S) /\ heap' = [arrays EXCEPT ![d] = Overlay(@, 0, moved)] /\ 0 + Len(moved) <= Len(arrays[d])
    BY <1>1, <1>3, <2>1
  <2> HIDE DEF moved
  <2>3. /\ heap' \in Seq(Seq(S)) /\ Len(heap') = Len(arrays)
        /\ \A j \in 1..Len(arrays) : Len(heap'[j]) = Len(arrays[j])
        /\ SubSeq(heap'[d], 1, 0 + Len(moved)) = SubSeq(arrays[d], 1, 0) \o moved
    <3>1. arrays \in Seq(Seq(S)) /\ d \in 1..Len(arrays)
      BY <1>6
    <3>2. 0 + Len(moved) <= Len(arrays[d])
      BY <2>2
    <3>3. moved \in Seq(S) /\ 0 \in Nat
      BY <2>2
    <3> DEFINE new == [arrays EXCEPT ![d] = Overlay(@, 0, moved)]
    <3>4. /\ new \in Seq(Seq(S)) /\ Len(new) = Len(arrays)
          /\ \A j \in 1..Len(arrays) : Len(new[j]) = Len(arrays[j])
          /\ SubSeq(new[d], 1, 0 + Len(moved)) = SubSeq(arrays[d], 1, 0) \o moved
      BY <3>1, <3>2, <3>3, CopiedTo
    <3>5. heap' = new
      BY <2>2
    <3> HIDE DEF new
    <3> QED BY <3>4, <3>5
  <2> QED BY <2>3 DEF moved
<1>8. Typed(S)'
  <2>1. store' \in 1..Len(heap')
    BY <1>0, <1>3, <1>6, <1>7
  <2>2. pending' \in [at : 1..Len(heap'), from : Nat, len : Nat]
    BY <1>0, <1>2, <1>6, <1>7
  <2>3. pending'.from + pending'.len <= Len(heap'[pending'.at])
    <3>1. pending.at \in 1..Len(heap) /\ pending.at \in 1..Len(arrays)
      BY <1>0, <1>6
    <3>2. Len(heap'[pending.at]) = Len(heap[pending.at])
      BY <1>6, <1>7, <3>1, Zenon
    <3> QED BY <1>0, <1>2, <3>2
  <2>4. filling' \in [need : Nat, dest : 1..Len(heap'), have : Nat]
    BY <1>0, <1>3, <1>6, <1>7
  <2>5. filling'.have <= Len(heap'[filling'.dest])
    <3>1. Len(heap'[d]) = Len(arrays[d]) /\ Len(arrays[d]) \in Nat
      <4>1. d \in 1..Len(arrays) /\ arrays \in Seq(Seq(S))
        BY <1>6
      <4>2. Len(heap'[d]) = Len(arrays[d])
        BY <1>7, <4>1, Zenon
      <4>3. arrays[d] \in Seq(S)
        BY <4>1, ElementOfSeq
      <4> QED BY <4>2, <4>3, LenProperties
    <3>2. filling'.have = pending.len /\ filling'.dest = d
      BY <1>3
    <3>3. pending.len <= Len(arrays[d])
      <4>1. pending.len \in Nat /\ pending.len < need /\ need <= Len(arrays[d])
        BY <1>0, <1>2, <1>6
      <4> QED BY <3>1, <4>1
    <3> QED BY <3>1, <3>2, <3>3, Zenon
  <2> QED BY <1>0, <1>2, <1>7, <2>1, <2>2, <2>3, <2>4, <2>5 DEF Typed
<1>9. KeptIsBounded'
  <2>1. CASE grow /\ Keeps(room)
    BY <1>3, <1>5, <1>6, <1>7, <2>1 DEF KeptIsBounded, Keeps
  <2>2. CASE ~(grow /\ Keeps(room))
    <3>1. store' = store
      BY <1>3, <2>2
    <3>2. store \in 1..Len(heap) /\ store \in 1..Len(arrays)
      BY <1>0, <1>6
    <3>3. Len(heap'[store]) = Len(heap[store])
      BY <1>6, <1>7, <3>2, Zenon
    <3> QED BY <3>1, <3>3, Zenon DEF KeptIsBounded
  <2> QED BY <2>1, <2>2
<1>10. filling' # NotFilling
  BY <1>3, <1>6 DEF NotFilling
<1>11. Arrived' = Arrived
  <2>1. SubSeq(arrays[d], 1, 0) = <<>>
    BY SubSeqEmpty
  <2>2. <<>> \o CellsOf(pending) = CellsOf(pending)
    BY <1>1, ConcatEmptySeq
  <2>3. SubSeq(heap'[d], 1, pending.len) = CellsOf(pending)
    <3>1. 0 + Len(CellsOf(pending)) = pending.len
      BY <1>0, <1>1
    <3> QED BY <1>7, <2>1, <2>2, <3>1, Zenon
  <2>4. Arrived' = SubSeq(heap'[filling'.dest], 1, filling'.have)
    BY <1>10, Zenon DEF Arrived, NotFilling
  <2>5. filling'.dest = d /\ filling'.have = pending.len
    BY <1>3
  <2> QED BY <1>2, <2>3, <2>4, <2>5, Zenon DEF Arrived
<1> QED BY <1>2, <1>8, <1>9, <1>10, <1>11

\* What a Read delivers moves from the wire to the end of what has arrived.
LEMMA ReadSomeIs ==
    ASSUME NEW S, Typed(S), KeptIsBounded, NEW n \in Nat, ReadSome(n)
    PROVE  /\ Typed(S)' /\ KeptIsBounded' /\ filling # NotFilling
           /\ Arrived' \o wire' = Arrived \o wire
<1>0. /\ heap \in Seq(Seq(S)) /\ wire \in Seq(S) /\ Blank \in S /\ store \in 1..Len(heap) /\ Len(heap) \in Nat
      /\ pending \in [at : 1..Len(heap), from : Nat, len : Nat]
      /\ pending.from + pending.len <= Len(heap[pending.at])
      /\ Len(wire) \in Nat
  BY LenProperties DEF Typed
<1>1. /\ filling # NotFilling
      /\ filling \in [need : Nat, dest : 1..Len(heap), have : Nat]
      /\ filling.have <= Len(heap[filling.dest])
  BY DEF Typed, ReadSome
<1> DEFINE d == filling.dest
           i == filling.have
           cells == SubSeq(wire, 1, n)
           rest == SubSeq(wire, n + 1, Len(wire))
           new == [heap EXCEPT ![d] = Overlay(@, i, cells)]
<1>2. /\ n <= Len(wire) /\ n <= Len(heap[d]) - i
      /\ heap' = new /\ wire' = rest /\ store' = store
      /\ \/ i + n >= filling.need /\ pending' = Slice(d, 0, i + n) /\ filling' = NotFilling
         \/ filling' = [filling EXCEPT !.have = i + n] /\ pending' = pending
  BY DEF ReadSome
<1>3. d \in 1..Len(heap) /\ i \in Nat /\ Len(heap[d]) \in Nat /\ heap[d] \in Seq(S)
  BY <1>0, <1>1, ElementOfSeq, LenProperties
<1>4. cells \in Seq(S) /\ Len(cells) = n /\ rest \in Seq(S)
  <2>1. wire \in Seq(S) /\ Len(wire) \in Nat /\ n <= Len(wire)
    BY <1>0, <1>2
  <2> QED BY <2>1
<1>5. /\ new \in Seq(Seq(S)) /\ Len(new) = Len(heap)
      /\ \A j \in 1..Len(heap) : Len(new[j]) = Len(heap[j])
      /\ SubSeq(new[d], 1, i + Len(cells)) = SubSeq(heap[d], 1, i) \o cells
  <2>1. i + Len(cells) <= Len(heap[d])
    <3>1. n <= Len(heap[d]) - i /\ i \in Nat /\ Len(heap[d]) \in Nat /\ Len(cells) = n
      BY <1>2, <1>3, <1>4
    <3> HIDE DEF d, i, cells
    <3> QED BY <3>1
  <2>2. heap \in Seq(Seq(S))
    BY <1>0
  <2>3. d \in 1..Len(heap) /\ i \in Nat /\ cells \in Seq(S)
    BY <1>3, <1>4
  <2> HIDE DEF d, i, cells, new
  <2> DEFINE copied == [heap EXCEPT ![d] = Overlay(@, i, cells)]
  <2>4. /\ copied \in Seq(Seq(S)) /\ Len(copied) = Len(heap)
        /\ \A j \in 1..Len(heap) : Len(copied[j]) = Len(heap[j])
        /\ SubSeq(copied[d], 1, i + Len(cells)) = SubSeq(heap[d], 1, i) \o cells
    BY <2>1, <2>2, <2>3, CopiedTo
  <2>5. copied = new
    BY DEF new
  <2> HIDE DEF copied
  <2> QED BY <2>4, <2>5, Zenon
<1> HIDE DEF new, cells, rest
<1>6. /\ heap' \in Seq(Seq(S)) /\ Len(heap') = Len(heap)
      /\ \A j \in 1..Len(heap) : Len(heap'[j]) = Len(heap[j])
      /\ SubSeq(heap'[d], 1, i + n) = SubSeq(heap[d], 1, i) \o cells
  BY <1>2, <1>4, <1>5
<1>7. Arrived' = SubSeq(heap'[d], 1, i + n)
  <2>1. CASE filling' = NotFilling /\ pending' = Slice(d, 0, i + n)
    <3>1. Arrived' = CellsOf(pending)'
      BY <2>1, Zenon DEF Arrived, NotFilling
    <3>2. CellsOf(pending)' = SubSeq(heap'[d], 0 + 1, 0 + (i + n))
      BY <2>1 DEF CellsOf, Slice
    <3>3. 0 + 1 = 1 /\ 0 + (i + n) = i + n
      BY <1>3
    <3> QED BY <3>1, <3>2, <3>3, Zenon
  <2>2. CASE filling' = [filling EXCEPT !.have = i + n]
    <3>1. filling'.dest = d /\ filling'.have = i + n
      BY <1>1, <2>2
    <3>2. filling' # NotFilling
      BY <1>3, <3>1 DEF NotFilling
    <3>3. Arrived' = SubSeq(heap'[filling'.dest], 1, filling'.have)
      BY <3>2, Zenon DEF Arrived, NotFilling
    <3> QED BY <3>1, <3>3, Zenon
  <2> QED BY <1>2, <2>1, <2>2
<1>8. Arrived' \o wire' = Arrived \o wire
  <2>1. Arrived = SubSeq(heap[d], 1, i)
    BY <1>1, Zenon DEF Arrived
  <2>2. SubSeq(heap[d], 1, i) \in Seq(S)
    BY <1>1, <1>3
  <2> DEFINE q == SubSeq(heap[d], 1, i)
  <2>3. (q \o cells) \o rest = q \o wire
    <3>1. n \in 0..Len(wire) /\ wire \in Seq(S) /\ q \in Seq(S)
      BY <1>0, <1>2, <2>2
    <3> HIDE DEF q
    <3> QED BY <3>1, MovingKeeps, Zenon DEF cells, rest
  <2>4. Arrived' = q \o cells /\ Arrived = q
    BY <1>6, <1>7, <2>1, Zenon
  <2> HIDE DEF q
  <2> QED BY <1>2, <2>3, <2>4, Zenon
<1>9. Typed(S)'
  <2>1. store' \in 1..Len(heap')
    BY <1>0, <1>2, <1>6
  <2>2. wire' \in Seq(S)
    BY <1>2, <1>4
  <2>3. /\ pending' \in [at : 1..Len(heap'), from : Nat, len : Nat]
        /\ pending'.from + pending'.len <= Len(heap'[pending'.at])
        /\ filling' # NotFilling => /\ filling' \in [need : Nat, dest : 1..Len(heap'), have : Nat]
                                    /\ filling'.have <= Len(heap'[filling'.dest])
    <3>1. CASE filling' = NotFilling /\ pending' = Slice(d, 0, i + n)
      <4>1. pending'.at = d /\ pending'.from = 0 /\ pending'.len = i + n
        BY <3>1 DEF Slice
      <4>2. d \in 1..Len(heap') /\ i + n \in Nat /\ i + n <= Len(heap'[d])
        <5>1. Len(heap'[d]) = Len(heap[d])
          BY <1>3, <1>6, Zenon
        <5>2. n <= Len(heap[d]) - i
          BY <1>2
        <5> HIDE DEF d, i
        <5> QED BY <1>3, <1>6, <5>1, <5>2
      <4>3. pending' \in [at : 1..Len(heap'), from : Nat, len : Nat]
        BY <3>1, <4>2 DEF Slice
      <4> HIDE DEF d, i
      <4>4. pending'.from + pending'.len <= Len(heap'[pending'.at])
        <5>1. heap'[pending'.at] = heap'[d]
          BY <4>1, Zenon
        <5> QED BY <4>1, <4>2, <5>1
      <4> QED BY <3>1, <4>3, <4>4, Zenon
    <3>2. CASE filling' = [filling EXCEPT !.have = i + n] /\ pending' = pending
      <4>1. filling' \in [need : Nat, dest : 1..Len(heap'), have : Nat]
        <5>1. i + n \in Nat
          BY <1>3
        <5>2. [filling EXCEPT !.have = i + n] \in [need : Nat, dest : 1..Len(heap), have : Nat]
          <6> HIDE DEF i
          <6> QED BY <1>1, <5>1
        <5> QED BY <1>6, <3>2, <5>2, Zenon
      <4>2. filling'.dest = d /\ filling'.have = i + n
        BY <1>1, <3>2
      <4>3. filling'.have <= Len(heap'[filling'.dest])
        <5>1. Len(heap'[d]) = Len(heap[d]) /\ heap'[filling'.dest] = heap'[d]
          BY <1>3, <1>6, <4>2, Zenon
        <5>2. n <= Len(heap[d]) - i
          BY <1>2
        <5> HIDE DEF d, i
        <5> QED BY <1>3, <4>2, <5>1, <5>2
      <4>4. Len(heap'[pending'.at]) = Len(heap[pending.at])
        BY <1>0, <1>6, <3>2
      <4> QED BY <1>0, <1>6, <3>2, <4>1, <4>3, <4>4
    <3> QED BY <1>2, <3>1, <3>2
  <2> QED BY <1>0, <1>6, <2>1, <2>2, <2>3 DEF Typed
<1>10. KeptIsBounded'
  BY <1>0, <1>2, <1>6 DEF KeptIsBounded
<1> QED BY <1>1, <1>8, <1>9, <1>10

\* A Read that fails leaves what had arrived before it.
LEMMA ReadFailsIs ==
    ASSUME NEW S, Typed(S), KeptIsBounded, ReadFails
    PROVE  Typed(S)' /\ KeptIsBounded' /\ filling # NotFilling /\ filling' = NotFilling
<1>1. /\ filling # NotFilling /\ filling' = NotFilling
      /\ heap' = heap /\ store' = store /\ wire' = wire /\ pending' = Slice(filling.dest, 0, filling.have)
  BY DEF ReadFails
<1>2. /\ heap \in Seq(Seq(S)) /\ wire \in Seq(S) /\ Blank \in S /\ store \in 1..Len(heap)
      /\ filling \in [need : Nat, dest : 1..Len(heap), have : Nat]
      /\ filling.have <= Len(heap[filling.dest])
  BY <1>1 DEF Typed
<1>3. /\ pending' \in [at : 1..Len(heap'), from : Nat, len : Nat]
      /\ pending'.from + pending'.len <= Len(heap'[pending'.at])
  BY <1>1, <1>2 DEF Slice
<1>4. Typed(S)'
  BY <1>1, <1>2, <1>3 DEF Typed
<1>5. KeptIsBounded'
  BY <1>1 DEF KeptIsBounded
<1> QED BY <1>1, <1>4, <1>5

\* What is left of the pending cells when the first k have been read.
LEMMA ReadingIs ==
    ASSUME NEW S, Typed(S), filling = NotFilling, NEW k \in Nat, k <= pending.len
    PROVE  /\ Arrived \in Seq(S) /\ Len(Arrived) = pending.len
           /\ CellsOf(Taken(k)) = SubSeq(Arrived, 1, k)
           /\ CellsOf(Left(k)) = SubSeq(Arrived, k + 1, Len(Arrived))
           /\ Left(k) \in [at : 1..Len(heap), from : Nat, len : Nat]
           /\ Left(k).from + Left(k).len <= Len(heap[Left(k).at])
           /\ Left(k).len = pending.len - k
<1>0. /\ heap \in Seq(Seq(S)) /\ pending \in [at : 1..Len(heap), from : Nat, len : Nat]
      /\ pending.from + pending.len <= Len(heap[pending.at])
  BY DEF Typed
<1>1. /\ Arrived \in Seq(S) /\ Len(Arrived) = pending.len
      /\ \A i \in 1..pending.len : Arrived[i] = heap[pending.at][pending.from + i]
  <2>1. Arrived = CellsOf(pending)
    BY DEF Arrived
  <2> QED BY <1>0, <2>1, CellsAre
<1>2. /\ Taken(k) \in [at : 1..Len(heap), from : Nat, len : Nat]
      /\ Taken(k).at = pending.at /\ Taken(k).from = pending.from /\ Taken(k).len = k
      /\ Left(k) \in [at : 1..Len(heap), from : Nat, len : Nat]
      /\ Left(k).at = pending.at /\ Left(k).from = pending.from + k /\ Left(k).len = pending.len - k
  BY <1>0 DEF Taken, Left, Slice
<1>3. heap[pending.at] \in Seq(S) /\ Len(heap[pending.at]) \in Nat
  BY <1>0, ElementOfSeq, LenProperties
<1> DEFINE p == pending
           l == Left(k)
           t == Taken(k)
<1>4. /\ t.from + t.len <= Len(heap[t.at])
      /\ l.from + l.len <= Len(heap[l.at])
  <2>1. /\ t.from = p.from /\ t.len = k /\ l.from = p.from + k /\ l.len = p.len - k
        /\ heap[t.at] = heap[p.at] /\ heap[l.at] = heap[p.at]
    BY <1>2, Zenon
  <2>2. p.from \in Nat /\ p.len \in Nat /\ p.from + p.len <= Len(heap[p.at]) /\ Len(heap[p.at]) \in Nat /\ k <= p.len
    BY <1>0, <1>3
  <2> HIDE DEF p, l, t
  <2> QED BY <2>1, <2>2
<1>5. CellsOf(Taken(k)) = SubSeq(Arrived, 1, k)
  <2>1. /\ CellsOf(Taken(k)) \in Seq(S) /\ Len(CellsOf(Taken(k))) = k
        /\ \A i \in 1..k : CellsOf(Taken(k))[i] = heap[pending.at][pending.from + i]
    BY <1>0, <1>2, <1>4, CellsAre
  <2>2. /\ SubSeq(Arrived, 1, k) \in Seq(S) /\ Len(SubSeq(Arrived, 1, k)) = k
        /\ \A i \in 1..k : SubSeq(Arrived, 1, k)[i] = Arrived[i]
    BY <1>0, <1>1
  <2>3. \A i \in 1..k : CellsOf(Taken(k))[i] = SubSeq(Arrived, 1, k)[i]
    <3>1. \A i \in 1..k : i \in 1..pending.len
      BY <1>0
    <3> QED BY <1>1, <2>1, <2>2, <3>1, Zenon
  <2> QED BY <2>1, <2>2, <2>3, SeqEqual
<1>6. CellsOf(Left(k)) = SubSeq(Arrived, k + 1, Len(Arrived))
  <2>1. /\ CellsOf(Left(k)) \in Seq(S) /\ Len(CellsOf(Left(k))) = pending.len - k
        /\ \A i \in 1..(pending.len - k) : CellsOf(Left(k))[i] = heap[pending.at][(pending.from + k) + i]
    BY <1>0, <1>2, <1>4, CellsAre
  <2>2. /\ SubSeq(Arrived, k + 1, Len(Arrived)) \in Seq(S) /\ Len(SubSeq(Arrived, k + 1, Len(Arrived))) = pending.len - k
        /\ \A i \in 1..(pending.len - k) : SubSeq(Arrived, k + 1, Len(Arrived))[i] = Arrived[k + i]
    BY <1>0, <1>1
  <2>3. \A i \in 1..(pending.len - k) : CellsOf(Left(k))[i] = SubSeq(Arrived, k + 1, Len(Arrived))[i]
    <3>1. \A i \in 1..(pending.len - k) : k + i \in 1..pending.len /\ pending.from + (k + i) = (pending.from + k) + i
      BY <1>0
    <3>2. \A i \in 1..(pending.len - k) : Arrived[k + i] = heap[pending.at][pending.from + (k + i)]
      BY <1>1, <3>1, Zenon
    <3> QED BY <2>1, <2>2, <3>1, <3>2, Zenon
  <2> QED BY <2>1, <2>2, <2>3, SeqEqual
<1> QED BY <1>1, <1>2, <1>4, <1>5, <1>6

-----------------------------------------------------------------------------
(* The inductive invariant.                                                *)

\* Some set holds all cells there are.  It grows with every message, and no set of
\* all messages is needed.
Cells(S) ==
    /\ Typed(S) /\ message \in Seq(S)
    /\ Frame \in S /\ \A n \in Nat : Header(n) \in S

\* The method is reading a message.
Streaming == pc \in {"frame", "header", "body"}

\* What the client has to read, while it does.
Body == <<Header(Len(message) + 1)>> \o message
Expected == IF pc = "frame" THEN <<Frame>> \o Body ELSE Body

\* The cells that have arrived and those on their way are what is left of the message;
\* between two messages there are none, unless the connection is unusable.
Exact ==
    /\ pc \in {"idle", "write", "frame", "header", "body", "scan"}
    /\ Streaming => Arrived \o wire = Expected
    /\ pc = "body" => msgLen = Len(message) + 1
    /\ ~Streaming => filling = NotFilling /\ (bad \/ (pending.len = 0 /\ wire = <<>>))

IInv == sent \in Nat /\ KeptIsBounded /\ (\E S : Cells(S)) /\ Exact

-----------------------------------------------------------------------------
(* What the steps do to it.                                                *)

\* There may be more cells.
LEMMA CellsGrow ==
    ASSUME NEW S, Typed(S), NEW T, S \subseteq T
    PROVE  Typed(T)
<1>1. Seq(S) \subseteq Seq(T)
  BY SeqMonotonic
<1>2. Seq(Seq(S)) \subseteq Seq(Seq(T))
  BY <1>1, SeqMonotonic
<1> QED BY <1>1, <1>2 DEF Typed

\* The server's answer is a sequence of some cells.
LEMMA AnswersAre ==
    ASSUME sent \in Nat, Write
    PROVE  \E T : message' \in Seq(T)
<1>1. CASE AnswerRows
  <2>1. PICK n \in 1..(Len(ResultParcels) - sent) : message' = SubSeq(ResultParcels, sent + 1, sent + n)
    BY <1>1, Zenon DEF AnswerRows, Answers
  <2>2. n \in Nat
    BY <2>1
  <2> DEFINE T == {ResultParcels[i] : i \in (sent + 1)..(sent + n)}
  <2>3. SubSeq(ResultParcels, sent + 1, sent + n) \in Seq(T)
    <3> DEFINE all == ResultParcels
    <3>1. SubSeq(all, sent + 1, sent + n) \in Seq({all[i] : i \in (sent + 1)..(sent + n)})
      <4> HIDE DEF all
      <4> QED BY <2>2, SubSeqProperties
    <3> QED BY <3>1
  <2> QED BY <2>1, <2>3, Zenon
<1>2. CASE \E x, y : message' = <<x, y>> \/ message' = <<x>>
  <2>1. PICK x, y : message' = <<x, y>> \/ message' = <<x>>
    BY <1>2, Zenon
  <2>2. <<x, y>> \in Seq({x, y}) /\ <<x>> \in Seq({x, y})
    OBVIOUS
  <2>3. message' \in Seq({x, y})
    BY <2>1, <2>2, Zenon
  <2> QED BY <2>3, Zenon
<1>3. AnswerRows \/ AnswerLob \/ AnswerEnd \/ AnswerError
  BY Zenon DEF Write
<1>4. AnswerLob \/ AnswerEnd \/ AnswerError => \E x, y : message' = <<x, y>> \/ message' = <<x>>
  BY Zenon DEF AnswerLob, AnswerEnd, AnswerError, Answers
<1> QED BY <1>1, <1>2, <1>3, <1>4, Zenon

\* What Write leaves alone, and where the client goes on.
LEMMA WriteIs ==
    ASSUME Write
    PROVE  /\ pc = "write" /\ ~bad
           /\ wire' = wire \o Framed(message')
           /\ pc' = IF tls THEN "frame" ELSE "header"
           /\ heap' = heap /\ store' = store /\ pending' = pending /\ filling' = filling
<1>1. AnswerRows \/ AnswerLob \/ AnswerEnd \/ AnswerError
  BY Zenon DEF Write
<1>2. wire' = wire \o Framed(message')
  BY <1>1, Zenon DEF AnswerRows, AnswerLob, AnswerEnd, AnswerError, Answers
<1> QED BY <1>2, Zenon DEF Write

\* The number of parcels sent stays one.
LEMMA SentIs ==
    ASSUME sent \in Nat, Next
    PROVE  sent' \in Nat
<1>1. CASE Write
  <2>1. AnswerRows \/ sent' = sent
    BY <1>1, Zenon DEF Write, AnswerLob, AnswerEnd, AnswerError
  <2>2. CASE AnswerRows
    <3>1. PICK n \in 1..(Len(ResultParcels) - sent) : sent' = sent + n
      BY <2>2, Zenon DEF AnswerRows
    <3> QED BY <3>1
  <2> QED BY <2>1, <2>2
<1>2. CASE ~Write
  <2>1. sent' = sent
    BY <1>2, Zenon DEF Next, ClientStep, WriteFails, Fill, TakeFrame, PeekHeader, TakeRows, TakeLob, TakeDrain,
       TakeCancel, Take, NextRecord, NextMultiPart, NextMultiPartEnd, NextStartSlob, NextSlobData, NextEndSlob,
       NextOther, NextEOF, Scans, Receive, ReadError, BeginNext, GetBytes, Close, Finished, server, vars
  <2> QED BY <2>1
<1> QED BY <1>1, <1>2

\* Init establishes the invariant.
LEMMA InitInv == Init => IInv
<1> SUFFICES ASSUME Init
             PROVE  IInv
  OBVIOUS
<1> DEFINE S == {Blank, Frame} \cup {Header(n) : n \in Nat}
           first == Blanks(DefaultBufSize)
<1>1. /\ heap = <<first>> /\ store = 1 /\ pending = Slice(1, 0, 0) /\ filling = NotFilling /\ wire = <<>>
      /\ pc = "write" /\ sent = 0 /\ message = <<>>
  BY DEF Init, BufferInit
<1>2. first \in Seq(S) /\ Len(first) = DefaultBufSize
  BY BufferAssumption DEF Blanks
<1>3. Frame \in S /\ (\A n \in Nat : Header(n) \in S) /\ Blank \in S
  OBVIOUS
<1> HIDE DEF S, first
<1>4. /\ heap \in Seq(Seq(S)) /\ Len(heap) = 1 /\ heap[1] = first
  BY <1>1, <1>2
<1>5. pending.at = 1 /\ pending.from = 0 /\ pending.len = 0 /\ pending \in [at : 1..1, from : Nat, len : Nat]
  BY <1>1 DEF Slice
<1>6. Typed(S)
  <2>1. wire \in Seq(S)
    BY <1>1
  <2>2. store \in 1..Len(heap) /\ pending \in [at : 1..Len(heap), from : Nat, len : Nat]
    BY <1>1, <1>4, <1>5
  <2>3. pending.from + pending.len <= Len(heap[pending.at])
    BY <1>2, <1>4, <1>5, BufferAssumption
  <2> QED BY <1>1, <1>3, <1>4, <2>1, <2>2, <2>3, Zenon DEF Typed
<1>7. Cells(S)
  BY <1>1, <1>3, <1>6 DEF Cells
<1>8. KeptIsBounded
  BY <1>1, <1>2, <1>4, BufferAssumption DEF KeptIsBounded
<1>9. Exact
  BY <1>1, <1>5 DEF Exact, Streaming
<1>10. sent \in Nat
  BY <1>1
<1> QED BY <1>7, <1>8, <1>9, <1>10, Zenon DEF IInv

\* A step that reads nothing and does not touch the buffer.
LEMMA QuietStep ==
    ASSUME IInv, sent' \in Nat, UNCHANGED <<bufferVars, message, bad>>, ~Streaming,
           pc' \in {"idle", "write", "scan"}
    PROVE  IInv'
<1>1. /\ heap' = heap /\ store' = store /\ pending' = pending /\ filling' = filling /\ wire' = wire
      /\ message' = message /\ bad' = bad
  BY Zenon DEF bufferVars
<1>2. KeptIsBounded'
  BY <1>1, Zenon DEF IInv, KeptIsBounded
<1>3. \E S : Cells(S)'
  <2>1. PICK S : Cells(S)
    BY Zenon DEF IInv
  <2>2. Typed(S) /\ message \in Seq(S) /\ Frame \in S /\ \A n \in Nat : Header(n) \in S
    BY <2>1, Zenon DEF Cells
  <2>3. Typed(S)'
    BY <1>1, <2>2, Zenon DEF Typed, NotFilling, Blank
  <2>4. Cells(S)'
    BY <1>1, <2>2, <2>3, Zenon DEF Cells, Frame, Header
  <2> QED BY <2>4, Zenon
<1>4. Exact'
  <2>1. filling = NotFilling /\ (bad \/ (pending.len = 0 /\ wire = <<>>))
    BY Zenon DEF IInv, Exact
  <2>2. filling' = NotFilling /\ (bad' \/ (pending'.len = 0 /\ wire' = <<>>))
    <3>1. filling' = NotFilling
      BY <1>1, <2>1, Zenon
    <3>2. CASE bad
      BY <1>1, <3>1, <3>2, Zenon
    <3>3. CASE pending.len = 0 /\ wire = <<>>
      BY <1>1, <3>1, <3>3, Zenon
    <3> QED BY <2>1, <3>2, <3>3, Zenon
  <2>3. pc' = "idle" \/ pc' = "write" \/ pc' = "scan"
    OBVIOUS
  <2>4. ~Streaming' /\ pc' # "body" /\ pc' \in {"idle", "write", "frame", "header", "body", "scan"}
    BY <2>3 DEF Streaming
  <2> QED BY <2>2, <2>4, Zenon DEF Exact, NotFilling
<1> QED BY <1>2, <1>3, <1>4, Zenon DEF IInv

\* A request is written, and its answer is on the way.
LEMMA WriteStep ==
    ASSUME IInv, sent' \in Nat, Write
    PROVE  IInv'
<1>1. /\ pc = "write" /\ ~bad
      /\ wire' = wire \o Framed(message')
      /\ pc' = IF tls THEN "frame" ELSE "header"
      /\ heap' = heap /\ store' = store /\ pending' = pending /\ filling' = filling
  BY WriteIs
<1>2. filling = NotFilling /\ pending.len = 0 /\ wire = <<>>
  BY <1>1 DEF IInv, Exact, Streaming
<1>3. PICK S : Cells(S)
  BY Zenon DEF IInv
<1>4. PICK T0 : message' \in Seq(T0)
  BY AnswersAre DEF IInv
<1> DEFINE T == S \cup T0
<1>5. S \subseteq T /\ message' \in Seq(T)
  <2>1. T0 \subseteq T
    OBVIOUS
  <2>2. Seq(T0) \subseteq Seq(T)
    BY <2>1, SeqMonotonic
  <2> QED BY <1>4, <2>2
<1> HIDE DEF T
<1>6. Typed(T) /\ Frame \in T /\ \A n \in Nat : Header(n) \in T
  <2>1. Typed(S) /\ Frame \in S /\ \A n \in Nat : Header(n) \in S
    BY <1>3, Zenon DEF Cells
  <2>2. Typed(T)
    BY <1>5, <2>1, CellsGrow
  <2> QED BY <1>5, <2>1, <2>2
<1> DEFINE m == message'
           frames == IF tls THEN <<Frame>> ELSE <<>>
           head == <<Header(Len(m) + 1)>>
<1>7. Len(m) \in Nat /\ Header(Len(m) + 1) \in T
  <2>1. Len(m) \in Nat
    BY <1>5, LenProperties
  <2>2. Len(m) + 1 \in Nat
    BY <2>1
  <2> QED BY <1>6, <2>1, <2>2
<1>8. m \in Seq(T) /\ frames \in Seq(T) /\ head \in Seq(T)
  <2> DEFINE h == Header(Len(m) + 1)
  <2>1. h \in T /\ Frame \in T
    BY <1>6, <1>7
  <2> HIDE DEF h
  <2>2. <<h>> \in Seq(T) /\ <<Frame>> \in Seq(T) /\ <<>> \in Seq(T)
    BY <2>1
  <2> QED BY <1>5, <2>2, Zenon DEF h
<1>9. Framed(m) = (frames \o head) \o m
  BY Zenon DEF Framed
<1> HIDE DEF m, frames, head
<1>10. head \o m \in Seq(T)
  BY <1>8, ConcatProperties
<1>11. Framed(m) = frames \o (head \o m)
  BY <1>8, <1>9, Associates
<1>12. Framed(m) \in Seq(T)
  BY <1>8, <1>10, <1>11, ConcatProperties
<1>13. wire' = Framed(m)
  BY <1>1, <1>2, <1>12, ConcatEmptySeq, Zenon DEF m
<1>14. Arrived' \o wire' = frames \o (head \o m)
  <2>1. Arrived = <<>>
    <3>1. Arrived = CellsOf(pending)
      BY <1>2, Zenon DEF Arrived
    <3>2. Len(CellsOf(pending)) = 0 /\ CellsOf(pending) \in Seq(T)
      BY <1>2, <1>6, CellsAre DEF Typed
    <3> QED BY <3>1, <3>2, EmptySeq
  <2>2. Arrived' = Arrived
    BY <1>1, Zenon DEF Arrived, CellsOf, NotFilling
  <2>3. <<>> \o Framed(m) = Framed(m)
    BY <1>12, ConcatEmptySeq
  <2> QED BY <1>11, <1>13, <2>1, <2>2, <2>3, Zenon
<1>15. Arrived' \o wire' = Expected'
  <2>1. Body' = head \o m
    BY Zenon DEF Body, Header, head, m
  <2>2. CASE tls
    <3>1. pc' = "frame" /\ frames = <<Frame>>
      BY <1>1, <2>2, Zenon DEF frames
    <3>2. Expected' = <<Frame>> \o Body'
      BY <3>1, Zenon DEF Expected, Frame
    <3> QED BY <1>14, <2>1, <3>1, <3>2, Zenon
  <2>3. CASE ~tls
    <3>1. pc' = "header" /\ frames = <<>>
      BY <1>1, <2>3, Zenon DEF frames
    <3>2. Expected' = Body'
      BY <3>1 DEF Expected
    <3>3. <<>> \o (head \o m) = head \o m
      BY <1>10, ConcatEmptySeq
    <3> QED BY <1>14, <2>1, <3>1, <3>2, <3>3, Zenon
  <2> QED BY <2>2, <2>3
<1>16. Exact'
  <2>1. pc' \in {"frame", "header"}
    BY <1>1
  <2>2. pc' # "body" /\ Streaming' /\ pc' \in {"idle", "write", "frame", "header", "body", "scan"}
    BY <2>1 DEF Streaming
  <2> QED BY <1>15, <2>2, Zenon DEF Exact
<1>17. Cells(T)'
  <2>1. wire' \in Seq(T)
    BY <1>12, <1>13
  <2>2. Typed(T)'
    BY <1>1, <1>6, <2>1, Zenon DEF Typed, NotFilling, Blank
  <2> QED BY <1>5, <1>6, <2>2, Zenon DEF Cells, Frame, Header
<1>18. KeptIsBounded'
  BY <1>1, Zenon DEF IInv, KeptIsBounded
<1> QED BY <1>16, <1>17, <1>18, Zenon DEF IInv

\* A step of the buffer that loses and adds nothing keeps the invariant.
LEMMA BufferStep ==
    ASSUME IInv, sent' \in Nat, Streaming, NEW S, Cells(S), Typed(S)', KeptIsBounded',
           Arrived' \o wire' = Arrived \o wire, UNCHANGED <<pc, message, msgLen>>
    PROVE  IInv'
<1>1. Cells(S)'
  BY Zenon DEF Cells, Frame, Header
<1>2. Exact'
  <2>1. Expected' = Expected
    BY Zenon DEF Expected, Body, Frame, Header
  <2>2. Streaming' = Streaming
    BY Zenon DEF Streaming
  <2>3. Arrived \o wire = Expected /\ pc \in {"idle", "write", "frame", "header", "body", "scan"}
    BY Zenon DEF IInv, Exact
  <2>4. pc' = "body" => msgLen' = Len(message') + 1
    BY Zenon DEF IInv, Exact
  <2>5. Arrived' \o wire' = Expected'
    BY <2>1, <2>3, Zenon
  <2>6. pc' \in {"idle", "write", "frame", "header", "body", "scan"}
    BY <2>3, Zenon
  <2> QED BY <2>2, <2>4, <2>5, <2>6, Zenon DEF Exact
<1> QED BY <1>1, <1>2, Zenon DEF IInv

\* Fill begins to read what the method wants.
LEMMA FillStep ==
    ASSUME IInv, sent' \in Nat, Fill
    PROVE  IInv'
<1>1. PICK S : Cells(S)
  BY Zenon DEF IInv
<1>2. Typed(S) /\ message \in Seq(S) /\ KeptIsBounded
  BY <1>1, Zenon DEF Cells, IInv
<1>3. /\ Streaming /\ BeginFill(Wanted) /\ pc' = pc /\ msgLen' = msgLen /\ message' = message
  BY Zenon DEF Fill, Streaming, control, server
<1>4. Wanted \in Nat
  <2>1. Len(message) \in Nat
    BY <1>2, LenProperties
  <2>2. pc = "body" => msgLen = Len(message) + 1
    BY Zenon DEF IInv, Exact
  <2> QED BY <2>1, <2>2 DEF Wanted
<1>5. Typed(S)' /\ KeptIsBounded' /\ wire' = wire /\ Arrived' = Arrived
  BY <1>2, <1>3, <1>4, BeginFillIs
<1>6. Arrived' \o wire' = Arrived \o wire
  BY <1>5, Zenon
<1> QED BY <1>1, <1>3, <1>5, <1>6, BufferStep, Zenon

\* The least of two numbers is one of them.
LEMMA LeastIs ==
    ASSUME NEW a \in Nat, NEW b \in Nat
    PROVE  Min({a, b}) \in Nat
<1>1. \E m \in {a, b} : \A x \in {a, b} : m <= x
  OBVIOUS
<1>2. Min({a, b}) \in {a, b}
  BY <1>1, Zenon DEF Min
<1> QED BY <1>2

\* A Read delivers some cells.
LEMMA ReceiveStep ==
    ASSUME IInv, sent' \in Nat, Receive
    PROVE  IInv'
<1>1. PICK S : Cells(S)
  BY Zenon DEF IInv
<1>2. Typed(S) /\ KeptIsBounded
  BY <1>1, Zenon DEF Cells, IInv
<1> DEFINE room == Len(heap[filling.dest]) - filling.have
           n == IF slow THEN 1 ELSE Min({Len(wire), room})
<1>3. /\ filling # NotFilling /\ ReadSome(n) /\ pc' = pc /\ msgLen' = msgLen /\ message' = message
  BY Zenon DEF Receive, control, server
<1>4. Streaming
  BY <1>3, Zenon DEF IInv, Exact
<1>5. n \in Nat
  <2>1. /\ heap \in Seq(Seq(S)) /\ wire \in Seq(S)
        /\ filling \in [need : Nat, dest : 1..Len(heap), have : Nat] /\ filling.have <= Len(heap[filling.dest])
    BY <1>2, <1>3 DEF Typed
  <2>2. Len(wire) \in Nat
    BY <2>1, LenProperties
  <2>3. Len(heap[filling.dest]) \in Nat
    BY <2>1, ElementOfSeq, LenProperties
  <2>4. room \in Nat
    BY <2>1, <2>3
  <2> HIDE DEF room
  <2>5. Min({Len(wire), room}) \in Nat
    BY <2>2, <2>4, LeastIs
  <2> QED BY <2>5
<1> HIDE DEF n
<1>6. Typed(S)' /\ KeptIsBounded' /\ Arrived' \o wire' = Arrived \o wire
  BY <1>2, <1>3, <1>5, ReadSomeIs
<1> QED BY <1>1, <1>3, <1>4, <1>6, BufferStep, Zenon

\* A Read that fails makes the connection unusable.
LEMMA ReadErrorStep ==
    ASSUME IInv, sent' \in Nat, ReadError
    PROVE  IInv'
<1>1. PICK S : Cells(S)
  BY Zenon DEF IInv
<1>2. Typed(S) /\ KeptIsBounded
  BY <1>1, Zenon DEF Cells, IInv
<1>3. ReadFails /\ bad' /\ pc' = "idle" /\ message' = message
  BY Zenon DEF ReadError, Failed
<1>4. Typed(S)' /\ KeptIsBounded' /\ filling' = NotFilling
  BY <1>2, <1>3, ReadFailsIs
<1>5. Cells(S)'
  BY <1>1, <1>3, <1>4, Zenon DEF Cells, Frame, Header
<1>6. Exact'
  <2>1. ~Streaming' /\ pc' # "body" /\ pc' \in {"idle", "write", "frame", "header", "body", "scan"}
    BY <1>3 DEF Streaming
  <2> QED BY <1>3, <1>4, <2>1, Zenon DEF Exact, NotFilling
<1> QED BY <1>4, <1>5, <1>6, Zenon DEF IInv

\* When a method goes on with what it wanted, it is pending.
LEMMA ReadyIs ==
    ASSUME IInv, Ready, Streaming, NEW S, Cells(S)
    PROVE  /\ filling = NotFilling /\ Arrived \in Seq(S) /\ wire \in Seq(S) /\ Len(Arrived) = pending.len
           /\ Arrived \o wire = Expected
           /\ message \in Seq(S) /\ Len(message) \in Nat /\ Header(Len(message) + 1) \in S /\ Frame \in S
           /\ Body \in Seq(S)
           /\ pending.len \in Nat /\ pending.len >= Wanted
<1>1. Typed(S) /\ message \in Seq(S) /\ Frame \in S /\ \A n \in Nat : Header(n) \in S
  BY Zenon DEF Cells
<1>2. filling = NotFilling /\ pending.len >= Wanted
  BY Zenon DEF Ready
<1>3. pending \in [at : 1..Len(heap), from : Nat, len : Nat]
  BY <1>1, Zenon DEF Typed
<1>4. 0 \in Nat /\ 0 <= pending.len /\ pending.len \in Nat
  BY <1>3
<1>5. Arrived \in Seq(S) /\ Len(Arrived) = pending.len
  BY <1>1, <1>2, <1>4, ReadingIs
<1>6. Len(message) \in Nat /\ Header(Len(message) + 1) \in S
  <2>1. Len(message) \in Nat
    BY <1>1, LenProperties
  <2>2. Len(message) + 1 \in Nat
    BY <2>1
  <2> QED BY <1>1, <2>1, <2>2, Zenon
<1>7. Body \in Seq(S)
  <2> DEFINE h == Header(Len(message) + 1)
  <2>1. h \in S
    BY <1>6
  <2> HIDE DEF h
  <2>2. <<h>> \in Seq(S)
    BY <2>1
  <2>3. <<h>> \o message \in Seq(S)
    BY <1>1, <2>2, ConcatProperties
  <2> QED BY <2>3, Zenon DEF Body, h
<1>8. Arrived \o wire = Expected
  BY Zenon DEF IInv, Exact
<1> QED BY <1>1, <1>2, <1>4, <1>5, <1>6, <1>7, <1>8, Zenon DEF Typed

\* The frame of a message is consumed.
LEMMA TakeFrameStep ==
    ASSUME IInv, sent' \in Nat, TakeFrame
    PROVE  IInv'
<1>1. PICK S : Cells(S)
  BY Zenon DEF IInv
<1>2. /\ pc = "frame" /\ pc' = "header" /\ Ready /\ pending' = Left(1)
      /\ heap' = heap /\ store' = store /\ filling' = filling /\ wire' = wire /\ message' = message
  BY Zenon DEF TakeFrame, server
<1>3. Streaming /\ Wanted = 1
  BY <1>2 DEF Streaming, Wanted
<1>4. /\ filling = NotFilling /\ Arrived \in Seq(S) /\ wire \in Seq(S) /\ Len(Arrived) = pending.len
      /\ Arrived \o wire = Expected /\ Frame \in S /\ Body \in Seq(S)
      /\ pending.len \in Nat /\ pending.len >= 1
  BY <1>1, <1>2, <1>3, ReadyIs
<1>5. Arrived \o wire = <<Frame>> \o Body
  BY <1>2, <1>4, Zenon DEF Expected
<1>6. SubSeq(Arrived, 2, Len(Arrived)) \o wire = Body
  <2>1. Len(Arrived) >= 1
    BY <1>4
  <2> DEFINE q == Arrived
             w == wire
             f == Frame
             b == Body
  <2>2. q \in Seq(S) /\ w \in Seq(S) /\ f \in S /\ b \in Seq(S) /\ q \o w = <<f>> \o b /\ Len(q) >= 1
    BY <1>4, <1>5, <2>1
  <2> HIDE DEF q, w, f, b
  <2>3. SubSeq(q, 2, Len(q)) \o w = b
    BY <2>2, FirstOfStream
  <2> QED BY <2>3 DEF q, w, b
<1>7. Typed(S) /\ 1 \in Nat /\ 1 <= pending.len
  BY <1>1, <1>4 DEF Cells
<1>8. /\ CellsOf(Left(1)) = SubSeq(Arrived, 1 + 1, Len(Arrived))
      /\ Left(1) \in [at : 1..Len(heap), from : Nat, len : Nat]
      /\ Left(1).from + Left(1).len <= Len(heap[Left(1).at])
  BY <1>4, <1>7, ReadingIs
<1>9. Typed(S)'
  BY <1>2, <1>4, <1>7, <1>8, Zenon DEF Typed, NotFilling, Blank
<1>10. Cells(S)'
  BY <1>1, <1>2, <1>9, Zenon DEF Cells, Frame, Header
<1>11. Arrived' \o wire' = Expected'
  <2>1. Arrived' = CellsOf(pending)'
    BY <1>2, <1>4, Zenon DEF Arrived, NotFilling
  <2>2. CellsOf(pending)' = CellsOf(Left(1))
    BY <1>2, Zenon DEF CellsOf
  <2>3. 1 + 1 = 2
    OBVIOUS
  <2>4. Expected' = Body
    <3>1. Body' = Body
      BY <1>2, Zenon DEF Body, Header
    <3>2. Expected' = Body'
      BY <1>2 DEF Expected
    <3> QED BY <3>1, <3>2
  <2> QED BY <1>2, <1>6, <1>8, <2>1, <2>2, <2>3, <2>4, Zenon
<1>12. Exact'
  <2>1. Streaming' /\ pc' # "body" /\ pc' \in {"idle", "write", "frame", "header", "body", "scan"}
    BY <1>2 DEF Streaming
  <2> QED BY <1>11, <2>1, Zenon DEF Exact
<1>13. KeptIsBounded'
  BY <1>2, Zenon DEF IInv, KeptIsBounded
<1> QED BY <1>10, <1>12, <1>13, Zenon DEF IInv

\* The first cell in the buffer is the header of the message.
LEMMA PeekHeaderStep ==
    ASSUME IInv, sent' \in Nat, PeekHeader
    PROVE  IInv'
<1>1. PICK S : Cells(S)
  BY Zenon DEF IInv
<1>2. /\ pc = "header" /\ pc' = "body" /\ Ready /\ msgLen' = CellsOf(Taken(1))[1].len
      /\ heap' = heap /\ store' = store /\ pending' = pending /\ filling' = filling /\ wire' = wire
      /\ message' = message
  BY Zenon DEF PeekHeader, server, bufferVars
<1>3. Streaming /\ Wanted = 1
  BY <1>2 DEF Streaming, Wanted
<1>4. /\ filling = NotFilling /\ Arrived \in Seq(S) /\ wire \in Seq(S) /\ Len(Arrived) = pending.len
      /\ Arrived \o wire = Expected /\ message \in Seq(S) /\ Header(Len(message) + 1) \in S
      /\ pending.len \in Nat /\ pending.len >= 1
  BY <1>1, <1>2, <1>3, ReadyIs
<1>5. Expected = Body
  BY <1>2 DEF Expected
<1>6. Arrived[1] = Header(Len(message) + 1)
  <2>1. Arrived \o wire = <<Header(Len(message) + 1)>> \o message
    BY <1>4, <1>5, Zenon DEF Body
  <2>2. Len(Arrived) >= 1
    BY <1>4
  <2> DEFINE q == Arrived
             w == wire
             h == Header(Len(message) + 1)
             m == message
  <2>3. q \in Seq(S) /\ w \in Seq(S) /\ h \in S /\ m \in Seq(S) /\ q \o w = <<h>> \o m /\ Len(q) >= 1
    BY <1>4, <2>1, <2>2
  <2> HIDE DEF q, w, h, m
  <2>4. q[1] = h
    BY <2>3, FirstOfStream
  <2> QED BY <2>4 DEF q, h
<1>7. Typed(S) /\ 1 \in Nat /\ 1 <= pending.len
  BY <1>1, <1>4 DEF Cells
<1>8. CellsOf(Taken(1)) = SubSeq(Arrived, 1, 1)
  BY <1>4, <1>7, ReadingIs
<1>9. SubSeq(Arrived, 1, 1)[1] = Arrived[1]
  <2> DEFINE q == Arrived
  <2>1. q \in Seq(S) /\ Len(q) \in Nat /\ Len(q) >= 1
    BY <1>4
  <2> HIDE DEF q
  <2>2. SubSeq(q, 1, 1)[1] = q[1]
    BY <2>1
  <2> QED BY <2>2 DEF q
<1>10. msgLen' = Header(Len(message) + 1).len
  BY <1>2, <1>6, <1>8, <1>9, Zenon
<1>11. msgLen' = Len(message') + 1
  BY <1>2, <1>10 DEF Header
<1>12. Arrived' \o wire' = Expected'
  <2>1. Arrived' = Arrived
    BY <1>2, Zenon DEF Arrived, CellsOf, NotFilling
  <2>2. Expected' = Body'
    BY <1>2 DEF Expected
  <2>3. Body' = Body
    BY <1>2, Zenon DEF Body, Header
  <2> QED BY <1>2, <1>4, <1>5, <2>1, <2>2, <2>3, Zenon
<1>13. Exact'
  <2>1. Streaming' /\ pc' \in {"idle", "write", "frame", "header", "body", "scan"}
    BY <1>2 DEF Streaming
  <2> QED BY <1>11, <1>12, <2>1, Zenon DEF Exact
<1>14. Typed(S)'
  BY <1>2, <1>7, Zenon DEF Typed, NotFilling, Blank
<1>15. Cells(S)'
  BY <1>1, <1>2, <1>14, Zenon DEF Cells, Frame, Header
<1>16. KeptIsBounded'
  BY <1>2, Zenon DEF IInv, KeptIsBounded
<1> QED BY <1>13, <1>15, <1>16, Zenon DEF IInv

\* The message in the buffer is the one that was sent, and all of what there is.
LEMMA MessageIs ==
    ASSUME IInv, pc = "body", Ready, NEW S, Cells(S)
    PROVE  /\ Parcels = message /\ wire = <<>> /\ pending.len = msgLen /\ msgLen \in Nat
           /\ filling = NotFilling /\ CellsOf(Taken(msgLen)) \in Seq(S)
           /\ Len(CellsOf(Taken(msgLen))) = msgLen /\ msgLen = Len(message) + 1
<1>1. Streaming /\ Wanted = msgLen /\ Expected = Body
  BY DEF Streaming, Wanted, Expected
<1>2. /\ filling = NotFilling /\ Arrived \in Seq(S) /\ wire \in Seq(S) /\ Len(Arrived) = pending.len
      /\ Arrived \o wire = Expected /\ message \in Seq(S) /\ Header(Len(message) + 1) \in S
      /\ Len(message) \in Nat /\ pending.len \in Nat /\ pending.len >= msgLen
  BY <1>1, ReadyIs
<1>3. msgLen = Len(message) + 1
  BY Zenon DEF IInv, Exact
<1>4. wire = <<>> /\ Len(Arrived) = Len(message) + 1 /\ Tail(Arrived) = message
  <2>1. Arrived \o wire = <<Header(Len(message) + 1)>> \o message
    BY <1>1, <1>2, Zenon DEF Body
  <2>2. Len(Arrived) >= Len(message) + 1
    BY <1>2, <1>3
  <2> DEFINE q == Arrived
             w == wire
             h == Header(Len(message) + 1)
             m == message
  <2>3. q \in Seq(S) /\ w \in Seq(S) /\ h \in S /\ m \in Seq(S) /\ q \o w = <<h>> \o m /\ Len(q) >= Len(m) + 1
    BY <1>2, <2>1, <2>2
  <2> HIDE DEF q, w, h, m
  <2>4. w = <<>> /\ Len(q) = Len(m) + 1 /\ Tail(q) = m
    BY <2>3, WholeStream
  <2> QED BY <2>4 DEF q, w, m
<1>5. pending.len = msgLen /\ msgLen \in Nat /\ msgLen <= pending.len
  BY <1>2, <1>3, <1>4
<1>6. CellsOf(Taken(msgLen)) = SubSeq(Arrived, 1, msgLen)
  <2>1. Typed(S)
    BY Zenon DEF Cells
  <2> QED BY <1>2, <1>5, <2>1, ReadingIs
<1>7. SubSeq(Arrived, 1, Len(Arrived)) = Arrived
  BY <1>2, SubSeqFull
<1>8. CellsOf(Taken(msgLen)) = Arrived
  BY <1>2, <1>5, <1>6, <1>7, Zenon
<1> QED BY <1>2, <1>3, <1>4, <1>5, <1>8, Zenon DEF Parcels

\* A message has been read; the result set may keep an array of its own.
LEMMA TakeStep ==
    ASSUME IInv, sent' \in Nat, Take, bad' = bad, pc' \in {"idle", "write", "scan"},
           heap' = heap \/ heap' = Append(heap, CellsOf(Taken(msgLen)))
    PROVE  IInv'
<1>1. PICK S : Cells(S)
  BY Zenon DEF IInv
<1>2. /\ pc = "body" /\ Ready /\ pending' = Left(msgLen)
      /\ store' = store /\ filling' = filling /\ wire' = wire /\ message' = message
  BY Zenon DEF Take, server
<1>3. /\ wire = <<>> /\ pending.len = msgLen /\ msgLen \in Nat
      /\ filling = NotFilling /\ CellsOf(Taken(msgLen)) \in Seq(S)
  BY <1>1, <1>2, MessageIs
<1>4. Typed(S) /\ msgLen <= pending.len
  BY <1>1, <1>3 DEF Cells
<1>5. /\ Left(msgLen) \in [at : 1..Len(heap), from : Nat, len : Nat]
      /\ Left(msgLen).from + Left(msgLen).len <= Len(heap[Left(msgLen).at])
      /\ Left(msgLen).len = 0
  <2>1. /\ Left(msgLen) \in [at : 1..Len(heap), from : Nat, len : Nat]
        /\ Left(msgLen).from + Left(msgLen).len <= Len(heap[Left(msgLen).at])
        /\ Left(msgLen).len = pending.len - msgLen
    BY <1>3, <1>4, ReadingIs
  <2>2. pending.len - msgLen = 0
    BY <1>3
  <2> QED BY <2>1, <2>2, Zenon
<1>6. heap \in Seq(Seq(S)) /\ store \in 1..Len(heap) /\ wire \in Seq(S) /\ Blank \in S /\ Len(heap) \in Nat
  BY <1>4, LenProperties DEF Typed
<1>7. /\ heap' \in Seq(Seq(S)) /\ Len(heap') \in Nat /\ Len(heap') >= Len(heap)
      /\ \A j \in 1..Len(heap) : heap'[j] = heap[j]
  <2> DEFINE cells == CellsOf(Taken(msgLen))
  <2>1. cells \in Seq(S) /\ (heap' = heap \/ heap' = Append(heap, cells))
    BY <1>3
  <2> HIDE DEF cells
  <2>2. CASE heap' = heap
    BY <1>6, <2>2
  <2>3. CASE heap' = Append(heap, cells)
    BY <1>6, <2>1, <2>3
  <2> QED BY <2>1, <2>2, <2>3
<1>8. Typed(S)'
  <2>1. store' \in 1..Len(heap')
    BY <1>2, <1>6, <1>7
  <2>2. pending' \in [at : 1..Len(heap'), from : Nat, len : Nat]
    <3>1. 1..Len(heap) \subseteq 1..Len(heap')
      BY <1>6, <1>7
    <3> QED BY <1>2, <1>5, <3>1
  <2>3. pending'.from + pending'.len <= Len(heap'[pending'.at])
    <3>1. pending'.at \in 1..Len(heap)
      BY <1>2, <1>5
    <3>2. heap'[pending'.at] = heap[pending'.at]
      BY <1>7, <3>1, Zenon
    <3> QED BY <1>2, <1>5, <3>2, Zenon
  <2> QED BY <1>2, <1>3, <1>6, <1>7, <2>1, <2>2, <2>3, Zenon DEF Typed, NotFilling, Blank
<1>9. Cells(S)'
  BY <1>1, <1>2, <1>8, Zenon DEF Cells, Frame, Header
<1>10. KeptIsBounded'
  <2>1. heap'[store'] = heap[store]
    BY <1>2, <1>6, <1>7, Zenon
  <2> QED BY <2>1, Zenon DEF IInv, KeptIsBounded
<1>11. Exact'
  <2>1. pc' = "idle" \/ pc' = "write" \/ pc' = "scan"
    OBVIOUS
  <2>2. ~Streaming' /\ pc' # "body" /\ pc' \in {"idle", "write", "frame", "header", "body", "scan"}
    BY <2>1 DEF Streaming
  <2>3. filling' = NotFilling /\ pending'.len = 0 /\ wire' = <<>>
    BY <1>2, <1>3, <1>5, Zenon
  <2> QED BY <2>2, <2>3, Zenon DEF Exact, NotFilling
<1> QED BY <1>9, <1>10, <1>11, Zenon DEF IInv

\* The steps that take a message read all of it.
LEMMA TakesAre ==
    ASSUME TakeRows \/ TakeLob \/ TakeDrain \/ TakeCancel
    PROVE  /\ Take /\ bad' = bad /\ pc' \in {"idle", "write", "scan"}
           /\ heap' = heap \/ heap' = Append(heap, CellsOf(Taken(msgLen)))
<1>1. CASE TakeRows
  <2>1. Take /\ bad' = bad /\ (pc' = "idle" \/ pc' = "scan")
    BY <1>1, Zenon DEF TakeRows
  <2>2. heap' = heap \/ heap' = Append(heap, CellsOf(Taken(msgLen)))
    BY <1>1, Zenon DEF TakeRows
  <2> QED BY <2>1, <2>2
<1>2. CASE TakeLob
  <2>1. Take /\ bad' = bad /\ pc' = "write" /\ heap' = heap
    BY <1>2, Zenon DEF TakeLob
  <2> QED BY <2>1
<1>3. CASE TakeDrain
  <2>1. Take /\ bad' = bad /\ pc' = "idle" /\ heap' = heap
    BY <1>3, Zenon DEF TakeDrain, Got
  <2> QED BY <2>1
<1>4. CASE TakeCancel
  <2>1. Take /\ bad' = bad /\ pc' = "idle" /\ heap' = heap
    BY <1>4, Zenon DEF TakeCancel, Failed
  <2> QED BY <2>1
<1> QED BY <1>1, <1>2, <1>3, <1>4, Zenon

\* The steps of Next, Close and GetBytes that touch neither the buffer nor the wire.
LEMMA QuietsAre ==
    ASSUME WriteFails \/ BeginNext \/ (\E r \in RowIds : GetBytes(r)) \/ Close
           \/ NextRecord \/ NextMultiPart \/ NextMultiPartEnd \/ NextStartSlob \/ NextSlobData
           \/ NextEndSlob \/ NextOther \/ NextEOF
    PROVE  /\ UNCHANGED <<bufferVars, message, bad>>
           /\ pc \in {"idle", "write", "scan"} /\ pc' \in {"idle", "write", "scan"}
<1> DEFINE A == UNCHANGED <<bufferVars, message, bad>>
<1>1. CASE WriteFails
  <2>1. A /\ pc = "write" /\ pc' = "idle"
    BY <1>1, Zenon DEF WriteFails, Failed, server
  <2> QED BY <2>1
<1>2. CASE BeginNext
  <2>1. A /\ pc = "idle" /\ (pc' = "write" \/ pc' = "scan")
    BY <1>2, Zenon DEF BeginNext, server
  <2> QED BY <2>1
<1>3. CASE \E r \in RowIds : GetBytes(r)
  <2>1. PICK r \in RowIds : GetBytes(r)
    BY <1>3
  <2>2. A /\ pc = "idle"
    BY <2>1, Zenon DEF GetBytes, server
  <2>3. Got(r, lobs[r], NoRow) \/ pc' = "write" \/ pc' = pc
    BY <2>1, Zenon DEF GetBytes
  <2>4. pc' = "idle" \/ pc' = "write" \/ pc' = pc
    BY <2>3, Zenon DEF Got
  <2> QED BY <2>2, <2>4
<1>4. CASE Close
  <2>1. A /\ pc = "idle" /\ (pc' = "write" \/ pc' = pc)
    BY <1>4, Zenon DEF Close, server
  <2> QED BY <2>1
<1>5. ASSUME NEW f, Scans(f), pc' = "idle" \/ pc' = "write" \/ pc' = pc
      PROVE  A /\ pc \in {"idle", "write", "scan"} /\ pc' \in {"idle", "write", "scan"}
  <2>1. A /\ pc = "scan"
    BY <1>5, Zenon DEF Scans, server
  <2> QED BY <1>5, <2>1
<1>6. ASSUME NEW d, Continue(d)
      PROVE  pc' = "idle" \/ pc' = "write" \/ pc' = pc
  BY <1>6, Zenon DEF Continue
<1>7. ASSUME NEW row, NEW l, Finalize(row, l)
      PROVE  pc' = "idle" \/ pc' = "write" \/ pc' = pc
  BY <1>7, Zenon DEF Finalize, Got
<1>8. CASE NextRecord
  BY <1>5, <1>7, <1>8, Zenon DEF NextRecord
<1>9. CASE NextMultiPart
  BY <1>5, <1>6, <1>9, Zenon DEF NextMultiPart
<1>10. CASE NextMultiPartEnd
  BY <1>5, <1>7, <1>10, Zenon DEF NextMultiPartEnd
<1>11. CASE NextStartSlob
  BY <1>5, <1>6, <1>11, Zenon DEF NextStartSlob
<1>12. CASE NextSlobData
  BY <1>5, <1>6, <1>12, Zenon DEF NextSlobData
<1>13. CASE NextEndSlob
  BY <1>5, <1>6, <1>13, Zenon DEF NextEndSlob
<1>14. CASE NextOther
  BY <1>5, <1>6, <1>14, Zenon DEF NextOther
<1>15. CASE NextEOF
  BY <1>5, <1>15, Zenon DEF NextEOF
<1> QED BY <1>1, <1>2, <1>3, <1>4, <1>8, <1>9, <1>10, <1>11, <1>12, <1>13, <1>14, <1>15, Zenon

\* Every step keeps the invariant.
LEMMA StepInv == IInv /\ [Next]_vars => IInv'
<1> SUFFICES ASSUME IInv, [Next]_vars
             PROVE  IInv'
  OBVIOUS
<1>1. CASE vars' = vars
  <2>1. /\ heap' = heap /\ store' = store /\ pending' = pending /\ filling' = filling /\ wire' = wire
        /\ message' = message /\ bad' = bad /\ pc' = pc /\ msgLen' = msgLen /\ sent' = sent
    BY <1>1, Zenon DEF vars, bufferVars, control, server
  <2>2. sent' \in Nat
    BY <2>1, Zenon DEF IInv
  <2>3. PICK S : Cells(S)
    BY Zenon DEF IInv
  <2>4. Typed(S)
    BY <2>3, Zenon DEF Cells
  <2>5. Typed(S)'
    BY <2>1, <2>4, Zenon DEF Typed, NotFilling, Blank
  <2>6. KeptIsBounded'
    BY <2>1, Zenon DEF IInv, KeptIsBounded
  <2>7. CASE Streaming
    <3>1. Arrived' = Arrived
      BY <2>1, Zenon DEF Arrived, CellsOf, NotFilling
    <3>2. Arrived' \o wire' = Arrived \o wire
      BY <2>1, <3>1, Zenon
    <3> QED BY <2>1, <2>2, <2>3, <2>5, <2>6, <2>7, <3>2, BufferStep, Zenon
  <2>8. CASE ~Streaming
    <3>1. pc \in {"idle", "write", "scan"}
      BY <2>8 DEF IInv, Exact, Streaming
    <3> QED BY <2>1, <2>2, <2>8, <3>1, QuietStep, Zenon DEF bufferVars
  <2> QED BY <2>7, <2>8
<1>2. CASE Next
  <2>1. sent' \in Nat
    BY <1>2, SentIs, Zenon DEF IInv
  <2>2. CASE Write
    BY <2>1, <2>2, WriteStep
  <2>3. CASE Fill
    BY <2>1, <2>3, FillStep
  <2>4. CASE Receive
    BY <2>1, <2>4, ReceiveStep
  <2>5. CASE ReadError
    BY <2>1, <2>5, ReadErrorStep
  <2>6. CASE TakeFrame
    BY <2>1, <2>6, TakeFrameStep
  <2>7. CASE PeekHeader
    BY <2>1, <2>7, PeekHeaderStep
  <2>8. CASE TakeRows \/ TakeLob \/ TakeDrain \/ TakeCancel
    BY <2>1, <2>8, TakesAre, TakeStep, Zenon
  <2>9. CASE WriteFails \/ BeginNext \/ (\E r \in RowIds : GetBytes(r)) \/ Close
             \/ NextRecord \/ NextMultiPart \/ NextMultiPartEnd \/ NextStartSlob \/ NextSlobData
             \/ NextEndSlob \/ NextOther \/ NextEOF
    <3>1. /\ UNCHANGED <<bufferVars, message, bad>>
          /\ pc \in {"idle", "write", "scan"} /\ pc' \in {"idle", "write", "scan"}
      BY <2>9, QuietsAre, Zenon
    <3>2. ~Streaming
      BY <3>1 DEF Streaming
    <3> QED BY <2>1, <3>1, <3>2, QuietStep, Zenon
  <2>10. CASE Finished
    BY <1>1, <2>10, Zenon DEF Finished
  <2> QED BY <1>2, <2>2, <2>3, <2>4, <2>5, <2>6, <2>7, <2>8, <2>9, <2>10, Zenon DEF Next, ClientStep
<1> QED BY <1>1, <1>2

-----------------------------------------------------------------------------
\* What the client takes from its buffer is the message the server sent, whatever the
\* arrays held before, however the message was cut and whenever reads failed; and the
\* array it keeps is bounded.
THEOREM BufferStaysExact == Spec => []BufferIsExact
<1>1. IInv => BufferIsExact
  <2> SUFFICES ASSUME IInv
               PROVE  BufferIsExact
    OBVIOUS
  <2>1. PICK S : Cells(S)
    BY Zenon DEF IInv
  <2>2. pc = "body" /\ Ready => Parcels = message
    BY <2>1, MessageIs, Zenon
  <2> QED BY <2>2, Zenon DEF BufferIsExact, IInv
<1> QED BY InitInv, StepInv, <1>1, PTL DEF Spec

-----------------------------------------------------------------------------
(* The parcels of a result.                                                *)

\* The number of parcels of a row.
PartsOf(r) == IF layout[r] = "record" THEN 1 ELSE 5

\* base[r] parcels stand before those of row r.
Laid(base) ==
    /\ base \in [1..(Rows + 1) -> Nat] /\ base[1] = 1
    /\ \A r \in RowIds : /\ base[r + 1] = base[r] + PartsOf(r)
                         /\ \A j \in 1..PartsOf(r) : ResultParcels[base[r] + j] = RowParcels(r)[j]
    /\ ResultParcels[1] = Plain("StatementInfo")
    /\ ResultParcels[base[Rows + 1] + 1] = Plain("EndStatement")
    /\ ResultParcels[base[Rows + 1] + 2] = Plain("EndRequest")
    /\ Len(ResultParcels) = base[Rows + 1] + 2
    /\ \E T : ResultParcels \in Seq(T)

\* The parcels of one row.
LEMMA RowParcelsAre ==
    ASSUME NEW r \in RowIds, layout[r] \in {"record", "inline"}
    PROVE  /\ layout[r] = "record" => RowParcels(r) = <<Parcel("Record", r, <<>>)>>
           /\ layout[r] = "inline" =>
                 /\ RowParcels(r)[1] = Parcel("MultiPartRecord", r, <<>>)
                 /\ RowParcels(r)[2] = Parcel("StartSlobData", r, <<>>)
                 /\ RowParcels(r)[3] = Parcel("SlobData", r, [i \in 1..LengthBytes |-> 0] \o Bytes(r))
                 /\ RowParcels(r)[4] = Plain("EndSlobData")
                 /\ RowParcels(r)[5] = Plain("MultiPartEnd")
           /\ Len(RowParcels(r)) = PartsOf(r)
           /\ RowParcels(r) \in Seq({RowParcels(r)[i] : i \in 1..PartsOf(r)})
<1>1. CASE layout[r] = "record"
  <2> DEFINE p == Parcel("Record", r, <<>>)
  <2>1. RowParcels(r) = <<p>> /\ PartsOf(r) = 1
    BY <1>1 DEF RowParcels, PartsOf
  <2> HIDE DEF p
  <2>2. Len(<<p>>) = 1 /\ <<p>> \in Seq({<<p>>[i] : i \in 1..1})
    OBVIOUS
  <2> QED BY <1>1, <2>1, <2>2, Zenon DEF p
<1>2. CASE layout[r] = "inline"
  <2> DEFINE a == Parcel("MultiPartRecord", r, <<>>)
             b == Parcel("StartSlobData", r, <<>>)
             c == Parcel("SlobData", r, [i \in 1..LengthBytes |-> 0] \o Bytes(r))
             d == Plain("EndSlobData")
             e == Plain("MultiPartEnd")
  <2>1. RowParcels(r) = <<a, b, c, d, e>> /\ PartsOf(r) = 5
    BY <1>2 DEF RowParcels, PartsOf
  <2> HIDE DEF a, b, c, d, e
  <2> DEFINE t == <<a, b, c, d, e>>
  <2>2. Len(t) = 5 /\ t[1] = a /\ t[2] = b /\ t[3] = c /\ t[4] = d /\ t[5] = e
    OBVIOUS
  <2>3. t \in Seq({t[i] : i \in 1..5})
    OBVIOUS
  <2> HIDE DEF t
  <2>4. RowParcels(r) = t
    BY <2>1 DEF t
  <2>5. layout[r] # "record"
    BY <1>2
  <2> QED BY <2>1, <2>2, <2>3, <2>4, <2>5, Zenon DEF a, b, c, d, e
<1> QED BY <1>1, <1>2

\* The parcels of a result are laid out row by row.
LEMMA ResultIsLaid ==
    ASSUME layout \in [RowIds -> {"record", "inline"}]
    PROVE  \E base : Laid(base)
<1> DEFINE parts == [r \in RowIds |-> RowParcels(r)]
           T == (UNION {{RowParcels(r)[i] : i \in 1..PartsOf(r)} : r \in RowIds})
                \cup {Plain("StatementInfo"), Plain("EndStatement"), Plain("EndRequest")}
           rows == FlattenSeq(parts)
<1>0. Rows \in Nat
  BY RowsAssumption
<1>1. \A r \in RowIds : layout[r] \in {"record", "inline"} /\ RowParcels(r) \in Seq(T) /\ Len(RowParcels(r)) = PartsOf(r)
                        /\ PartsOf(r) \in Nat
  <2> SUFFICES ASSUME NEW r \in RowIds
               PROVE  /\ layout[r] \in {"record", "inline"} /\ RowParcels(r) \in Seq(T)
                      /\ Len(RowParcels(r)) = PartsOf(r) /\ PartsOf(r) \in Nat
    OBVIOUS
  <2>1. layout[r] \in {"record", "inline"}
    OBVIOUS
  <2>2. RowParcels(r) \in Seq({RowParcels(r)[i] : i \in 1..PartsOf(r)}) /\ Len(RowParcels(r)) = PartsOf(r)
    BY <2>1, RowParcelsAre
  <2>3. {RowParcels(r)[i] : i \in 1..PartsOf(r)} \subseteq T
    OBVIOUS
  <2>4. Seq({RowParcels(r)[i] : i \in 1..PartsOf(r)}) \subseteq Seq(T)
    BY <2>3, SeqMonotonic
  <2>5. PartsOf(r) \in Nat
    BY DEF PartsOf
  <2> QED BY <2>1, <2>2, <2>4, <2>5
<1>2. {Plain("StatementInfo"), Plain("EndStatement"), Plain("EndRequest")} \subseteq T
  OBVIOUS
<1> HIDE DEF T
<1>3. parts \in Seq(Seq(T)) /\ Len(parts) = Rows /\ \A r \in RowIds : parts[r] = RowParcels(r)
  BY <1>0, <1>1 DEF RowIds
<1> HIDE DEF parts
<1>p. parts \in Seq(Seq(T)) /\ Len(parts) = Rows
  BY <1>3
<1>4. rows \in Seq(T) /\ \E b : Follows(rows, parts, Rows, b)
  BY <1>0, <1>p, FlattenPlaces
<1>5. PICK b : Follows(rows, parts, Rows, b)
  BY <1>4
<1>b. /\ b \in [1..(Rows + 1) -> Nat] /\ b[1] = 0 /\ b[Rows + 1] = Len(rows)
      /\ \A r \in 1..Rows : /\ b[r + 1] = b[r] + Len(parts[r])
                            /\ \A j \in 1..Len(parts[r]) : rows[b[r] + j] = parts[r][j]
  BY <1>5, Zenon DEF Follows
<1> HIDE DEF rows
<1> DEFINE first == Plain("StatementInfo")
           last == <<Plain("EndStatement"), Plain("EndRequest")>>
<1>6. ResultParcels = (<<first>> \o rows) \o last
  BY <1>3 DEF ResultParcels, rows, parts
<1>7. first \in T /\ last \in Seq(T) /\ Len(last) = 2 /\ last[1] = Plain("EndStatement") /\ last[2] = Plain("EndRequest")
  <2> DEFINE x == Plain("EndStatement")
             y == Plain("EndRequest")
  <2>1. x \in T /\ y \in T /\ first \in T
    BY <1>2
  <2> HIDE DEF x, y, first
  <2>2. <<x, y>> \in Seq(T) /\ Len(<<x, y>>) = 2 /\ <<x, y>>[1] = x /\ <<x, y>>[2] = y
    BY <2>1
  <2> QED BY <2>1, <2>2 DEF x, y
<1> HIDE DEF first, last
<1>8. <<first>> \in Seq(T) /\ Len(<<first>>) = 1 /\ <<first>>[1] = first
  BY <1>7
<1> DEFINE all == (<<first>> \o rows) \o last
           n == Len(rows)
<1>9. n \in Nat
  BY <1>4, LenProperties
<1>10. /\ all \in Seq(T) /\ Len(all) = n + 3
       /\ all[1] = first /\ (\A i \in 1..n : all[i + 1] = rows[i])
       /\ all[n + 2] = last[1] /\ all[n + 3] = last[2]
  <2> DEFINE front == <<first>> \o rows
  <2>1. /\ front \in Seq(T) /\ Len(front) = 1 + n
        /\ \A i \in 1..(1 + n) : front[i] = IF i <= 1 THEN <<first>>[i] ELSE rows[i - 1]
    <3> DEFINE h == <<first>>
    <3>1. h \in Seq(T) /\ Len(h) = 1 /\ rows \in Seq(T)
      BY <1>4, <1>8
    <3> HIDE DEF h
    <3>2. /\ h \o rows \in Seq(T) /\ Len(h \o rows) = Len(h) + Len(rows)
          /\ \A i \in 1..(Len(h) + Len(rows)) : (h \o rows)[i] = IF i <= Len(h) THEN h[i] ELSE rows[i - Len(h)]
      BY <3>1, ConcatProperties
    <3>3. Len(h) + Len(rows) = 1 + n
      BY <3>1
    <3> QED BY <3>1, <3>2, <3>3, Zenon DEF h
  <2> HIDE DEF front
  <2>2. /\ all \in Seq(T) /\ Len(all) = Len(front) + Len(last)
        /\ \A i \in 1..(Len(front) + Len(last)) : all[i] = IF i <= Len(front) THEN front[i] ELSE last[i - Len(front)]
    <3>1. all = front \o last
      BY Zenon DEF front
    <3> HIDE DEF all
    <3> QED BY <1>7, <2>1, <3>1, ConcatProperties
  <2> HIDE DEF all, n
  <2>3. Len(all) = n + 3 /\ all[n + 2] = last[1] /\ all[n + 3] = last[2]
    BY <1>7, <1>9, <2>1, <2>2
  <2>4. all[1] = first
    <3>1. all[1] = front[1]
      BY <1>7, <1>9, <2>1, <2>2
    <3>2. front[1] = <<first>>[1]
      BY <1>9, <2>1
    <3> QED BY <1>8, <3>1, <3>2, Zenon
  <2>5. ASSUME NEW i \in 1..n
        PROVE  all[i + 1] = rows[i]
    <3>1. all[i + 1] = front[i + 1]
      BY <1>7, <1>9, <2>1, <2>2
    <3>2. front[i + 1] = rows[(i + 1) - 1]
      BY <1>9, <2>1
    <3>3. (i + 1) - 1 = i
      BY <1>9
    <3> QED BY <3>1, <3>2, <3>3, Zenon
  <2> QED BY <2>2, <2>3, <2>4, <2>5, Zenon
<1> HIDE DEF all, n
<1> DEFINE base == [r \in 1..(Rows + 1) |-> b[r] + 1]
<1>11. /\ base \in [1..(Rows + 1) -> Nat] /\ base[1] = 1 /\ base[Rows + 1] = n + 1
       /\ \A r \in 1..Rows : base[r] = b[r] + 1 /\ base[r + 1] = b[r + 1] + 1
  BY <1>0, <1>b DEF n
<1> HIDE DEF base
<1>12. \A r \in RowIds : base[r + 1] = base[r] + PartsOf(r)
  <2> SUFFICES ASSUME NEW r \in RowIds
               PROVE  base[r + 1] = base[r] + PartsOf(r)
    OBVIOUS
  <2>1. r \in 1..Rows /\ r \in 1..(Rows + 1)
    BY <1>0 DEF RowIds
  <2>2. b[r + 1] = b[r] + Len(parts[r]) /\ Len(parts[r]) = PartsOf(r) /\ PartsOf(r) \in Nat /\ b[r] \in Nat
    BY <1>1, <1>3, <1>b, <2>1
  <2> QED BY <1>11, <2>1, <2>2
<1>13. \A r \in RowIds : \A j \in 1..PartsOf(r) : all[base[r] + j] = RowParcels(r)[j]
  <2> SUFFICES ASSUME NEW r \in RowIds, NEW j \in 1..PartsOf(r)
               PROVE  all[base[r] + j] = RowParcels(r)[j]
    OBVIOUS
  <2>1. r \in 1..Rows /\ r \in 1..(Rows + 1) /\ r + 1 \in 1..(Rows + 1)
    BY <1>0 DEF RowIds
  <2>n. b[r] \in Nat
    BY <1>b, <2>1
  <2>2. Len(parts[r]) = PartsOf(r) /\ PartsOf(r) \in Nat /\ parts[r] = RowParcels(r)
    BY <1>1, <1>3
  <2>3. rows[b[r] + j] = RowParcels(r)[j]
    BY <1>b, <2>1, <2>2, Zenon
  <2>4. b[r] + j \in 1..n
    <3>1. b[r] + PartsOf(r) <= n
      <4> DEFINE Below(q) == q <= Rows => b[Rows + 1 - q] <= n
                 S == {q \in Nat : Below(q)}
      <4>1. 0 \in S
        BY <1>0, <1>b, <1>9 DEF n
      <4>2. \A q \in Nat : q \in S => q + 1 \in S
        <5> SUFFICES ASSUME NEW q \in Nat, Below(q), q + 1 <= Rows
                     PROVE  b[Rows + 1 - (q + 1)] <= n
          OBVIOUS
        <5> DEFINE p == Rows + 1 - (q + 1)
        <5>1. p \in 1..Rows /\ p + 1 = Rows + 1 - q /\ q <= Rows /\ p + 1 \in 1..(Rows + 1) /\ p \in 1..(Rows + 1)
          BY <1>0
        <5> HIDE DEF p
        <5>2. b[p + 1] <= n
          BY <5>1
        <5>3. b[p + 1] = b[p] + Len(parts[p]) /\ Len(parts[p]) \in Nat /\ b[p] \in Nat
          BY <1>1, <1>3, <1>b, <5>1 DEF RowIds
        <5>4. b[p] <= n
          BY <1>9, <5>2, <5>3
        <5> QED BY <5>4 DEF p
      <4>3. Nat \subseteq S
        <5> HIDE DEF S
        <5> QED BY <4>1, <4>2, InductionByCounting
      <4>4. Rows - r \in Nat /\ Rows - r <= Rows /\ Rows + 1 - (Rows - r) = r + 1
        BY <1>0, <2>1
      <4>5. b[r + 1] <= n
        BY <4>3, <4>4
      <4>6. b[r + 1] = b[r] + PartsOf(r)
        BY <1>b, <2>1, <2>2, Zenon
      <4> QED BY <4>5, <4>6
    <3> QED BY <1>9, <2>n, <2>2, <3>1
  <2>5. base[r] + j = (b[r] + j) + 1
    <3>1. base[r] = b[r] + 1
      BY <1>11, <2>1, Zenon
    <3> QED BY <2>n, <3>1
  <2> QED BY <1>10, <2>3, <2>4, <2>5, Zenon
<1>14. all = ResultParcels
  BY <1>6 DEF all
<1>15. /\ all[base[Rows + 1] + 1] = Plain("EndStatement") /\ all[base[Rows + 1] + 2] = Plain("EndRequest")
       /\ Len(all) = base[Rows + 1] + 2
  <2>1. base[Rows + 1] + 1 = n + 2 /\ base[Rows + 1] + 2 = n + 3
    BY <1>9, <1>11
  <2> QED BY <1>7, <1>10, <2>1, Zenon
<1>16. all[1] = Plain("StatementInfo")
  BY <1>10, Zenon DEF first
<1>17. \E U : ResultParcels \in Seq(U)
  BY <1>10, <1>14, Zenon
<1>18. /\ base \in [1..(Rows + 1) -> Nat] /\ base[1] = 1
       /\ \A r \in RowIds : /\ base[r + 1] = base[r] + PartsOf(r)
                            /\ \A j \in 1..PartsOf(r) : ResultParcels[base[r] + j] = RowParcels(r)[j]
  BY <1>11, <1>12, <1>13, <1>14, Zenon
<1>19. /\ ResultParcels[1] = Plain("StatementInfo")
       /\ ResultParcels[base[Rows + 1] + 1] = Plain("EndStatement")
       /\ ResultParcels[base[Rows + 1] + 2] = Plain("EndRequest")
       /\ Len(ResultParcels) = base[Rows + 1] + 2
  BY <1>14, <1>15, <1>16, Zenon
<1> QED BY <1>17, <1>18, <1>19, Zenon DEF Laid
-----------------------------------------------------------------------------
(* What is never written again.                                            *)

\* An array that is neither the one the buffer keeps nor the one a fill reads into.
Private(a) == a \in 1..Len(heap) /\ a # store /\ (filling # NotFilling => a # filling.dest)

\* Arrays are only added, keep their lengths, and the private ones stay as they are.
HeapKeeps ==
    /\ Len(heap) \in Nat /\ Len(heap') \in Nat /\ Len(heap') >= Len(heap)
    /\ \A a \in 1..Len(heap) : /\ Len(heap'[a]) = Len(heap[a])
                               /\ Private(a) => Private(a)' /\ heap'[a] = heap[a]

\* The array that is written to keeps its length.
LEMMA OverlayLength ==
    ASSUME NEW S, NEW a \in Seq(S), NEW i \in Nat, NEW cells \in Seq(S)
    PROVE  Overlay(a, i, cells) \in Seq(S) /\ Len(Overlay(a, i, cells)) = Len(a)
<1>1. Len(a) \in Nat /\ Len(cells) \in Nat
  BY LenProperties
<1> QED BY <1>1 DEF Overlay

\* One array is replaced.
LEMMA ReplacedIs ==
    ASSUME NEW U, NEW arrays \in Seq(U), NEW d \in 1..Len(arrays), NEW v \in U
    PROVE  LET new == [arrays EXCEPT ![d] = v]
           IN /\ new \in Seq(U) /\ Len(new) = Len(arrays) /\ new[d] = v
              /\ \A j \in 1..Len(arrays) : j # d => new[j] = arrays[j]
OBVIOUS

\* An array of its own for each message that does not fit.
LEMMA FillKeeps ==
    ASSUME NEW S, Typed(S), NEW need \in Nat, BeginFill(need)
    PROVE  HeapKeeps
<1>0. /\ heap \in Seq(Seq(S)) /\ Blank \in S /\ store \in 1..Len(heap) /\ Len(heap) \in Nat
      /\ pending \in [at : 1..Len(heap), from : Nat, len : Nat]
      /\ pending.from + pending.len <= Len(heap[pending.at])
  BY LenProperties DEF Typed
<1> DEFINE grow == need > Len(heap[store])
           room == GrownSize(need)
           d == IF grow THEN Len(heap) + 1 ELSE store
           arrays == IF grow THEN Append(heap, Blanks(room)) ELSE heap
           moved == CellsOf(pending)
<1>1. /\ heap' = [arrays EXCEPT ![d] = Overlay(@, 0, moved)]
      /\ store' = IF grow /\ Keeps(room) THEN d ELSE store
      /\ filling' = [need |-> need, dest |-> d, have |-> pending.len]
      /\ filling = NotFilling
  BY Zenon DEF BeginFill, MovedPending
<1>2. moved \in Seq(S)
  BY <1>0, CellsAre
<1> HIDE DEF moved
<1>3. Blanks(room) \in Seq(S)
  <2>1. room \in Nat
    BY GrownSizeIs
  <2> HIDE DEF room
  <2> QED BY <1>0, <2>1 DEF Blanks
<1> HIDE DEF room
<1>4. /\ arrays \in Seq(Seq(S)) /\ Len(arrays) \in Nat /\ Len(arrays) >= Len(heap)
      /\ \A j \in 1..Len(heap) : arrays[j] = heap[j]
      /\ d \in 1..Len(arrays) /\ (d = store \/ d = Len(heap) + 1)
  <2>1. CASE grow
    BY <1>0, <1>3, <2>1
  <2>2. CASE ~grow
    BY <1>0, <2>2
  <2> QED BY <2>1, <2>2
<1>5. store' = store \/ store' = d
  BY <1>1
<1> HIDE DEF d, arrays
<1> DEFINE v == Overlay(arrays[d], 0, moved)
<1>6. arrays[d] \in Seq(S)
  BY <1>4, ElementOfSeq
<1>7. v \in Seq(S) /\ Len(v) = Len(arrays[d])
  BY <1>2, <1>6, OverlayLength
<1>8. heap' = [arrays EXCEPT ![d] = v]
  BY <1>1, Zenon
<1> HIDE DEF v
<1>9. /\ heap' \in Seq(Seq(S)) /\ Len(heap') = Len(arrays) /\ heap'[d] = v
      /\ \A j \in 1..Len(arrays) : j # d => heap'[j] = arrays[j]
  BY <1>4, <1>7, <1>8, ReplacedIs
<1>10. ASSUME NEW a \in 1..Len(heap)
       PROVE  /\ Len(heap'[a]) = Len(heap[a])
              /\ Private(a) => Private(a)' /\ heap'[a] = heap[a]
  <2>1. a \in 1..Len(arrays) /\ arrays[a] = heap[a] /\ a \in 1..Len(heap')
    BY <1>0, <1>4, <1>9
  <2>2. Len(heap'[a]) = Len(heap[a])
    BY <1>7, <1>9, <2>1, Zenon
  <2>3. ASSUME Private(a)
        PROVE  Private(a)' /\ heap'[a] = heap[a]
    <3>1. a # store /\ a # Len(heap) + 1
      BY <1>0, <2>3 DEF Private
    <3>2. a # d /\ a # store'
      BY <1>4, <1>5, <3>1, Zenon
    <3>3. filling'.dest = d
      BY <1>1
    <3>4. heap'[a] = heap[a]
      BY <1>9, <2>1, <3>2, Zenon
    <3> QED BY <2>1, <3>2, <3>3, <3>4, Zenon DEF Private
  <2> QED BY <2>2, <2>3
<1>11. Len(heap') \in Nat /\ Len(heap') >= Len(heap)
  BY <1>4, <1>9
<1> QED BY <1>0, <1>10, <1>11, Zenon DEF HeapKeeps

\* A Read writes to the array of the fill.
LEMMA ReceiveKeeps ==
    ASSUME NEW S, Typed(S), NEW n \in Nat, ReadSome(n)
    PROVE  HeapKeeps
<1>0. /\ heap \in Seq(Seq(S)) /\ wire \in Seq(S) /\ Len(heap) \in Nat
      /\ filling # NotFilling /\ filling \in [need : Nat, dest : 1..Len(heap), have : Nat]
      /\ Len(wire) \in Nat
  BY LenProperties DEF Typed, ReadSome
<1> DEFINE d == filling.dest
           i == filling.have
           cells == SubSeq(wire, 1, n)
           v == Overlay(heap[d], i, cells)
<1>1. /\ n <= Len(wire) /\ heap' = [heap EXCEPT ![d] = v] /\ store' = store
      /\ filling' = NotFilling \/ filling' = [filling EXCEPT !.have = i + n]
  BY DEF ReadSome
<1>2. d \in 1..Len(heap) /\ i \in Nat
  BY <1>0
<1>3. filling' # NotFilling => filling'.dest = d
  BY <1>0, <1>1
<1>4. cells \in Seq(S)
  BY <1>0, <1>1
<1> HIDE DEF d, i, cells
<1>5. heap[d] \in Seq(S)
  BY <1>0, <1>2, ElementOfSeq
<1>6. v \in Seq(S) /\ Len(v) = Len(heap[d])
  BY <1>2, <1>4, <1>5, OverlayLength
<1> HIDE DEF v
<1>7. /\ Len(heap') = Len(heap) /\ heap'[d] = v
      /\ \A j \in 1..Len(heap) : j # d => heap'[j] = heap[j]
  BY <1>0, <1>1, <1>2, <1>6, ReplacedIs
<1>8. ASSUME NEW a \in 1..Len(heap)
      PROVE  /\ Len(heap'[a]) = Len(heap[a])
             /\ Private(a) => Private(a)' /\ heap'[a] = heap[a]
  <2>1. Len(heap'[a]) = Len(heap[a])
    BY <1>6, <1>7, Zenon
  <2>2. ASSUME Private(a)
        PROVE  Private(a)' /\ heap'[a] = heap[a]
    <3>1. a # store /\ a # d
      BY <1>0, <2>2, Zenon DEF Private, d
    <3>2. heap'[a] = heap[a]
      BY <1>7, <3>1, Zenon
    <3> QED BY <1>1, <1>3, <1>7, <3>1, <3>2, Zenon DEF Private
  <2> QED BY <2>1, <2>2
<1> QED BY <1>0, <1>7, <1>8 DEF HeapKeeps

\* Nothing is written to the arrays.
LEMMA SameHeapKeeps ==
    ASSUME IInv, heap' = heap, store' = store, filling' = filling \/ filling' = NotFilling
    PROVE  HeapKeeps
<1>1. PICK S : heap \in Seq(Seq(S))
  BY Zenon DEF IInv, Cells, Typed
<1>2. Len(heap) \in Nat
  BY <1>1, LenProperties
<1>3. \A a : Private(a) => Private(a)'
  BY Zenon DEF Private, NotFilling
<1> HIDE DEF Private
<1> QED BY <1>2, <1>3 DEF HeapKeeps

\* A message is copied to an array of its own.
LEMMA OwnedKeeps ==
    ASSUME IInv, NEW c, heap' = Append(heap, c), store' = store, filling' = filling
    PROVE  HeapKeeps
<1>1. PICK S : heap \in Seq(Seq(S))
  BY Zenon DEF IInv, Cells, Typed
<1>2. Len(heap) \in Nat
  BY <1>1, LenProperties
<1> DEFINE U == Seq(S) \cup {c}
<1>3. heap \in Seq(U) /\ c \in U
  BY <1>1, SeqMonotonic
<1> HIDE DEF U
<1>4. /\ Len(heap') = Len(heap) + 1
      /\ \A j \in 1..Len(heap) : heap'[j] = heap[j]
  BY <1>3, AppendProperties
<1>5. \A a \in 1..Len(heap) : a \in 1..Len(heap')
  BY <1>2, <1>4
<1>6. \A a \in 1..Len(heap) : Private(a) => Private(a)'
  BY <1>5, Zenon DEF Private, NotFilling
<1> HIDE DEF Private
<1> QED BY <1>2, <1>4, <1>6 DEF HeapKeeps

\* Every step keeps the private arrays.
LEMMA HeapStays ==
    ASSUME IInv, Next
    PROVE  HeapKeeps
<1>1. PICK S : Cells(S)
  BY Zenon DEF IInv
<1>2. Typed(S) /\ message \in Seq(S)
  BY <1>1, Zenon DEF Cells
<1>3. CASE Fill
  <2>1. Wanted \in Nat
    <3>1. Len(message) \in Nat
      BY <1>2, LenProperties
    <3>2. pc = "body" => msgLen = Len(message) + 1
      BY Zenon DEF IInv, Exact
    <3> QED BY <3>1, <3>2 DEF Wanted
  <2>2. BeginFill(Wanted)
    BY <1>3, Zenon DEF Fill
  <2> QED BY <1>2, <2>1, <2>2, FillKeeps
<1>4. CASE Receive
  <2> DEFINE room == Len(heap[filling.dest]) - filling.have
             n == IF slow THEN 1 ELSE Min({Len(wire), room})
  <2>1. ReadSome(n) /\ filling # NotFilling
    BY <1>4, Zenon DEF Receive
  <2>2. n \in Nat
    <3>1. /\ heap \in Seq(Seq(S)) /\ wire \in Seq(S)
          /\ filling \in [need : Nat, dest : 1..Len(heap), have : Nat] /\ filling.have <= Len(heap[filling.dest])
      BY <1>2, <2>1, Zenon DEF Typed
    <3>2. Len(wire) \in Nat /\ Len(heap[filling.dest]) \in Nat
      BY <3>1, ElementOfSeq, LenProperties
    <3>3. room \in Nat
      BY <3>1, <3>2
    <3> HIDE DEF room
    <3>4. Min({Len(wire), room}) \in Nat
      BY <3>2, <3>3, LeastIs
    <3> QED BY <3>4
  <2> HIDE DEF n
  <2> QED BY <1>2, <2>1, <2>2, ReceiveKeeps
<1>5. CASE ReadError
  <2>1. heap' = heap /\ store' = store /\ filling' = NotFilling
    BY <1>5, Zenon DEF ReadError, ReadFails
  <2> QED BY <2>1, SameHeapKeeps
<1>6. CASE TakeRows \/ TakeLob \/ TakeDrain \/ TakeCancel
  <2>1. Take /\ (heap' = heap \/ heap' = Append(heap, CellsOf(Taken(msgLen))))
    BY <1>6, TakesAre
  <2>2. store' = store /\ filling' = filling
    BY <2>1, Zenon DEF Take
  <2> QED BY <2>1, <2>2, SameHeapKeeps, OwnedKeeps, Zenon
<1>7. CASE Write
  <2>1. heap' = heap /\ store' = store /\ filling' = filling
    BY <1>7, WriteIs
  <2> QED BY <2>1, SameHeapKeeps, Zenon
<1>8. CASE TakeFrame \/ PeekHeader \/ Finished
  <2>1. heap' = heap /\ store' = store /\ filling' = filling
    BY <1>8, Zenon DEF TakeFrame, PeekHeader, Finished, vars, bufferVars
  <2> QED BY <2>1, SameHeapKeeps, Zenon
<1>9. CASE WriteFails \/ BeginNext \/ (\E r \in RowIds : GetBytes(r)) \/ Close
           \/ NextRecord \/ NextMultiPart \/ NextMultiPartEnd \/ NextStartSlob \/ NextSlobData
           \/ NextEndSlob \/ NextOther \/ NextEOF
  <2>1. heap' = heap /\ store' = store /\ filling' = filling
    BY <1>9, QuietsAre, Zenon DEF bufferVars
  <2> QED BY <2>1, SameHeapKeeps, Zenon
<1> QED BY <1>3, <1>4, <1>5, <1>6, <1>7, <1>8, <1>9, Zenon DEF Next, ClientStep

-----------------------------------------------------------------------------
(* The invariant.                                                          *)

\* The slice v is the first parcel of row r, in an array nobody writes to.
Holds(v, r) ==
    /\ Private(v.at) /\ v.len = 1 /\ v.from \in Nat /\ v.from + 1 <= Len(heap[v.at])
    /\ heap[v.at][v.from + 1].kind \in {"Record", "MultiPartRecord"}
    /\ heap[v.at][v.from + 1].row = r

\* The caller has the first rows.
GivenOk ==
    /\ \E T : given \in Seq(T)
    /\ \A i \in 1..Len(given) : given[i].row = i /\ Holds(given[i].value, i)

\* Which steps belong to which calls, and when a row is being put together.
Phases ==
    /\ pc = "idle" <=> op = "none"
    /\ pc = "scan" => op = "next"
    /\ pc = "idle" \/ (op \in {"query", "next"} /\ pc # "scan") => dest = NoRow
    /\ op \in {"query", "next"} \/ dest # NoRow => status = "open"

\* What the result set has not read yet.
ReaderOk ==
    /\ reader \in [at : 1..Len(heap), from : Nat, len : Nat]
    /\ reader.from + reader.len <= Len(heap[reader.at])

\* So many parcels of the result have been read, and those left are the ones after them.
Reads == sent - reader.len
Remains ==
    reader.len > 0 => /\ Private(reader.at)
                      /\ \A i \in 1..reader.len : heap[reader.at][reader.from + i] = ResultParcels[Reads + i]
OnlyFailure == reader.len = 1 /\ Private(reader.at) /\ heap[reader.at][reader.from + 1] = Plain("Failure")

\* Parcel k is the last one before row r.
Starts(base, k, r) == r \in 1..(Rows + 1) /\ (k = base[r] \/ (r = 1 /\ k = 0))

\* Inside row r, with j of its parcels read.
InRow(base, r, j) ==
    /\ r \in RowIds /\ layout[r] = "inline" /\ Reads = base[r] + j
    /\ dest.row = r /\ Holds(dest.value, r)

\* Next is at work: between two rows, inside one, or past the last.
Scanning(base) ==
    /\ Remains
    /\ \E r \in 1..(Rows + 1) :
          /\ Len(given) = r - 1
          /\ \/ Starts(base, Reads, r) /\ dest = NoRow
             \/ \E j \in 1..4 : InRow(base, r, j)
             \/ r = Rows + 1 /\ Reads = base[r] + 1 /\ dest = NoRow

\* Next is not at work; one row may wait for its LOB.
Between(base) ==
    /\ Remains
    /\ \E r \in 1..(Rows + 1) :
          /\ Starts(base, Reads, r)
          /\ \/ dest = NoRow /\ Len(given) = r - 1
             \/ dest.row = r - 1 /\ Len(given) = r - 2 /\ Holds(dest.value, r - 1)

\* Rows are asked for and received.
Fetching(base) ==
    /\ reader.len = 0
    /\ \E r \in 1..(Rows + 1) :
          /\ Len(given) = r - 1
          /\ pc = "write" => Starts(base, sent, r)
          /\ Streaming => \/ message = <<Plain("Failure")>>
                          \/ /\ Len(message) > 0 /\ Starts(base, sent - Len(message), r)
                             /\ \A i \in 1..Len(message) : message[i] = ResultParcels[sent - Len(message) + i]

\* How far the result has been read.
Progress(base) ==
    IF pc = "scan" THEN reader.len > 0 /\ (OnlyFailure \/ Scanning(base))
    ELSE IF op \in {"query", "next"} THEN Fetching(base)
    ELSE Between(base)

Track(base) ==
    /\ status = "open" => Progress(base)
    /\ status = "eof" => Len(given) = Rows

Types == layout \in [RowIds -> {"record", "inline"}]

RowInv(base) == Laid(base) /\ Types /\ GivenOk /\ Phases /\ ReaderOk /\ Track(base)

RInv == IInv /\ \E base : RowInv(base)

-----------------------------------------------------------------------------
(* What every step keeps.                                                  *)

\* The server's choices stay.
LEMMA SetupStays ==
    ASSUME Next \/ UNCHANGED vars
    PROVE  UNCHANGED setup
<1>1. CASE Next
  <2>1. CASE \E r \in RowIds : GetBytes(r)
    BY <2>1, Zenon DEF GetBytes
  <2>2. CASE ReadError
    BY <2>2, Zenon DEF ReadError, ReadFails, Failed
  <2>3. CASE ~ReadError /\ ~\E r \in RowIds : GetBytes(r)
    <3>1. Write \/ WriteFails \/ Fill \/ TakeFrame \/ PeekHeader \/ Receive \/ BeginNext \/ Close \/ Finished
          \/ TakeRows \/ TakeLob \/ TakeDrain \/ TakeCancel
          \/ NextRecord \/ NextMultiPart \/ NextMultiPartEnd \/ NextStartSlob \/ NextSlobData \/ NextEndSlob
          \/ NextOther \/ NextEOF
      BY <1>1, <2>3, Zenon DEF Next, ClientStep
    <3> QED BY <3>1, Zenon DEF Write, WriteFails, Fill, TakeFrame, PeekHeader, Receive, BeginNext, Close, Finished, vars,
               TakeRows, TakeLob, TakeDrain, TakeCancel, Take, NextRecord, NextMultiPart, NextMultiPartEnd,
               NextStartSlob, NextSlobData, NextEndSlob, NextOther, NextEOF, Scans
  <2> QED BY <2>1, <2>2, <2>3
<1> QED BY <1>1, Zenon DEF vars

\* The result stays what it is.
LEMMA ResultStays ==
    ASSUME UNCHANGED setup
    PROVE  /\ ResultParcels' = ResultParcels /\ (Types => Types')
           /\ \A base : Laid(base) => Laid(base)'
<1>1. layout' = layout /\ size' = size
  BY Zenon DEF setup
<1>2. ResultParcels' = ResultParcels
  BY <1>1, Zenon DEF ResultParcels, RowParcels, Bytes, Parcel, Plain
<1>3. \A r : RowParcels(r)' = RowParcels(r) /\ PartsOf(r)' = PartsOf(r)
  BY <1>1, Zenon DEF RowParcels, Bytes, Parcel, Plain, PartsOf
<1>4. ASSUME NEW base, Laid(base)
      PROVE  Laid(base)'
  BY <1>2, <1>3, <1>4, Zenon DEF Laid, Plain, Parcel
<1> QED BY <1>1, <1>2, <1>4, Zenon DEF Types

\* A slice of a private array is still one.
LEMMA HoldsStays ==
    ASSUME HeapKeeps, NEW v, NEW r, Holds(v, r)
    PROVE  Holds(v, r)'
<1>1. v.at \in 1..Len(heap) /\ Private(v.at)
  BY Zenon DEF Holds, Private
<1>2. Private(v.at)' /\ heap'[v.at] = heap[v.at]
  BY <1>1, Zenon DEF HeapKeeps
<1> QED BY <1>2, Zenon DEF Holds

\* So the rows that were given stay.
LEMMA GivenStays ==
    ASSUME HeapKeeps, GivenOk, given' = given
    PROVE  GivenOk'
<1>1. ASSUME NEW i \in 1..Len(given')
      PROVE  given'[i].row = i /\ Holds(given[i].value, i)'
  <2>1. PICK x : x = given[i]
    BY Zenon
  <2>2. x.row = i /\ Holds(x.value, i)
    BY <2>1, Zenon DEF GivenOk
  <2>3. Holds(x.value, i)'
    BY <2>2, HoldsStays
  <2>4. x = given'[i]
    BY <2>1, Zenon
  <2>5. Holds(given[i].value, i)'
    BY <2>3, <2>4, Zenon DEF Holds, Private
  <2> QED BY <2>2, <2>4, <2>5, Zenon
<1>2. \E T : given' \in Seq(T)
  BY Zenon DEF GivenOk
<1> QED BY <1>1, <1>2, Zenon DEF GivenOk

\* One more row is given.
LEMMA GivenGrows ==
    ASSUME HeapKeeps, GivenOk, NEW row, given' = Append(given, row),
           row.row = Len(given) + 1, Holds(row.value, Len(given) + 1)
    PROVE  GivenOk' /\ Len(given') = Len(given) + 1
<1>1. PICK T0 : given \in Seq(T0)
  BY Zenon DEF GivenOk
<1> DEFINE T == T0 \cup {row}
<1>2. given \in Seq(T) /\ row \in T
  BY <1>1, SeqMonotonic
<1> HIDE DEF T
<1>3. /\ given' \in Seq(T) /\ Len(given') = Len(given) + 1
      /\ \A i \in 1..Len(given) : given'[i] = given[i]
      /\ given'[Len(given) + 1] = row
  BY <1>2, AppendProperties
<1>4. Len(given) \in Nat
  BY <1>1, LenProperties
<1>5. ASSUME NEW i \in 1..Len(given')
      PROVE  given'[i].row = i /\ Holds(given[i].value, i)'
  <2>1. PICK x : x = given'[i]
    BY Zenon
  <2>2. x.row = i /\ Holds(x.value, i)
    <3>1. CASE i \in 1..Len(given)
      <4>1. x = given[i]
        BY <1>3, <2>1, <3>1, Zenon
      <4> QED BY <3>1, <4>1, Zenon DEF GivenOk
    <3>2. CASE i = Len(given) + 1
      <4>1. x = row
        BY <1>3, <2>1, <3>2, Zenon
      <4> QED BY <3>2, <4>1, Zenon
    <3> QED BY <1>3, <1>4, <3>1, <3>2
  <2>3. Holds(x.value, i)'
    BY <2>2, HoldsStays
  <2>4. Holds(given[i].value, i)'
    BY <2>1, <2>3, Zenon DEF Holds, Private
  <2> QED BY <2>1, <2>2, <2>4, Zenon
<1> QED BY <1>3, <1>5, Zenon DEF GivenOk

\* What the result set has not read stays.
LEMMA ReaderStays ==
    ASSUME HeapKeeps, ReaderOk, reader' = reader, sent' = sent, ResultParcels' = ResultParcels
    PROVE  ReaderOk' /\ Reads' = Reads /\ (Remains => Remains') /\ (OnlyFailure => OnlyFailure')
<1>1. /\ reader \in [at : 1..Len(heap), from : Nat, len : Nat] /\ Len(heap) \in Nat /\ Len(heap') \in Nat
      /\ Len(heap') >= Len(heap) /\ Len(heap'[reader.at]) = Len(heap[reader.at])
  BY Zenon DEF ReaderOk, HeapKeeps
<1>2. reader.at \in 1..Len(heap)
  BY <1>1
<1>3. ReaderOk'
  <2>1. reader' \in [at : 1..Len(heap'), from : Nat, len : Nat]
    BY <1>1
  <2>2. reader'.from + reader'.len <= Len(heap'[reader'.at])
    BY <1>1, Zenon DEF ReaderOk
  <2> QED BY <2>1, <2>2, Zenon DEF ReaderOk
<1>4. Reads' = Reads
  BY Zenon DEF Reads
<1>5. Private(reader.at) => heap'[reader.at] = heap[reader.at] /\ Private(reader.at)'
  <2>1. PICK a : a = reader.at
    BY Zenon
  <2>2. Private(a) => heap'[a] = heap[a] /\ Private(a)'
    BY <1>2, <2>1, Zenon DEF HeapKeeps
  <2> QED BY <2>1, <2>2, Zenon DEF Private
<1>6. Remains => Remains'
  BY <1>4, <1>5, Zenon DEF Remains
<1>7. OnlyFailure => OnlyFailure'
  BY <1>5, Zenon DEF OnlyFailure, Plain, Parcel
<1> QED BY <1>3, <1>4, <1>6, <1>7

\* The row that is being put together stays.
LEMMA DestStays ==
    ASSUME HeapKeeps, dest' = dest
    PROVE  \A r : Holds(dest.value, r) => Holds(dest.value, r)'
<1> SUFFICES ASSUME NEW r, Holds(dest.value, r)
             PROVE  Holds(dest.value, r)'
  OBVIOUS
<1>1. PICK d : d = dest
  BY Zenon
<1>2. Holds(d.value, r)
  BY <1>1, Zenon
<1>3. Holds(d.value, r)'
  BY <1>2, HoldsStays
<1>4. d = dest'
  BY <1>1, Zenon
<1> QED BY <1>3, <1>4, Zenon DEF Holds, Private

\* Steps that move neither the rows nor the messages that carry them.
LEMMA TrackStays ==
    ASSUME HeapKeeps, NEW base, ReaderOk, Track(base), ResultParcels' = ResultParcels,
           UNCHANGED <<setup, reader, dest, status, given, sent>>,
           pc = "scan" <=> pc' = "scan",
           op \in {"query", "next"} <=> op' \in {"query", "next"},
           op \in {"query", "next"} => /\ message' = message /\ (pc' = "write" => pc = "write")
                                       /\ (Streaming' => Streaming)
    PROVE  Track(base)' /\ ReaderOk'
<1>1. /\ layout' = layout /\ reader' = reader /\ dest' = dest /\ status' = status /\ given' = given /\ sent' = sent
  BY Zenon DEF setup
<1>2. ReaderOk' /\ Reads' = Reads /\ (Remains => Remains') /\ (OnlyFailure => OnlyFailure')
  BY <1>1, ReaderStays
<1>3. \A r : Holds(dest.value, r) => Holds(dest.value, r)'
  BY <1>1, DestStays
<1>4. \A r, j : InRow(base, r, j) => InRow(base, r, j)'
  BY <1>1, <1>2, <1>3, Zenon DEF InRow, RowIds
<1>5. Scanning(base) => Scanning(base)'
  BY <1>1, <1>2, <1>4, Zenon DEF Scanning, NoRow, Slice, Starts
<1>6. Between(base) => Between(base)'
  BY <1>1, <1>2, <1>3, Zenon DEF Between, NoRow, Slice, Starts
<1>7. op \in {"query", "next"} /\ Fetching(base) => Fetching(base)'
  BY <1>1, Zenon DEF Fetching, Starts, Plain, Parcel
<1>8. Progress(base) => Progress(base)'
  BY <1>1, <1>2, <1>5, <1>6, <1>7, Zenon DEF Progress
<1>9. Track(base)'
  BY <1>1, <1>8, Zenon DEF Track
<1> QED BY <1>2, <1>9

\* The result set is not open any more.
LEMMA TrackEnds ==
    ASSUME NEW base, Track(base), status' # "open", given' = given,
           status' = "eof" => status = "eof" \/ Len(given) = Rows
    PROVE  Track(base)'
BY Zenon DEF Track

\* The first parcel that is left.
LEMMA CurrentIs ==
    ASSUME IInv, ReaderOk, reader.len > 0
    PROVE  Current = heap[reader.at][reader.from + 1]
<1>1. PICK S : heap \in Seq(Seq(S))
  BY Zenon DEF IInv, Cells, Typed
<1>2. /\ reader \in [at : 1..Len(heap), from : Nat, len : Nat]
      /\ reader.from + reader.len <= Len(heap[reader.at])
  BY Zenon DEF ReaderOk
<1> DEFINE s == reader
<1>3. \A i \in 1..s.len : CellsOf(s)[i] = heap[s.at][s.from + i]
  BY <1>1, <1>2, CellsAre
<1>4. 1 \in 1..reader.len
  BY <1>2
<1> QED BY <1>3, <1>4, Zenon DEF Current

\* The parcels of the result, where they stand.
LEMMA ParcelsAre ==
    ASSUME NEW base, Laid(base), Types
    PROVE  /\ base[1] = 1
           /\ \A r \in 1..(Rows + 1) : base[r] \in Nat
           /\ ResultParcels[1].kind = "StatementInfo"
           /\ ResultParcels[base[Rows + 1] + 1].kind = "EndStatement"
           /\ ResultParcels[base[Rows + 1] + 2].kind = "EndRequest"
           /\ \A r \in RowIds :
                 /\ layout[r] \in {"record", "inline"}
                 /\ layout[r] = "record" => /\ ResultParcels[base[r] + 1] = Parcel("Record", r, <<>>)
                                            /\ base[r + 1] = base[r] + 1
                 /\ layout[r] = "inline" =>
                       /\ ResultParcels[base[r] + 1] = Parcel("MultiPartRecord", r, <<>>)
                       /\ ResultParcels[base[r] + 2] = Parcel("StartSlobData", r, <<>>)
                       /\ ResultParcels[base[r] + 3] = Parcel("SlobData", r, [i \in 1..LengthBytes |-> 0] \o Bytes(r))
                       /\ ResultParcels[base[r] + 4] = Plain("EndSlobData")
                       /\ ResultParcels[base[r] + 5] = Plain("MultiPartEnd")
                       /\ base[r + 1] = base[r] + 5
<1>1. \A f : Plain(f).kind = f
  BY DEF Plain, Parcel
<1>2. /\ base \in [1..(Rows + 1) -> Nat] /\ base[1] = 1
      /\ ResultParcels[1] = Plain("StatementInfo")
      /\ ResultParcels[base[Rows + 1] + 1] = Plain("EndStatement")
      /\ ResultParcels[base[Rows + 1] + 2] = Plain("EndRequest")
  BY Zenon DEF Laid
<1>3. /\ ResultParcels[1].kind = "StatementInfo"
      /\ ResultParcels[base[Rows + 1] + 1].kind = "EndStatement"
      /\ ResultParcels[base[Rows + 1] + 2].kind = "EndRequest"
  BY <1>1, <1>2, Zenon
<1>4. \A r \in 1..(Rows + 1) : base[r] \in Nat
  BY <1>2
<1>5. ASSUME NEW r \in RowIds
      PROVE  /\ layout[r] \in {"record", "inline"}
             /\ layout[r] = "record" => /\ ResultParcels[base[r] + 1] = Parcel("Record", r, <<>>)
                                        /\ base[r + 1] = base[r] + 1
             /\ layout[r] = "inline" =>
                   /\ ResultParcels[base[r] + 1] = Parcel("MultiPartRecord", r, <<>>)
                   /\ ResultParcels[base[r] + 2] = Parcel("StartSlobData", r, <<>>)
                   /\ ResultParcels[base[r] + 3] = Parcel("SlobData", r, [i \in 1..LengthBytes |-> 0] \o Bytes(r))
                   /\ ResultParcels[base[r] + 4] = Plain("EndSlobData")
                   /\ ResultParcels[base[r] + 5] = Plain("MultiPartEnd")
                   /\ base[r + 1] = base[r] + 5
  <2>1. layout[r] \in {"record", "inline"}
    BY DEF Types
  <2>2. /\ base[r + 1] = base[r] + PartsOf(r)
        /\ \A j \in 1..PartsOf(r) : ResultParcels[base[r] + j] = RowParcels(r)[j]
    BY Zenon DEF Laid
  <2>3. CASE layout[r] = "record"
    <3> DEFINE p == Parcel("Record", r, <<>>)
    <3>1. RowParcels(r) = <<p>> /\ PartsOf(r) = 1
      BY <2>1, <2>3, RowParcelsAre DEF PartsOf
    <3> HIDE DEF p
    <3>2. <<p>>[1] = p /\ 1 \in 1..1
      OBVIOUS
    <3>3. ResultParcels[base[r] + 1] = p /\ base[r + 1] = base[r] + 1
      BY <2>2, <3>1, <3>2, Zenon
    <3>4. layout[r] # "inline"
      BY <2>3
    <3> QED BY <2>1, <3>3, <3>4, Zenon DEF p
  <2>4. CASE layout[r] = "inline"
    <3>1. PartsOf(r) = 5 /\ layout[r] # "record"
      BY <2>4 DEF PartsOf
    <3>2. 1 \in 1..5 /\ 2 \in 1..5 /\ 3 \in 1..5 /\ 4 \in 1..5 /\ 5 \in 1..5
      OBVIOUS
    <3>3. /\ RowParcels(r)[1] = Parcel("MultiPartRecord", r, <<>>)
          /\ RowParcels(r)[2] = Parcel("StartSlobData", r, <<>>)
          /\ RowParcels(r)[3] = Parcel("SlobData", r, [i \in 1..LengthBytes |-> 0] \o Bytes(r))
          /\ RowParcels(r)[4] = Plain("EndSlobData")
          /\ RowParcels(r)[5] = Plain("MultiPartEnd")
      BY <2>1, <2>4, RowParcelsAre, Zenon
    <3> QED BY <2>1, <2>2, <3>1, <3>2, <3>3, Zenon
  <2> QED BY <2>1, <2>3, <2>4
<1> QED BY <1>2, <1>3, <1>4, <1>5, Zenon

-----------------------------------------------------------------------------
(* What Next does with each parcel.                                        *)

\* What the next parcel may be, and where that leaves the result set.
OtherAt(base, r) ==
    /\ Current.kind \in {"StatementInfo", "EndStatement"} /\ dest = NoRow
    /\ Starts(base, Reads + 1, r) \/ (r = Rows + 1 /\ Reads + 1 = base[r] + 1)
RecordAt(base, r) ==
    /\ r \in RowIds /\ layout[r] = "record" /\ Current = Parcel("Record", r, <<>>) /\ dest = NoRow
    /\ Starts(base, Reads + 1, r + 1)
MultiPartAt(base, r) ==
    /\ r \in RowIds /\ layout[r] = "inline" /\ Current = Parcel("MultiPartRecord", r, <<>>) /\ dest = NoRow
    /\ Reads + 1 = base[r] + 1
PartAt(base, r, j) ==
    /\ InRow(base, r, j) /\ j \in 1..3 /\ Reads + 1 = base[r] + (j + 1)
    /\ j = 1 => Current = Parcel("StartSlobData", r, <<>>)
    /\ j = 2 => Current = Parcel("SlobData", r, [i \in 1..LengthBytes |-> 0] \o Bytes(r))
    /\ j = 3 => Current = Plain("EndSlobData")
RowEndAt(base, r) ==
    /\ InRow(base, r, 4) /\ Current = Plain("MultiPartEnd") /\ Starts(base, Reads + 1, r + 1)
EndAt(r) == r = Rows + 1 /\ Current.kind = "EndRequest" /\ dest = NoRow

ParcelAt(base, r) ==
    \/ OtherAt(base, r) \/ RecordAt(base, r) \/ MultiPartAt(base, r)
    \/ (\E j \in 1..3 : PartAt(base, r, j)) \/ RowEndAt(base, r) \/ EndAt(r)

\* The parcel Next is at.
LEMMA ScanIs ==
    ASSUME IInv, NEW base, RowInv(base), pc = "scan"
    PROVE  /\ status = "open" /\ op = "next" /\ reader.len \in Nat /\ reader.len > 0 /\ Private(reader.at)
           /\ \/ Current.kind = "Failure" /\ reader.len = 1
              \/ Remains /\ \E r \in 1..(Rows + 1) : Len(given) = r - 1 /\ ParcelAt(base, r)
<1>0. Rows \in Nat /\ RowIds = 1..Rows
  BY RowsAssumption DEF RowIds
<1>1. /\ Laid(base) /\ Types /\ GivenOk /\ Phases /\ ReaderOk /\ Track(base)
  BY Zenon DEF RowInv
<1>2. status = "open" /\ op = "next"
  BY <1>1 DEF Phases
<1>3. reader.len > 0 /\ (OnlyFailure \/ Scanning(base))
  BY <1>1, <1>2, Zenon DEF Track, Progress
<1>4. Current = heap[reader.at][reader.from + 1]
  BY <1>1, <1>3, CurrentIs
<1>5. reader.len \in Nat
  BY <1>1 DEF ReaderOk
<1>6. CASE OnlyFailure
  <2>1. Current = Plain("Failure") /\ reader.len = 1 /\ Private(reader.at)
    BY <1>4, <1>6, Zenon DEF OnlyFailure
  <2>2. Current.kind = "Failure"
    BY <2>1 DEF Plain, Parcel
  <2> QED BY <1>2, <1>3, <1>5, <2>1, <2>2
<1>7. CASE Scanning(base)
  <2>1. Remains /\ Private(reader.at)
    BY <1>3, <1>7, Zenon DEF Scanning, Remains
  <2>2. Current = ResultParcels[Reads + 1]
    <3>1. 1 \in 1..reader.len
      BY <1>3, <1>5
    <3> QED BY <1>3, <1>4, <2>1, <3>1, Zenon DEF Remains
  <2>3. PICK r \in 1..(Rows + 1) :
          /\ Len(given) = r - 1
          /\ \/ Starts(base, Reads, r) /\ dest = NoRow
             \/ \E j \in 1..4 : InRow(base, r, j)
             \/ r = Rows + 1 /\ Reads = base[r] + 1 /\ dest = NoRow
    BY <1>7, Zenon DEF Scanning
  <2> DEFINE k == Reads
             cell == Current
  <2>4. cell = ResultParcels[k + 1]
    BY <2>2
  <2>5. /\ base[1] = 1 /\ \A q \in 1..(Rows + 1) : base[q] \in Nat
    BY <1>1, ParcelsAre, Zenon
  <2>6. r \in RowIds => /\ layout[r] = "record" => /\ ResultParcels[base[r] + 1] = Parcel("Record", r, <<>>)
                                                   /\ base[r + 1] = base[r] + 1
                        /\ layout[r] = "inline" =>
                              /\ ResultParcels[base[r] + 1] = Parcel("MultiPartRecord", r, <<>>)
                              /\ ResultParcels[base[r] + 2] = Parcel("StartSlobData", r, <<>>)
                              /\ ResultParcels[base[r] + 3] = Parcel("SlobData", r, [i \in 1..LengthBytes |-> 0] \o Bytes(r))
                              /\ ResultParcels[base[r] + 4] = Plain("EndSlobData")
                              /\ ResultParcels[base[r] + 5] = Plain("MultiPartEnd")
                              /\ base[r + 1] = base[r] + 5
                        /\ layout[r] = "record" \/ layout[r] = "inline"
    <3> SUFFICES ASSUME r \in RowIds
                 PROVE  /\ layout[r] = "record" => /\ ResultParcels[base[r] + 1] = Parcel("Record", r, <<>>)
                                                   /\ base[r + 1] = base[r] + 1
                        /\ layout[r] = "inline" =>
                              /\ ResultParcels[base[r] + 1] = Parcel("MultiPartRecord", r, <<>>)
                              /\ ResultParcels[base[r] + 2] = Parcel("StartSlobData", r, <<>>)
                              /\ ResultParcels[base[r] + 3] = Parcel("SlobData", r, [i \in 1..LengthBytes |-> 0] \o Bytes(r))
                              /\ ResultParcels[base[r] + 4] = Plain("EndSlobData")
                              /\ ResultParcels[base[r] + 5] = Plain("MultiPartEnd")
                              /\ base[r + 1] = base[r] + 5
                        /\ layout[r] = "record" \/ layout[r] = "inline"
      BY Zenon
    <3>1. layout[r] = "record" \/ layout[r] = "inline"
      BY <1>1, ParcelsAre
    <3> QED BY <1>1, <3>1, ParcelsAre, Zenon
  <2>7. ResultParcels[1].kind = "StatementInfo" /\ ResultParcels[base[Rows + 1] + 1].kind = "EndStatement"
        /\ ResultParcels[base[Rows + 1] + 2].kind = "EndRequest"
    BY <1>1, ParcelsAre, Zenon
  <2>8. base[r] \in Nat /\ r \in Nat /\ 1 <= r /\ r <= Rows + 1 /\ 1 \in 1..(Rows + 1)
    BY <1>0, <2>5
  <2>9. r \in RowIds => r + 1 \in 1..(Rows + 1)
    BY <1>0
  <2>10. r \in RowIds \/ r = Rows + 1
    BY <1>0
  <2>11. CASE Starts(base, Reads, r) /\ dest = NoRow
    <3>1. CASE r = 1 /\ k = 0
      <4>1. cell.kind = "StatementInfo"
        BY <2>4, <2>7, <3>1
      <4>2. k + 1 = base[r]
        BY <2>5, <3>1
      <4>3. Starts(base, k + 1, r)
        BY <4>2, Zenon DEF Starts
      <4>4. cell.kind \in {"StatementInfo", "EndStatement"}
        BY <4>1
      <4>5. OtherAt(base, r)
        BY <2>11, <4>3, <4>4, Zenon DEF OtherAt
      <4> QED BY <1>2, <1>3, <1>5, <2>1, <2>3, <4>5, Zenon DEF ParcelAt
    <3>2. CASE k = base[r]
      <4>1. CASE r = Rows + 1
        <5>1. cell.kind = "EndStatement"
          BY <2>4, <2>7, <3>2, <4>1, Zenon
        <5>2. k + 1 = base[r] + 1 /\ cell.kind \in {"StatementInfo", "EndStatement"}
          BY <3>2, <5>1
        <5>3. OtherAt(base, r)
          BY <2>11, <4>1, <5>2, Zenon DEF OtherAt
        <5> QED BY <1>2, <1>3, <1>5, <2>1, <2>3, <5>3, Zenon DEF ParcelAt
      <4>2. CASE r \in RowIds /\ layout[r] = "record"
        <5>1. cell = Parcel("Record", r, <<>>) /\ k + 1 = base[r + 1]
          BY <2>4, <2>6, <3>2, <4>2, Zenon
        <5>2. Starts(base, k + 1, r + 1)
          BY <2>9, <4>2, <5>1, Zenon DEF Starts
        <5>3. RecordAt(base, r)
          BY <2>11, <4>2, <5>1, <5>2, Zenon DEF RecordAt
        <5> QED BY <1>2, <1>3, <1>5, <2>1, <2>3, <5>3, Zenon DEF ParcelAt
      <4>3. CASE r \in RowIds /\ layout[r] = "inline"
        <5>1. cell = Parcel("MultiPartRecord", r, <<>>) /\ k + 1 = base[r] + 1
          BY <2>4, <2>6, <3>2, <4>3, Zenon
        <5>2. MultiPartAt(base, r)
          BY <2>11, <4>3, <5>1, Zenon DEF MultiPartAt
        <5> QED BY <1>2, <1>3, <1>5, <2>1, <2>3, <5>2, Zenon DEF ParcelAt
      <4> QED BY <2>6, <2>10, <4>1, <4>2, <4>3, Zenon
    <3> QED BY <2>11, <3>1, <3>2, Zenon DEF Starts
  <2>12. CASE \E j \in 1..4 : InRow(base, r, j)
    <3>1. PICK j \in 1..4 : InRow(base, r, j)
      BY <2>12
    <3>2. k = base[r] + j /\ r \in RowIds /\ layout[r] = "inline"
      BY <3>1, Zenon DEF InRow
    <3>3. j = 1 \/ j = 2 \/ j = 3 \/ j = 4
      BY <3>1
    <3>4. k + 1 = base[r] + (j + 1)
      BY <2>8, <3>2
    <3>5. cell = ResultParcels[base[r] + (j + 1)]
      BY <2>4, <3>4, Zenon
    <3>6. CASE j = 4
      <4>1. j + 1 = 5
        BY <3>6
      <4>2. cell = Plain("MultiPartEnd") /\ k + 1 = base[r + 1]
        BY <2>6, <3>2, <3>4, <3>5, <4>1, Zenon
      <4>3. Starts(base, k + 1, r + 1)
        BY <2>9, <3>2, <4>2, Zenon DEF Starts
      <4>4. RowEndAt(base, r)
        BY <3>1, <3>6, <4>2, <4>3, Zenon DEF RowEndAt
      <4> QED BY <1>2, <1>3, <1>5, <2>1, <2>3, <4>4, Zenon DEF ParcelAt
    <3>7. CASE j # 4
      <4>1. j \in 1..3
        BY <3>3, <3>7
      <4>2. 1 + 1 = 2 /\ 2 + 1 = 3 /\ 3 + 1 = 4
        OBVIOUS
      <4>3. j = 1 => cell = Parcel("StartSlobData", r, <<>>)
        BY <2>6, <3>2, <3>5, <4>2, Zenon
      <4>4. j = 2 => cell = Parcel("SlobData", r, [i \in 1..LengthBytes |-> 0] \o Bytes(r))
        BY <2>6, <3>2, <3>5, <4>2, Zenon
      <4>5. j = 3 => cell = Plain("EndSlobData")
        BY <2>6, <3>2, <3>5, <4>2, Zenon
      <4>6. PartAt(base, r, j)
        BY <3>1, <3>4, <4>1, <4>3, <4>4, <4>5, Zenon DEF PartAt
      <4> QED BY <1>2, <1>3, <1>5, <2>1, <2>3, <4>1, <4>6, Zenon DEF ParcelAt
    <3> QED BY <3>6, <3>7
  <2>13. CASE r = Rows + 1 /\ Reads = base[r] + 1 /\ dest = NoRow
    <3>1. k + 1 = base[r] + 2
      BY <2>8, <2>13
    <3>2. cell.kind = "EndRequest"
      BY <2>4, <2>7, <2>13, <3>1, Zenon
    <3>3. EndAt(r)
      BY <2>13, <3>2, Zenon DEF EndAt
    <3> QED BY <1>2, <1>3, <1>5, <2>1, <2>3, <3>3, Zenon DEF ParcelAt
  <2> QED BY <2>3, <2>11, <2>12, <2>13, Zenon
<1> QED BY <1>3, <1>6, <1>7

\* Its kind tells where Next is.
LEMMA KindTells ==
    ASSUME NEW base, NEW r, ParcelAt(base, r)
    PROVE  /\ Current.kind \in {"StatementInfo", "EndStatement"} => OtherAt(base, r)
           /\ Current.kind = "Record" => RecordAt(base, r)
           /\ Current.kind = "MultiPartRecord" => MultiPartAt(base, r)
           /\ Current.kind = "StartSlobData" => PartAt(base, r, 1)
           /\ Current.kind = "SlobData" => PartAt(base, r, 2)
           /\ Current.kind = "EndSlobData" => PartAt(base, r, 3)
           /\ Current.kind = "MultiPartEnd" => RowEndAt(base, r)
           /\ Current.kind = "EndRequest" => EndAt(r)
           /\ Current.kind # "Failure"
<1> DEFINE f == Current.kind
<1>0. \A g, q, b : Parcel(g, q, b).kind = g /\ Plain(g).kind = g
  BY DEF Parcel, Plain
<1>1. CASE OtherAt(base, r)
  <2>1. f = "StatementInfo" \/ f = "EndStatement"
    BY <1>1 DEF OtherAt
  <2> HIDE DEF f
  <2> QED BY <1>1, <2>1 DEF f
<1>2. CASE RecordAt(base, r)
  <2>1. f = "Record"
    BY <1>0, <1>2, Zenon DEF RecordAt
  <2> HIDE DEF f
  <2> QED BY <1>2, <2>1 DEF f
<1>3. CASE MultiPartAt(base, r)
  <2>1. f = "MultiPartRecord"
    BY <1>0, <1>3, Zenon DEF MultiPartAt
  <2> HIDE DEF f
  <2> QED BY <1>3, <2>1 DEF f
<1>4. CASE \E j \in 1..3 : PartAt(base, r, j)
  <2>1. PICK j \in 1..3 : PartAt(base, r, j)
    BY <1>4
  <2>2. CASE j = 1
    <3>1. f = "StartSlobData"
      <4>1. Current = Parcel("StartSlobData", r, <<>>)
        BY <2>1, <2>2, Zenon DEF PartAt
      <4> QED BY <4>1 DEF Parcel
    <3> HIDE DEF f
    <3> QED BY <2>1, <2>2, <3>1 DEF f
  <2>3. CASE j = 2
    <3>1. f = "SlobData"
      <4> DEFINE data == [i \in 1..LengthBytes |-> 0] \o Bytes(r)
      <4>1. Current = Parcel("SlobData", r, data)
        BY <2>1, <2>3, Zenon DEF PartAt
      <4> HIDE DEF data
      <4> QED BY <4>1 DEF Parcel
    <3> HIDE DEF f
    <3> QED BY <2>1, <2>3, <3>1 DEF f
  <2>4. CASE j = 3
    <3>1. f = "EndSlobData"
      BY <1>0, <2>1, <2>4, Zenon DEF PartAt
    <3> HIDE DEF f
    <3> QED BY <2>1, <2>4, <3>1 DEF f
  <2> QED BY <2>2, <2>3, <2>4
<1>5. CASE RowEndAt(base, r)
  <2>1. f = "MultiPartEnd"
    BY <1>0, <1>5, Zenon DEF RowEndAt
  <2> HIDE DEF f
  <2> QED BY <1>5, <2>1 DEF f
<1>6. CASE EndAt(r)
  <2>1. f = "EndRequest"
    BY <1>6, Zenon DEF EndAt
  <2> HIDE DEF f
  <2> QED BY <1>6, <2>1 DEF f
<1> QED BY <1>1, <1>2, <1>3, <1>4, <1>5, <1>6, Zenon DEF ParcelAt

\* A parcel is read.
LEMMA AdvancedIs ==
    ASSUME IInv, ReaderOk, reader.len > 0, reader' = Advanced, UNCHANGED bufferVars, sent' = sent,
           ResultParcels' = ResultParcels
    PROVE  /\ ReaderOk' /\ Reads' = Reads + 1 /\ reader'.len = reader.len - 1
           /\ Remains => Remains'
<1>1. /\ reader.at \in 1..Len(heap) /\ reader.from \in Nat /\ reader.len \in Nat
      /\ reader.from + reader.len <= Len(heap[reader.at])
  BY DEF ReaderOk
<1>2. heap' = heap /\ store' = store /\ filling' = filling
  BY Zenon DEF bufferVars
<1>3. /\ reader'.at = reader.at /\ reader'.from = reader.from + 1 /\ reader'.len = reader.len - 1
      /\ reader' \in [at : 1..Len(heap), from : Nat, len : Nat]
  <2>1. reader' = [at |-> reader.at, from |-> reader.from + 1, len |-> reader.len - 1]
    BY Zenon DEF Advanced, Slice
  <2>2. reader.from + 1 \in Nat /\ reader.len - 1 \in Nat
    BY <1>1
  <2> QED BY <1>1, <2>1, <2>2
<1>4. ReaderOk'
  <2> DEFINE n == Len(heap[reader.at])
  <2>1. reader.from + reader.len <= n
    BY <1>1
  <2>2. (reader.from + 1) + (reader.len - 1) = reader.from + reader.len
    BY <1>1
  <2>3. reader'.from + reader'.len <= Len(heap'[reader'.at])
    BY <1>2, <1>3, <2>1, <2>2, Zenon
  <2> QED BY <1>2, <1>3, <2>3, Zenon DEF ReaderOk
<1>5. sent \in Nat
  BY Zenon DEF IInv
<1>6. Reads' = Reads + 1
  BY <1>1, <1>3, <1>5 DEF Reads
<1>7. ASSUME Remains
      PROVE  Remains'
  <2>1. /\ Private(reader.at)
        /\ \A i \in 1..reader.len : heap[reader.at][reader.from + i] = ResultParcels[Reads + i]
    BY <1>7, Zenon DEF Remains
  <2>2. Private(reader.at)'
    BY <1>2, <1>3, <2>1, Zenon DEF Private, NotFilling
  <2>3. ASSUME NEW i \in 1..reader'.len
        PROVE  heap'[reader'.at][reader'.from + i] = ResultParcels'[Reads' + i]
    <3>1. i + 1 \in 1..reader.len
      BY <1>1, <1>3
    <3>2. reader'.from + i = reader.from + (i + 1) /\ i \in Int
      BY <1>1, <1>3
    <3>3. Reads' + i = Reads + (i + 1)
      <4>1. Reads \in Int
        BY <1>1, <1>5 DEF Reads
      <4> QED BY <1>6, <3>2, <4>1
    <3>4. heap[reader.at][reader.from + (i + 1)] = ResultParcels[Reads + (i + 1)]
      BY <2>1, <3>1, Zenon
    <3> QED BY <1>2, <1>3, <3>2, <3>3, <3>4, Zenon
  <2> QED BY <2>2, <2>3, Zenon DEF Remains
<1> QED BY <1>3, <1>4, <1>6, <1>7

\* How a row ends.
RowEnds(row) ==
    \/ /\ given' = Append(given, row) /\ dest' = NoRow /\ status' = status
       /\ pc' = "idle" /\ op' = "none"
    \/ /\ given' = given /\ dest' = NoRow /\ status' = "error"
       /\ pc' = "idle" /\ op' = "none"
    \/ /\ given' = given /\ dest' = row /\ status' = status
       /\ pc' = "write" /\ op' = "lob"

\* finalizeRow gives the row, fails, or lets it wait.
LEMMA FinalizeIs ==
    ASSUME NEW row, NEW l, Finalize(row, l), row # NoRow
    PROVE  RowEnds(row)
BY Zenon DEF Finalize, Give, Got, RowEnds

\* A row has been read to its end.
LEMMA RowDone ==
    ASSUME HeapKeeps, NEW base, GivenOk, Track(base), status = "open", NEW r \in RowIds, Len(given) = r - 1,
           NEW row, row.row = r, Holds(row.value, r), RowEnds(row),
           Remains', Starts(base, Reads', r + 1)
    PROVE  GivenOk' /\ Track(base)'
<1>0. r \in Nat /\ (r + 1) - 1 = r /\ (r + 1) - 2 = r - 1 /\ Len(given) + 1 = r /\ r + 1 \in 1..(Rows + 1)
  BY RowsAssumption DEF RowIds
<1>1. CASE /\ given' = Append(given, row) /\ dest' = NoRow /\ status' = status
           /\ pc' = "idle" /\ op' = "none"
  <2>1. GivenOk' /\ Len(given') = r
    BY <1>0, <1>1, GivenGrows
  <2>2. Between(base)'
    BY <1>0, <1>1, <2>1, Zenon DEF Between, NoRow, Slice, Starts
  <2>3. pc' # "scan" /\ ~(op' \in {"query", "next"}) /\ status' # "eof"
    BY <1>1
  <2> QED BY <2>1, <2>2, <2>3, Zenon DEF Track, Progress
<1>2. CASE given' = given /\ status' = "error"
  <2>1. status' # "open" /\ status' # "eof"
    BY <1>2
  <2> QED BY <1>2, <2>1, GivenStays, TrackEnds, Zenon
<1>3. CASE /\ given' = given /\ dest' = row /\ status' = status
           /\ pc' = "write" /\ op' = "lob"
  <2>1. GivenOk'
    BY <1>3, GivenStays
  <2>2. Holds(row.value, r)'
    BY HoldsStays
  <2>3. Holds(dest.value, r)'
    BY <1>3, <2>2, Zenon DEF Holds, Private
  <2>4. dest'.row = r /\ Len(given') = r - 1
    BY <1>3
  <2>5. /\ r + 1 \in 1..(Rows + 1) /\ Starts(base, Reads', r + 1)
        /\ dest'.row = (r + 1) - 1 /\ Len(given') = (r + 1) - 2 /\ Holds(dest.value, (r + 1) - 1)'
    BY <1>0, <2>3, <2>4, Zenon
  <2>6. Between(base)'
    BY <2>5, Zenon DEF Between, Starts
  <2>7. pc' # "scan" /\ ~(op' \in {"query", "next"}) /\ status' # "eof"
    BY <1>3
  <2> QED BY <2>1, <2>6, <2>7, Zenon DEF Track, Progress
<1> QED BY <1>1, <1>2, <1>3, Zenon DEF RowEnds

\* Inside a row, or between two: an array that ends here ends the result set.
LEMMA ContinueIs ==
    ASSUME HeapKeeps, NEW base, GivenOk, Track(base), status = "open", pc = "scan", NEW d, Continue(d), given' = given,
           reader' = Advanced, reader'.len \in Nat, reader'.len > 0 /\ dest' = d => Scanning(base)'
    PROVE  GivenOk' /\ Track(base)'
<1>1. GivenOk'
  BY GivenStays
<1>2. CASE Advanced.len > 0
  <2>1. dest' = d /\ pc' = pc /\ status' = status
    BY <1>2, Zenon DEF Continue
  <2>2. Scanning(base)' /\ reader'.len > 0
    BY <1>2, <2>1
  <2>3. Progress(base)'
    BY <2>1, <2>2, Zenon DEF Progress
  <2>4. status' # "eof"
    BY <2>1
  <2> QED BY <1>1, <2>3, <2>4, Zenon DEF Track
<1>3. CASE ~(Advanced.len > 0)
  <2>1. status' = "error"
    BY <1>3, Zenon DEF Continue
  <2>2. status' # "open" /\ status' # "eof"
    BY <2>1
  <2> QED BY <1>1, <2>2, TrackEnds, Zenon
<1> QED BY <1>2, <1>3

\* The row that is inside the array stays, if dest does.
LEMMA InRowMoves ==
    ASSUME HeapKeeps, NEW base, NEW r, NEW j, r \in RowIds, layout[r] = "inline", layout' = layout,
           Reads' = base[r] + j, dest'.row = r, Holds(dest.value, r)'
    PROVE  InRow(base, r, j)'
BY Zenon DEF InRow, RowIds

\* The first parcel of a row is what its values are slices of.
LEMMA HereIs ==
    ASSUME IInv, ReaderOk, reader.len > 0, Private(reader.at), NEW r, Current.row = r,
           Current.kind \in {"Record", "MultiPartRecord"}
    PROVE  Holds(RowHere.value, r) /\ RowHere.row = r
<1> DEFINE here == Slice(reader.at, reader.from, 1)
<1>1. here.at = reader.at /\ here.from = reader.from /\ here.len = 1
  BY DEF Slice
<1> HIDE DEF here
<1>2. /\ reader.from \in Nat /\ reader.len \in Nat /\ reader.at \in 1..Len(heap)
      /\ reader.from + reader.len <= Len(heap[reader.at])
  BY DEF ReaderOk
<1>3. Len(heap[reader.at]) \in Nat
  <2>1. PICK S : heap \in Seq(Seq(S))
    BY Zenon DEF IInv, Cells, Typed
  <2> QED BY <1>2, <2>1, ElementOfSeq, LenProperties
<1>4. reader.from + 1 <= Len(heap[reader.at])
  BY <1>2, <1>3
<1>5. Current = heap[reader.at][reader.from + 1]
  BY CurrentIs
<1>6. Holds(here, r)
  BY <1>1, <1>2, <1>4, <1>5, Zenon DEF Holds
<1>7. RowHere.row = r /\ RowHere.value = here
  BY DEF RowHere, here
<1> QED BY <1>6, <1>7, Zenon

\* A row ends with a record of its own, or with the end of its parts.
LEMMA RowEndIs ==
    ASSUME IInv, NEW base, RowInv(base), NextRecord \/ NextMultiPartEnd
    PROVE  \E row : \E r \in RowIds :
              /\ Len(given) = r - 1 /\ row.row = r /\ Holds(row.value, r) /\ RowEnds(row)
              /\ Starts(base, Reads + 1, r + 1)
<1>0. RowIds = 1..Rows /\ Rows \in Nat
  BY RowsAssumption DEF RowIds
<1>1. pc = "scan" /\ ReaderOk
  BY Zenon DEF NextRecord, NextMultiPartEnd, Scans, RowInv
<1>2. /\ reader.len > 0 /\ Private(reader.at)
      /\ \/ Current.kind = "Failure"
         \/ \E r \in 1..(Rows + 1) : Len(given) = r - 1 /\ ParcelAt(base, r)
  BY <1>1, ScanIs
<1>3. \/ Current.kind = "Record" /\ NextRecord
      \/ Current.kind = "MultiPartEnd" /\ NextMultiPartEnd
  <2>1. \A a, b : a \in {b} => a = b
    OBVIOUS
  <2> QED BY <2>1, Zenon DEF NextRecord, NextMultiPartEnd, Scans
<1>4. Current.kind # "Failure"
  BY <1>3
<1>5. PICK r \in 1..(Rows + 1) : Len(given) = r - 1 /\ ParcelAt(base, r)
  BY <1>2, <1>4, Zenon
<1>6. CASE Current.kind = "Record" /\ NextRecord
  <2>1. RecordAt(base, r)
    BY <1>5, <1>6, KindTells, Zenon
  <2>2. r \in RowIds /\ Current = Parcel("Record", r, <<>>) /\ Starts(base, Reads + 1, r + 1)
    BY <2>1, Zenon DEF RecordAt
  <2>3. Current.row = r /\ Current.kind \in {"Record", "MultiPartRecord"}
    BY <1>6, <2>2 DEF Parcel
  <2>4. PICK row : row = RowHere
    BY Zenon
  <2>5. row.row = r /\ Holds(row.value, r)
    BY <1>1, <1>2, <2>3, <2>4, HereIs
  <2>6. row # NoRow
    BY <1>0, <2>2, <2>5 DEF NoRow
  <2>7. PICK l : Finalize(row, l)
    BY <1>6, <2>4, Zenon DEF NextRecord
  <2>8. RowEnds(row)
    BY <2>6, <2>7, FinalizeIs
  <2> QED BY <1>5, <2>2, <2>5, <2>8, Zenon
<1>7. CASE Current.kind = "MultiPartEnd" /\ NextMultiPartEnd
  <2>1. RowEndAt(base, r)
    BY <1>5, <1>7, KindTells, Zenon
  <2>2. r \in RowIds /\ dest.row = r /\ Holds(dest.value, r) /\ Starts(base, Reads + 1, r + 1)
    BY <2>1, Zenon DEF RowEndAt, InRow
  <2>3. PICK row : row = dest
    BY Zenon
  <2>4. row.row = r /\ Holds(row.value, r)
    BY <2>2, <2>3, Zenon
  <2>5. row # NoRow
    BY <1>0, <2>2, <2>4 DEF NoRow
  <2>6. PICK l : Finalize(row, l)
    BY <1>7, <2>3, Zenon DEF NextMultiPartEnd
  <2>7. RowEnds(row)
    BY <2>5, <2>6, FinalizeIs
  <2> QED BY <1>5, <2>2, <2>4, <2>7, Zenon
<1> QED BY <1>3, <1>6, <1>7

\* Next reads one parcel.
LEMMA ScanStep ==
    ASSUME IInv, HeapKeeps, NEW base, RowInv(base), UNCHANGED setup,
           \/ NextRecord \/ NextMultiPart \/ NextMultiPartEnd \/ NextStartSlob \/ NextSlobData \/ NextEndSlob
           \/ NextOther \/ NextEOF
    PROVE  GivenOk' /\ ReaderOk' /\ Track(base)'
<1>0. Rows \in Nat /\ RowIds = 1..Rows
  BY RowsAssumption DEF RowIds
<1>1. Laid(base) /\ Types /\ GivenOk /\ ReaderOk /\ Track(base)
  BY Zenon DEF RowInv
<1>2. pc = "scan" /\ reader' = Advanced /\ UNCHANGED bufferVars /\ sent' = sent
  BY Zenon DEF NextRecord, NextMultiPart, NextMultiPartEnd, NextStartSlob, NextSlobData, NextEndSlob, NextOther, NextEOF,
     Scans, server
<1>3. /\ status = "open" /\ op = "next" /\ reader.len \in Nat /\ reader.len > 0 /\ Private(reader.at)
      /\ \/ Current.kind = "Failure" /\ reader.len = 1
         \/ Remains /\ \E r \in 1..(Rows + 1) : Len(given) = r - 1 /\ ParcelAt(base, r)
  BY <1>2, ScanIs
<1>4. ResultParcels' = ResultParcels /\ layout' = layout
  BY ResultStays, Zenon DEF setup
<1>5. ReaderOk' /\ Reads' = Reads + 1 /\ reader'.len = reader.len - 1 /\ (Remains => Remains')
  BY <1>1, <1>2, <1>3, <1>4, AdvancedIs
<1>6. reader'.len \in Nat
  BY <1>3, <1>5
<1>7. Current = heap[reader.at][reader.from + 1]
  BY <1>1, <1>3, CurrentIs
<1>8. ASSUME NEW r, Current.row = r, Current.kind \in {"Record", "MultiPartRecord"}
      PROVE  Holds(RowHere.value, r) /\ RowHere.row = r
  BY <1>1, <1>3, <1>8, HereIs
<1>9. CASE NextOther
  <2>1. Continue(dest) /\ given' = given /\ Current.kind \in {"StatementInfo", "EndStatement", "Failure"}
    BY <1>9, Zenon DEF NextOther, Scans
  <2>2. ASSUME reader'.len > 0, dest' = dest
        PROVE  Scanning(base)'
    <3>1. reader.len # 1
      BY <1>3, <1>5, <2>2
    <3>2. PICK r \in 1..(Rows + 1) : Len(given) = r - 1 /\ ParcelAt(base, r)
      BY <1>3, <3>1, Zenon
    <3>3. Current.kind # "Failure"
      BY <3>2, KindTells
    <3>4. Current.kind \in {"StatementInfo", "EndStatement"}
      BY <2>1, <3>3
    <3>5. OtherAt(base, r)
      BY <3>2, <3>4, KindTells, Zenon
    <3>6. dest' = NoRow /\ (Starts(base, Reads', r) \/ (r = Rows + 1 /\ Reads' = base[r] + 1))
      BY <1>5, <2>2, <3>5, Zenon DEF OtherAt
    <3>7. Remains'
      BY <1>3, <1>5, <3>1, Zenon
    <3> QED BY <2>1, <3>2, <3>6, <3>7, Zenon DEF Scanning, Starts, NoRow, Slice
  <2>3. PICK d : d = dest
    BY Zenon
  <2>4. Continue(d) /\ (reader'.len > 0 /\ dest' = d => Scanning(base)')
    BY <2>1, <2>2, <2>3, Zenon
  <2> QED BY <1>1, <1>2, <1>3, <1>5, <1>6, <2>1, <2>4, ContinueIs, Zenon
<1>10. CASE ~NextOther
  <2>0. \/ Current.kind = "Record" /\ NextRecord
        \/ Current.kind = "MultiPartRecord" /\ NextMultiPart
        \/ Current.kind = "MultiPartEnd" /\ NextMultiPartEnd
        \/ Current.kind = "StartSlobData" /\ NextStartSlob
        \/ Current.kind = "SlobData" /\ NextSlobData
        \/ Current.kind = "EndSlobData" /\ NextEndSlob
        \/ Current.kind = "EndRequest" /\ NextEOF
    <3>1. \A a, b : a \in {b} => a = b
      OBVIOUS
    <3> QED BY <1>10, <3>1, Zenon DEF NextRecord, NextMultiPart, NextMultiPartEnd, NextStartSlob, NextSlobData, NextEndSlob,
               NextEOF, Scans
  <2>1. Current.kind # "Failure"
    BY <2>0
  <2>2. Remains'
    BY <1>3, <1>5, <2>1, Zenon
  <2>3. PICK r \in 1..(Rows + 1) : Len(given) = r - 1 /\ ParcelAt(base, r)
    BY <1>3, <2>1, Zenon
  <2>4. CASE NextRecord \/ NextMultiPartEnd
    <3>r. PICK row : \E q \in RowIds :
            /\ Len(given) = q - 1 /\ row.row = q /\ Holds(row.value, q) /\ RowEnds(row)
            /\ Starts(base, Reads + 1, q + 1)
      BY <2>4, RowEndIs
    <3>1. PICK q \in RowIds :
            /\ Len(given) = q - 1 /\ row.row = q /\ Holds(row.value, q) /\ RowEnds(row)
            /\ Starts(base, Reads + 1, q + 1)
      BY <3>r
    <3>2. Starts(base, Reads', q + 1)
      BY <1>5, <3>1, Zenon
    <3> QED BY <1>1, <1>3, <1>5, <2>2, <3>1, <3>2, RowDone
  <2>5. CASE Current.kind = "MultiPartRecord" /\ NextMultiPart
    <3>1. MultiPartAt(base, r)
      BY <2>3, <2>5, KindTells, Zenon
    <3>2. r \in RowIds /\ layout[r] = "inline" /\ Current = Parcel("MultiPartRecord", r, <<>>) /\ Reads' = base[r] + 1
      BY <1>5, <3>1, Zenon DEF MultiPartAt
    <3>3. Current.row = r
      BY <3>2 DEF Parcel
    <3>4. PICK row : row = RowHere
      BY Zenon
    <3>6. Holds(row.value, r) /\ row.row = r
      <4>1. Current.kind \in {"Record", "MultiPartRecord"}
        BY <2>5
      <4> QED BY <1>8, <3>3, <3>4, <4>1, Zenon
    <3>7. Continue(row) /\ given' = given
      BY <2>5, <3>4, Zenon DEF NextMultiPart
    <3>8. ASSUME reader'.len > 0, dest' = row
          PROVE  Scanning(base)'
      <4>1. Holds(row.value, r)'
        BY <3>6, HoldsStays
      <4>2. Holds(dest.value, r)'
        BY <3>8, <4>1, Zenon DEF Holds, Private
      <4>3. dest'.row = r
        BY <3>6, <3>8
      <4>4. InRow(base, r, 1)'
        BY <1>4, <3>2, <4>2, <4>3, InRowMoves, Zenon
      <4>5. 1 \in 1..4
        OBVIOUS
      <4> QED BY <2>2, <2>3, <3>7, <4>4, <4>5, Zenon DEF Scanning
    <3> QED BY <1>1, <1>2, <1>3, <1>5, <1>6, <3>7, <3>8, ContinueIs, Zenon
  <2>6. CASE \/ Current.kind = "StartSlobData" /\ NextStartSlob
             \/ Current.kind = "SlobData" /\ NextSlobData
             \/ Current.kind = "EndSlobData" /\ NextEndSlob
    <3>1. Continue(dest) /\ given' = given
      BY <2>6, Zenon DEF NextStartSlob, NextSlobData, NextEndSlob
    <3>2. PICK j \in 1..3 : PartAt(base, r, j)
      <4>1. 1 \in 1..3 /\ 2 \in 1..3 /\ 3 \in 1..3
        OBVIOUS
      <4> QED BY <2>3, <2>6, <4>1, KindTells, Zenon
    <3>3. r \in RowIds /\ layout[r] = "inline" /\ dest.row = r /\ Holds(dest.value, r) /\ Reads' = base[r] + (j + 1)
      BY <1>5, <3>2, Zenon DEF PartAt, InRow
    <3>4. ASSUME reader'.len > 0, dest' = dest
          PROVE  Scanning(base)'
      <4>1. Holds(dest.value, r)'
        BY <3>3, <3>4, DestStays
      <4>2. dest'.row = r
        BY <3>3, <3>4
      <4> DEFINE i == j + 1
      <4>3. i \in 1..4
        BY <3>2
      <4>4. InRow(base, r, i)'
        <5>1. Reads' = base[r] + i
          BY <3>3
        <5> HIDE DEF i
        <5> QED BY <1>4, <3>3, <4>1, <4>2, <5>1, InRowMoves, Zenon
      <4> HIDE DEF i
      <4> QED BY <2>2, <2>3, <3>1, <4>3, <4>4, Zenon DEF Scanning
    <3>5. PICK d : d = dest
      BY Zenon
    <3>6. Continue(d) /\ (reader'.len > 0 /\ dest' = d => Scanning(base)')
      BY <3>1, <3>4, <3>5, Zenon
    <3> QED BY <1>1, <1>2, <1>3, <1>5, <1>6, <3>1, <3>6, ContinueIs, Zenon
  <2>8. CASE Current.kind = "EndRequest" /\ NextEOF
    <3>1. EndAt(r)
      BY <2>3, <2>8, KindTells, Zenon
    <3>2. r = Rows + 1
      BY <3>1, Zenon DEF EndAt
    <3>3. Len(given) = Rows
      BY <1>0, <2>3, <3>2
    <3>4. status' = "eof" /\ given' = given
      BY <2>8, Zenon DEF NextEOF
    <3>5. status' # "open"
      BY <3>4
    <3>6. GivenOk'
      BY <1>1, <3>4, GivenStays
    <3> QED BY <1>1, <1>5, <3>3, <3>4, <3>5, <3>6, TrackEnds, Zenon
  <2> QED BY <2>0, <2>4, <2>5, <2>6, <2>8, Zenon
<1> QED BY <1>9, <1>10

-----------------------------------------------------------------------------
(* The other steps.                                                        *)

\* The array that Query and Next take is a copy of the message, and theirs alone.
LEMMA TakenRowsAre ==
    ASSUME IInv, TakeRows
    PROVE  /\ ReaderOk' /\ Private(reader.at)' /\ reader'.len = Len(message) /\ Len(message) \in Nat
           /\ \A i \in 1..Len(message) : heap'[reader'.at][reader'.from + i] = message[i]
           /\ Parcels = message
<1>1. PICK S : Cells(S)
  BY Zenon DEF IInv
<1>2. /\ Take /\ pc = "body" /\ Ready /\ store' = store /\ filling' = filling
      /\ op \in {"query", "next"}
  BY Zenon DEF TakeRows, Take
<1> DEFINE cells == CellsOf(Taken(msgLen))
<1>3. /\ heap' = Append(heap, cells) /\ reader' = Slice(Len(heap) + 1, 1, msgLen - 1)
  BY <1>2, Zenon DEF TakeRows, Owns
<1>4. /\ Parcels = message /\ msgLen \in Nat /\ filling = NotFilling
      /\ cells \in Seq(S) /\ Len(cells) = msgLen /\ msgLen = Len(message) + 1
  BY <1>1, <1>2, MessageIs
<1>5. Tail(cells) = message
  BY <1>4, Zenon DEF Parcels
<1> HIDE DEF cells
<1>6. heap \in Seq(Seq(S)) /\ Len(heap) \in Nat /\ store \in 1..Len(heap) /\ message \in Seq(S) /\ Len(message) \in Nat
  BY <1>1, LenProperties DEF Cells, Typed
<1>7. Len(heap') = Len(heap) + 1 /\ heap'[Len(heap) + 1] = cells
  BY <1>3, <1>4, <1>6
<1>8. /\ reader'.at = Len(heap) + 1 /\ reader'.from = 1 /\ reader'.len = msgLen - 1
      /\ reader' \in [at : Nat, from : Nat, len : Nat]
  BY <1>3, <1>4, <1>6 DEF Slice
<1>9. ReaderOk'
  <2>1. reader' \in [at : 1..Len(heap'), from : Nat, len : Nat]
    BY <1>3, <1>4, <1>6, <1>7 DEF Slice
  <2>2. 1 + (msgLen - 1) <= msgLen
    BY <1>4
  <2>3. reader'.from + reader'.len <= Len(heap'[reader'.at])
    BY <1>4, <1>7, <1>8, <2>2, Zenon
  <2> QED BY <2>1, <2>3, Zenon DEF ReaderOk
<1>10. Private(reader.at)'
  <2>1. Len(heap) + 1 \in 1..Len(heap') /\ Len(heap) + 1 # store
    BY <1>6, <1>7
  <2> QED BY <1>2, <1>4, <1>8, <2>1, Zenon DEF Private, NotFilling
<1>11. \A i \in 1..Len(message) : heap'[reader'.at][reader'.from + i] = message[i]
  <2> SUFFICES ASSUME NEW i \in 1..Len(message)
               PROVE  heap'[reader'.at][reader'.from + i] = message[i]
    OBVIOUS
  <2>1. Tail(cells)[i] = cells[1 + i]
    BY <1>4, <1>6
  <2> QED BY <1>5, <1>7, <1>8, <2>1, Zenon
<1>12. reader'.len = Len(message)
  BY <1>4, <1>6, <1>8
<1> QED BY <1>4, <1>6, <1>9, <1>10, <1>11, <1>12

\* The result set gets a new array.
LEMMA TakeRowsStep ==
    ASSUME IInv, HeapKeeps, NEW base, RowInv(base), UNCHANGED setup, TakeRows
    PROVE  GivenOk' /\ ReaderOk' /\ Track(base)'
<1>1. GivenOk /\ Phases /\ Track(base)
  BY Zenon DEF RowInv
<1>2. /\ pc = "body" /\ op \in {"query", "next"} /\ sent' = sent /\ given' = given /\ dest' = dest
      /\ \/ op = "next" /\ pc' = "scan" /\ status' = status
         \/ op # "next" /\ pc' = "idle" /\ op' = "none" /\ status' = IF Has("Failure") THEN "error" ELSE status
  BY Zenon DEF TakeRows, Take, server
<1>3. status = "open" /\ dest = NoRow
  BY <1>1, <1>2 DEF Phases
<1>4. Fetching(base) /\ Streaming
  <2>1. pc # "scan" /\ Streaming
    BY <1>2 DEF Streaming
  <2> QED BY <1>1, <1>2, <1>3, <2>1, Zenon DEF Track, Progress
<1>5. PICK r \in 1..(Rows + 1) :
        /\ Len(given) = r - 1
        /\ \/ message = <<Plain("Failure")>>
           \/ /\ Len(message) > 0 /\ Starts(base, sent - Len(message), r)
              /\ \A i \in 1..Len(message) : message[i] = ResultParcels[sent - Len(message) + i]
  BY <1>4, Zenon DEF Fetching
<1>6. /\ ReaderOk' /\ Private(reader.at)' /\ reader'.len = Len(message) /\ Len(message) \in Nat
      /\ \A i \in 1..Len(message) : heap'[reader'.at][reader'.from + i] = message[i]
      /\ Parcels = message
  BY TakenRowsAre
<1>7. GivenOk'
  BY <1>1, <1>2, GivenStays
<1>8. CASE message = <<Plain("Failure")>>
  <2> DEFINE p == Plain("Failure")
  <2>1. p.kind = "Failure"
    BY DEF Plain, Parcel
  <2> HIDE DEF p
  <2>2. message = <<p>>
    BY <1>8 DEF p
  <2>3. Len(message) = 1 /\ message[1] = p /\ 1 \in DOMAIN message /\ 1 \in 1..Len(message)
    BY <2>2
  <2>4. Has("Failure")
    BY <1>6, <2>1, <2>3, Zenon DEF Has
  <2>5. CASE op = "next"
    <3>1. OnlyFailure'
      BY <1>6, <2>3, Zenon DEF OnlyFailure, p, Plain, Parcel
    <3>2. reader'.len > 0
      BY <1>6, <2>3
    <3>3. pc' = "scan" /\ status' = status /\ status' # "eof"
      BY <1>2, <1>3, <2>5
    <3> QED BY <1>6, <1>7, <3>1, <3>2, <3>3, Zenon DEF Track, Progress
  <2>6. CASE op # "next"
    <3>1. status' = "error"
      BY <1>2, <2>4, <2>6, Zenon
    <3>2. status' # "open" /\ status' # "eof"
      BY <3>1
    <3> QED BY <1>1, <1>2, <1>6, <1>7, <3>2, TrackEnds, Zenon
  <2> QED BY <2>5, <2>6
<1>9. CASE /\ Len(message) > 0 /\ Starts(base, sent - Len(message), r)
           /\ \A i \in 1..Len(message) : message[i] = ResultParcels[sent - Len(message) + i]
  <2>1. ResultParcels' = ResultParcels
    BY ResultStays
  <2>2. Reads' = sent - Len(message)
    BY <1>2, <1>6, Zenon DEF Reads
  <2>3. Starts(base, Reads', r)
    BY <1>9, <2>2, Zenon
  <2>4. Remains'
    BY <1>6, <1>9, <2>1, <2>2, Zenon DEF Remains
  <2>5. Len(given') = r - 1 /\ dest' = NoRow /\ reader'.len > 0
    BY <1>2, <1>3, <1>5, <1>6, <1>9
  <2>6. CASE op = "next"
    <3>1. pc' = "scan" /\ status' # "eof"
      BY <1>2, <1>3, <2>6
    <3>2. Scanning(base)'
      BY <2>3, <2>4, <2>5, Zenon DEF Scanning, Starts, NoRow, Slice
    <3> QED BY <1>6, <1>7, <2>5, <3>1, <3>2, Zenon DEF Track, Progress
  <2>7. CASE op # "next"
    <3>1. pc' = "idle" /\ op' = "none" /\ (status' = "error" \/ status' = "open")
      BY <1>2, <1>3, <2>7
    <3>2. pc' # "scan" /\ ~(op' \in {"query", "next"}) /\ status' # "eof"
      BY <3>1
    <3>3. Between(base)'
      BY <2>3, <2>4, <2>5, Zenon DEF Between, Starts, NoRow, Slice
    <3> QED BY <1>6, <1>7, <3>2, <3>3, Zenon DEF Track, Progress
  <2> QED BY <2>6, <2>7
<1> QED BY <1>5, <1>8, <1>9

\* The server sends some of the rows, or an error.
LEMMA WriteRowsStep ==
    ASSUME IInv, HeapKeeps, NEW base, RowInv(base), UNCHANGED setup, Write, op \in {"query", "next"}
    PROVE  GivenOk' /\ ReaderOk' /\ Track(base)'
<1>1. GivenOk /\ Phases /\ Track(base) /\ ReaderOk /\ Laid(base)
  BY Zenon DEF RowInv
<1>2. /\ pc = "write" /\ (pc' = "frame" \/ pc' = "header") /\ op' = op /\ reader' = reader /\ dest' = dest
      /\ status' = status /\ given' = given
      /\ AnswerRows \/ AnswerError
  <2>1. pc = "write" /\ (pc' = "frame" \/ pc' = "header") /\ op' = op /\ UNCHANGED rowVars
    BY Zenon DEF Write
  <2>2. op # "lob" /\ ~(op \in {"drain", "cancel"})
    OBVIOUS
  <2>3. AnswerRows \/ AnswerError
    BY <2>2, Zenon DEF Write
  <2> QED BY <2>1, <2>3, Zenon DEF rowVars
<1>3. status = "open" /\ Fetching(base)
  <2>1. status = "open"
    BY <1>1, Zenon DEF Phases
  <2>2. pc # "scan"
    BY <1>2
  <2> QED BY <1>1, <2>1, <2>2, Zenon DEF Track, Progress
<1>4. reader.len = 0
  BY <1>3, Zenon DEF Fetching
<1>5. PICK r \in 1..(Rows + 1) : Len(given) = r - 1 /\ Starts(base, sent, r)
  BY <1>2, <1>3, Zenon DEF Fetching
<1>6. /\ ResultParcels' = ResultParcels
      /\ GivenOk'
  BY <1>1, <1>2, ResultStays, GivenStays
<1>7. ReaderOk'
  <2>1. /\ heap' = heap
    BY WriteIs
  <2> QED BY <1>1, <1>2, <2>1, Zenon DEF ReaderOk
<1>8. Len(given') = r - 1 /\ reader'.len = 0 /\ pc' # "write" /\ pc' # "scan" /\ op' \in {"query", "next"}
      /\ status' # "eof"
  BY <1>2, <1>3, <1>4, <1>5
<1>9. CASE AnswerError
  <2>1. message' = <<Plain("Failure")>>
    BY <1>9, Zenon DEF AnswerError, Answers
  <2>2. Fetching(base)'
    BY <1>8, <2>1, Zenon DEF Fetching, Starts, Plain, Parcel
  <2> QED BY <1>6, <1>7, <1>8, <2>2, Zenon DEF Track, Progress
<1>10. CASE AnswerRows
  <2>1. PICK n \in 1..(Len(ResultParcels) - sent) :
          message' = SubSeq(ResultParcels, sent + 1, sent + n) /\ sent' = sent + n
    BY <1>10, Zenon DEF AnswerRows, Answers
  <2> DEFINE all == ResultParcels
  <2>2. PICK T : all \in Seq(T)
    BY <1>1, Zenon DEF Laid
  <2>3. sent \in Nat /\ message' = SubSeq(all, sent + 1, sent + n) /\ n \in 1..(Len(all) - sent) /\ all' = all
    BY <1>6, <2>1 DEF IInv
  <2> HIDE DEF all
  <2>4. Len(all) \in Nat
    BY <2>2, LenProperties
  <2>5. n \in Nat /\ n > 0 /\ sent + n <= Len(all)
    BY <2>3, <2>4
  <2>6. /\ Len(message') = n /\ \A i \in 1..n : message'[i] = all[sent + i]
    BY <2>2, <2>3, <2>5, PartIs
  <2>7. sent' - Len(message') = sent
    BY <2>1, <2>3, <2>5, <2>6
  <2>8. Len(message') > 0 /\ Starts(base, sent' - Len(message'), r)
        /\ \A i \in 1..Len(message') : message'[i] = ResultParcels'[sent' - Len(message') + i]
    BY <1>5, <2>3, <2>5, <2>6, <2>7, Zenon DEF all
  <2>9. Fetching(base)'
    BY <1>8, <2>8, Zenon DEF Fetching, Starts
  <2> QED BY <1>6, <1>7, <1>8, <2>9, Zenon DEF Track, Progress
<1> QED BY <1>2, <1>9, <1>10

\* A method fails.
LEMMA FailedStep ==
    ASSUME IInv, HeapKeeps, NEW base, RowInv(base), UNCHANGED setup, Failed, reader' = reader, given' = given, sent' = sent,
           pc # "scan"
    PROVE  GivenOk' /\ ReaderOk' /\ Track(base)'
<1>1. GivenOk /\ Track(base) /\ ReaderOk
  BY Zenon DEF RowInv
<1>2. GivenOk'
  BY <1>1, GivenStays
<1>3. ResultParcels' = ResultParcels
  BY ResultStays
<1>4. ReaderOk'
  BY <1>1, <1>3, ReaderStays
<1>5. pc' = "idle" /\ op' = "none" /\ dest' = NoRow
  BY Zenon DEF Failed
<1>6. CASE op \in {"query", "next"} \/ dest # NoRow
  <2>1. status' = "error"
    BY <1>6, Zenon DEF Failed
  <2>2. status' # "open" /\ status' # "eof"
    BY <2>1
  <2> QED BY <1>1, <1>2, <1>4, <2>2, TrackEnds, Zenon
<1>7. CASE ~(op \in {"query", "next"} \/ dest # NoRow)
  <2>1. status' = status /\ dest' = dest
    BY <1>5, <1>7, Zenon DEF Failed
  <2>2. pc' # "scan" /\ ~(op' \in {"query", "next"})
    BY <1>5
  <2> QED BY <1>1, <1>2, <1>3, <1>7, <2>1, <2>2, TrackStays, Zenon
<1> QED BY <1>6, <1>7

\* GetBytes hands out a LOB, and with it the row that waits for it.
LEMMA DrainStep ==
    ASSUME IInv, HeapKeeps, NEW base, RowInv(base), UNCHANGED setup, TakeDrain
    PROVE  GivenOk' /\ ReaderOk' /\ Track(base)'
<1>1. GivenOk /\ Track(base) /\ ReaderOk /\ Phases
  BY Zenon DEF RowInv
<1>2. /\ pc = "body" /\ op = "drain" /\ pc' = "idle" /\ op' = "none" /\ reader' = reader /\ status' = status /\ sent' = sent
      /\ IF dest = NoRow THEN UNCHANGED <<dest, given>> ELSE Give(dest)
  BY Zenon DEF TakeDrain, Got, Take, server
<1>3. ResultParcels' = ResultParcels
  BY ResultStays
<1>4. pc # "scan" /\ pc' # "scan" /\ ~(op \in {"query", "next"}) /\ ~(op' \in {"query", "next"})
  BY <1>2
<1>5. CASE dest = NoRow
  <2>1. dest' = dest /\ given' = given
    BY <1>2, <1>5, Zenon
  <2> QED BY <1>1, <1>2, <1>3, <1>4, <2>1, TrackStays, GivenStays, Zenon
<1>6. CASE dest # NoRow
  <2>1. given' = Append(given, dest) /\ dest' = NoRow
    BY <1>2, <1>6, Zenon DEF Give
  <2>2. status = "open"
    BY <1>1, <1>6, Zenon DEF Phases
  <2>3. Between(base)
    BY <1>1, <1>4, <2>2, Zenon DEF Track, Progress
  <2>4. PICK r \in 1..(Rows + 1) :
          /\ Starts(base, Reads, r)
          /\ dest.row = r - 1 /\ Len(given) = r - 2 /\ Holds(dest.value, r - 1)
    BY <1>6, <2>3, Zenon DEF Between
  <2>5. PICK row : row = dest
    BY Zenon
  <2>6. r - 1 = Len(given) + 1
    BY <2>4
  <2>7. row.row = Len(given) + 1 /\ Holds(row.value, Len(given) + 1) /\ given' = Append(given, row)
    BY <2>1, <2>4, <2>5, <2>6, Zenon
  <2>8. GivenOk' /\ Len(given') = Len(given) + 1
    BY <1>1, <2>7, GivenGrows
  <2>9. ReaderOk' /\ Reads' = Reads /\ (Remains => Remains')
    BY <1>1, <1>2, <1>3, ReaderStays
  <2>10. Remains' /\ Starts(base, Reads', r) /\ Len(given') = r - 1
    BY <2>3, <2>4, <2>6, <2>8, <2>9, Zenon DEF Between
  <2>11. Between(base)'
    BY <2>1, <2>10, Zenon DEF Between, Starts, NoRow, Slice
  <2>12. status' # "eof"
    BY <1>2, <2>2
  <2> QED BY <1>4, <2>8, <2>9, <2>11, <2>12, Zenon DEF Track, Progress
<1> QED BY <1>5, <1>6

\* Next is called: it reads on, or asks for more.
LEMMA BeginNextStep ==
    ASSUME IInv, HeapKeeps, NEW base, RowInv(base), UNCHANGED setup, BeginNext
    PROVE  GivenOk' /\ ReaderOk' /\ Track(base)'
<1>1. GivenOk /\ Track(base) /\ ReaderOk /\ Phases
  BY Zenon DEF RowInv
<1>2. /\ pc = "idle" /\ status = "open" /\ op' = "next" /\ dest' = NoRow /\ reader' = reader /\ status' = status
      /\ given' = given /\ sent' = sent
      /\ pc' = IF reader.len = 0 THEN "write" ELSE "scan"
  BY Zenon DEF BeginNext, server
<1>3. op = "none" /\ dest = NoRow
  BY <1>1, <1>2, Zenon DEF Phases
<1>4. Between(base)
  <2>1. pc # "scan" /\ ~(op \in {"query", "next"})
    BY <1>2, <1>3
  <2> QED BY <1>1, <1>2, <2>1, Zenon DEF Track, Progress
<1>5. ResultParcels' = ResultParcels
  BY ResultStays
<1>6. ReaderOk' /\ Reads' = Reads /\ (Remains => Remains')
  BY <1>1, <1>2, <1>5, ReaderStays
<1>7. PICK r \in 1..(Rows + 1) : Starts(base, Reads, r) /\ Len(given) = r - 1
  <2>1. PICK r \in 1..(Rows + 1) :
          /\ Starts(base, Reads, r)
          /\ \/ dest = NoRow /\ Len(given) = r - 1
             \/ dest.row = r - 1 /\ Len(given) = r - 2 /\ Holds(dest.value, r - 1)
    BY <1>4, Zenon DEF Between
  <2>2. CASE dest = NoRow /\ Len(given) = r - 1
    BY <2>1, <2>2
  <2>3. CASE dest.row = r - 1 /\ Len(given) = r - 2
    <3>1. r - 1 = 0
      BY <1>3, <2>3 DEF NoRow
    <3>2. Len(given) = 0 - 1
      BY <2>3, <3>1
    <3>3. Len(given) \in Nat
      <4>1. PICK T : given \in Seq(T)
        BY <1>1, Zenon DEF GivenOk
      <4> QED BY <4>1, LenProperties
    <3> QED BY <3>2, <3>3
  <2> QED BY <2>1, <2>2, <2>3, Zenon
<1>8. GivenOk' /\ status' # "eof"
  BY <1>1, <1>2, GivenStays
<1>9. Remains'
  BY <1>4, <1>6, Zenon DEF Between
<1>10. reader.len \in Nat
  BY <1>1 DEF ReaderOk
<1>11. CASE reader.len = 0
  <2>1. pc' = "write" /\ pc' # "scan" /\ op' \in {"query", "next"} /\ ~Streaming'
    BY <1>2, <1>11 DEF Streaming
  <2>2. Starts(base, sent', r)
    <3>1. sent \in Nat
      BY Zenon DEF IInv
    <3>2. Reads = sent
      BY <1>11, <3>1 DEF Reads
    <3> QED BY <1>2, <1>7, <3>2, Zenon
  <2>3. Fetching(base)'
    BY <1>2, <1>7, <1>11, <2>1, <2>2, Zenon DEF Fetching, Starts
  <2> QED BY <1>6, <1>8, <2>1, <2>3, Zenon DEF Track, Progress
<1>12. CASE reader.len # 0
  <2>1. pc' = "scan" /\ reader'.len > 0
    BY <1>2, <1>10, <1>12
  <2>2. Scanning(base)'
    BY <1>2, <1>6, <1>7, <1>9, Zenon DEF Scanning, Starts, NoRow, Slice
  <2> QED BY <1>6, <1>8, <2>1, <2>2, Zenon DEF Track, Progress
<1> QED BY <1>11, <1>12

\* Close ends the result set.
LEMMA CloseStep ==
    ASSUME IInv, HeapKeeps, NEW base, RowInv(base), UNCHANGED setup, Close
    PROVE  GivenOk' /\ ReaderOk' /\ Track(base)'
<1>1. GivenOk /\ Track(base) /\ ReaderOk
  BY Zenon DEF RowInv
<1>2. status' = "closed" /\ reader' = reader /\ given' = given /\ sent' = sent
  BY Zenon DEF Close, server
<1>3. status' # "open" /\ status' # "eof"
  BY <1>2
<1> QED BY <1>1, <1>2, <1>3, ResultStays, GivenStays, ReaderStays, TrackEnds, Zenon

\* The steps that do not concern the rows.
LEMMA OtherStep ==
    ASSUME IInv, HeapKeeps, NEW base, RowInv(base), UNCHANGED setup,
           \/ Write /\ ~(op \in {"query", "next"})
           \/ Fill \/ Receive \/ TakeFrame \/ PeekHeader \/ TakeLob \/ (\E r \in RowIds : GetBytes(r))
           \/ UNCHANGED vars
    PROVE  GivenOk' /\ ReaderOk' /\ Track(base)'
<1>1. GivenOk /\ Track(base) /\ ReaderOk /\ Phases
  BY Zenon DEF RowInv
<1>2. ResultParcels' = ResultParcels
  BY ResultStays
<1> DEFINE Q(o) == o \in {"query", "next"}
           Same == UNCHANGED <<reader, dest, status, given, sent>>
           Quiet == /\ pc = "scan" <=> pc' = "scan"
                    /\ Q(op) <=> Q(op')
                    /\ Q(op) => /\ message' = message /\ (pc' = "write" => pc = "write") /\ (Streaming' => Streaming)
<1>3. CASE Write /\ ~(op \in {"query", "next"})
  <2>1. Same
    <3>1. UNCHANGED rowVars
      BY <1>3, Zenon DEF Write
    <3>2. AnswerRows \/ sent' = sent
      BY <1>3, Zenon DEF Write, AnswerLob, AnswerEnd, AnswerError
    <3>3. ~AnswerRows \/ sent' = sent
      <4>1. op = "lob" \/ op \in {"drain", "cancel"} \/ AnswerError
        BY <1>3, Zenon DEF Write
      <4>2. AnswerLob \/ AnswerEnd \/ AnswerError
        BY <1>3, Zenon DEF Write
      <4> QED BY <4>2, Zenon DEF AnswerLob, AnswerEnd, AnswerError
    <3> QED BY <3>1, <3>2, <3>3, Zenon DEF rowVars
  <2>2. op' = op /\ pc = "write" /\ pc' = IF tls THEN "frame" ELSE "header"
    BY <1>3, Zenon DEF Write
  <2>3. Quiet
    BY <1>3, <2>2
  <2> QED BY <1>1, <1>2, <2>1, <2>3, TrackStays, GivenStays, Zenon
<1>4. CASE Fill \/ Receive \/ TakeFrame \/ PeekHeader
  <2>1. Same /\ message' = message /\ op' = op
    BY <1>4, Zenon DEF Fill, Receive, TakeFrame, PeekHeader, control, rowVars, server
  <2>2. \/ pc' = pc
        \/ pc = "frame" /\ pc' = "header"
        \/ pc = "header" /\ pc' = "body"
    BY <1>4, Zenon DEF Fill, Receive, TakeFrame, PeekHeader, control
  <2>3. (pc = "scan" <=> pc' = "scan") /\ (pc' = "write" => pc = "write") /\ (Streaming' => Streaming)
    BY <2>2 DEF Streaming
  <2>4. Quiet
    BY <2>1, <2>3, Zenon
  <2> QED BY <1>1, <1>2, <2>1, <2>4, TrackStays, GivenStays, Zenon
<1>5. CASE TakeLob
  <2>1. Same
    BY <1>5, Zenon DEF TakeLob, Take, rowVars, server
  <2>2. pc = "body" /\ pc' = "write" /\ op = "lob" /\ (op' = "cancel" \/ op' = "drain" \/ op' = "lob")
    BY <1>5, Zenon DEF TakeLob, Take
  <2>3. Quiet
    BY <2>2
  <2> QED BY <1>1, <1>2, <2>1, <2>3, TrackStays, GivenStays, Zenon
<1>6. CASE \E r \in RowIds : GetBytes(r)
  <2>1. PICK r \in RowIds : GetBytes(r)
    BY <1>6
  <2>2. Same
    BY <2>1, Zenon DEF GetBytes, Got, server
  <2>3. pc = "idle" /\ ((pc' = "idle" /\ op' = "none") \/ (pc' = "write" /\ op' = "lob") \/ (pc' = pc /\ op' = op))
    BY <2>1, Zenon DEF GetBytes, Got
  <2>4. op = "none"
    BY <1>1, <2>3, Zenon DEF Phases
  <2>5. Quiet
    BY <2>3, <2>4
  <2> QED BY <1>1, <1>2, <2>2, <2>5, TrackStays, GivenStays, Zenon
<1>7. CASE UNCHANGED vars
  <2>1. Same /\ message' = message /\ op' = op /\ pc' = pc
    BY <1>7, Zenon DEF vars, control, rowVars, server
  <2>2. Quiet
    BY <2>1, Zenon DEF Streaming
  <2> QED BY <1>1, <1>2, <2>1, <2>2, TrackStays, GivenStays, Zenon
<1> QED BY <1>3, <1>4, <1>5, <1>6, <1>7

\* Each call's steps follow each other.
LEMMA PhasesStay ==
    ASSUME IInv, NEW base, RowInv(base), Next \/ UNCHANGED vars
    PROVE  Phases'
<1> DEFINE Q(o) == o \in {"query", "next"}
<1>0. /\ pc = "idle" <=> op = "none"
      /\ pc = "scan" => op = "next"
      /\ pc = "idle" \/ (Q(op) /\ pc # "scan") => dest = NoRow
      /\ Q(op) \/ dest # NoRow => status = "open"
  BY Zenon DEF RowInv, Phases
<1>n. NoRow' = NoRow
  BY Zenon DEF NoRow, Slice
<1> DEFINE P == /\ pc' = "idle" <=> op' = "none"
                /\ pc' = "scan" => op' = "next"
                /\ pc' = "idle" \/ (Q(op') /\ pc' # "scan") => dest' = NoRow
                /\ Q(op') \/ dest' # NoRow => status' = "open"
<1> SUFFICES P
  BY <1>n, Zenon DEF Phases
<1>1. CASE WriteFails \/ ReadError \/ TakeCancel
  <2>1. pc' = "idle" /\ op' = "none" /\ dest' = NoRow
    BY <1>1, Zenon DEF WriteFails, ReadError, TakeCancel, Failed
  <2> QED BY <2>1
<1>2. CASE Write \/ Fill \/ Receive \/ TakeFrame \/ PeekHeader
  <2>1. /\ op' = op /\ dest' = dest /\ status' = status
        /\ \/ pc' = pc
           \/ pc = "write" /\ (pc' = "frame" \/ pc' = "header")
           \/ pc = "frame" /\ pc' = "header"
           \/ pc = "header" /\ pc' = "body"
    BY <1>2, Zenon DEF Write, Fill, Receive, TakeFrame, PeekHeader, control, rowVars
  <2> QED BY <1>0, <2>1
<1>3. CASE TakeRows
  <2>1. /\ pc = "body" /\ dest' = dest /\ Q(op)
        /\ \/ pc' = "scan" /\ op = "next" /\ op' = op /\ status' = status
           \/ pc' = "idle" /\ op' = "none"
    BY <1>3, Zenon DEF TakeRows, Take
  <2>2. dest = NoRow /\ status = "open"
    BY <1>0, <2>1
  <2> QED BY <2>1, <2>2
<1>4. CASE TakeLob
  <2>1. /\ pc' = "write" /\ (op' = "cancel" \/ op' = "drain" \/ op' = "lob") /\ dest' = dest /\ status' = status
    BY <1>4, Zenon DEF TakeLob, rowVars
  <2> QED BY <1>0, <2>1
<1>5. CASE TakeDrain
  <2>1. pc' = "idle" /\ op' = "none" /\ dest' = NoRow
    BY <1>5, Zenon DEF TakeDrain, Got, Give
  <2> QED BY <2>1
<1>6. CASE BeginNext
  <2>1. status' = "open" /\ op' = "next" /\ dest' = NoRow /\ pc' = IF reader.len = 0 THEN "write" ELSE "scan"
    BY <1>6, Zenon DEF BeginNext
  <2> QED BY <2>1
<1>7. CASE \E r \in RowIds : GetBytes(r)
  <2>1. PICK r \in RowIds : GetBytes(r)
    BY <1>7
  <2>2. /\ pc = "idle" /\ status' = status /\ dest' = dest
        /\ ((pc' = "idle" /\ op' = "none") \/ (pc' = "write" /\ op' = "lob") \/ (pc' = pc /\ op' = op))
    BY <2>1, Zenon DEF GetBytes, Got
  <2>3. dest = NoRow /\ op = "none"
    BY <1>0, <2>2
  <2> QED BY <2>2, <2>3
<1>8. CASE Close
  <2>1. pc = "idle" /\ dest' = dest /\ ((pc' = pc /\ op' = op) \/ (pc' = "write" /\ op' = "cancel"))
    BY <1>8, Zenon DEF Close
  <2>2. dest = NoRow /\ op = "none"
    BY <1>0, <2>1
  <2> QED BY <2>1, <2>2
<1>9. CASE UNCHANGED vars \/ Finished
  <2>1. pc' = pc /\ op' = op /\ dest' = dest /\ status' = status
    BY <1>9, Zenon DEF Finished, vars, control, rowVars
  <2> QED BY <1>0, <2>1
<1>10. ASSUME NEW d, Continue(d), pc = "scan"
       PROVE  P
  <2>1. \/ pc' = pc /\ op' = op /\ status' = status
        \/ pc' = "idle" /\ op' = "none" /\ dest' = NoRow
    BY <1>10, Zenon DEF Continue
  <2>2. op = "next" /\ status = "open"
    BY <1>0, <1>10
  <2> QED BY <1>10, <2>1, <2>2
<1>12. CASE NextMultiPart \/ NextStartSlob \/ NextSlobData \/ NextEndSlob \/ NextOther
  <2>1. pc = "scan" /\ \E d : Continue(d)
    BY <1>12, Zenon DEF NextMultiPart, NextStartSlob, NextSlobData, NextEndSlob, NextOther, Scans
  <2> QED BY <1>10, <2>1
<1>13. CASE NextRecord \/ NextMultiPartEnd
  <2>1. pc = "scan" /\ \E row : RowEnds(row)
    BY <1>13, RowEndIs, Zenon DEF NextRecord, NextMultiPartEnd, Scans
  <2>2. op = "next" /\ status = "open"
    BY <1>0, <2>1
  <2>3. \/ pc' = "idle" /\ op' = "none" /\ dest' = NoRow
        \/ pc' = "write" /\ op' = "lob" /\ status' = status
    BY <2>1, Zenon DEF RowEnds
  <2> QED BY <2>2, <2>3
<1>14. CASE NextEOF
  <2>1. pc' = "idle" /\ op' = "none" /\ dest' = NoRow
    BY <1>14, Zenon DEF NextEOF
  <2> QED BY <2>1
<1> HIDE DEF P
<1> QED BY <1>1, <1>2, <1>3, <1>4, <1>5, <1>6, <1>7, <1>8, <1>9, <1>12, <1>13, <1>14, Zenon DEF Next, ClientStep

-----------------------------------------------------------------------------
(* The theorem.                                                            *)

\* At the start nothing was sent or read.
LEMMA InitRInv == Init => RInv
<1> SUFFICES ASSUME Init
             PROVE  RInv
  OBVIOUS
<1>1. /\ pc = "write" /\ op = "query" /\ reader = Slice(1, 0, 0) /\ dest = NoRow /\ status = "open"
      /\ given = <<>> /\ sent = 0 /\ message = <<>> /\ filling = NotFilling /\ heap = <<Blanks(DefaultBufSize)>>
  BY Zenon DEF Init, BufferInit
<1>2. Types
  BY Zenon DEF Init, Types
<1>3. PICK base : Laid(base)
  BY <1>2, ResultIsLaid, Zenon DEF Types
<1>4. GivenOk
  <2>1. Len(given) = 0 /\ given \in Seq({})
    BY <1>1
  <2> QED BY <2>1 DEF GivenOk
<1>5. Phases
  BY <1>1, Zenon DEF Phases
<1>6. reader \in [at : 1..Len(heap), from : Nat, len : Nat] /\ reader.len = 0 /\ reader.from = 0 /\ reader.at = 1
  BY <1>1 DEF Slice
<1>7. ReaderOk
  <2>1. Blanks(DefaultBufSize) \in Seq({Blank})
    BY BufferAssumption DEF Blanks
  <2>2. Len(heap[1]) \in Nat
    BY <1>1, <2>1, LenProperties
  <2> QED BY <1>6, <2>2 DEF ReaderOk
<1>8. Track(base)
  <2>1. 1 \in 1..(Rows + 1) /\ Len(given) = 1 - 1
    BY <1>1, RowsAssumption
  <2>2. ~Streaming
    BY <1>1 DEF Streaming
  <2>3. Starts(base, sent, 1)
    BY <1>1, <2>1, Zenon DEF Starts
  <2>4. Fetching(base)
    BY <1>6, <2>1, <2>2, <2>3, Zenon DEF Fetching
  <2>5. Progress(base)
    BY <1>1, <2>4 DEF Progress
  <2>6. status # "eof"
    BY <1>1
  <2> QED BY <2>5, <2>6, Zenon DEF Track
<1>9. IInv
  BY InitInv
<1> QED BY <1>2, <1>3, <1>4, <1>5, <1>7, <1>8, <1>9, Zenon DEF RInv, RowInv

\* Every step keeps the arrays and moves along the result.
LEMMA RowInvStep ==
    ASSUME IInv, NEW base, RowInv(base), [Next]_vars
    PROVE  RowInv(base)'
<1>1. IInv
  OBVIOUS
<1>2. RowInv(base)
  OBVIOUS
<1>3. UNCHANGED setup
  BY SetupStays, Zenon
<1>4. Laid(base)' /\ Types'
  BY <1>2, <1>3, ResultStays, Zenon DEF RowInv
<1>5. Phases'
  BY <1>1, <1>2, PhasesStay, Zenon
<1>6. GivenOk' /\ ReaderOk' /\ Track(base)'
  <2>1. CASE UNCHANGED vars
    <3>1. heap' = heap /\ store' = store /\ filling' = filling
      BY <2>1, Zenon DEF vars, bufferVars
    <3>2. HeapKeeps
      BY <1>1, <3>1, SameHeapKeeps, Zenon
    <3> QED BY <1>1, <1>2, <1>3, <2>1, <3>2, OtherStep
  <2>2. CASE Next
    <3>1. HeapKeeps
      BY <1>1, <2>2, HeapStays
    <3>2. CASE NextRecord \/ NextMultiPart \/ NextMultiPartEnd \/ NextStartSlob \/ NextSlobData \/ NextEndSlob
               \/ NextOther \/ NextEOF
      BY <1>1, <1>2, <1>3, <3>1, <3>2, ScanStep
    <3>3. CASE TakeRows
      BY <1>1, <1>2, <1>3, <3>1, <3>3, TakeRowsStep
    <3>4. CASE Write /\ op \in {"query", "next"}
      BY <1>1, <1>2, <1>3, <3>1, <3>4, WriteRowsStep
    <3>5. CASE TakeDrain
      BY <1>1, <1>2, <1>3, <3>1, <3>5, DrainStep
    <3>6. CASE BeginNext
      BY <1>1, <1>2, <1>3, <3>1, <3>6, BeginNextStep
    <3>7. CASE Close
      BY <1>1, <1>2, <1>3, <3>1, <3>7, CloseStep
    <3>8. CASE WriteFails \/ ReadError \/ TakeCancel
      <4>1. Failed /\ reader' = reader /\ given' = given /\ sent' = sent
        BY <3>8, Zenon DEF WriteFails, ReadError, TakeCancel, Take, server
      <4>2. pc # "scan"
        <5>1. CASE WriteFails
          <6>1. pc = "write"
            BY <5>1, Zenon DEF WriteFails
          <6> QED BY <6>1
        <5>2. CASE ReadError
          <6>1. ReadFails
            BY <5>2, Zenon DEF ReadError
          <6>2. filling # NotFilling
            BY <6>1, Zenon DEF ReadFails
          <6>3. Streaming
            BY <1>1, <6>2, Zenon DEF IInv, Exact
          <6> QED BY <6>3 DEF Streaming
        <5>3. CASE TakeCancel
          <6>1. pc = "body"
            BY <5>3, Zenon DEF TakeCancel, Take
          <6> QED BY <6>1
        <5> QED BY <3>8, <5>1, <5>2, <5>3
      <4> QED BY <1>1, <1>2, <1>3, <3>1, <4>1, <4>2, FailedStep
    <3>9. CASE \/ Write /\ ~(op \in {"query", "next"})
               \/ Fill \/ Receive \/ TakeFrame \/ PeekHeader \/ TakeLob \/ (\E r \in RowIds : GetBytes(r))
               \/ Finished
      <4>1. Finished => UNCHANGED vars
        BY Zenon DEF Finished
      <4> QED BY <1>1, <1>2, <1>3, <3>1, <3>9, <4>1, OtherStep
    <3> QED BY <2>2, <3>2, <3>3, <3>4, <3>5, <3>6, <3>7, <3>8, <3>9, Zenon DEF Next, ClientStep
  <2> QED BY <2>1, <2>2
<1> QED BY <1>4, <1>5, <1>6, Zenon DEF RowInv

\* So the invariant is kept.
LEMMA RStep == RInv /\ [Next]_vars => RInv'
<1> SUFFICES ASSUME RInv, [Next]_vars
             PROVE  RInv'
  OBVIOUS
<1>1. IInv /\ IInv'
  BY StepInv, Zenon DEF RInv
<1>2. PICK base : RowInv(base)
  BY Zenon DEF RInv
<1>3. RowInv(base)'
  BY <1>1, <1>2, RowInvStep
<1> QED BY <1>1, <1>3, Zenon DEF RInv

\* What the invariant says of the rows that were given.
LEMMA RInvMeans == RInv => RowsAreExact
<1> SUFFICES ASSUME RInv
             PROVE  RowsAreExact
  OBVIOUS
<1>1. PICK base : GivenOk /\ Track(base)
  BY Zenon DEF RInv, RowInv
<1>2. PICK S : heap \in Seq(Seq(S))
  BY Zenon DEF RInv, IInv, Cells, Typed
<1>3. DOMAIN given = 1..Len(given)
  <2>1. PICK T : given \in Seq(T)
    BY <1>1, Zenon DEF GivenOk
  <2> QED BY <2>1
<1>4. RowsAreComplete
  BY <1>1, <1>3, Zenon DEF GivenOk, Track, RowsAreComplete
<1>5. ASSUME NEW i \in DOMAIN given
      PROVE  /\ CellsOf(given[i].value)[1].kind \in {"Record", "MultiPartRecord"}
             /\ CellsOf(given[i].value)[1].row = given[i].row
  <2>1. PICK v : v = given[i].value
    BY Zenon
  <2>2. given[i].row = i /\ Holds(v, i)
    BY <1>1, <1>3, <2>1, Zenon DEF GivenOk
  <2>3. /\ v.at \in 1..Len(heap) /\ v.len = 1 /\ v.from \in Nat /\ v.from + 1 <= Len(heap[v.at])
        /\ heap[v.at][v.from + 1].kind \in {"Record", "MultiPartRecord"}
        /\ heap[v.at][v.from + 1].row = i
    BY <2>2, Zenon DEF Holds, Private
  <2>4. heap[v.at] \in Seq(S)
    BY <1>2, <2>3, ElementOfSeq
  <2>5. \A j \in 1..1 : SubSeq(heap[v.at], v.from + 1, v.from + 1)[j] = heap[v.at][v.from + j]
    <3>1. PICK a \in Seq(S), f \in Nat : a = heap[v.at] /\ f = v.from /\ f + 1 <= Len(a)
      BY <2>3, <2>4, Zenon
    <3>2. \A j \in 1..1 : SubSeq(a, f + 1, f + 1)[j] = a[f + j]
      BY <3>1, PartIs
    <3> QED BY <3>1, <3>2, Zenon
  <2>6. CellsOf(v) = SubSeq(heap[v.at], v.from + 1, v.from + 1)
    BY <2>3, Zenon DEF CellsOf
  <2>7. 1 \in 1..1
    OBVIOUS
  <2>8. CellsOf(v)[1] = heap[v.at][v.from + 1]
    BY <2>5, <2>6, <2>7, Zenon
  <2> QED BY <2>1, <2>2, <2>3, <2>8, Zenon
<1>6. ValuesAreStable
  BY <1>5, Zenon DEF ValuesAreStable
<1> QED BY <1>4, <1>6, Zenon DEF RowsAreExact

\* The caller sees each row as the server sent it, in order, none twice and none left out,
\* and keeps it as it is, wherever the server cuts the result into messages (rows.go's
\* Next, which reads from messages of its own, and readLanMessageRawOwned).
THEOREM RowsStayExact == Spec => []RowsAreExact
<1>1. Init => RInv
  BY InitRInv
<1>2. RInv /\ [Next]_vars => RInv'
  BY RStep
<1>3. RInv => RowsAreExact
  BY RInvMeans
<1> QED BY <1>1, <1>2, <1>3, PTL DEF Spec

-----------------------------------------------------------------------------
(* What LOB objects become.                                                *)

\* The LOB objects.
LobStates == [length : Nat, data : Seq(Int), made : BOOLEAN, started : BOOLEAN, done : BOOLEAN,
              index : Nat, nullRead : BOOLEAN, lengthRead : BOOLEAN, attached : BOOLEAN]

\* The bytes of a LOB.
LEMMA BytesAre ==
    ASSUME size \in Nat, NEW r \in Nat
    PROVE  Bytes(r) \in Seq(Int) /\ Len(Bytes(r)) = size /\ Bytes(r) \in [1..size -> Int]
BY DEF Bytes

\* A LOB whose array was made, for the bytes that come with a row.
Begun(l) ==
    /\ l \in LobStates /\ l.index = 0 /\ Len(l.data) = l.length

\* A new LOB, and what start makes of it.
LEMMA StartLobIs ==
    ASSUME NEW n \in Nat, NEW l \in LobStates, l.index = 0, l.data = <<>>, l.length = n
    PROVE  /\ StartLob(l).ok = (n # 0) /\ Begun(StartLob(l).lob)
           /\ StartLob(l).lob.nullRead = l.nullRead /\ StartLob(l).lob.lengthRead = l.lengthRead
           /\ StartLob(l).lob.length = n
           /\ n = 0 => StartLob(l).lob = l
<1>1. CASE n = 0
  <2>1. StartLob(l) = [lob |-> l, ok |-> FALSE]
    BY <1>1 DEF StartLob, Error
  <2>2. Len(<<>>) = 0
    OBVIOUS
  <2>3. StartLob(l).lob = l /\ StartLob(l).ok = FALSE
    BY <2>1
  <2>4. Begun(l)
    BY <1>1, <2>2, Zenon DEF Begun
  <2>5. (n # 0) = FALSE
    BY <1>1
  <2> QED BY <2>3, <2>4, <2>5, Zenon
<1>2. CASE n # 0
  <2> DEFINE zeros == [i \in 1..l.length |-> 0]
             m == [l EXCEPT !.data = zeros, !.made = TRUE, !.started = TRUE]
  <2>1. StartLob(l) = [lob |-> m, ok |-> TRUE]
    BY <1>2 DEF StartLob, Ok
  <2>2. zeros \in Seq(Int) /\ Len(zeros) = n
    OBVIOUS
  <2> HIDE DEF zeros
  <2>3. m \in LobStates /\ m.data = zeros /\ m.index = 0 /\ m.length = n /\ m.nullRead = l.nullRead /\ m.lengthRead = l.lengthRead
    BY <2>2 DEF LobStates
  <2> HIDE DEF m
  <2>4. Begun(m)
    BY <2>2, <2>3, Zenon DEF Begun
  <2>5. StartLob(l).lob = m /\ StartLob(l).ok = TRUE
    BY <2>1
  <2>6. (n # 0) = TRUE
    BY <1>2
  <2> QED BY <1>2, <2>3, <2>4, <2>5, <2>6, Zenon
<1> QED BY <1>1, <1>2

\* All the bytes at once.
LEMMA AppendedIs ==
    ASSUME NEW l, Begun(l), NEW b \in Seq(Int), Len(b) = l.length
    PROVE  /\ AppendBytes(l, b).ok
           /\ AppendBytes(l, b).lob = [l EXCEPT !.data = b, !.index = l.length]
<1>1. l.index = 0 /\ Len(l.data) = l.length /\ l.length \in Nat /\ l \in LobStates
  BY DEF Begun, LobStates
<1> DEFINE d == [i \in 1..Len(l.data) |-> IF i \in (l.index + 1)..(l.index + Len(b)) THEN b[i - l.index] ELSE l.data[i]]
<1>2. d = b
  <2>1. d \in Seq(Int) /\ Len(d) = Len(b)
    <3>1. d = [i \in 1..Len(b) |-> b[i]]
      <4>1. \A i \in 1..Len(b) : i \in (l.index + 1)..(l.index + Len(b)) /\ i - l.index = i
        BY <1>1
      <4>2. Len(l.data) = Len(b)
        BY <1>1
      <4> QED BY <4>1, <4>2
    <3> HIDE DEF d
    <3> QED BY <3>1
  <2>2. \A i \in 1..Len(b) : d[i] = b[i]
    <3>1. \A i \in 1..Len(b) : i \in (l.index + 1)..(l.index + Len(b)) /\ i - l.index = i /\ i \in 1..Len(l.data)
      BY <1>1
    <3> QED BY <3>1
  <2> HIDE DEF d
  <2>3. \A i \in 1..Len(d) : d[i] = b[i]
    BY <2>1, <2>2
  <2> QED BY <2>1, <2>3, SeqEqual
<1>3. ~(l.index + Len(b) > Len(l.data)) /\ l.index + Len(b) = l.length
  BY <1>1
<1>4. AppendBytes(l, b) = [lob |-> [l EXCEPT !.data = d, !.index = l.index + Len(b)], ok |-> TRUE]
  BY <1>1, <1>3 DEF AppendBytes, Ok, LobStates
<1> HIDE DEF d
<1> DEFINE m == [l EXCEPT !.data = b, !.index = l.length]
<1>5. AppendBytes(l, b) = [lob |-> m, ok |-> TRUE]
  BY <1>2, <1>3, <1>4, Zenon
<1> HIDE DEF m
<1>6. AppendBytes(l, b).ok /\ AppendBytes(l, b).lob = m
  BY <1>5
<1> QED BY <1>6 DEF m

\* Two sequences of known lengths.
LEMMA JoinIs ==
    ASSUME NEW u \in Seq(Int), NEW v \in Seq(Int)
    PROVE  /\ u \o v \in Seq(Int) /\ Len(u \o v) = Len(u) + Len(v)
           /\ \A i \in 1..Len(u) : (u \o v)[i] = u[i]
           /\ \A i \in 1..Len(v) : (u \o v)[Len(u) + i] = v[i]
<1>1. Len(u) \in Nat /\ Len(v) \in Nat
  BY LenProperties
<1> DEFINE w == u \o v
<1>2. /\ w \in Seq(Int) /\ Len(w) = Len(u) + Len(v)
      /\ \A i \in 1..Len(u) + Len(v) : w[i] = IF i <= Len(u) THEN u[i] ELSE v[i - Len(u)]
  BY ConcatProperties
<1> HIDE DEF w
<1>3. ASSUME NEW i \in 1..Len(u) PROVE w[i] = u[i]
  BY <1>1, <1>2
<1>4. ASSUME NEW i \in 1..Len(v) PROVE w[Len(u) + i] = v[i]
  <2>1. Len(u) + i \in 1..Len(u) + Len(v) /\ ~(Len(u) + i <= Len(u)) /\ (Len(u) + i) - Len(u) = i
    BY <1>1
  <2> QED BY <1>2, <2>1
<1> QED BY <1>2, <1>3, <1>4 DEF w

\* What the server sends before the bytes: an indicator and a length in eight bytes.
LEMMA RecordBodyIs ==
    ASSUME size \in Nat, NEW r \in Nat
    PROVE  LET body == LobRecord(r).body
           IN /\ body \in Seq(Int) /\ Len(body) = 9 + size /\ body[9] = size
              /\ SubSeq(body, 10, 9 + size) = Bytes(r)
<1> DEFINE a == <<0>>
           z == [i \in 1..(LengthBytes - 1) |-> 0]
           c == <<size>>
           b == Bytes(r)
           body == LobRecord(r).body
<1>1. a \in Seq(Int) /\ Len(a) = 1 /\ c \in Seq(Int) /\ Len(c) = 1 /\ c[1] = size
  OBVIOUS
<1>2. z \in Seq(Int) /\ Len(z) = 7
  BY DEF LengthBytes
<1>3. b \in Seq(Int) /\ Len(b) = size
  BY BytesAre
<1>4. body = ((a \o z) \o c) \o b
  BY DEF LobRecord, Parcel
<1> HIDE DEF a, z, c, b, body
<1> DEFINE az == a \o z
<1>5. az \in Seq(Int) /\ Len(az) = 8
  <2>1. az \in Seq(Int) /\ Len(az) = Len(a) + Len(z)
    BY <1>1, <1>2, JoinIs
  <2> QED BY <1>1, <1>2, <2>1
<1> HIDE DEF az
<1> DEFINE azc == az \o c
<1>6. azc \in Seq(Int) /\ Len(azc) = 9 /\ azc[9] = size
  <2>1. azc \in Seq(Int) /\ Len(azc) = Len(az) + Len(c) /\ \A i \in 1..Len(c) : azc[Len(az) + i] = c[i]
    BY <1>1, <1>5, JoinIs
  <2>2. 1 \in 1..Len(c)
    BY <1>1
  <2>3. azc[Len(az) + 1] = c[1]
    BY <2>1, <2>2
  <2> QED BY <1>1, <1>5, <2>1, <2>3
<1> HIDE DEF azc
<1>7. body = azc \o b
  BY <1>4 DEF az, azc
<1>j. /\ body \in Seq(Int) /\ Len(body) = Len(azc) + Len(b)
      /\ \A i \in 1..Len(azc) : body[i] = azc[i]
      /\ \A i \in 1..Len(b) : body[Len(azc) + i] = b[i]
  BY <1>3, <1>6, <1>7, JoinIs
<1>8. body \in Seq(Int) /\ Len(body) = 9 + size
  BY <1>3, <1>6, <1>j
<1>9. body[9] = size
  BY <1>6, <1>j
<1>10. SubSeq(body, 10, 9 + size) = b
  <2> DEFINE s == SubSeq(body, 9 + 1, 9 + size)
  <2>1. s \in Seq(Int) /\ Len(s) = size /\ \A i \in 1..size : s[i] = body[9 + i]
    <3>1. 9 + size <= Len(body) /\ 9 \in Nat
      BY <1>8
    <3> HIDE DEF s
    <3> QED BY <1>8, <3>1, PartIs DEF s
  <2> HIDE DEF s
  <2>2. \A i \in 1..size : body[9 + i] = b[i]
    BY <1>3, <1>6, <1>j
  <2>3. \A i \in 1..Len(s) : s[i] = b[i]
    BY <2>1, <2>2
  <2>4. s = b
    BY <1>3, <2>1, <2>3, SeqEqual
  <2>5. 9 + 1 = 10
    OBVIOUS
  <2> QED BY <2>4, <2>5 DEF s
<1> QED BY <1>8, <1>9, <1>10 DEF body, b

\* A LOB whose record has been read, whether it could be used or not: a second one would
\* not be.
Spent(l, r) == l.nullRead /\ l.lengthRead /\ l.data = Bytes(r) /\ l.index = size
\* A LOB that is fetched by its locator.
RecordLob(l, r) == l = NewLob(size) \/ Spent(l, r)
\* A LOB that came with its row.
InlineDone(l, r) == l.done /\ ~l.attached /\ l.data = Bytes(r)

\* What a record makes of a LOB.
LEMMA RecordMakes ==
    ASSUME size \in Nat, NEW r \in Nat, NEW l \in LobStates, RecordLob(l, r)
    PROVE  LET t == TakeRecord(l, LobRecord(r).body) IN t.lob \in LobStates /\ Spent(t.lob, r)
<1> DEFINE body == LobRecord(r).body
           t == TakeRecord(l, body)
<1>1. /\ body \in Seq(Int) /\ Len(body) = 9 + size /\ body[9] = size
      /\ SubSeq(body, 10, 9 + size) = Bytes(r)
  BY RecordBodyIs
<1>b. Bytes(r) \in Seq(Int) /\ Len(Bytes(r)) = size
  BY BytesAre
<1> SUFFICES t.lob \in LobStates /\ Spent(t.lob, r)
  OBVIOUS
<1> HIDE DEF body
<1>2. CASE l = NewLob(size)
  <2>1. ~l.nullRead /\ ~l.lengthRead /\ l.index = 0 /\ l.data = <<>>
    BY <1>2 DEF NewLob
  <2>2. Indicator(l, body) = 1 /\ HasLength(l, body)
    BY <1>1, <2>1 DEF Indicator, HasLength, LengthBytes
  <2> DEFINE seen == [l EXCEPT !.nullRead = @ \/ Indicator(l, body) = 1]
             sized == [seen EXCEPT !.lengthRead = TRUE, !.length = body[Indicator(l, body) + LengthBytes]]
             begun == StartLob(sized)
  <2>3. Indicator(l, body) + LengthBytes = 9 /\ Len(body) - Indicator(l, body) - LengthBytes = size
    BY <1>1, <2>2 DEF LengthBytes
  <2>4. /\ seen \in LobStates /\ seen.nullRead /\ seen.index = 0 /\ seen.data = <<>>
    BY <2>1, <2>2 DEF LobStates
  <2>5. sized \in LobStates /\ sized.nullRead /\ sized.lengthRead /\ sized.index = 0 /\ sized.data = <<>> /\ sized.length = size
    <3> HIDE DEF seen
    <3>1. sized = [seen EXCEPT !.lengthRead = TRUE, !.length = size]
      BY <1>1, <2>3, Zenon
    <3> HIDE DEF sized
    <3> QED BY <2>4, <3>1 DEF LobStates
  <2> HIDE DEF seen, sized
  <2>6. /\ begun.ok = (size # 0) /\ Begun(begun.lob) /\ begun.lob.nullRead /\ begun.lob.lengthRead
        /\ begun.lob.length = size /\ (size = 0 => begun.lob = sized)
    BY <2>5, StartLobIs
  <2> HIDE DEF begun
  <2>7. t = IF begun.ok THEN AppendBytes(begun.lob, SubSeq(body, 9 + 1, 9 + size)) ELSE begun
    BY <2>2, <2>3, Zenon DEF TakeRecord, seen, sized, begun
  <2>8. 9 + 1 = 10
    OBVIOUS
  <2>9. t = IF begun.ok THEN AppendBytes(begun.lob, Bytes(r)) ELSE begun
    BY <1>1, <2>7, <2>8, Zenon
  <2>10. CASE size = 0
    <3>1. t = begun /\ begun.lob = sized
      BY <2>6, <2>9, <2>10
    <3>2. Bytes(r) = <<>>
      BY <1>b, <2>10, EmptySeq
    <3> HIDE DEF t
    <3> QED BY <2>5, <2>10, <3>1, <3>2 DEF Spent
  <2>11. CASE size # 0
    <3> DEFINE k == begun.lob
    <3>1. t = AppendBytes(k, Bytes(r))
      BY <2>6, <2>9, <2>11
    <3>2. Begun(k) /\ k.length = size /\ k.nullRead /\ k.lengthRead
      BY <2>6
    <3> HIDE DEF k
    <3>3. t.lob = [k EXCEPT !.data = Bytes(r), !.index = k.length]
      BY <1>b, <3>1, <3>2, AppendedIs
    <3> DEFINE x == t.lob
    <3>4. x \in LobStates /\ x.nullRead /\ x.lengthRead /\ x.data = Bytes(r) /\ x.index = size
      <4>1. k \in LobStates
        BY <3>2, Zenon DEF Begun
      <4>2. x = [k EXCEPT !.data = Bytes(r), !.index = size]
        BY <3>2, <3>3
      <4> HIDE DEF x
      <4> QED BY <1>b, <3>2, <4>1, <4>2 DEF LobStates
    <3> HIDE DEF t
    <3> QED BY <3>4 DEF Spent
  <2> QED BY <2>10, <2>11
<1>3. CASE Spent(l, r)
  <2>1. l.nullRead /\ l.lengthRead /\ l.data = Bytes(r) /\ l.index = size
    BY <1>3, Zenon DEF Spent
  <2>2. Indicator(l, body) = 0 /\ ~HasLength(l, body)
    BY <2>1 DEF Indicator, HasLength
  <2> DEFINE seen == [l EXCEPT !.nullRead = @ \/ Indicator(l, body) = 1]
  <2>3. seen \in LobStates /\ seen.nullRead /\ seen.lengthRead /\ seen.data = Bytes(r) /\ seen.index = size
    BY <2>1 DEF LobStates
  <2> HIDE DEF seen
  <2>4. t = AppendBytes(seen, SubSeq(body, 0 + 0 + 1, 0 + 0 + (Len(body) - 0 - LengthBytes)))
    <3>1. Ok(seen).ok = TRUE /\ Ok(seen).lob = seen
      BY DEF Ok
    <3> QED BY <2>2, <3>1, Zenon DEF TakeRecord, seen
  <2>5. 0 + 0 + 1 = 0 + 1 /\ 0 + 0 + (Len(body) - 0 - LengthBytes) = 0 + (size + 1)
    BY <1>1 DEF LengthBytes
  <2> DEFINE p == SubSeq(body, 0 + 1, 0 + (size + 1))
  <2>6. Len(p) = size + 1
    <3>1. 0 \in Nat /\ size + 1 \in Nat /\ 0 + (size + 1) <= Len(body)
      BY <1>1
    <3> QED BY <1>1, <3>1, PartIs
  <2>7. t = AppendBytes(seen, p)
    BY <2>4, <2>5
  <2> HIDE DEF p
  <2>8. seen.index + Len(p) > Len(seen.data)
    BY <1>b, <2>3, <2>6
  <2>9. t.lob = seen
    BY <2>7, <2>8 DEF AppendBytes, Error
  <2> HIDE DEF t
  <2> QED BY <2>3, <2>9 DEF Spent
<1> QED BY <1>2, <1>3, Zenon DEF RecordLob, t, body

\* A LOB nothing has been read for.
LEMMA NewLobIs ==
    ASSUME NEW n \in Nat
    PROVE  /\ NewLob(n) \in LobStates /\ NewLob(n).index = 0 /\ NewLob(n).data = <<>> /\ NewLob(n).length = n
           /\ NewLob(n).done = FALSE /\ NewLob(n).started = FALSE
<1>1. <<>> \in Seq(Int)
  OBVIOUS
<1> QED BY <1>1 DEF NewLob, LobStates

\* The bytes that come with a row, after eight that do not belong to the LOB.
LEMMA SlobDataIs ==
    ASSUME size \in Nat, NEW r \in Nat, NEW l, l = StartLob(NewLob(size)).lob
    PROVE  LET t == TakeSlobData(l, [i \in 1..LengthBytes |-> 0] \o Bytes(r))
           IN t \in LobStates /\ t.data = Bytes(r)
<1> DEFINE z == [i \in 1..LengthBytes |-> 0]
           b == z \o Bytes(r)
           t == TakeSlobData(l, b)
<1>1. Bytes(r) \in Seq(Int) /\ Len(Bytes(r)) = size
  BY BytesAre
<1>2. z \in Seq(Int) /\ Len(z) = 8
  BY DEF LengthBytes
<1> SUFFICES t \in LobStates /\ t.data = Bytes(r)
  OBVIOUS
<1> HIDE DEF z
<1>3. /\ b \in Seq(Int) /\ Len(b) = 8 + size
      /\ \A i \in 1..size : b[8 + i] = Bytes(r)[i]
  <2>1. /\ b \in Seq(Int) /\ Len(b) = Len(z) + Len(Bytes(r))
        /\ \A i \in 1..Len(Bytes(r)) : b[Len(z) + i] = Bytes(r)[i]
    BY <1>1, <1>2, JoinIs
  <2> QED BY <1>1, <1>2, <2>1
<1> HIDE DEF b
<1>4. SubSeq(b, LengthBytes + 1, Len(b)) = Bytes(r)
  <2> DEFINE s == SubSeq(b, 8 + 1, 8 + size)
  <2>1. s \in Seq(Int) /\ Len(s) = size /\ \A i \in 1..size : s[i] = b[8 + i]
    <3>1. 8 \in Nat /\ 8 + size <= Len(b)
      BY <1>3
    <3> QED BY <1>3, <3>1, PartIs
  <2> HIDE DEF s
  <2>2. \A i \in 1..Len(s) : s[i] = Bytes(r)[i]
    BY <1>3, <2>1
  <2>3. s = Bytes(r)
    BY <1>1, <2>1, <2>2, SeqEqual
  <2> QED BY <1>3, <2>3 DEF s, LengthBytes
<1>5. Begun(l) /\ l.length = size
  <2>1. /\ NewLob(size) \in LobStates /\ NewLob(size).index = 0 /\ NewLob(size).data = <<>> /\ NewLob(size).length = size
    BY NewLobIs
  <2> QED BY <2>1, StartLobIs
<1>6. t = [l EXCEPT !.data = Bytes(r), !.index = l.length]
  <2>1. AppendBytes(l, Bytes(r)).lob = [l EXCEPT !.data = Bytes(r), !.index = l.length]
    BY <1>1, <1>5, AppendedIs
  <2>2. t = AppendBytes(l, Bytes(r)).lob
    BY <1>4, Zenon DEF TakeSlobData
  <2> QED BY <2>1, <2>2
<1>7. l \in LobStates
  BY <1>5, Zenon DEF Begun
<1> HIDE DEF t
<1> QED BY <1>1, <1>5, <1>6, <1>7 DEF LobStates

\* A LOB that is complete keeps its bytes.
LEMMA CompleteIs ==
    ASSUME NEW l \in LobStates
    PROVE  /\ CompleteLob(l) \in LobStates /\ CompleteLob(l).done = TRUE /\ CompleteLob(l).attached = FALSE
           /\ CompleteLob(l).data = l.data /\ CompleteLob(l).index = l.index
           /\ CompleteLob(l).nullRead = l.nullRead /\ CompleteLob(l).lengthRead = l.lengthRead
BY DEF CompleteLob, LobStates

\* So it is still the LOB of its row.
LEMMA CompleteStays ==
    ASSUME NEW l \in LobStates, NEW r, Spent(l, r)
    PROVE  CompleteLob(l) \in LobStates /\ Spent(CompleteLob(l), r)
BY CompleteIs, Zenon DEF Spent

\* Whether its fetch goes on does not change what a LOB holds.
LEMMA StartedStays ==
    ASSUME NEW l \in LobStates, NEW r, NEW b \in BOOLEAN
    PROVE  /\ [l EXCEPT !.started = b] \in LobStates
           /\ Spent(l, r) => Spent([l EXCEPT !.started = b], r)
           /\ size \in Nat /\ RecordLob(l, r) => RecordLob([l EXCEPT !.started = FALSE], r)
<1> DEFINE m == [l EXCEPT !.started = b]
           s == [l EXCEPT !.started = FALSE]
<1>1. /\ m \in LobStates /\ m.nullRead = l.nullRead /\ m.lengthRead = l.lengthRead /\ m.data = l.data /\ m.index = l.index
  BY DEF LobStates
<1>2. /\ s \in LobStates /\ s.nullRead = l.nullRead /\ s.lengthRead = l.lengthRead /\ s.data = l.data /\ s.index = l.index
  BY DEF LobStates
<1>3. l = NewLob(size) => s = l
  <2>1. l = NewLob(size) => l.started = FALSE
    BY DEF NewLob
  <2>2. l.started = FALSE => s = l
    BY DEF LobStates
  <2> QED BY <2>1, <2>2
<1> HIDE DEF m, s
<1>4. Spent(l, r) => Spent(m, r) /\ Spent(s, r)
  BY <1>1, <1>2, Zenon DEF Spent
<1>5. RecordLob(l, r) => RecordLob(s, r)
  BY <1>3, <1>4, Zenon DEF RecordLob
<1> QED BY <1>1, <1>4, <1>5 DEF m, s

-----------------------------------------------------------------------------
(* The invariant.                                                          *)

\* The types that the arguments about LOBs need.
LobsTyped ==
    /\ size \in Nat /\ lobs \in [RowIds -> LobStates]
    /\ got \in [RowIds -> [known : BOOLEAN, bytes : Seq(Int)]]

\* The LOBs of the rows the caller has: those that are complete hold their bytes.
LobOk(r) == RecordLob(lobs[r], r) \/ InlineDone(lobs[r], r)
LobsGiven == \A r \in RowIds : r <= Len(given) => LobOk(r)

\* The LOB of row r when j of the row's parcels have been read.
RowLob(r, j) ==
    /\ j = 1 => lobs[r] = NewLob(size)
    /\ j = 2 => slob /\ lobs[r] = StartLob(NewLob(size)).lob
    /\ j = 3 => slob /\ lobs[r].data = Bytes(r)
    /\ j = 4 => InlineDone(lobs[r], r)

\* Nothing has been read for the rows to come, but for the one that is being read.
Ahead(base, r) ==
    \/ dest.row # r /\ lobs[r] = NewLob(size)
    \/ dest.row = r /\ (pc = "scan" => \E j \in 1..4 : Reads = base[r] + j /\ RowLob(r, j))
LobsAhead(base) == status = "open" => \A r \in RowIds : r > Len(given) => Ahead(base, r)

\* The LOB that is being fetched: that of a row the caller has, or of the row that waits.
LobFetch ==
    /\ op \in {"lob", "drain"} => cur # 0
    /\ cur # 0 => /\ op \in {"lob", "drain", "cancel"} /\ cur \in RowIds /\ RecordLob(lobs[cur], cur)
                  /\ dest.row = cur \/ (dest = NoRow /\ cur <= Len(given))
    /\ op = "drain" => Spent(lobs[cur], cur)
    /\ op = "lob" /\ Streaming => \/ message = <<LobRecord(cur), Plain("EndRequest")>>
                                  \/ message = <<LobRecord(cur)>>
                                  \/ message = <<Plain("Failure")>>
                                  \/ message = <<Plain("EndRequest")>> /\ lobs[cur].started

LInv(base) == LobsTyped /\ LobIsWhole /\ LobsGiven /\ LobFetch /\ LobsAhead(base)

-----------------------------------------------------------------------------
(* What the steps keep.                                                    *)

\* Neither the LOBs nor the rows change.
LEMMA LobsStay ==
    ASSUME LobsTyped, LobIsWhole, LobsGiven, size' = size, lobs' = lobs, got' = got, given' = given
    PROVE  LobsTyped' /\ LobIsWhole' /\ LobsGiven'
<1>1. LobsTyped'
  BY Zenon DEF LobsTyped, RowIds, LobStates
<1>2. LobIsWhole'
  BY Zenon DEF LobIsWhole, RowIds, Bytes
<1>3. LobsGiven'
  BY Zenon DEF LobsGiven, RowIds, LobOk, RecordLob, Spent, InlineDone, Bytes, NewLob
<1> QED BY <1>1, <1>2, <1>3

\* The rows have numbers from one on.
LEMMA NoRowIs == NoRow.row = 0 /\ \A r \in RowIds : r \in Nat /\ r # 0
BY RowsAssumption DEF NoRow, RowIds

\* The rows to come stay as they are.
LEMMA AheadStays ==
    ASSUME NEW base, LobsAhead(base), size' = size, lobs' = lobs, given' = given,
           status' = "open" => status = "open", dest' = dest,
           \/ dest = NoRow
           \/ pc' # "scan"
           \/ UNCHANGED <<pc, sent, reader, slob>>
    PROVE  LobsAhead(base)'
<1> SUFFICES ASSUME status' = "open", NEW r \in RowIds', r > Len(given')
             PROVE  Ahead(base, r)'
  BY Zenon DEF LobsAhead
<1>1. r \in RowIds /\ r > Len(given) /\ status = "open"
  BY Zenon DEF RowIds
<1>2. Ahead(base, r)
  BY <1>1, Zenon DEF LobsAhead
<1>3. CASE dest.row # r
  <2>1. lobs[r] = NewLob(size)
    BY <1>2, <1>3, Zenon DEF Ahead
  <2> QED BY <1>3, <2>1, Zenon DEF Ahead, NewLob
<1>4. CASE dest.row = r
  <2>1. dest # NoRow
    BY <1>1, <1>4, NoRowIs, Zenon
  <2>2. CASE pc' # "scan"
    BY <1>4, <2>2, Zenon DEF Ahead
  <2>3. CASE UNCHANGED <<pc, sent, reader, slob>>
    <3>1. pc' = pc /\ sent' = sent /\ reader' = reader /\ slob' = slob
      BY <2>3
    <3>2. ASSUME pc = "scan"
          PROVE  \E j \in 1..4 : Reads = base[r] + j /\ RowLob(r, j)
      BY <1>2, <1>4, <3>2, Zenon DEF Ahead
    <3>3. Reads' = Reads
      BY <3>1, Zenon DEF Reads
    <3>4. \A j : RowLob(r, j) => RowLob(r, j)'
      BY <3>1, Zenon DEF RowLob, StartLob, Ok, Error, NewLob, InlineDone, Bytes
    <3> QED BY <1>4, <3>1, <3>2, <3>3, <3>4, Zenon DEF Ahead
  <2> QED BY <2>1, <2>2, <2>3
<1> QED BY <1>3, <1>4

\* The fetch goes on.
LEMMA FetchStays ==
    ASSUME LobFetch, size' = size, lobs' = lobs, given' = given, cur' = cur, op' = op, dest' = dest, message' = message,
           Streaming' => Streaming
    PROVE  LobFetch'
BY Zenon DEF LobFetch, RowIds, RecordLob, Spent, Bytes, NewLob, NoRow, Slice, LobRecord, Plain, Parcel

\* There is none any more.
LEMMA FetchEnds ==
    ASSUME cur' = 0, op' # "lob", op' # "drain"
    PROVE  LobFetch'
BY Zenon DEF LobFetch

-----------------------------------------------------------------------------
(* The steps of the result set.                                            *)

\* No LOB is fetched while rows are.
LEMMA NoFetch ==
    ASSUME LobFetch, op \notin {"lob", "drain", "cancel"}
    PROVE  cur = 0
BY Zenon DEF LobFetch

\* Steps that neither read nor ask for a LOB.
LEMMA RowsStep ==
    ASSUME IInv, NEW base, RowInv(base), LInv(base), UNCHANGED setup, TakeRows \/ BeginNext \/ Close \/ NextEOF
    PROVE  LInv(base)'
<1>1. LobsTyped /\ LobIsWhole /\ LobsGiven /\ LobFetch /\ LobsAhead(base) /\ Phases
  BY Zenon DEF LInv, RowInv
<1>2. size' = size /\ lobs' = lobs /\ got' = got /\ given' = given /\ cur' = cur
  BY Zenon DEF TakeRows, BeginNext, Close, NextEOF, Scans, setup, lobVars
<1>3. LobsTyped' /\ LobIsWhole' /\ LobsGiven'
  BY <1>1, <1>2, LobsStay
<1>4. LobFetch'
  <2>1. op \notin {"lob", "drain", "cancel"}
    <3>1. pc = "idle" <=> op = "none"
      BY <1>1, Zenon DEF Phases
    <3>2. pc = "scan" => op = "next"
      BY <1>1, Zenon DEF Phases
    <3>3. op \in {"query", "next"} \/ pc = "idle" \/ pc = "scan"
      BY Zenon DEF TakeRows, BeginNext, Close, NextEOF, Scans
    <3> QED BY <3>1, <3>2, <3>3
  <2>2. cur = 0
    BY <1>1, <2>1, NoFetch
  <2>3. op' # "lob" /\ op' # "drain"
    <3>1. op' = op \/ op' = "none" \/ op' = "next" \/ op' = "cancel"
      BY Zenon DEF TakeRows, BeginNext, Close, NextEOF
    <3> QED BY <2>1, <3>1
  <2> QED BY <1>2, <2>2, <2>3, FetchEnds
<1>5. LobsAhead(base)'
  <2>1. CASE TakeRows
    <3>1. pc = "body" /\ op \in {"query", "next"} /\ dest' = dest
          /\ (status' = status \/ status' = "error")
      BY <2>1, Zenon DEF TakeRows, Take
    <3>2. dest = NoRow
      BY <1>1, <3>1, Zenon DEF Phases
    <3>3. status' = "open" => status = "open"
      BY <3>1
    <3> QED BY <1>1, <1>2, <3>1, <3>2, <3>3, AheadStays
  <2>2. CASE BeginNext
    <3>1. pc = "idle" /\ dest' = NoRow /\ status' = status
      BY <2>2, Zenon DEF BeginNext
    <3>2. dest = NoRow
      BY <1>1, <3>1, Zenon DEF Phases
    <3> QED BY <1>1, <1>2, <3>1, <3>2, AheadStays
  <2>3. CASE Close \/ NextEOF
    <3>1. status' = "closed" \/ status' = "eof"
      BY <2>3, Zenon DEF Close, NextEOF
    <3>2. status' # "open"
      BY <3>1
    <3> QED BY <3>2, Zenon DEF LobsAhead
  <2> QED BY <2>1, <2>2, <2>3
<1> QED BY <1>3, <1>4, <1>5, Zenon DEF LInv

\* Steps of the buffer.
LEMMA BufferLobStep ==
    ASSUME NEW base, LInv(base), UNCHANGED setup, Fill \/ Receive \/ TakeFrame \/ PeekHeader \/ UNCHANGED vars
    PROVE  LInv(base)'
<1>1. LobsTyped /\ LobIsWhole /\ LobsGiven /\ LobFetch /\ LobsAhead(base)
  BY Zenon DEF LInv
<1>2. /\ size' = size /\ lobs' = lobs /\ got' = got /\ given' = given /\ cur' = cur /\ op' = op /\ dest' = dest
      /\ message' = message /\ status' = status /\ sent' = sent /\ reader' = reader /\ slob' = slob
      /\ \/ pc' = pc
         \/ pc = "frame" /\ pc' = "header"
         \/ pc = "header" /\ pc' = "body"
  BY Zenon DEF Fill, Receive, TakeFrame, PeekHeader, vars, setup, control, rowVars, lobVars, server
<1>3. (Streaming' => Streaming) /\ (pc' = pc \/ pc' # "scan")
  <2>1. CASE pc' = pc
    BY <2>1, Zenon DEF Streaming
  <2>2. CASE pc # pc'
    BY <1>2, <2>2 DEF Streaming
  <2> QED BY <2>1, <2>2
<1>4. LobsTyped' /\ LobIsWhole' /\ LobsGiven'
  BY <1>1, <1>2, LobsStay
<1>5. LobFetch'
  BY <1>1, <1>2, <1>3, FetchStays
<1>6. LobsAhead(base)'
  BY <1>1, <1>2, <1>3, AheadStays
<1> QED BY <1>4, <1>5, <1>6, Zenon DEF LInv

\* A request is answered.
LEMMA WriteLobStep ==
    ASSUME NEW base, LInv(base), UNCHANGED setup, Write
    PROVE  LInv(base)'
<1>1. LobsTyped /\ LobIsWhole /\ LobsGiven /\ LobFetch /\ LobsAhead(base)
  BY Zenon DEF LInv
<1>2. /\ size' = size /\ lobs' = lobs /\ got' = got /\ given' = given /\ cur' = cur /\ op' = op /\ dest' = dest
      /\ status' = status /\ pc = "write" /\ (pc' = "frame" \/ pc' = "header")
  BY Zenon DEF Write, setup, rowVars, lobVars
<1>3. LobsTyped' /\ LobIsWhole' /\ LobsGiven'
  BY <1>1, <1>2, LobsStay
<1>4. pc' # "scan"
  BY <1>2
<1>5. LobsAhead(base)'
  BY <1>1, <1>2, <1>4, AheadStays
<1>6. ASSUME op = "lob"
      PROVE  \/ message' = <<LobRecord(cur), Plain("EndRequest")>>
             \/ message' = <<LobRecord(cur)>>
             \/ message' = <<Plain("Failure")>>
             \/ message' = <<Plain("EndRequest")>> /\ lobs[cur].started
  <2>1. op \notin {"query", "next"} /\ op \notin {"drain", "cancel"}
    BY <1>6
  <2>2. \/ AnswerLob \/ AnswerError
        \/ lobs[cur].started /\ AnswerEnd
    BY <2>1, Zenon DEF Write
  <2> QED BY <2>2, Zenon DEF AnswerLob, AnswerError, AnswerEnd, Answers
<1>7. LobFetch'
  BY <1>1, <1>2, <1>6, Zenon DEF LobFetch, RowIds, RecordLob, Spent, Bytes, NewLob, NoRow, Slice, LobRecord, Plain, Parcel
<1> QED BY <1>3, <1>5, <1>7, Zenon DEF LInv

-----------------------------------------------------------------------------
(* The steps of a fetch.                                                   *)

\* The rows the caller has are counted.
LEMMA GivenAre ==
    ASSUME GivenOk
    PROVE  /\ Len(given) \in Nat
           /\ \A row : given' = Append(given, row) => Len(given') = Len(given) + 1
<1>1. PICK T : given \in Seq(T)
  BY Zenon DEF GivenOk
<1>2. Len(given) \in Nat
  BY <1>1, LenProperties
<1>3. ASSUME NEW row, given' = Append(given, row)
      PROVE  Len(given') = Len(given) + 1
  <2> DEFINE U == T \cup {row}
  <2>1. given \in Seq(U) /\ row \in U
    BY <1>1, SeqMonotonic
  <2> HIDE DEF U
  <2> QED BY <1>3, <2>1, AppendProperties
<1> QED BY <1>2, <1>3

\* One LOB object changes, of a row the caller has or of the row that waits.
LEMMA OneLobMoves ==
    ASSUME NEW base, GivenOk, LobsTyped, LobIsWhole, LobsGiven, LobsAhead(base), UNCHANGED setup,
           NEW c \in RowIds, NEW x \in LobStates, lobs' = [lobs EXCEPT ![c] = x], RecordLob(x, c),
           got' = got, given' = given, dest.row = c \/ c <= Len(given),
           status' = "open" => status = "open", pc' # "scan",
           dest' = dest \/ (dest = NoRow /\ dest' = NoRow)
    PROVE  LobsTyped' /\ LobIsWhole' /\ LobsGiven' /\ LobsAhead(base)' /\ lobs'[c] = x
<1>1. size' = size
  BY Zenon DEF setup
<1>2. lobs \in [RowIds -> LobStates]
  BY Zenon DEF LobsTyped
<1>3. /\ lobs' \in [RowIds -> LobStates] /\ lobs'[c] = x
      /\ \A r \in RowIds : r # c => lobs'[r] = lobs[r]
  BY <1>2
<1>4. LobsTyped'
  BY <1>1, <1>3, Zenon DEF LobsTyped, RowIds, LobStates
<1>5. LobIsWhole'
  BY <1>1, Zenon DEF LobIsWhole, RowIds, Bytes
<1>6. LobsGiven'
  BY <1>1, <1>3, Zenon DEF LobsGiven, RowIds, LobOk, RecordLob, Spent, InlineDone, Bytes, NewLob
<1>7. ASSUME status' = "open", NEW r \in RowIds, r > Len(given)
      PROVE  Ahead(base, r)'
  <2>1. Ahead(base, r)
    BY <1>7, Zenon DEF LobsAhead
  <2>2. dest' = dest
    BY Zenon
  <2>3. CASE dest.row = r
    BY <2>2, <2>3, Zenon DEF Ahead
  <2>4. CASE dest.row # r
    <3>1. ~(c <= Len(given)) \/ r # c
      <4>1. Len(given) \in Nat /\ c \in Nat /\ r \in Nat
        BY GivenAre, NoRowIs
      <4> QED BY <1>7, <4>1
    <3> QED BY <1>1, <1>3, <2>1, <2>2, <2>4, <3>1, Zenon DEF Ahead, NewLob
  <2> QED BY <2>3, <2>4
<1>8. LobsAhead(base)'
  BY <1>7, Zenon DEF LobsAhead, RowIds
<1> QED BY <1>3, <1>4, <1>5, <1>6, <1>8

\* What the messages of a fetch hold.
LEMMA AnswerHolds ==
    ASSUME NEW c, Parcels = message
    PROVE  /\ message = <<LobRecord(c), Plain("EndRequest")>> \/ message = <<LobRecord(c)>> =>
                 Has("Record") /\ Parcels[1] = LobRecord(c)
           /\ message = <<Plain("Failure")>> => ~Has("Record") /\ Has("Failure")
           /\ message = <<Plain("EndRequest")>> => ~Has("Record")
<1>1. LobRecord(c).kind = "Record" /\ Plain("EndRequest").kind = "EndRequest" /\ Plain("Failure").kind = "Failure"
  <2> DEFINE b == <<0>> \o [i \in 1..(LengthBytes - 1) |-> 0] \o <<size>> \o Bytes(c)
  <2>1. LobRecord(c) = Parcel("Record", c, b)
    BY DEF LobRecord
  <2> HIDE DEF b
  <2> QED BY <2>1 DEF Parcel, Plain
<1> DEFINE l == LobRecord(c)
           e == Plain("EndRequest")
           f == Plain("Failure")
<1> HIDE DEF l, e, f
<1>2. l.kind = "Record" /\ e.kind = "EndRequest" /\ f.kind = "Failure"
  BY <1>1 DEF l, e, f
<1>3. message = <<l, e>> \/ message = <<l>> => Has("Record") /\ Parcels[1] = l
  <2>1. message = <<l, e>> \/ message = <<l>> => 1 \in DOMAIN message /\ message[1] = l
    OBVIOUS
  <2> QED BY <1>2, <2>1, Zenon DEF Has
<1>4. message = <<f>> => ~Has("Record") /\ Has("Failure")
  <2>1. message = <<f>> => 1 \in DOMAIN message /\ message[1] = f /\ \A i \in DOMAIN message : message[i] = f
    OBVIOUS
  <2>2. f.kind # "Record"
    BY <1>2
  <2> QED BY <1>2, <2>1, <2>2, Zenon DEF Has
<1>5. message = <<e>> => ~Has("Record")
  <2>1. message = <<e>> => \A i \in DOMAIN message : message[i] = e
    OBVIOUS
  <2>2. e.kind # "Record"
    BY <1>2
  <2> QED BY <2>1, <2>2, Zenon DEF Has
<1> QED BY <1>3, <1>4, <1>5 DEF l, e, f

\* A message of a fetch is taken.
LEMMA TakeLobStep ==
    ASSUME IInv, NEW base, RowInv(base), LInv(base), UNCHANGED setup, TakeLob
    PROVE  LInv(base)'
<1>1. LobsTyped /\ LobIsWhole /\ LobsGiven /\ LobFetch /\ LobsAhead(base) /\ GivenOk
  BY Zenon DEF LInv, RowInv
<1>2. /\ pc = "body" /\ Ready /\ op = "lob" /\ pc' = "write" /\ got' = got /\ given' = given /\ dest' = dest
      /\ status' = status /\ cur' = cur
  BY Zenon DEF TakeLob, Take, rowVars
<1>3. Parcels = message
  <2>1. PICK S : Cells(S)
    BY Zenon DEF IInv
  <2> QED BY <1>2, <2>1, MessageIs, Zenon
<1>4. PICK c : c = cur
  BY Zenon
<1>5. c # 0 /\ c \in RowIds /\ RecordLob(lobs[c], c) /\ (dest.row = c \/ (dest = NoRow /\ c <= Len(given)))
  <2>1. op \in {"lob", "drain"}
    BY <1>2
  <2> QED BY <1>1, <1>4, <2>1, Zenon DEF LobFetch
<1>6. \/ message = <<LobRecord(c), Plain("EndRequest")>>
      \/ message = <<LobRecord(c)>>
      \/ message = <<Plain("Failure")>>
      \/ message = <<Plain("EndRequest")>> /\ lobs[c].started
  <2>1. Streaming
    BY <1>2 DEF Streaming
  <2> QED BY <1>1, <1>2, <1>4, <2>1, Zenon DEF LobFetch
<1>7. size \in Nat /\ lobs[c] \in LobStates /\ c \in Nat
  BY <1>1, <1>5, NoRowIs DEF LobsTyped
<1> DEFINE taken == IF Has("Record") THEN TakeRecord(lobs[c], Parcels[1].body) ELSE Ok(lobs[c])
           failed == Has("Failure") \/ ~taken.ok
           b == taken.lob.started /\ ~failed
           x == [taken.lob EXCEPT !.started = b]
<1>8. /\ lobs' = [lobs EXCEPT ![c] = x]
      /\ op' = IF failed THEN "cancel" ELSE IF Has("EndRequest") THEN "drain" ELSE "lob"
  BY <1>4, Zenon DEF TakeLob
<1>9. /\ taken.lob \in LobStates
      /\ Spent(taken.lob, c) \/ (failed /\ RecordLob(taken.lob, c))
  <2>1. CASE message = <<LobRecord(c), Plain("EndRequest")>> \/ message = <<LobRecord(c)>>
    <3>1. taken = TakeRecord(lobs[c], LobRecord(c).body)
      BY <1>3, <2>1, AnswerHolds, Zenon
    <3> HIDE DEF taken
    <3> QED BY <1>5, <1>7, <3>1, RecordMakes
  <2>2. CASE message = <<Plain("Failure")>>
    <3>1. taken = Ok(lobs[c]) /\ failed
      BY <1>3, <2>2, AnswerHolds, Zenon
    <3> HIDE DEF failed, taken
    <3>2. taken.lob = lobs[c]
      BY <3>1 DEF Ok
    <3> QED BY <1>5, <1>7, <3>1, <3>2, Zenon
  <2>3. CASE message = <<Plain("EndRequest")>> /\ lobs[c].started
    <3>1. taken = Ok(lobs[c])
      BY <1>3, <2>3, AnswerHolds, Zenon
    <3> HIDE DEF taken
    <3>2. taken.lob = lobs[c]
      BY <3>1 DEF Ok
    <3>3. lobs[c] # NewLob(size)
      <4>1. NewLob(size).started = FALSE
        BY <1>7, NewLobIs
      <4> QED BY <2>3, <4>1
    <3>4. Spent(lobs[c], c)
      BY <1>5, <3>3, Zenon DEF RecordLob
    <3> QED BY <1>7, <3>2, <3>4, Zenon
  <2> HIDE DEF taken, failed
  <2> QED BY <1>6, <2>1, <2>2, <2>3
<1>10. x \in LobStates /\ RecordLob(x, c) /\ (~failed => Spent(x, c))
  <2> HIDE DEF taken, failed
  <2>1. b \in BOOLEAN
    BY Zenon
  <2>2. failed => b = FALSE
    BY Zenon
  <2> HIDE DEF b
  <2>3. x \in LobStates /\ (Spent(taken.lob, c) => Spent(x, c))
    BY <1>9, <2>1, StartedStays
  <2>4. failed /\ RecordLob(taken.lob, c) => RecordLob(x, c)
    <3>1. RecordLob(taken.lob, c) => RecordLob([taken.lob EXCEPT !.started = FALSE], c)
      BY <1>7, <1>9, <2>1, StartedStays
    <3> QED BY <2>2, <3>1, Zenon
  <2> HIDE DEF x
  <2> QED BY <1>9, <2>3, <2>4, Zenon DEF RecordLob
<1> HIDE DEF x, taken, b
<1>11. LobsTyped' /\ LobIsWhole' /\ LobsGiven' /\ LobsAhead(base)' /\ lobs'[c] = x
  <2>1. pc' # "scan"
    BY <1>2
  <2> QED BY <1>1, <1>2, <1>5, <1>8, <1>10, <2>1, OneLobMoves
<1>12. LobFetch'
  <2>1. op' = "cancel" \/ op' = "lob" \/ (op' = "drain" /\ ~failed)
    BY <1>8, Zenon
  <2>2. ~Streaming'
    BY <1>2 DEF Streaming
  <2>3. op' \in {"lob", "drain", "cancel"} /\ (op' = "drain" => ~failed)
    BY <2>1
  <2>4. RecordLob(lobs[c], c)' /\ (op' = "drain" => Spent(lobs[c], c)')
    <3>1. size' = size
      BY Zenon DEF setup
    <3> QED BY <1>10, <1>11, <2>3, <3>1, Zenon DEF RecordLob, Spent, Bytes, NewLob
  <2>5. RecordLob(lobs[cur], cur)' /\ (op' = "drain" => Spent(lobs[cur], cur)')
    BY <1>2, <1>4, <2>4, Zenon DEF RecordLob, Spent, Bytes, NewLob
  <2> HIDE DEF failed
  <2> QED BY <1>2, <1>4, <1>5, <2>2, <2>3, <2>5, Zenon DEF LobFetch, RowIds, NoRow, Slice
<1> QED BY <1>11, <1>12, Zenon DEF LInv

\* GetBytes returns the bytes of a LOB.
LEMMA GotIs ==
    ASSUME LobsTyped, LobIsWhole, size' = size, NEW c \in RowIds, NEW b, b = Bytes(c),
           got' = [got EXCEPT ![c] = [known |-> TRUE, bytes |-> b]]
    PROVE  got' \in [RowIds -> [known : BOOLEAN, bytes : Seq(Int)]] /\ LobIsWhole'
<1>1. got \in [RowIds -> [known : BOOLEAN, bytes : Seq(Int)]]
  BY Zenon DEF LobsTyped
<1>2. b \in Seq(Int)
  BY BytesAre, NoRowIs DEF LobsTyped
<1> DEFINE g == [known |-> TRUE, bytes |-> b]
<1>3. g \in [known : BOOLEAN, bytes : Seq(Int)] /\ g.bytes = b
  BY <1>2
<1> HIDE DEF g
<1>4. got' = [got EXCEPT ![c] = g]
  BY Zenon DEF g
<1>5. /\ got' \in [RowIds -> [known : BOOLEAN, bytes : Seq(Int)]] /\ got'[c] = g
      /\ \A r \in RowIds : r # c => got'[r] = got[r]
  BY <1>1, <1>3, <1>4
<1>6. LobIsWhole'
  BY <1>3, <1>5, Zenon DEF LobIsWhole, RowIds, Bytes
<1> QED BY <1>5, <1>6

\* The answer to a cancel completes a LOB, and its row, if it waits, is given.
LEMMA DrainLobStep ==
    ASSUME NEW base, RowInv(base), LInv(base), UNCHANGED setup, TakeDrain
    PROVE  LInv(base)'
<1>1. LobsTyped /\ LobIsWhole /\ LobsGiven /\ LobFetch /\ LobsAhead(base) /\ GivenOk /\ Phases /\ Track(base)
  BY Zenon DEF LInv, RowInv
<1>2. /\ pc = "body" /\ op = "drain" /\ pc' = "idle" /\ op' = "none" /\ cur' = 0 /\ status' = status
  BY Zenon DEF TakeDrain, Take, Got
<1>3. PICK c : c = cur
  BY Zenon
<1>4. c # 0 /\ c \in RowIds /\ Spent(lobs[c], c) /\ (dest.row = c \/ (dest = NoRow /\ c <= Len(given)))
  <2>1. op \in {"lob", "drain"}
    BY <1>2
  <2> QED BY <1>1, <1>2, <1>3, <2>1, Zenon DEF LobFetch
<1>5. size' = size /\ size \in Nat /\ lobs \in [RowIds -> LobStates] /\ lobs[c] \in LobStates /\ Len(given) \in Nat /\ c \in Nat
  <2>1. size' = size
    BY Zenon DEF setup
  <2> QED BY <1>1, <1>4, <2>1, GivenAre, NoRowIs DEF LobsTyped
<1>6. got' \in [RowIds -> [known : BOOLEAN, bytes : Seq(Int)]] /\ LobIsWhole'
  <2>1. lobs[c].data = Bytes(c)
    BY <1>4, Zenon DEF Spent
  <2>2. got' = [got EXCEPT ![c] = [known |-> TRUE, bytes |-> lobs[c].data]]
    BY <1>3, Zenon DEF TakeDrain, Got
  <2> QED BY <1>1, <1>4, <1>5, <2>1, <2>2, GotIs
<1>7. /\ lobs' \in [RowIds -> LobStates] /\ Spent(lobs'[c], c)
      /\ \A r \in RowIds : r # c => lobs'[r] = lobs[r]
  <2> DEFINE x == CompleteLob(lobs[c])
  <2>1. x \in LobStates /\ Spent(x, c)
    BY <1>4, <1>5, CompleteStays
  <2>2. lobs' = [lobs EXCEPT ![c] = x]
    BY <1>3, Zenon DEF TakeDrain
  <2> HIDE DEF x
  <2> QED BY <1>4, <1>5, <2>1, <2>2
<1>8. LobsTyped'
  BY <1>5, <1>6, <1>7, Zenon DEF LobsTyped, RowIds, LobStates
<1>9. LobFetch'
  <2>1. op' # "lob" /\ op' # "drain"
    BY <1>2
  <2> QED BY <1>2, <2>1, FetchEnds
<1>c. LobOk(c)'
  BY <1>5, <1>7, Zenon DEF LobOk, RecordLob, Spent, Bytes, NewLob
<1>o. \A r \in RowIds : r # c /\ LobOk(r) => LobOk(r)'
  BY <1>5, <1>7, Zenon DEF LobOk, RecordLob, Spent, InlineDone, Bytes, NewLob
<1>10. CASE dest = NoRow
  <2>1. dest' = NoRow /\ given' = given
    BY <1>10, Zenon DEF TakeDrain, Got
  <2>2. c <= Len(given)
    BY <1>4, <1>10, NoRowIs, Zenon
  <2>3. LobsGiven'
    BY <1>1, <1>c, <1>o, <2>1, Zenon DEF LobsGiven, RowIds
  <2>4. ASSUME status' = "open", NEW r \in RowIds, r > Len(given)
        PROVE  Ahead(base, r)'
    <3>1. r # c /\ NoRow.row # r
      BY <1>4, <1>5, <2>2, <2>4, NoRowIs
    <3>2. lobs[r] = NewLob(size)
      BY <1>1, <1>2, <1>10, <2>4, <3>1, Zenon DEF LobsAhead, Ahead
    <3>3. dest'.row # r /\ lobs'[r] = NewLob(size')
      BY <1>5, <1>7, <2>1, <3>1, <3>2, Zenon
    <3> QED BY <3>3, Zenon DEF Ahead
  <2>5. LobsAhead(base)'
    BY <2>1, <2>4, Zenon DEF LobsAhead, RowIds
  <2> QED BY <1>6, <1>8, <1>9, <2>3, <2>5, Zenon DEF LInv
<1>11. CASE dest # NoRow
  <2>1. dest' = NoRow /\ given' = Append(given, dest) /\ dest.row = c
    BY <1>4, <1>11, Zenon DEF TakeDrain, Got, Give
  <2>2. Len(given') = Len(given) + 1
    BY <1>1, <2>1, GivenAre
  <2>3. Len(given) + 1 = c
    <3>1. status = "open"
      BY <1>1, <1>11, Zenon DEF Phases
    <3>2. Progress(base)
      BY <1>1, <3>1, Zenon DEF Track
    <3>3. Between(base)
      <4>1. pc # "scan" /\ ~(op \in {"query", "next"})
        BY <1>2
      <4> QED BY <3>2, <4>1, Zenon DEF Progress
    <3>4. PICK q \in 1..(Rows + 1) : dest.row = q - 1 /\ Len(given) = q - 2
      BY <1>11, <3>3, Zenon DEF Between
    <3> QED BY <2>1, <3>4, RowsAssumption
  <2>4. LobsGiven'
    <3>1. ASSUME NEW r \in RowIds, r <= Len(given')
          PROVE  LobOk(r)'
      <4>1. r = c \/ r <= Len(given)
        BY <1>5, <2>2, <2>3, <3>1, NoRowIs
      <4> QED BY <1>1, <1>c, <1>o, <4>1, Zenon DEF LobsGiven
    <3> QED BY <3>1, Zenon DEF LobsGiven, RowIds
  <2>5. ASSUME status' = "open", NEW r \in RowIds, r > Len(given')
        PROVE  Ahead(base, r)'
    <3>1. r # c /\ NoRow.row # r /\ r > Len(given)
      BY <1>5, <2>2, <2>3, <2>5, NoRowIs
    <3>2. lobs[r] = NewLob(size)
      BY <1>1, <1>2, <2>1, <2>5, <3>1, Zenon DEF LobsAhead, Ahead
    <3>3. dest'.row # r /\ lobs'[r] = NewLob(size')
      BY <1>5, <1>7, <2>1, <3>1, <3>2, Zenon
    <3> QED BY <3>3, Zenon DEF Ahead
  <2>6. LobsAhead(base)'
    BY <2>5, Zenon DEF LobsAhead, RowIds
  <2> QED BY <1>6, <1>8, <1>9, <2>4, <2>6, Zenon DEF LInv
<1> QED BY <1>10, <1>11

\* A call fails; fetch's deferred function makes its LOB start over.
LEMMA FailedLobStep ==
    ASSUME NEW base, RowInv(base), LInv(base), UNCHANGED setup, WriteFails \/ ReadError \/ TakeCancel
    PROVE  LInv(base)'
<1>1. LobsTyped /\ LobIsWhole /\ LobsGiven /\ LobFetch /\ LobsAhead(base) /\ GivenOk
  BY Zenon DEF LInv, RowInv
<1>2. Failed /\ got' = got /\ given' = given
  BY Zenon DEF WriteFails, ReadError, TakeCancel
<1>3. pc' = "idle" /\ op' = "none" /\ cur' = 0 /\ dest' = NoRow /\ size' = size
      /\ (status' = "error" \/ (status' = status /\ dest = NoRow))
  BY <1>2, Zenon DEF Failed, setup
<1>4. status' = "open" => status = "open" /\ dest = NoRow
  BY <1>3
<1>5. LobFetch'
  <2>1. op' # "lob" /\ op' # "drain"
    BY <1>3
  <2> QED BY <1>3, <2>1, FetchEnds
<1>6. CASE lobs' = lobs
  <2>1. LobsTyped' /\ LobIsWhole' /\ LobsGiven'
    BY <1>1, <1>2, <1>3, <1>6, LobsStay
  <2>2. LobsAhead(base)'
    <3>1. CASE status' = "open"
      <4>1. dest' = dest
        BY <1>3, <1>4, <3>1
      <4> QED BY <1>1, <1>2, <1>3, <1>4, <1>6, <3>1, <4>1, AheadStays
    <3>2. CASE status' # "open"
      BY <3>2, Zenon DEF LobsAhead
    <3> QED BY <3>1, <3>2
  <2> QED BY <1>5, <2>1, <2>2, Zenon DEF LInv
<1>7. CASE lobs' # lobs
  <2>1. PICK c : c = cur
    BY Zenon
  <2>2. c # 0 /\ lobs' = [lobs EXCEPT ![c].started = FALSE]
    BY <1>7, <2>1, Zenon DEF WriteFails, ReadError, TakeCancel
  <2>3. c \in RowIds /\ RecordLob(lobs[c], c) /\ (dest.row = c \/ (dest = NoRow /\ c <= Len(given)))
    BY <1>1, <2>1, <2>2, Zenon DEF LobFetch
  <2>4. lobs[c] \in LobStates /\ size \in Nat
    BY <1>1, <2>3 DEF LobsTyped
  <2> DEFINE x == [lobs[c] EXCEPT !.started = FALSE]
  <2>5. x \in LobStates /\ RecordLob(x, c)
    BY <2>3, <2>4, StartedStays
  <2>6. lobs' = [lobs EXCEPT ![c] = x]
    BY <2>2
  <2> HIDE DEF x
  <2>7. pc' # "scan"
    BY <1>3
  <2>8. CASE dest = NoRow
    <3>1. status' = "open" => status = "open"
      BY <1>4
    <3> QED BY <1>1, <1>2, <1>3, <1>5, <2>3, <2>5, <2>6, <2>7, <2>8, <3>1, OneLobMoves, Zenon DEF LInv
  <2>9. CASE dest # NoRow
    <3>1. status' # "open"
      BY <1>3, <2>9
    <3>2. /\ lobs' \in [RowIds -> LobStates] /\ lobs'[c] = x
          /\ \A r \in RowIds : r # c => lobs'[r] = lobs[r]
      BY <1>1, <2>3, <2>5, <2>6 DEF LobsTyped
    <3>3. LobsTyped'
      BY <1>1, <1>2, <1>3, <3>2, Zenon DEF LobsTyped, RowIds, LobStates
    <3>4. LobIsWhole'
      BY <1>1, <1>2, <1>3, Zenon DEF LobIsWhole, RowIds, Bytes
    <3>5. LobsGiven'
      BY <1>1, <1>2, <1>3, <2>5, <3>2, Zenon DEF LobsGiven, RowIds, LobOk, RecordLob, Spent, InlineDone, Bytes, NewLob
    <3> QED BY <1>5, <3>1, <3>3, <3>4, <3>5, Zenon DEF LInv, LobsAhead
  <2> QED BY <2>8, <2>9
<1> QED BY <1>6, <1>7

\* A LOB that is complete holds its bytes, and one that can be fetched has none of a row's.
LEMMA LobOkMeans ==
    ASSUME LobsTyped, NEW r \in RowIds, LobOk(r)
    PROVE  /\ lobs[r].done => lobs[r].data = Bytes(r)
           /\ lobs[r].attached => RecordLob(lobs[r], r)
<1>1. size \in Nat
  BY Zenon DEF LobsTyped
<1>2. NewLob(size).done = FALSE
  BY <1>1, NewLobIs
<1> QED BY <1>2, Zenon DEF LobOk, RecordLob, Spent, InlineDone

\* GetBytes of a row the caller has.
LEMMA GetBytesStep ==
    ASSUME NEW base, RowInv(base), LInv(base), UNCHANGED setup, NEW r \in RowIds, GetBytes(r)
    PROVE  LInv(base)'
<1>1. LobsTyped /\ LobIsWhole /\ LobsGiven /\ LobFetch /\ LobsAhead(base) /\ GivenOk /\ Phases
  BY Zenon DEF LInv, RowInv
<1>2. pc = "idle" /\ lobs' = lobs /\ status' = status /\ size' = size /\ \E i \in DOMAIN given : given[i].row = r
  BY Zenon DEF GetBytes, setup
<1>3. dest = NoRow /\ op = "none"
  BY <1>1, <1>2, Zenon DEF Phases
<1>4. cur = 0
  <2>1. op \notin {"lob", "drain", "cancel"}
    BY <1>3
  <2> QED BY <1>1, <2>1, NoFetch
<1>5. r <= Len(given)
  <2>1. PICK T : given \in Seq(T)
    BY <1>1, Zenon DEF GivenOk
  <2>2. DOMAIN given = 1..Len(given) /\ Len(given) \in Nat
    BY <2>1
  <2>3. PICK i \in 1..Len(given) : given[i].row = r
    BY <1>2, <2>2
  <2>4. r = i
    BY <1>1, <2>3, Zenon DEF GivenOk
  <2> QED BY <2>2, <2>3, <2>4
<1>6. LobOk(r)
  BY <1>1, <1>5, Zenon DEF LobsGiven
<1>7. CASE lobs[r].done /\ lobs[r].made
  <2>1. /\ got' = [got EXCEPT ![r] = [known |-> TRUE, bytes |-> lobs[r].data]]
        /\ pc' = "idle" /\ op' = "none" /\ cur' = 0 /\ dest' = dest /\ given' = given
    BY <1>2, <1>3, <1>7, Zenon DEF GetBytes, Got
  <2>2. lobs[r].data = Bytes(r)
    BY <1>1, <1>6, <1>7, LobOkMeans, Zenon
  <2>3. got' \in [RowIds -> [known : BOOLEAN, bytes : Seq(Int)]] /\ LobIsWhole'
    BY <1>1, <1>2, <2>1, <2>2, GotIs
  <2>4. LobsTyped'
    BY <1>1, <1>2, <2>3, Zenon DEF LobsTyped, RowIds, LobStates
  <2>5. LobsGiven'
    BY <1>1, <1>2, <2>1, Zenon DEF LobsGiven, RowIds, LobOk, RecordLob, Spent, InlineDone, Bytes, NewLob
  <2>6. LobFetch'
    <3>1. op' # "lob" /\ op' # "drain"
      BY <2>1
    <3> QED BY <2>1, <3>1, FetchEnds
  <2>7. LobsAhead(base)'
    BY <1>1, <1>2, <1>3, <2>1, AheadStays
  <2> QED BY <2>3, <2>4, <2>5, <2>6, <2>7, Zenon DEF LInv
<1>8. CASE ~(lobs[r].done /\ lobs[r].made)
  <2>1. /\ got' = got /\ dest' = dest /\ given' = given
        /\ \/ lobs[r].attached /\ pc' = "write" /\ op' = "lob" /\ cur' = r
           \/ pc' = pc /\ op' = op /\ cur' = cur
    BY <1>8, Zenon DEF GetBytes
  <2>2. LobsTyped' /\ LobIsWhole' /\ LobsGiven'
    BY <1>1, <1>2, <2>1, LobsStay
  <2>3. LobsAhead(base)'
    BY <1>1, <1>2, <1>3, <2>1, AheadStays
  <2>4. CASE lobs[r].attached /\ pc' = "write" /\ op' = "lob" /\ cur' = r
    <3>1. RecordLob(lobs[r], r)
      BY <1>1, <1>6, <2>4, LobOkMeans, Zenon
    <3>2. RecordLob(lobs[cur], cur)'
      BY <1>2, <2>4, <3>1, Zenon DEF RecordLob, Spent, Bytes, NewLob
    <3>3. ~Streaming' /\ op' # "drain" /\ op' \in {"lob", "drain", "cancel"} /\ r # 0
      BY <2>4, NoRowIs DEF Streaming
    <3>4. LobFetch'
      BY <1>3, <1>5, <2>1, <2>4, <3>2, <3>3, Zenon DEF LobFetch, RowIds, NoRow, Slice
    <3> QED BY <2>2, <2>3, <3>4, Zenon DEF LInv
  <2>5. CASE pc' = pc /\ op' = op /\ cur' = cur
    <3>1. op' # "lob" /\ op' # "drain" /\ cur' = 0
      BY <1>3, <1>4, <2>5
    <3>2. LobFetch'
      BY <3>1, FetchEnds
    <3> QED BY <2>2, <2>3, <3>2, Zenon DEF LInv
  <2> QED BY <2>1, <2>4, <2>5
<1> QED BY <1>7, <1>8

-----------------------------------------------------------------------------
(* The steps of the scan.                                                  *)

\* The row that follows those the caller has, where Next is.
LEMMA NextRowIs ==
    ASSUME IInv, NEW base, RowInv(base), LInv(base), pc = "scan", Current.kind # "Failure"
    PROVE  \E r \in 1..(Rows + 1) : /\ Len(given) = r - 1 /\ ParcelAt(base, r) /\ r \in Nat /\ r > Len(given)
                                    /\ cur = 0 /\ op = "next" /\ status = "open"
<1>1. /\ status = "open" /\ op = "next"
      /\ \/ Current.kind = "Failure"
         \/ \E r \in 1..(Rows + 1) : Len(given) = r - 1 /\ ParcelAt(base, r)
  BY ScanIs
<1>2. PICK r \in 1..(Rows + 1) : Len(given) = r - 1 /\ ParcelAt(base, r)
  BY <1>1
<1>3. cur = 0
  <2>1. LobFetch
    BY Zenon DEF LInv
  <2>2. op \notin {"lob", "drain", "cancel"}
    BY <1>1
  <2> QED BY <2>1, <2>2, NoFetch
<1>4. r \in Nat /\ r > Len(given)
  BY <1>2, RowsAssumption
<1> QED BY <1>1, <1>2, <1>3, <1>4

\* Next finds the parcels of rows in the state that their LOB is in.
LEMMA InsideIs ==
    ASSUME NEW base, Laid(base), Types, LInv(base), status = "open", pc = "scan", NEW r \in RowIds, r > Len(given),
           NEW j \in 1..4, InRow(base, r, j)
    PROVE  RowLob(r, j)
<1>1. Ahead(base, r)
  BY Zenon DEF LInv, LobsAhead
<1>2. Reads = base[r] + j /\ dest.row = r
  BY Zenon DEF InRow
<1>3. PICK k \in 1..4 : Reads = base[r] + k /\ RowLob(r, k)
  BY <1>1, <1>2, Zenon DEF Ahead
<1>4. base[r] \in Nat
  BY RowsAssumption DEF Laid, RowIds
<1>5. k = j
  BY <1>2, <1>3, <1>4
<1> QED BY <1>3, <1>5

\* Parcels between rows, and the first one of a row, leave the LOBs alone.
LEMMA PlainParcelStep ==
    ASSUME IInv, NEW base, RowInv(base), LInv(base), UNCHANGED setup, NextOther \/ NextMultiPart
    PROVE  LInv(base)'
<1>1. LobsTyped /\ LobIsWhole /\ LobsGiven /\ LobFetch /\ LobsAhead(base) /\ ReaderOk
  BY Zenon DEF LInv, RowInv
<1>2. /\ pc = "scan" /\ reader' = Advanced /\ sent' = sent /\ size' = size /\ lobs' = lobs /\ got' = got
      /\ given' = given /\ cur' = cur /\ UNCHANGED bufferVars
  BY Zenon DEF NextOther, NextMultiPart, Scans, setup, server
<1>3. PICK d : Continue(d) /\ d = IF NextOther THEN dest ELSE RowHere
  BY Zenon DEF NextOther, NextMultiPart
<1>4. /\ \/ Advanced.len > 0 /\ dest' = d /\ pc' = pc /\ op' = op /\ status' = status
         \/ ~(Advanced.len > 0) /\ pc' = "idle" /\ op' = "none" /\ status' = "error"
  BY <1>3, Zenon DEF Continue
<1>5. LobsTyped' /\ LobIsWhole' /\ LobsGiven'
  BY <1>1, <1>2, LobsStay
<1>s. /\ status = "open" /\ op = "next" /\ reader.len \in Nat /\ reader.len > 0
      /\ \/ Current.kind = "Failure" /\ reader.len = 1
         \/ Remains /\ \E r \in 1..(Rows + 1) : Len(given) = r - 1 /\ ParcelAt(base, r)
  BY <1>2, ScanIs
<1>6. LobFetch'
  <2>1. op \notin {"lob", "drain", "cancel"}
    BY <1>s
  <2>2. cur = 0
    BY <1>1, <2>1, NoFetch
  <2>3. op' # "lob" /\ op' # "drain"
    BY <1>4, <2>1
  <2> QED BY <1>2, <2>2, <2>3, FetchEnds
<1>7. CASE ~(Advanced.len > 0)
  <2>1. status' # "open"
    BY <1>4, <1>7
  <2> QED BY <1>5, <1>6, <2>1, Zenon DEF LInv, LobsAhead
<1>8. CASE Advanced.len > 0
  <2>1. dest' = d /\ pc' = pc /\ status' = status
    BY <1>4, <1>8
  <2>2. Current.kind # "Failure"
    <3>1. Advanced.len = reader.len - 1
      BY DEF Advanced, Slice
    <3>2. reader.len # 1
      BY <1>8, <1>s, <3>1
    <3>3. PICK r : ParcelAt(base, r)
      BY <1>s, <3>2
    <3> QED BY <3>3, KindTells
  <2>3. PICK r \in 1..(Rows + 1) : Len(given) = r - 1 /\ ParcelAt(base, r) /\ r \in Nat /\ r > Len(given)
    BY <1>2, <2>2, NextRowIs
  <2>4. CASE NextOther
    <3>1. Current.kind \in {"StatementInfo", "EndStatement"}
      <4>1. Current.kind \in {"StatementInfo", "EndStatement", "Failure"}
        BY <2>4, Zenon DEF NextOther, Scans
      <4> QED BY <2>2, <4>1
    <3>2. dest = NoRow
      BY <2>3, <3>1, KindTells, Zenon DEF OtherAt
    <3>3. dest' = dest
      BY <1>3, <2>1, <2>4
    <3>4. LobsAhead(base)'
      BY <1>1, <1>2, <2>1, <3>2, <3>3, AheadStays
    <3> QED BY <1>5, <1>6, <3>4, Zenon DEF LInv
  <2>5. CASE ~NextOther
    <3>1. Current.kind = "MultiPartRecord" /\ NextMultiPart
      <4>1. \A a, b : a \in {b} => a = b
        OBVIOUS
      <4> QED BY <2>5, <4>1, Zenon DEF NextMultiPart, Scans
    <3>2. MultiPartAt(base, r)
      BY <2>3, <3>1, KindTells, Zenon
    <3>3. r \in RowIds /\ dest = NoRow /\ Reads + 1 = base[r] + 1 /\ Current = Parcel("MultiPartRecord", r, <<>>)
      BY <3>2, Zenon DEF MultiPartAt
    <3>4. dest'.row = r
      <4>1. Current.row = r
        BY <3>3 DEF Parcel
      <4>2. dest' = RowHere
        BY <1>3, <2>1, <2>5
      <4> QED BY <4>1, <4>2 DEF RowHere
    <3>5. Reads' = base[r] + 1
      <4>1. ResultParcels' = ResultParcels
        BY ResultStays
      <4>2. Reads' = Reads + 1
        BY <1>1, <1>2, <1>s, <4>1, AdvancedIs
      <4> QED BY <3>3, <4>2, Zenon
    <3>6. \A q \in RowIds : q > Len(given) => lobs[q] = NewLob(size)
      <4>1. \A q \in RowIds : q # NoRow.row
        BY NoRowIs
      <4> QED BY <1>1, <1>s, <3>3, <4>1, Zenon DEF LobsAhead, Ahead
    <3>7. RowLob(r, 1)'
      <4>1. lobs[r] = NewLob(size)
        BY <2>3, <3>3, <3>6, Zenon
      <4>2. 1 # 2 /\ 1 # 3 /\ 1 # 4
        OBVIOUS
      <4> QED BY <1>2, <4>1, <4>2, Zenon DEF RowLob, NewLob
    <3>8. ASSUME NEW q \in RowIds, q > Len(given)
          PROVE  Ahead(base, q)'
      <4>1. CASE q = r
        <5>1. 1 \in 1..4
          OBVIOUS
        <5> QED BY <3>4, <3>5, <3>7, <4>1, <5>1, Zenon DEF Ahead
      <4>2. CASE q # r
        <5>1. lobs'[q] = NewLob(size') /\ dest'.row # q
          BY <1>2, <3>4, <3>6, <3>8, <4>2, Zenon
        <5> QED BY <5>1, Zenon DEF Ahead
      <4> QED BY <4>1, <4>2
    <3>9. LobsAhead(base)'
      BY <1>2, <3>8, Zenon DEF LobsAhead, RowIds
    <3> QED BY <1>5, <1>6, <3>9, Zenon DEF LInv
  <2> QED BY <2>4, <2>5
<1> QED BY <1>7, <1>8

\* A part of a row changes the LOB of this row.
LEMMA PartMoves ==
    ASSUME IInv, NEW base, RowInv(base), LInv(base), UNCHANGED setup, UNCHANGED bufferVars, pc = "scan", sent' = sent,
           reader' = Advanced, given' = given, got' = got, cur' = cur, Continue(dest),
           NEW r \in RowIds, Len(given) = r - 1, NEW j \in 1..3, PartAt(base, r, j),
           NEW x \in LobStates, lobs' = [lobs EXCEPT ![r] = x], RowLob(r, j + 1)'
    PROVE  LInv(base)'
<1>1. LobsTyped /\ LobIsWhole /\ LobsGiven /\ LobFetch /\ LobsAhead(base) /\ ReaderOk
  BY Zenon DEF LInv, RowInv
<1>2. size' = size /\ r \in Nat
  BY NoRowIs DEF setup
<1>3. /\ lobs' \in [RowIds -> LobStates]
      /\ \A q \in RowIds : q # r => lobs'[q] = lobs[q]
  BY <1>1 DEF LobsTyped
<1>4. LobsTyped'
  BY <1>1, <1>2, <1>3, Zenon DEF LobsTyped, RowIds, LobStates
<1>5. LobIsWhole'
  BY <1>1, <1>2, Zenon DEF LobIsWhole, RowIds, Bytes
<1>6. LobsGiven'
  <2>1. ASSUME NEW q \in RowIds, q <= Len(given)
        PROVE  q # r
    BY <1>2, <2>1, NoRowIs
  <2> QED BY <1>1, <1>2, <1>3, <2>1, Zenon DEF LobsGiven, RowIds, LobOk, RecordLob, Spent, InlineDone, Bytes, NewLob
<1>7. status = "open" /\ op = "next" /\ reader.len > 0
  BY ScanIs
<1>8. \/ dest' = dest /\ status' = status /\ op' = op
      \/ status' = "error" /\ op' = "none"
  BY Zenon DEF Continue
<1>9. LobFetch'
  <2>1. op \notin {"lob", "drain", "cancel"}
    BY <1>7
  <2>2. cur = 0
    BY <1>1, <2>1, NoFetch
  <2>3. op' # "lob" /\ op' # "drain"
    BY <1>8, <2>1
  <2> QED BY <2>2, <2>3, FetchEnds
<1>10. CASE status' = "error" /\ op' = "none"
  <2>1. status' # "open"
    BY <1>10
  <2> QED BY <1>4, <1>5, <1>6, <1>9, <2>1, Zenon DEF LInv, LobsAhead
<1>11. CASE dest' = dest
  <2>1. dest'.row = r /\ Reads + 1 = base[r] + (j + 1)
    BY <1>11, Zenon DEF PartAt, InRow
  <2>2. Reads' = base[r] + (j + 1)
    <3>1. ResultParcels' = ResultParcels
      BY ResultStays
    <3>2. Reads' = Reads + 1
      BY <1>1, <1>7, <3>1, AdvancedIs
    <3> QED BY <2>1, <3>2, Zenon
  <2>3. j + 1 \in 1..4
    OBVIOUS
  <2>4. ASSUME NEW q \in RowIds, q > Len(given)
        PROVE  Ahead(base, q)'
    <3>1. CASE q = r
      <4> DEFINE k == j + 1
      <4>1. k \in 1..4 /\ Reads' = base[r] + k /\ RowLob(r, k)'
        BY <2>2, <2>3
      <4> HIDE DEF k
      <4> QED BY <2>1, <3>1, <4>1, Zenon DEF Ahead
    <3>2. CASE q # r
      <4>1. Ahead(base, q)
        BY <1>1, <1>7, <2>4, Zenon DEF LobsAhead
      <4>2. lobs'[q] = NewLob(size') /\ dest'.row # q
        BY <1>2, <1>3, <1>11, <2>1, <3>2, <4>1, Zenon DEF Ahead
      <4> QED BY <4>2, Zenon DEF Ahead
    <3> QED BY <3>1, <3>2
  <2>5. LobsAhead(base)'
    BY <2>4, Zenon DEF LobsAhead, RowIds
  <2> QED BY <1>4, <1>5, <1>6, <1>9, <2>5, Zenon DEF LInv
<1> QED BY <1>8, <1>10, <1>11

\* The LOB that comes with a row.
LEMMA SlobStep ==
    ASSUME IInv, NEW base, RowInv(base), LInv(base), UNCHANGED setup, NextStartSlob \/ NextSlobData \/ NextEndSlob
    PROVE  LInv(base)'
<1>1. LobsTyped /\ LobsAhead(base) /\ Laid(base) /\ Types
  BY Zenon DEF LInv, RowInv
<1>2. /\ pc = "scan" /\ reader' = Advanced /\ sent' = sent /\ size' = size /\ got' = got
      /\ given' = given /\ cur' = cur /\ UNCHANGED bufferVars /\ Continue(dest)
  BY Zenon DEF NextStartSlob, NextSlobData, NextEndSlob, Scans, setup, server
<1>3. \/ Current.kind = "StartSlobData" /\ NextStartSlob
      \/ Current.kind = "SlobData" /\ NextSlobData
      \/ Current.kind = "EndSlobData" /\ NextEndSlob
  <2>1. \A a, b : a \in {b} => a = b
    OBVIOUS
  <2> QED BY <2>1, Zenon DEF NextStartSlob, NextSlobData, NextEndSlob, Scans
<1>4. Current.kind # "Failure"
  BY <1>3
<1>5. PICK r \in 1..(Rows + 1) : Len(given) = r - 1 /\ ParcelAt(base, r) /\ r \in Nat /\ r > Len(given) /\ status = "open"
  BY <1>2, <1>4, NextRowIs
<1>6. \A j : PartAt(base, r, j) => r \in RowIds /\ dest.row = r /\ InRow(base, r, j)
  BY Zenon DEF PartAt, InRow
<1>7. \A j \in 1..3 : PartAt(base, r, j) => RowLob(r, j)
  <2> SUFFICES ASSUME NEW j \in 1..3, PartAt(base, r, j)
               PROVE  RowLob(r, j)
    OBVIOUS
  <2>1. j \in 1..4
    OBVIOUS
  <2> QED BY <1>1, <1>2, <1>5, <1>6, <2>1, InsideIs
<1>n. 1 \in 1..3 /\ 2 \in 1..3 /\ 3 \in 1..3 /\ 1 + 1 = 2 /\ 2 + 1 = 3 /\ 3 + 1 = 4
  OBVIOUS
<1>8. size \in Nat /\ (r \in RowIds => lobs[r] \in LobStates)
  BY <1>1 DEF LobsTyped
<1>9. CASE Current.kind = "StartSlobData" /\ NextStartSlob
  <2>1. PartAt(base, r, 1)
    BY <1>5, <1>9, KindTells, Zenon
  <2>2. r \in RowIds /\ lobs[r] = NewLob(size) /\ Current = Parcel("StartSlobData", r, <<>>)
    BY <1>6, <1>7, <1>n, <2>1, Zenon DEF RowLob, PartAt
  <2>3. Current.row = r
    BY <2>2 DEF Parcel
  <2> DEFINE x == StartLob(NewLob(size)).lob
  <2>4. lobs' = [lobs EXCEPT ![r] = x] /\ slob'
    BY <1>9, <2>2, <2>3, Zenon DEF NextStartSlob
  <2>5. x \in LobStates
    BY <1>8, NewLobIs, StartLobIs DEF Begun
  <2> HIDE DEF x
  <2>6. lobs'[r] = x
    BY <1>1, <2>2, <2>4 DEF LobsTyped
  <2>7. RowLob(r, 2)'
    <3>1. 2 # 1 /\ 2 # 3 /\ 2 # 4
      OBVIOUS
    <3> QED BY <1>2, <2>4, <2>6, <3>1, Zenon DEF RowLob, x, StartLob, Ok, Error, NewLob
  <2>8. RowLob(r, 1 + 1)'
    BY <2>7, <1>n
  <2> QED BY <1>2, <1>5, <1>n, <2>1, <2>2, <2>4, <2>5, <2>8, PartMoves
<1>10. CASE Current.kind = "SlobData" /\ NextSlobData
  <2> DEFINE b == [i \in 1..LengthBytes |-> 0] \o Bytes(r)
             x == TakeSlobData(lobs[r], b)
  <2>1. PartAt(base, r, 2)
    BY <1>5, <1>10, KindTells, Zenon
  <2>2. r \in RowIds /\ slob /\ lobs[r] = StartLob(NewLob(size)).lob /\ Current = Parcel("SlobData", r, b)
    BY <1>6, <1>7, <1>n, <2>1, Zenon DEF RowLob, PartAt
  <2>3. x \in LobStates /\ x.data = Bytes(r)
    BY <1>5, <1>8, <2>2, SlobDataIs
  <2> HIDE DEF b
  <2>4. Current.row = r /\ Current.body = b
    BY <2>2 DEF Parcel
  <2>5. lobs' = [lobs EXCEPT ![r] = x] /\ slob' = slob
    BY <1>10, <2>2, <2>4, Zenon DEF NextSlobData
  <2> HIDE DEF x
  <2>6. lobs'[r] = x
    BY <1>1, <2>2, <2>5 DEF LobsTyped
  <2>7. RowLob(r, 3)'
    <3>1. 3 # 1 /\ 3 # 2 /\ 3 # 4
      OBVIOUS
    <3> QED BY <1>2, <2>2, <2>3, <2>5, <2>6, <3>1, Zenon DEF RowLob, Bytes
  <2>8. RowLob(r, 2 + 1)'
    BY <2>7, <1>n
  <2> QED BY <1>2, <1>5, <1>n, <2>1, <2>2, <2>3, <2>5, <2>8, PartMoves
<1>11. CASE Current.kind = "EndSlobData" /\ NextEndSlob
  <2> DEFINE x == CompleteLob(lobs[r])
  <2>1. PartAt(base, r, 3)
    BY <1>5, <1>11, KindTells, Zenon
  <2>2. r \in RowIds /\ slob /\ lobs[r].data = Bytes(r) /\ dest.row = r
    BY <1>6, <1>7, <1>n, <2>1, Zenon DEF RowLob
  <2>3. x \in LobStates /\ x.done /\ ~x.attached /\ x.data = Bytes(r)
    BY <1>8, <2>2, CompleteIs
  <2>4. lobs' = [lobs EXCEPT ![r] = x]
    BY <1>11, <2>2, Zenon DEF NextEndSlob
  <2> HIDE DEF x
  <2>5. lobs'[r] = x
    BY <1>1, <2>2, <2>4 DEF LobsTyped
  <2>6. RowLob(r, 4)'
    <3>1. 4 # 1 /\ 4 # 2 /\ 4 # 3
      OBVIOUS
    <3> QED BY <1>2, <2>3, <2>5, <3>1, Zenon DEF RowLob, InlineDone, Bytes
  <2>7. RowLob(r, 3 + 1)'
    BY <2>6, <1>n
  <2> QED BY <1>2, <1>5, <1>n, <2>1, <2>2, <2>3, <2>4, <2>7, PartMoves
<1> QED BY <1>3, <1>9, <1>10, <1>11

\* A row is complete: it is given, waits for its LOB, or ends the result set.
LEMMA FinalizeLob ==
    ASSUME NEW base, GivenOk, LInv(base), UNCHANGED setup, cur = 0, status = "open",
           NEW r \in RowIds, Len(given) = r - 1, LobOk(r), NEW row, row.row = r, lobs' = lobs,
           \A q \in RowIds : q > r => lobs[q] = NewLob(size) /\ dest.row # q,
           Finalize(row, lobs[r])
    PROVE  LInv(base)'
<1>1. LobsTyped /\ LobIsWhole /\ LobsGiven /\ LobFetch /\ LobsAhead(base)
  BY Zenon DEF LInv
<1>2. size' = size /\ r \in Nat /\ r # 0 /\ row # NoRow /\ Len(given) \in Nat
  BY NoRowIs, GivenAre DEF setup
<1>3. ASSUME NEW q \in RowIds, LobOk(q)
      PROVE  LobOk(q)'
  BY <1>2, <1>3, Zenon DEF LobOk, RecordLob, Spent, InlineDone, Bytes, NewLob
<1>4. ASSUME given' = Append(given, row), dest' = NoRow, pc' = "idle", op' = "none", cur' = 0
      PROVE  LobsGiven' /\ LobFetch' /\ LobsAhead(base)'
  <2>1. Len(given') = r
    <3>1. Len(given') = Len(given) + 1
      BY <1>4, GivenAre
    <3> QED BY <1>2, <3>1
  <2>2. LobsGiven'
    <3>1. ASSUME NEW q \in RowIds, q <= Len(given')
          PROVE  LobOk(q)'
      <4>1. q = r \/ q <= Len(given)
        BY <1>2, <2>1, <3>1, NoRowIs
      <4> QED BY <1>1, <1>3, <4>1, Zenon DEF LobsGiven
    <3> QED BY <3>1, Zenon DEF LobsGiven, RowIds
  <2>3. LobFetch'
    <3>1. op' # "lob" /\ op' # "drain"
      BY <1>4
    <3> QED BY <1>4, <3>1, FetchEnds
  <2>4. LobsAhead(base)'
    <3>1. \A q \in RowIds : NoRow.row # q
      BY NoRowIs
    <3> QED BY <1>2, <1>4, <2>1, <3>1, Zenon DEF LobsAhead, Ahead, RowIds, NewLob
  <2> QED BY <2>2, <2>3, <2>4
<1>5. CASE Give(row) /\ pc' = "idle" /\ op' = "none" /\ UNCHANGED <<status, cur, got>>
  <2>1. given' = Append(given, row) /\ dest' = NoRow /\ got' = got /\ cur' = 0
    BY <1>5, Zenon DEF Give
  <2>2. LobsGiven' /\ LobFetch' /\ LobsAhead(base)'
    BY <1>4, <1>5, <2>1
  <2>3. LobsTyped' /\ LobIsWhole'
    BY <1>1, <1>2, <2>1, Zenon DEF LobsTyped, LobIsWhole, RowIds, LobStates, Bytes
  <2> QED BY <2>2, <2>3, Zenon DEF LInv
<1>6. CASE lobs[r].done /\ lobs[r].made /\ Got(r, lobs[r], row) /\ UNCHANGED status
  <2>1. /\ got' = [got EXCEPT ![r] = [known |-> TRUE, bytes |-> lobs[r].data]]
        /\ given' = Append(given, row) /\ dest' = NoRow /\ pc' = "idle" /\ op' = "none" /\ cur' = 0
    BY <1>2, <1>6, Zenon DEF Got, Give
  <2>2. LobsGiven' /\ LobFetch' /\ LobsAhead(base)'
    BY <1>4, <2>1
  <2>3. lobs[r].data = Bytes(r)
    BY <1>1, <1>6, LobOkMeans, Zenon
  <2>4. got' \in [RowIds -> [known : BOOLEAN, bytes : Seq(Int)]] /\ LobIsWhole'
    BY <1>1, <1>2, <2>1, <2>3, GotIs
  <2>5. LobsTyped'
    BY <1>1, <1>2, <2>4, Zenon DEF LobsTyped, RowIds, LobStates
  <2> QED BY <2>2, <2>4, <2>5, Zenon DEF LInv
<1>7. CASE pc' = "idle" /\ op' = "none" /\ status' = "error" /\ dest' = NoRow /\ UNCHANGED <<cur, got, given>>
  <2>1. got' = got /\ given' = given /\ cur' = 0 /\ op' # "lob" /\ op' # "drain" /\ status' # "open"
    BY <1>7
  <2>2. LobsTyped' /\ LobIsWhole' /\ LobsGiven'
    BY <1>1, <1>2, <2>1, LobsStay
  <2>3. LobFetch'
    BY <2>1, FetchEnds
  <2> QED BY <2>1, <2>2, <2>3, Zenon DEF LInv, LobsAhead
<1>8. CASE lobs[r].attached /\ pc' = "write" /\ op' = "lob" /\ cur' = r /\ dest' = row /\ UNCHANGED <<status, got, given>>
  <2>1. got' = got /\ given' = given /\ dest'.row = r /\ ~Streaming' /\ op' # "drain" /\ op' \in {"lob", "drain", "cancel"}
        /\ pc' # "scan"
    BY <1>8 DEF Streaming
  <2>2. LobsTyped' /\ LobIsWhole' /\ LobsGiven'
    BY <1>1, <1>2, <2>1, LobsStay
  <2>3. RecordLob(lobs[r], r)
    BY <1>1, <1>8, LobOkMeans, Zenon
  <2>4. RecordLob(lobs[cur], cur)'
    BY <1>2, <1>8, <2>3, Zenon DEF RecordLob, Spent, Bytes, NewLob
  <2>5. LobFetch'
    BY <1>2, <1>8, <2>1, <2>4, Zenon DEF LobFetch, RowIds, NoRow, Slice
  <2>6. ASSUME NEW q \in RowIds, q > Len(given)
        PROVE  Ahead(base, q)'
    <3>1. CASE q = r
      BY <2>1, <3>1, Zenon DEF Ahead
    <3>2. CASE q # r
      <4>1. q > r
        BY <1>2, <2>6, <3>2, NoRowIs
      <4> QED BY <1>2, <2>1, <3>2, <4>1, Zenon DEF Ahead, NewLob
    <3> QED BY <3>1, <3>2
  <2>7. LobsAhead(base)'
    BY <2>1, <2>6, Zenon DEF LobsAhead, RowIds
  <2> QED BY <2>2, <2>5, <2>7, Zenon DEF LInv
<1>9. Got(row.row, lobs[r], row) => Got(r, lobs[r], row)
  OBVIOUS
<1> QED BY <1>5, <1>6, <1>7, <1>8, <1>9, Zenon DEF Finalize

\* A row ends.
LEMMA EndLobStep ==
    ASSUME IInv, NEW base, RowInv(base), LInv(base), UNCHANGED setup, NextRecord \/ NextMultiPartEnd
    PROVE  LInv(base)'
<1>1. LobsTyped /\ LobsAhead(base) /\ Laid(base) /\ Types /\ GivenOk
  BY Zenon DEF LInv, RowInv
<1>2. pc = "scan" /\ lobs' = lobs
  BY Zenon DEF NextRecord, NextMultiPartEnd, Scans
<1>3. \/ Current.kind = "Record" /\ NextRecord
      \/ Current.kind = "MultiPartEnd" /\ NextMultiPartEnd
  <2>1. \A a, b : a \in {b} => a = b
    OBVIOUS
  <2> QED BY <2>1, Zenon DEF NextRecord, NextMultiPartEnd, Scans
<1>4. Current.kind # "Failure"
  BY <1>3
<1>5. PICK r \in 1..(Rows + 1) : /\ Len(given) = r - 1 /\ ParcelAt(base, r) /\ r \in Nat /\ r > Len(given)
                                 /\ cur = 0 /\ status = "open"
  BY <1>2, <1>4, NextRowIs
<1>6. ASSUME NEW q \in RowIds, q > r, r \in RowIds, dest = NoRow \/ dest.row = r
      PROVE  lobs[q] = NewLob(size) /\ dest.row # q
  <2>1. q > Len(given) /\ q # r /\ NoRow.row # q
    BY <1>5, <1>6, NoRowIs
  <2>2. dest.row # q
    BY <1>6, <2>1
  <2> QED BY <1>1, <1>5, <2>1, <2>2, Zenon DEF LobsAhead, Ahead
<1>7. CASE Current.kind = "Record" /\ NextRecord
  <2>1. RecordAt(base, r)
    BY <1>5, <1>7, KindTells, Zenon
  <2>2. r \in RowIds /\ Current = Parcel("Record", r, <<>>) /\ dest = NoRow
    BY <2>1, Zenon DEF RecordAt
  <2>3. Current.row = r
    BY <2>2 DEF Parcel
  <2>4. PICK row : row = RowHere
    BY Zenon
  <2>5. row.row = r
    BY <2>3, <2>4 DEF RowHere
  <2>6. LobOk(r)
    <3>1. NoRow.row # r
      BY <2>2, NoRowIs
    <3> QED BY <1>1, <1>5, <2>2, <3>1, Zenon DEF LobsAhead, Ahead, LobOk, RecordLob
  <2>7. Finalize(row, lobs[r])
    BY <1>7, <2>3, <2>4, Zenon DEF NextRecord
  <2>8. \A q \in RowIds : q > r => lobs[q] = NewLob(size) /\ dest.row # q
    BY <1>6, <2>2
  <2> QED BY <1>1, <1>2, <1>5, <2>2, <2>5, <2>6, <2>7, <2>8, FinalizeLob
<1>8. CASE Current.kind = "MultiPartEnd" /\ NextMultiPartEnd
  <2>1. RowEndAt(base, r)
    BY <1>5, <1>8, KindTells, Zenon
  <2>2. InRow(base, r, 4) /\ r \in RowIds /\ dest.row = r
    BY <2>1, Zenon DEF RowEndAt, InRow
  <2>3. RowLob(r, 4)
    <3>1. 4 \in 1..4
      OBVIOUS
    <3> QED BY <1>1, <1>2, <1>5, <2>2, <3>1, InsideIs
  <2>4. LobOk(r)
    BY <2>3, Zenon DEF RowLob, LobOk
  <2>5. PICK row : row = dest
    BY Zenon
  <2>6. Finalize(row, lobs[r]) /\ row.row = r
    BY <1>8, <2>2, <2>5, Zenon DEF NextMultiPartEnd
  <2>7. \A q \in RowIds : q > r => lobs[q] = NewLob(size) /\ dest.row # q
    BY <1>6, <2>2
  <2> QED BY <1>1, <1>2, <1>5, <2>2, <2>4, <2>6, <2>7, FinalizeLob
<1> QED BY <1>3, <1>7, <1>8

-----------------------------------------------------------------------------
(* The theorem.                                                            *)

LobInv == IInv /\ \E base : RowInv(base) /\ LInv(base)

\* At the start no LOB was read.
LEMMA InitLobInv == Init => LobInv
<1> SUFFICES ASSUME Init
             PROVE  LobInv
  OBVIOUS
<1>1. RInv
  BY InitRInv
<1>2. PICK base : RowInv(base)
  BY <1>1, Zenon DEF RInv
<1>3. size \in Nat
  BY SizesAssumption DEF Init
<1>4. /\ pc = "write" /\ op = "query" /\ dest = NoRow /\ given = <<>> /\ cur = 0
      /\ lobs = [r \in RowIds |-> NewLob(size)] /\ got = [r \in RowIds |-> [known |-> FALSE, bytes |-> <<>>]]
  BY Zenon DEF Init
<1>5. LobsTyped
  <2>1. NewLob(size) \in LobStates
    BY <1>3, NewLobIs
  <2>2. [known |-> FALSE, bytes |-> <<>>] \in [known : BOOLEAN, bytes : Seq(Int)]
    OBVIOUS
  <2> QED BY <1>3, <1>4, <2>1, <2>2, Zenon DEF LobsTyped
<1>6. LobIsWhole
  BY <1>4 DEF LobIsWhole
<1>7. \A r \in RowIds : lobs[r] = NewLob(size)
  BY <1>4, Zenon
<1>8. LobsGiven
  BY <1>7, Zenon DEF LobsGiven, LobOk, RecordLob
<1>9. LobFetch
  <2>1. op # "lob" /\ op # "drain"
    BY <1>4
  <2> QED BY <1>4, <2>1, Zenon DEF LobFetch
<1>10. LobsAhead(base)
  <2>1. \A r \in RowIds : NoRow.row # r
    BY NoRowIs
  <2> QED BY <1>4, <1>7, <2>1, Zenon DEF LobsAhead, Ahead
<1> QED BY <1>1, <1>2, <1>5, <1>6, <1>8, <1>9, <1>10, Zenon DEF LobInv, LInv, RInv

\* Every step keeps the LOBs.
LEMMA LobInvStep == LobInv /\ [Next]_vars => LobInv'
<1> SUFFICES ASSUME LobInv, [Next]_vars
             PROVE  LobInv'
  OBVIOUS
<1>1. IInv /\ IInv'
  BY StepInv, Zenon DEF LobInv
<1>2. PICK base : RowInv(base) /\ LInv(base)
  BY Zenon DEF LobInv
<1>3. RowInv(base)'
  BY <1>1, <1>2, RowInvStep
<1>4. UNCHANGED setup
  BY SetupStays, Zenon
<1>5. LInv(base)'
  <2>1. CASE TakeRows \/ BeginNext \/ Close \/ NextEOF
    BY <1>1, <1>2, <1>4, <2>1, RowsStep
  <2>2. CASE Fill \/ Receive \/ TakeFrame \/ PeekHeader \/ UNCHANGED vars
    BY <1>2, <1>4, <2>2, BufferLobStep
  <2>3. CASE Write
    BY <1>2, <1>4, <2>3, WriteLobStep
  <2>4. CASE TakeLob
    BY <1>1, <1>2, <1>4, <2>4, TakeLobStep
  <2>5. CASE TakeDrain
    BY <1>2, <1>4, <2>5, DrainLobStep
  <2>6. CASE WriteFails \/ ReadError \/ TakeCancel
    BY <1>2, <1>4, <2>6, FailedLobStep
  <2>7. CASE \E r \in RowIds : GetBytes(r)
    BY <1>2, <1>4, <2>7, GetBytesStep
  <2>8. CASE NextOther \/ NextMultiPart
    BY <1>1, <1>2, <1>4, <2>8, PlainParcelStep
  <2>9. CASE NextStartSlob \/ NextSlobData \/ NextEndSlob
    BY <1>1, <1>2, <1>4, <2>9, SlobStep
  <2>10. CASE NextRecord \/ NextMultiPartEnd
    BY <1>1, <1>2, <1>4, <2>10, EndLobStep
  <2>11. Finished => UNCHANGED vars
    BY Zenon DEF Finished
  <2> QED BY <2>1, <2>2, <2>3, <2>4, <2>5, <2>6, <2>7, <2>8, <2>9, <2>10, <2>11, Zenon DEF Next, ClientStep
<1> QED BY <1>1, <1>3, <1>5, Zenon DEF LobInv

\* What GetBytes or finalizeRow returns without an error is the LOB as the server has it,
\* read by its locator or sent with its row, however often its fetch failed and was
\* started again (lob.go's fetch and GetBytes).
THEOREM LobsStayWhole == Spec => []LobIsWhole
<1>1. Init => LobInv
  BY InitLobInv
<1>2. LobInv /\ [Next]_vars => LobInv'
  BY LobInvStep
<1>3. LobInv => LobIsWhole
  BY Zenon DEF LobInv, LInv
<1> QED BY <1>1, <1>2, <1>3, PTL DEF Spec
=============================================================================
