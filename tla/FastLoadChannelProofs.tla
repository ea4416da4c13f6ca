------------------------ MODULE FastLoadChannelProofs ------------------------
(***************************************************************************)
(* Proofs about FastLoadChannel for any number of batches, any lengths and *)
(* any number of rows.                                                     *)
(***************************************************************************)
EXTENDS FastLoadChannel, FiniteSetTheorems, TLAPS

-----------------------------------------------------------------------------
(* The inductive invariant, first half: where the two goroutines are, and  *)
(* where the batches are.                                                  *)

\* What the caller's position says about its call and the current batch.
CallerControl ==
    /\ pc = "encode" => op = "push"
    /\ pc = "wait" => op = "flush"
    /\ pc \in {"closing", "join"} => closed
    /\ closed => op = "close" /\ pc \in {"idle", "closing", "join", "interrupt", "expire"}
    /\ op = "close" => closed
    /\ pc = "acquire" => cur = NoBuf
    /\ pc = "expire" => err # "none"
    /\ cur = NoBuf => err # "none" \/ pc \in {"acquire", "interrupt"}
    /\ cur = NoBuf /\ pc = "interrupt" /\ op = "close" => err # "none"
    /\ held # {} => op = "flush" /\ pc \in {"wait", "interrupt", "expire"}

\* A row is only encoded into a batch with room for the longest parcel.
RoomToEncode ==
    /\ \A b \in Buffers : body[b] = {} => pos[b] = 0
    /\ pc = "encode" => cur # NoBuf /\ pos[cur] + MaxParcelLen <= BodyLen
    /\ op = "push" /\ pc = "dispatch" => cur # NoBuf /\ body[cur] # {}
    /\ op = "push" /\ pc # "idle" => rowNumber < MaxRows

\* What the worker's position says about its batch and the socket.
WorkerControl ==
    /\ wbuf = NoBuf <=> wpc \in {"recv", "done"}
    /\ wpc = "done" => closed /\ pending = <<>>
    /\ ~open => wpc = "done"
    /\ deadline => err # "none"
    /\ wpc = "fail" => werr # "none"
    /\ werr = "deadline" => err # "none"

\* Batches that are not in use are empty.
IdleBatchesEmpty == \A b \in free \cup held : body[b] = {} /\ pos[b] = 0

Control == /\ TypeOK /\ CallerControl /\ RoomToEncode /\ WorkerControl
           /\ BuffersOwnedOnce /\ IdleBatchesEmpty /\ CauseIsReported

-----------------------------------------------------------------------------
(* The inductive invariant, second half: where the rows are.               *)

\* Every row of batch b was given before every row of batch c.
Precedes(bd, b, c) == \A r \in bd[b], s \in bd[c] : r < s
Before(b, c) == Precedes(body, b, c)

\* The batches hold rows in the order run() sends them: its own batch, then
\* those in `pending', then the current one.
BatchOrder ==
    /\ \A b \in Buffers : body[b] \subseteq 1..rowNumber
    /\ \A i, j \in DOMAIN pending : i < j => Before(pending[i], pending[j])
    /\ cur # NoBuf => \A i \in DOMAIN pending : Before(pending[i], cur)
    /\ wbuf # NoBuf => \A i \in DOMAIN pending : Before(wbuf, pending[i])
    /\ wbuf # NoBuf /\ cur # NoBuf => Before(wbuf, cur)

\* Only rows that were given are on the wire or stored.
KnownRows == /\ inflight \subseteq 1..rowNumber
             /\ \A r \in Rows : stored[r] = 1 => r <= rowNumber

\* A row in a batch that is still to be sent was not sent before.
UnsentRows ==
    \A b \in Buffers : b # wbuf \/ wpc \in {"check", "write"} =>
        \A r \in body[b] : stored[r] = 0 /\ ~(wire = "request" /\ r \in inflight)

\* The request on the wire continues what the server has stored.
InFlightRows ==
    wire = "request" =>
        /\ \A r \in inflight : stored[r] = 0
        /\ \A r \in inflight, q \in Rows : q < r => stored[q] = 1 \/ q \in inflight

\* The wire is idle when a batch is written, and an answer is the answer to the
\* batch in hand.
AnswerIsForBatch ==
    /\ wpc = "write" \/ (err = "none" /\ wpc \notin {"read", "fail"}) => wire = "none"
    /\ wpc = "read" /\ wire # "none" => inflight = body[wbuf]
    /\ wpc = "read" /\ wire = "reply" => \A r \in body[wbuf] : stored[r] = 1
    /\ wpc = "release" /\ err = "none" => \A r \in body[wbuf] : stored[r] = 1

\* Until a failure is recorded, and while a batch is being sent even then,
\* every row given is stored or in a batch.
NoRowLost ==
    err = "none" \/ wpc \in {"write", "read"} =>
        \A r \in 1..rowNumber : stored[r] = 1 \/ \E b \in Buffers : r \in body[b]

\* Flush waits with an empty batch in hand.
FlushedBatchEmpty == pc = "wait" /\ cur # NoBuf => body[cur] = {}

RowFlow == /\ BatchOrder /\ KnownRows /\ UnsentRows /\ InFlightRows /\ AnswerIsForBatch
           /\ NoRowLost /\ FlushedBatchEmpty /\ StoredInOrderOnce /\ FlushStoresAll

IInv == Control /\ RowFlow

-----------------------------------------------------------------------------
(* Batches in a queue.                                                     *)

\* Queueing a batch adds it to the batches in the queue.
LEMMA AppendInQueue ==
    ASSUME NEW q \in Seq(Buffers), NEW b \in Buffers
    PROVE  /\ Append(q, b) \in Seq(Buffers)
           /\ InQueue(Append(q, b)) = InQueue(q) \cup {b}
           /\ DOMAIN Append(q, b) = 1..(Len(q) + 1)
           /\ \A i \in DOMAIN Append(q, b) :
                Append(q, b)[i] = IF i = Len(q) + 1 THEN b ELSE q[i]
BY DEF InQueue

\* Taking the oldest batch leaves the others.
LEMMA TailInQueue ==
    ASSUME NEW q \in Seq(Buffers), q # <<>>,
           \A i, j \in DOMAIN q : i # j => q[i] # q[j]
    PROVE  /\ Head(q) \in Buffers /\ Tail(q) \in Seq(Buffers)
           /\ DOMAIN Tail(q) = 1..(Len(q) - 1)
           /\ \A i \in DOMAIN Tail(q) : Tail(q)[i] = q[i + 1]
           /\ \A i, j \in DOMAIN Tail(q) : i # j => Tail(q)[i] # Tail(q)[j]
           /\ Head(q) \notin InQueue(Tail(q))
           /\ InQueue(q) = InQueue(Tail(q)) \cup {Head(q)}
<1>1. Len(q) \in Nat /\ Len(q) > 0 /\ Head(q) = q[1] /\ DOMAIN q = 1..Len(q)
  OBVIOUS
<1>2. /\ Tail(q) \in Seq(Buffers) /\ DOMAIN Tail(q) = 1..(Len(q) - 1)
      /\ \A i \in 1..(Len(q) - 1) : Tail(q)[i] = q[i + 1]
  OBVIOUS
<1>3. Head(q) \notin InQueue(Tail(q))
  BY <1>1, <1>2 DEF InQueue
<1>4. InQueue(q) = InQueue(Tail(q)) \cup {Head(q)}
  <2>1. ASSUME NEW i \in 1..Len(q), i # 1
        PROVE  i - 1 \in 1..(Len(q) - 1) /\ Tail(q)[i - 1] = q[i]
    BY <1>1, <1>2, <2>1
  <2>2. InQueue(q) \subseteq InQueue(Tail(q)) \cup {Head(q)}
    <3>1. SUFFICES ASSUME NEW i \in 1..Len(q)
                   PROVE  q[i] \in InQueue(Tail(q)) \cup {Head(q)}
      BY <1>1 DEF InQueue
    <3>2. CASE i = 1
      BY <3>2, <1>1
    <3>3. CASE i # 1
      <4>1. i - 1 \in DOMAIN Tail(q) /\ Tail(q)[i - 1] = q[i]
        BY <3>3, <1>2, <2>1
      <4> QED BY <4>1 DEF InQueue
    <3> QED BY <3>2, <3>3
  <2>3. InQueue(Tail(q)) \cup {Head(q)} \subseteq InQueue(q)
    BY <1>1, <1>2 DEF InQueue
  <2> QED BY <2>2, <2>3
<1>5. \A i, j \in DOMAIN Tail(q) : i # j => Tail(q)[i] # Tail(q)[j]
  <2>1. ASSUME NEW i \in 1..(Len(q) - 1), NEW j \in 1..(Len(q) - 1), i # j
        PROVE  q[i + 1] # q[j + 1]
    <3>1. i + 1 \in 1..Len(q) /\ j + 1 \in 1..Len(q) /\ i + 1 # j + 1
      BY <1>1, <2>1
    <3> QED BY <1>1, <3>1
  <2> QED BY <1>2, <2>1
<1> QED BY <1>1, <1>2, <1>3, <1>4, <1>5

-----------------------------------------------------------------------------
\* The initial state satisfies the first half.
LEMMA ControlInit == Init => Control
<1> SUFFICES ASSUME Init PROVE Control
  OBVIOUS
<1> USE BuffersAssumption, LengthAssumption, MaxRowsAssumption DEF Init
<1>1. TypeOK
  <2>1. pending \in Seq(Buffers)
    OBVIOUS
  <2>2. body \in [Buffers -> SUBSET Rows] /\ pos \in [Buffers -> 0..BodyLen] /\ stored \in [Rows -> Nat]
    OBVIOUS
  <2>3. rowNumber \in 0..MaxRows
    OBVIOUS
  <2> QED BY <2>1, <2>2, <2>3 DEF TypeOK, Errors
<1>2. CallerControl /\ RoomToEncode /\ WorkerControl /\ IdleBatchesEmpty /\ CauseIsReported
  BY DEF CallerControl, RoomToEncode, WorkerControl, IdleBatchesEmpty, CauseIsReported
<1>3. BuffersOwnedOnce
  BY DEF BuffersOwnedOnce, InQueue
<1> QED BY <1>1, <1>2, <1>3 DEF Control

\* Every step keeps the variables' types, given the first half.
LEMMA TypeNext == Control /\ [Next]_vars => TypeOK'
<1> SUFFICES ASSUME Control, [Next]_vars PROVE TypeOK'
  OBVIOUS
<1>t. TypeOK
  BY DEF Control
<1> USE DEF TypeOK, Errors, caller, buffers, failed, worker, session, server
<1>1. CASE EncodeRow
  <2>1. cur \in Buffers /\ rowNumber + 1 \in 0..MaxRows /\ rowNumber + 1 \in Rows
    BY <1>t, <1>1, BuffersAssumption, MaxRowsAssumption DEF EncodeRow, Control, RoomToEncode, CallerControl, Rows
  <2>2. pos[cur] + MaxParcelLen <= BodyLen
    BY <1>1 DEF EncodeRow, Control, RoomToEncode
  <2>3. body' \in [Buffers -> SUBSET Rows]
    BY <1>t, <1>1, <2>1 DEF EncodeRow
  <2>4. pos' \in [Buffers -> 0..BodyLen]
    <3>1. PICK len \in 1..MaxParcelLen : pos' = [pos EXCEPT ![cur] = @ + len]
      BY <1>1 DEF EncodeRow
    <3>2. pos[cur] + len \in 0..BodyLen
      BY <1>t, <2>1, <2>2, LengthAssumption
    <3> QED BY <1>t, <3>1, <3>2
  <2> QED BY <1>t, <1>1, <2>1, <2>3, <2>4 DEF EncodeRow
<1>2. CASE RejectRow
  BY <1>t, <1>2 DEF RejectRow
<1>3. CASE Dispatch
  <2>1. cur \in Buffers
    BY <1>t, <1>3 DEF Dispatch
  <2>2. pending' \in Seq(Buffers)
    BY <1>t, <1>3, <2>1, AppendInQueue DEF Dispatch
  <2> QED BY <1>t, <1>3, <2>2 DEF Dispatch
<1>4. CASE DispatchNothing
  BY <1>t, <1>4 DEF DispatchNothing, AfterDispatch
<1>5. CASE Acquire
  BY <1>t, <1>5 DEF Acquire, AfterDispatch
<1>6. CASE WaitTake
  BY <1>t, <1>6 DEF WaitTake
<1>7. CASE WaitDone
  BY <1>t, <1>7 DEF WaitDone, Return
<1>8. CASE Interrupted
  BY <1>t, <1>8 DEF Interrupted
<1>9. CASE InterruptFail
  BY <1>t, <1>9 DEF InterruptFail, FirstFailure
<1>10. CASE InterruptExpire
  BY <1>t, <1>10 DEF InterruptExpire, Return
<1>11. CASE Hangup
  <2>1. pc' = "idle" /\ ret' \in {"ok", "err"} /\ open' \in BOOLEAN
    BY <1>11, Zenon DEF Hangup
  <2> QED BY <1>t, <1>11, <2>1 DEF Hangup
<1>12. CASE Receive
  <2>1. pending' \in Seq(Buffers) /\ wbuf' \in Buffers
    BY <1>t, <1>12, TailInQueue DEF Receive, Control, BuffersOwnedOnce
  <2> QED BY <1>t, <1>12, <2>1 DEF Receive
<1>13. CASE RunDone
  BY <1>t, <1>13 DEF RunDone
<1>14. CASE CheckFailure
  BY <1>t, <1>14 DEF CheckFailure
<1>15. CASE Write
  <2>1. wbuf \in Buffers
    BY <1>t, <1>15 DEF Write, Control, WorkerControl
  <2>2. wire' \in {"none", "request", "reply", "refusal"} /\ inflight' \subseteq Rows
    BY <1>t, <1>15, <2>1 DEF Write
  <2> QED BY <1>t, <1>15, <2>2 DEF Write
<1>16. CASE WriteFail
  BY <1>t, <1>16 DEF WriteFail
<1>17. CASE ReadReply
  BY <1>t, <1>17 DEF ReadReply
<1>18. CASE ReadFail
  BY <1>t, <1>18 DEF ReadFail
<1>19. CASE RecordFailure
  BY <1>t, <1>19 DEF RecordFailure, FirstFailure
<1>20. CASE Release
  <2>1. wbuf \in Buffers
    BY <1>t, <1>20 DEF Release, Control, WorkerControl
  <2>2. body' \in [Buffers -> SUBSET Rows] /\ pos' \in [Buffers -> 0..BodyLen]
    BY <1>t, <1>20, <2>1, LengthAssumption DEF Release
  <2> QED BY <1>t, <1>20, <2>1, <2>2 DEF Release
<1>21. CASE PushRow
  BY <1>t, <1>21 DEF PushRow, Call
<1>22. CASE Flush
  BY <1>t, <1>22 DEF Flush, Call
<1>23. CASE Close
  BY <1>t, <1>23 DEF Close, Call
<1>24. CASE Cancel
  BY <1>t, <1>24 DEF Cancel
<1>25. CASE ServerStore
  <2>1. stored' \in [Rows -> Nat]
    BY <1>t, <1>25 DEF ServerStore
  <2> QED BY <1>t, <1>25, <2>1 DEF ServerStore
<1>26. CASE ServerRefuse
  BY <1>t, <1>26 DEF ServerRefuse
<1>27. CASE LinkDown
  BY <1>t, <1>27 DEF LinkDown
<1>28. CASE UNCHANGED vars
  BY <1>t, <1>28 DEF vars
<1> HIDE DEF TypeOK
<1> QED
  BY <1>1, <1>2, <1>3, <1>4, <1>5, <1>6, <1>7, <1>8, <1>9, <1>10, <1>11, <1>12, <1>13, <1>14, <1>15, <1>16, <1>17, <1>18, <1>19, <1>20, <1>21, <1>22, <1>23, <1>24, <1>25, <1>26, <1>27, <1>28
     DEF Next, CallerStep, WorkerStep, NewCall, Environment, Finished

\* Every step keeps it.
LEMMA ControlNext == Control /\ [Next]_vars => Control'
<1> SUFFICES ASSUME Control, [Next]_vars PROVE Control'
  OBVIOUS
<1>type. TypeOK'
  BY TypeNext
<1> USE BuffersAssumption, LengthAssumption, MaxRowsAssumption, EncryptedAssumption
    DEF Control, TypeOK, CallerControl, RoomToEncode, WorkerControl, BuffersOwnedOnce,
        IdleBatchesEmpty, CauseIsReported, Errors, Rows, caller, buffers, failed, worker, session, server
<1>1. CASE EncodeRow
  <2>1. TypeOK'
    BY <1>type
  <2>2. CallerControl'
    BY <1>1 DEF EncodeRow
  <2>3. RoomToEncode'
    BY <1>1 DEF EncodeRow
  <2>4. WorkerControl'
    BY <1>1 DEF EncodeRow
  <2>5. BuffersOwnedOnce'
    BY <1>1 DEF EncodeRow
  <2>6. IdleBatchesEmpty'
    BY <1>1 DEF EncodeRow
  <2>7. CauseIsReported'
    BY <1>1 DEF EncodeRow
  <2> QED BY <2>1, <2>2, <2>3, <2>4, <2>5, <2>6, <2>7
<1>2. CASE RejectRow
  BY <1>type, <1>2 DEF RejectRow
<1>3. CASE Dispatch
  <2>1. TypeOK'
    BY <1>type
  <2>2. CallerControl'
    BY <1>3 DEF Dispatch
  <2>3. RoomToEncode'
    BY <1>3 DEF Dispatch
  <2>4. WorkerControl'
    BY <1>3 DEF Dispatch
  <2>5. BuffersOwnedOnce'
    <3>1. cur \in Buffers /\ pending' = Append(pending, cur) /\ cur' = NoBuf
          /\ UNCHANGED <<free, held, wbuf>>
      BY <1>3 DEF Dispatch
    <3>2. InQueue(pending') = InQueue(pending) \cup {cur}
      BY <3>1, AppendInQueue
    <3>3. \A i, j \in DOMAIN pending' : i # j => pending'[i] # pending'[j]
      BY <3>1, AppendInQueue DEF InQueue
    <3>4. NoBuf \notin InQueue(pending') \cup free \cup held
      BY <3>2, <3>1 DEF InQueue
    <3> QED BY <3>1, <3>2, <3>3, <3>4
  <2>6. IdleBatchesEmpty'
    BY <1>3 DEF Dispatch
  <2>7. CauseIsReported'
    BY <1>3 DEF Dispatch
  <2> QED BY <2>1, <2>2, <2>3, <2>4, <2>5, <2>6, <2>7
<1>4. CASE DispatchNothing
  BY <1>type, <1>4 DEF DispatchNothing, AfterDispatch
<1>5. CASE Acquire
  BY <1>type, <1>5 DEF Acquire, AfterDispatch
<1>6. CASE WaitTake
  BY <1>type, <1>6 DEF WaitTake
<1>7. CASE WaitDone
  BY <1>type, <1>7 DEF WaitDone, Return
<1>8. CASE Interrupted
  BY <1>type, <1>8 DEF Interrupted
<1>9. CASE InterruptFail
  BY <1>type, <1>9 DEF InterruptFail, FirstFailure
<1>10. CASE InterruptExpire
  BY <1>type, <1>10 DEF InterruptExpire, Return
<1>11. CASE Hangup
  <2>1. TypeOK'
    BY <1>type
  <2>2. CallerControl'
    BY <1>11 DEF Hangup
  <2>3. RoomToEncode'
    BY <1>11 DEF Hangup
  <2>4. WorkerControl'
    BY <1>11 DEF Hangup
  <2>5. BuffersOwnedOnce'
    BY <1>11 DEF Hangup
  <2>6. IdleBatchesEmpty'
    BY <1>11 DEF Hangup
  <2>7. CauseIsReported'
    BY <1>11 DEF Hangup
  <2> QED BY <2>1, <2>2, <2>3, <2>4, <2>5, <2>6, <2>7
<1>12. CASE Receive
  <2>1. TypeOK'
    BY <1>type
  <2>2. CallerControl'
    BY <1>12 DEF Receive
  <2>3. RoomToEncode'
    BY <1>12 DEF Receive
  <2>4. WorkerControl'
    BY <1>12 DEF Receive
  <2>5. BuffersOwnedOnce'
    <3>1. /\ wbuf = NoBuf /\ wbuf' = Head(pending) /\ pending' = Tail(pending)
          /\ pending # <<>> /\ UNCHANGED <<cur, free, held>>
      BY <1>12 DEF Receive
    <3>2. /\ wbuf' \in Buffers /\ wbuf' \notin InQueue(pending')
          /\ InQueue(pending) = InQueue(pending') \cup {wbuf'}
      BY <3>1, TailInQueue
    <3>3. \A i, j \in DOMAIN pending' : i # j => pending'[i] # pending'[j]
      <4> HIDE DEF BuffersOwnedOnce
      <4>1. \A i, j \in DOMAIN pending : i # j => pending[i] # pending[j]
        BY DEF BuffersOwnedOnce
      <4> HIDE DEF Control
      <4>2. \A i, j \in DOMAIN Tail(pending) : i # j => Tail(pending)[i] # Tail(pending)[j]
        BY <3>1, <4>1, TailInQueue DEF Control
      <4> QED BY <3>1, <4>2
    <3> QED BY <3>1, <3>2, <3>3
  <2>6. IdleBatchesEmpty'
    BY <1>12 DEF Receive
  <2>7. CauseIsReported'
    BY <1>12 DEF Receive
  <2> QED BY <2>1, <2>2, <2>3, <2>4, <2>5, <2>6, <2>7
<1>13. CASE RunDone
  BY <1>type, <1>13 DEF RunDone
<1>14. CASE CheckFailure
  BY <1>type, <1>14, SMTT(20) DEF CheckFailure
<1>15. CASE Write
  <2>1. TypeOK'
    BY <1>type
  <2>2. CallerControl'
    BY <1>15 DEF Write
  <2>3. RoomToEncode'
    BY <1>15 DEF Write
  <2>4. WorkerControl'
    BY <1>15 DEF Write
  <2>5. BuffersOwnedOnce'
    BY <1>15 DEF Write
  <2>6. IdleBatchesEmpty'
    BY <1>15 DEF Write
  <2>7. CauseIsReported'
    BY <1>15 DEF Write
  <2> QED BY <2>1, <2>2, <2>3, <2>4, <2>5, <2>6, <2>7
<1>16. CASE WriteFail
  BY <1>type, <1>16 DEF WriteFail
<1>17. CASE ReadReply
  BY <1>type, <1>17 DEF ReadReply
<1>18. CASE ReadFail
  BY <1>type, <1>18 DEF ReadFail
<1>19. CASE RecordFailure
  BY <1>type, <1>19 DEF RecordFailure, FirstFailure
<1>20. CASE Release
  <2>1. TypeOK'
    BY <1>type
  <2>2. CallerControl'
    BY <1>20 DEF Release
  <2>3. RoomToEncode'
    BY <1>20 DEF Release
  <2>4. WorkerControl'
    BY <1>20 DEF Release
  <2>5. BuffersOwnedOnce'
    <3>1. /\ wbuf \in Buffers /\ wbuf' = NoBuf /\ free' = free \cup {wbuf}
          /\ UNCHANGED <<cur, pending, held>>
      BY <1>20 DEF Release
    <3>2. NoBuf \notin InQueue(pending)
      BY DEF InQueue
    <3> QED BY <3>1, <3>2
  <2>6. IdleBatchesEmpty'
    BY <1>20 DEF Release
  <2>7. CauseIsReported'
    BY <1>20 DEF Release
  <2> QED BY <2>1, <2>2, <2>3, <2>4, <2>5, <2>6, <2>7
<1>21. CASE PushRow
  <2>1. TypeOK'
    BY <1>type
  <2>2. CallerControl'
    BY <1>21 DEF PushRow, Call
  <2>3. RoomToEncode'
    <3>1. CASE err # "none" \/ cur = NoBuf
      BY <1>21, <3>1 DEF PushRow, Call
    <3>2. CASE err = "none" /\ cur # NoBuf
      <4>1. cur \in Buffers /\ pos[cur] \in 0..BodyLen
        BY <3>2
      <4>2. BodyLen - pos[cur] < MaxParcelLen => body[cur] # {}
        BY <4>1, SMTT(20)
      <4>3. ~(BodyLen - pos[cur] < MaxParcelLen) => pos[cur] + MaxParcelLen <= BodyLen
        BY <4>1
      <4>4. /\ pc' = IF BodyLen - pos[cur] < MaxParcelLen THEN "dispatch" ELSE "encode"
            /\ rowNumber < MaxRows /\ UNCHANGED <<rowNumber, body, pos, cur>>
        BY <1>21, <3>2 DEF PushRow, Call
      <4> QED BY <3>2, <4>2, <4>3, <4>4
    <3> QED BY <3>1, <3>2
  <2>4. WorkerControl'
    BY <1>21 DEF PushRow, Call
  <2>5. BuffersOwnedOnce'
    BY <1>21 DEF PushRow, Call
  <2>6. IdleBatchesEmpty'
    BY <1>21 DEF PushRow, Call
  <2>7. CauseIsReported'
    BY <1>21 DEF PushRow, Call
  <2> QED BY <2>1, <2>2, <2>3, <2>4, <2>5, <2>6, <2>7
<1>22. CASE Flush
  BY <1>type, <1>22 DEF Flush, Call
<1>23. CASE Close
  BY <1>type, <1>23 DEF Close, Call
<1>24. CASE Cancel
  BY <1>type, <1>24 DEF Cancel
<1>25. CASE ServerStore
  BY <1>type, <1>25 DEF ServerStore
<1>26. CASE ServerRefuse
  BY <1>type, <1>26 DEF ServerRefuse
<1>27. CASE LinkDown
  BY <1>type, <1>27 DEF LinkDown
<1>28. CASE UNCHANGED vars
  BY <1>type, <1>28 DEF vars, InQueue
<1> HIDE DEF Control
<1> QED
  BY <1>1, <1>2, <1>3, <1>4, <1>5, <1>6, <1>7, <1>8, <1>9, <1>10, <1>11, <1>12, <1>13, <1>14, <1>15, <1>16, <1>17, <1>18, <1>19, <1>20, <1>21, <1>22, <1>23, <1>24, <1>25, <1>26, <1>27, <1>28
     DEF Next, CallerStep, WorkerStep, NewCall, Environment, Finished

-----------------------------------------------------------------------------
\* The initial state satisfies the second half.
LEMMA RowFlowInit == Init => RowFlow
BY BuffersAssumption, MaxRowsAssumption
   DEF Init, RowFlow, BatchOrder, Before, Precedes, KnownRows, UnsentRows, InFlightRows, AnswerIsForBatch,
       NoRowLost, FlushedBatchEmpty, StoredInOrderOnce, FlushStoresAll, Rows

\* When wait has collected everything, every batch is empty: those it holds
\* were reset, and the one in hand was just dispatched or had no rows.
LEMMA AllCollected ==
    ASSUME IInv, pc = "wait", ~Missing
    PROVE  \A b \in Buffers : body[b] = {}
<1> USE BuffersAssumption DEF IInv, Control, TypeOK
<1>1. IsFiniteSet(held) /\ Cardinality(held) \in Nat /\ Cardinality(Buffers) \in Nat
  BY FS_Subset, FS_CardinalityType
<1>2. cur # NoBuf => cur \notin held
  BY DEF BuffersOwnedOnce
<1>3. Buffers = held \cup ({cur} \ {NoBuf})
  <2>1. CASE cur = NoBuf
    <3>1. Cardinality(held) >= Cardinality(Buffers)
      BY <2>1, <1>1 DEF Missing, InHand
    <3>2. Cardinality(held) <= Cardinality(Buffers)
      BY FS_Subset
    <3>3. held = Buffers
      BY <1>1, <3>1, <3>2, FS_Subset
    <3> QED BY <2>1, <3>3
  <2>2. CASE cur # NoBuf
    <3>1. Cardinality(held \cup {cur}) = Cardinality(held) + 1 /\ held \cup {cur} \subseteq Buffers
      BY <1>1, <1>2, <2>2, FS_AddElement
    <3>2. Cardinality(held \cup {cur}) >= Cardinality(Buffers)
      BY <1>1, <2>2, <3>1 DEF Missing, InHand
    <3>3. Cardinality(held \cup {cur}) <= Cardinality(Buffers)
      BY <3>1, FS_Subset
    <3>4. held \cup {cur} = Buffers
      BY <1>1, <3>1, <3>2, <3>3, FS_Subset
    <3> QED BY <2>2, <3>4
  <2> QED BY <2>1, <2>2
<1> QED BY <1>3 DEF RowFlow, FlushedBatchEmpty, IdleBatchesEmpty

\* Queueing the batch whose rows are the latest keeps the queue's order.
LEMMA OrderAppend ==
    ASSUME NEW q \in Seq(Buffers), NEW b \in Buffers, NEW bd,
           \A i, j \in DOMAIN q : i < j => Precedes(bd, q[i], q[j]),
           \A i \in DOMAIN q : Precedes(bd, q[i], b)
    PROVE  /\ \A i, j \in DOMAIN Append(q, b) : i < j => Precedes(bd, Append(q, b)[i], Append(q, b)[j])
           /\ \A i \in DOMAIN Append(q, b) :
                Append(q, b)[i] = b \/ (i \in DOMAIN q /\ Append(q, b)[i] = q[i])
<1>1. /\ DOMAIN Append(q, b) = 1..(Len(q) + 1) /\ DOMAIN q = 1..Len(q) /\ Len(q) \in Nat
      /\ \A i \in DOMAIN Append(q, b) : Append(q, b)[i] = IF i = Len(q) + 1 THEN b ELSE q[i]
  BY AppendInQueue
<1>2. ASSUME NEW i \in 1..(Len(q) + 1), NEW j \in 1..(Len(q) + 1), i < j
      PROVE  Precedes(bd, Append(q, b)[i], Append(q, b)[j])
  <2>1. i \in DOMAIN q /\ Append(q, b)[i] = q[i]
    BY <1>1, <1>2
  <2>2. CASE j = Len(q) + 1
    BY <1>1, <2>1, <2>2
  <2>3. CASE j # Len(q) + 1
    BY <1>1, <1>2, <2>1, <2>3
  <2> QED BY <2>2, <2>3
<1>3. ASSUME NEW i \in 1..(Len(q) + 1), i # Len(q) + 1
      PROVE  i \in 1..Len(q) /\ Append(q, b)[i] = q[i]
  BY <1>1, <1>3
<1>4. Append(q, b)[Len(q) + 1] = b
  BY <1>1
<1>5. \A i \in DOMAIN Append(q, b) : Append(q, b)[i] = b \/ (i \in DOMAIN q /\ Append(q, b)[i] = q[i])
  BY <1>1, <1>3, <1>4
<1> QED BY <1>1, <1>2, <1>5

\* The oldest batch precedes the others, which stay in order.
LEMMA OrderTail ==
    ASSUME NEW q \in Seq(Buffers), q # <<>>, NEW bd,
           \A i, j \in DOMAIN q : i < j => Precedes(bd, q[i], q[j])
    PROVE  /\ \A i, j \in DOMAIN Tail(q) : i < j => Precedes(bd, Tail(q)[i], Tail(q)[j])
           /\ \A i \in DOMAIN Tail(q) : Precedes(bd, Head(q), Tail(q)[i])
           /\ \A i \in DOMAIN Tail(q) : i + 1 \in DOMAIN q /\ Tail(q)[i] = q[i + 1]
           /\ 1 \in DOMAIN q /\ Head(q) = q[1]
<1>1. Len(q) \in Nat /\ Len(q) > 0 /\ Head(q) = q[1] /\ DOMAIN q = 1..Len(q)
  OBVIOUS
<1>2. DOMAIN Tail(q) = 1..(Len(q) - 1) /\ \A i \in 1..(Len(q) - 1) : Tail(q)[i] = q[i + 1]
  OBVIOUS
<1>3. \A i \in 1..(Len(q) - 1) : i + 1 \in DOMAIN q /\ 1 \in DOMAIN q /\ 1 < i + 1
  BY <1>1
<1>4. ASSUME NEW i \in 1..(Len(q) - 1), NEW j \in 1..(Len(q) - 1), i < j
      PROVE  Precedes(bd, Tail(q)[i], Tail(q)[j])
  <2>1. i + 1 < j + 1
    BY <1>1, <1>4
  <2> QED BY <1>2, <1>3, <2>1
<1> QED BY <1>1, <1>2, <1>3, <1>4

\* Every step keeps the second half.
LEMMA RowFlowNext == IInv /\ [Next]_vars => RowFlow'
<1> SUFFICES ASSUME IInv, [Next]_vars PROVE RowFlow'
  OBVIOUS
<1> USE BuffersAssumption, MaxRowsAssumption, EncryptedAssumption
    DEF IInv, Control, RowFlow, TypeOK, CallerControl, RoomToEncode, WorkerControl, BuffersOwnedOnce,
        IdleBatchesEmpty, BatchOrder, Before, KnownRows, UnsentRows, InFlightRows, AnswerIsForBatch,
        NoRowLost, FlushedBatchEmpty, StoredInOrderOnce, FlushStoresAll,
        Errors, Rows, caller, buffers, failed, worker, session, server
<1>1. CASE EncodeRow
  <2>1. BatchOrder'
    <3>1. /\ cur \in Buffers /\ cur # wbuf /\ \A i \in DOMAIN pending : pending[i] \in Buffers \ {cur}
          /\ UNCHANGED <<cur, pending, wbuf>> /\ rowNumber' = rowNumber + 1 /\ rowNumber \in Nat
      BY <1>1 DEF EncodeRow, InQueue
    <3>2. /\ body'[cur] = body[cur] \cup {rowNumber + 1}
          /\ \A b \in Buffers \ {cur} : body'[b] = body[b]
      BY <1>1, <3>1 DEF EncodeRow
    <3>3. \A b \in Buffers : body'[b] \subseteq 1..(rowNumber + 1)
      <4>1. 1..rowNumber \subseteq 1..(rowNumber + 1) /\ rowNumber + 1 \in 1..(rowNumber + 1)
        BY <3>1
      <4>2. \A b \in Buffers : body[b] \subseteq 1..rowNumber
        OBVIOUS
      <4> HIDE DEF IInv
      <4> QED BY <3>2, <4>1, <4>2
    <3>4. ASSUME NEW b \in Buffers \ {cur}, Before(b, cur)
          PROVE  Precedes(body', b, cur)
      BY <3>1, <3>2, <3>4 DEF Precedes
    <3>5. ASSUME NEW b \in Buffers \ {cur}, NEW c \in Buffers \ {cur}, Before(b, c)
          PROVE  Precedes(body', b, c)
      BY <3>2, <3>5 DEF Precedes
    <3> QED BY <3>1, <3>3, <3>4, <3>5
  <2>2. KnownRows'
    BY <1>1 DEF EncodeRow
  <2>3. UnsentRows'
    BY <1>1 DEF EncodeRow
  <2>4. InFlightRows'
    BY <1>1 DEF EncodeRow
  <2>5. AnswerIsForBatch'
    BY <1>1 DEF EncodeRow
  <2>6. NoRowLost'
    BY <1>1 DEF EncodeRow
  <2>7. FlushedBatchEmpty'
    BY <1>1 DEF EncodeRow
  <2>8. StoredInOrderOnce'
    BY <1>1 DEF EncodeRow
  <2>9. FlushStoresAll'
    BY <1>1 DEF EncodeRow
  <2> QED BY <2>1, <2>2, <2>3, <2>4, <2>5, <2>6, <2>7, <2>8, <2>9
<1>2. CASE RejectRow
  BY <1>2 DEF RejectRow
<1>3. CASE Dispatch
  <2>1. BatchOrder'
    <3>1. /\ cur \in Buffers /\ pending' = Append(pending, cur) /\ cur' = NoBuf
          /\ UNCHANGED <<wbuf, body, rowNumber>>
      BY <1>3 DEF Dispatch
    <3>2. /\ \A i, j \in DOMAIN pending' : i < j => Precedes(body, pending'[i], pending'[j])
          /\ \A i \in DOMAIN pending' : pending'[i] = cur \/ (i \in DOMAIN pending /\ pending'[i] = pending[i])
      <4>1. /\ \A i, j \in DOMAIN pending : i < j => Precedes(body, pending[i], pending[j])
            /\ \A i \in DOMAIN pending : Precedes(body, pending[i], cur)
            /\ pending \in Seq(Buffers)
        BY <3>1
      <4> HIDE DEF IInv
      <4>2. /\ \A i, j \in DOMAIN Append(pending, cur) :
                   i < j => Precedes(body, Append(pending, cur)[i], Append(pending, cur)[j])
            /\ \A i \in DOMAIN Append(pending, cur) :
                   Append(pending, cur)[i] = cur
                     \/ (i \in DOMAIN pending /\ Append(pending, cur)[i] = pending[i])
        BY <3>1, <4>1, OrderAppend
      <4> QED BY <3>1, <4>2
    <3>3. wbuf # NoBuf => \A i \in DOMAIN pending' : Precedes(body, wbuf, pending'[i])
      BY <3>1, <3>2
    <3> QED BY <3>1, <3>2, <3>3
  <2>2. KnownRows'
    BY <1>3 DEF Dispatch
  <2>3. UnsentRows'
    BY <1>3 DEF Dispatch
  <2>4. InFlightRows'
    BY <1>3 DEF Dispatch
  <2>5. AnswerIsForBatch'
    BY <1>3 DEF Dispatch
  <2>6. NoRowLost'
    BY <1>3 DEF Dispatch
  <2>7. FlushedBatchEmpty'
    BY <1>3 DEF Dispatch
  <2>8. StoredInOrderOnce'
    BY <1>3 DEF Dispatch
  <2>9. FlushStoresAll'
    BY <1>3 DEF Dispatch
  <2> QED BY <2>1, <2>2, <2>3, <2>4, <2>5, <2>6, <2>7, <2>8, <2>9
<1>4. CASE DispatchNothing
  BY <1>4 DEF DispatchNothing, AfterDispatch
<1>5. CASE Acquire
  BY <1>5 DEF Acquire, AfterDispatch, Precedes
<1>6. CASE WaitTake
  BY <1>6 DEF WaitTake
<1>7. CASE WaitDone
  <2>1. BatchOrder'
    BY <1>7 DEF WaitDone, Return
  <2>2. KnownRows'
    BY <1>7 DEF WaitDone, Return
  <2>3. UnsentRows'
    BY <1>7 DEF WaitDone, Return
  <2>4. InFlightRows'
    BY <1>7 DEF WaitDone, Return
  <2>5. AnswerIsForBatch'
    BY <1>7 DEF WaitDone, Return
  <2>6. NoRowLost'
    BY <1>7 DEF WaitDone, Return
  <2>7. FlushedBatchEmpty'
    BY <1>7 DEF WaitDone, Return
  <2>8. StoredInOrderOnce'
    BY <1>7 DEF WaitDone, Return
  <2>9. FlushStoresAll'
    BY <1>7, AllCollected DEF WaitDone, Return
  <2> QED BY <2>1, <2>2, <2>3, <2>4, <2>5, <2>6, <2>7, <2>8, <2>9
<1>8. CASE Interrupted
  BY <1>8 DEF Interrupted
<1>9. CASE InterruptFail
  BY <1>9 DEF InterruptFail, FirstFailure
<1>10. CASE InterruptExpire
  BY <1>10 DEF InterruptExpire, Return
<1>11. CASE Hangup
  BY <1>11 DEF Hangup
<1>12. CASE Receive
  <2>1. BatchOrder'
    <3>1. /\ pending # <<>> /\ wbuf' = Head(pending) /\ pending' = Tail(pending)
          /\ UNCHANGED <<cur, body, rowNumber>>
      BY <1>12 DEF Receive
    <3>2. /\ \A i, j \in DOMAIN pending' : i < j => Precedes(body, pending'[i], pending'[j])
          /\ \A i \in DOMAIN pending' : Precedes(body, wbuf', pending'[i])
          /\ \A i \in DOMAIN pending' : i + 1 \in DOMAIN pending /\ pending'[i] = pending[i + 1]
          /\ 1 \in DOMAIN pending /\ wbuf' = pending[1]
      BY <3>1, OrderTail
    <3>3. cur # NoBuf => /\ \A i \in DOMAIN pending' : Precedes(body, pending'[i], cur)
                         /\ Precedes(body, wbuf', cur)
      BY <3>2
    <3> QED BY <3>1, <3>2, <3>3
  <2>2. KnownRows'
    BY <1>12 DEF Receive
  <2>3. UnsentRows'
    <3>1. wbuf = NoBuf /\ UNCHANGED <<body, stored, wire, inflight>>
      BY <1>12 DEF Receive
    <3>2. \A b \in Buffers : \A r \in body[b] : stored[r] = 0 /\ ~(wire = "request" /\ r \in inflight)
      BY <3>1, SMTT(20)
    <3> QED BY <3>1, <3>2
  <2>4. InFlightRows'
    BY <1>12 DEF Receive
  <2>5. AnswerIsForBatch'
    BY <1>12 DEF Receive
  <2>6. NoRowLost'
    BY <1>12 DEF Receive
  <2>7. FlushedBatchEmpty'
    BY <1>12 DEF Receive
  <2>8. StoredInOrderOnce'
    BY <1>12 DEF Receive
  <2>9. FlushStoresAll'
    BY <1>12 DEF Receive
  <2> QED BY <2>1, <2>2, <2>3, <2>4, <2>5, <2>6, <2>7, <2>8, <2>9
<1>13. CASE RunDone
  BY <1>13 DEF RunDone
<1>14. CASE CheckFailure
  BY <1>14 DEF CheckFailure
<1>15. CASE Write
  <2>1. BatchOrder'
    BY <1>15 DEF Write
  <2>2. KnownRows'
    BY <1>15 DEF Write
  <2> DEFINE Sent == wire' = "request" /\ inflight' = body[wbuf]
  <2>a. /\ wbuf \in Buffers /\ wpc = "write" /\ wpc' = "read" /\ wire = "none"
        /\ UNCHANGED <<body, wbuf, stored, rowNumber>>
        /\ Sent \/ UNCHANGED <<wire, inflight>>
    BY <1>15 DEF Write
  <2>b. \A b \in Buffers \ {wbuf} : Before(wbuf, b)
    <3>1. ASSUME NEW b \in Buffers \ {wbuf} PROVE b = cur \/ b \in InQueue(pending) \/ body[b] = {}
      OBVIOUS
    <3>2. ASSUME NEW b \in Buffers, body[b] = {} PROVE Before(wbuf, b)
      BY <3>2 DEF Precedes
    <3>3. \A b \in InQueue(pending) : Before(wbuf, b)
      BY <2>a DEF InQueue
    <3>4. cur # NoBuf => Before(wbuf, cur)
      BY <2>a
    <3> HIDE DEF IInv
    <3> QED BY <3>1, <3>2, <3>3, <3>4
  <2>3. UnsentRows'
    <3>1. \A b \in Buffers \ {wbuf}, r \in Rows : r \in body[b] => r \notin body[wbuf]
      BY <2>b DEF Precedes
    <3> QED BY <2>a, <3>1
  <2>4. InFlightRows'
    <3>1. \A r \in body[wbuf] : stored[r] = 0
      BY <2>a
    <3>2. ASSUME NEW r \in body[wbuf], NEW q \in Rows, q < r
          PROVE  stored[q] = 1 \/ q \in body[wbuf]
      <4>1. r \in 1..rowNumber /\ q \in 1..rowNumber
        BY <2>a, <3>2
      <4>2. stored[q] = 1 \/ \E b \in Buffers : q \in body[b]
        BY <2>a, <4>1
      <4>3. ASSUME NEW b \in Buffers \ {wbuf}, q \in body[b] PROVE FALSE
        BY <2>b, <3>2, <4>1, <4>3 DEF Precedes
      <4> QED BY <4>2, <4>3
    <3> QED BY <2>a, <3>1, <3>2
  <2>5. AnswerIsForBatch'
    BY <1>15 DEF Write
  <2>6. NoRowLost'
    BY <1>15 DEF Write
  <2>7. FlushedBatchEmpty'
    BY <1>15 DEF Write
  <2>8. StoredInOrderOnce'
    BY <1>15 DEF Write
  <2>9. FlushStoresAll'
    BY <1>15 DEF Write
  <2> QED BY <2>1, <2>2, <2>3, <2>4, <2>5, <2>6, <2>7, <2>8, <2>9
<1>16. CASE WriteFail
  BY <1>16 DEF WriteFail
<1>17. CASE ReadReply
  BY <1>17 DEF ReadReply
<1>18. CASE ReadFail
  BY <1>18 DEF ReadFail
<1>19. CASE RecordFailure
  BY <1>19 DEF RecordFailure, FirstFailure
<1>20. CASE Release
  BY <1>20 DEF Release, Precedes
<1>21. CASE PushRow
  BY <1>21 DEF PushRow, Call
<1>22. CASE Flush
  BY <1>22 DEF Flush, Call
<1>23. CASE Close
  BY <1>23 DEF Close, Call
<1>24. CASE Cancel
  BY <1>24 DEF Cancel
<1>25. CASE ServerStore
  <2>1. BatchOrder'
    BY <1>25 DEF ServerStore
  <2>2. KnownRows'
    BY <1>25 DEF ServerStore
  <2>3. UnsentRows'
    BY <1>25 DEF ServerStore
  <2>4. InFlightRows'
    BY <1>25 DEF ServerStore
  <2>5. AnswerIsForBatch'
    BY <1>25 DEF ServerStore
  <2>6. NoRowLost'
    BY <1>25 DEF ServerStore
  <2>7. FlushedBatchEmpty'
    BY <1>25 DEF ServerStore
  <2>8. StoredInOrderOnce'
    BY <1>25, SMTT(20) DEF ServerStore
  <2>9. FlushStoresAll'
    BY <1>25 DEF ServerStore
  <2> QED BY <2>1, <2>2, <2>3, <2>4, <2>5, <2>6, <2>7, <2>8, <2>9
<1>26. CASE ServerRefuse
  BY <1>26 DEF ServerRefuse
<1>27. CASE LinkDown
  BY <1>27 DEF LinkDown
<1>28. CASE UNCHANGED vars
  BY <1>28 DEF vars
<1> HIDE DEF IInv, RowFlow
<1> QED
  BY <1>1, <1>2, <1>3, <1>4, <1>5, <1>6, <1>7, <1>8, <1>9, <1>10, <1>11, <1>12, <1>13, <1>14, <1>15, <1>16, <1>17, <1>18, <1>19, <1>20, <1>21, <1>22, <1>23, <1>24, <1>25, <1>26, <1>27, <1>28
     DEF Next, CallerStep, WorkerStep, NewCall, Environment, Finished

-----------------------------------------------------------------------------
(* The theorems.                                                           *)

\* The inductive invariant holds of every behaviour.
THEOREM Invariance == Spec => []IInv
<1>1. Init => IInv
  BY ControlInit, RowFlowInit DEF IInv
<1>2. IInv /\ [Next]_vars => IInv'
  BY ControlNext, RowFlowNext DEF IInv
<1> QED BY <1>1, <1>2, PTL DEF Spec

\* Every variable keeps its type and no batch's writer passes its body's end.
THEOREM TypeCorrect == Spec => []TypeOK
<1>1. IInv => TypeOK
  BY DEF IInv, Control
<1> QED BY <1>1, Invariance, PTL

\* The caller and run() never hold the same batch, and no batch is lost.
THEOREM BatchesAreOwnedOnce == Spec => []BuffersOwnedOnce
<1>1. IInv => BuffersOwnedOnce
  BY DEF IInv, Control
<1> QED BY <1>1, Invariance, PTL

\* The server stores the first rows given, each once, whatever fails.
THEOREM RowsAreStoredInOrderOnce == Spec => []StoredInOrderOnce
<1>1. IInv => StoredInOrderOnce
  BY DEF IInv, RowFlow
<1> QED BY <1>1, Invariance, PTL

\* Flush returns nil only when every row given is stored.
THEOREM FlushIsComplete == Spec => []FlushStoresAll
<1>1. IInv => FlushStoresAll
  BY DEF IInv, RowFlow
<1> QED BY <1>1, Invariance, PTL

\* The timeout that interrupt provokes never hides the context's error.
THEOREM FailureIsACause == Spec => []CauseIsReported
<1>1. IInv => CauseIsReported
  BY DEF IInv, Control
<1> QED BY <1>1, Invariance, PTL

\* close waits for run() and drops no batch it was given.
THEOREM CloseIsOrderly == Spec => []CloseFinishesIO
<1>1. IInv => CloseFinishesIO
  <2> SUFFICES ASSUME IInv, ~open PROVE wpc = "done" /\ (err = "none" => \A r \in 1..rowNumber : stored[r] = 1 \/ r \in body[cur])
    BY DEF CloseFinishesIO
  <2> USE DEF IInv, Control
  <2>1. wpc = "done" /\ pending = <<>> /\ wbuf = NoBuf
    BY DEF WorkerControl
  <2>2. InQueue(pending) = {}
    BY <2>1 DEF InQueue
  <2>3. ASSUME NEW b \in Buffers PROVE b = cur \/ body[b] = {}
    BY <2>1, <2>2, BuffersAssumption DEF BuffersOwnedOnce, IdleBatchesEmpty
  <2>4. err = "none" => \A r \in 1..rowNumber : stored[r] = 1 \/ \E b \in Buffers : r \in body[b]
    BY DEF RowFlow, NoRowLost
  <2> QED BY <2>1, <2>3, <2>4
<1> QED BY <1>1, Invariance, PTL

\* A queue of distinct batches is no longer than the number of batches in it.
LEMMA QueueLength ==
    ASSUME NEW q \in Seq(Buffers), \A i, j \in DOMAIN q : i # j => q[i] # q[j]
    PROVE  IsFiniteSet(InQueue(q)) /\ Cardinality(InQueue(q)) = Len(q)
<1>1. Len(q) \in Nat /\ DOMAIN q = 1..Len(q)
  OBVIOUS
<1>2. q \in Bijection(1..Len(q), InQueue(q))
  <2>1. q \in [1..Len(q) -> InQueue(q)]
    BY <1>1 DEF InQueue
  <2>2. q \in Injection(1..Len(q), InQueue(q))
    BY <1>1, <2>1 DEF Injection, IsInjective
  <2>3. q \in Surjection(1..Len(q), InQueue(q))
    BY <1>1, <2>1 DEF Surjection, InQueue
  <2> QED BY <2>2, <2>3 DEF Bijection
<1>3. ExistsBijection(1..Len(q), InQueue(q))
  BY <1>2 DEF ExistsBijection
<1> QED BY <1>1, <1>3, FS_CountingElements, FS_NatBijection

\* The sends outside a select never block.
THEOREM SendsFindRoom == Spec => []SendsNeverBlock
<1>1. IInv => SendsNeverBlock
  <2> SUFFICES ASSUME IInv PROVE SendsNeverBlock
    OBVIOUS
  <2> USE BuffersAssumption DEF IInv, Control, TypeOK
  <2>1. ASSUME NEW S \in SUBSET Buffers, NEW b \in Buffers \ S
        PROVE  Cardinality(S) < Cardinality(Buffers)
    <3>1. IsFiniteSet(S) /\ Cardinality(S) <= Cardinality(Buffers) /\ Cardinality(S) # Cardinality(Buffers)
      BY FS_Subset
    <3> QED BY <3>1, FS_CardinalityType
  <2>2. pc = "dispatch" /\ cur # NoBuf => Len(pending) < Cardinality(Buffers)
    <3>1. InQueue(pending) \subseteq Buffers /\ cur \notin InQueue(pending)
      BY DEF InQueue, BuffersOwnedOnce
    <3>2. Cardinality(InQueue(pending)) = Len(pending)
      BY QueueLength DEF BuffersOwnedOnce
    <3> QED BY <2>1, <3>1, <3>2
  <2>3. wpc = "release" => Cardinality(free) < Cardinality(Buffers)
    BY <2>1 DEF WorkerControl, BuffersOwnedOnce
  <2>4. Cardinality(free) + Cardinality(held) <= Cardinality(Buffers)
    <3>1. IsFiniteSet(free) /\ IsFiniteSet(held) /\ IsFiniteSet(free \cup held)
      BY FS_Subset
    <3>2. Cardinality(free \cap held) = 0
      BY FS_EmptySet DEF BuffersOwnedOnce
    <3>3. Cardinality(free \cup held) = Cardinality(free) + Cardinality(held) - Cardinality(free \cap held)
      BY <3>1, FS_Union
    <3>4. Cardinality(free \cup held) <= Cardinality(Buffers)
      BY FS_Subset
    <3> QED BY <3>1, <3>2, <3>3, <3>4, FS_CardinalityType
  <2> QED BY <2>2, <2>3, <2>4 DEF SendsNeverBlock
<1> QED BY <1>1, Invariance, PTL

\* The channel implements the abstract queue of FastLoadQueue: AddRow accepts,
\* the server stores block after block, and only a complete Flush succeeds.
THEOREM ChannelImplementsQueue == Spec => ImplementsQueue
<1>1. Init => Queue!QInit
  BY DEF Init, Queue!QInit, Rows
<1>2. IInv /\ IInv' /\ [Next]_vars => [Queue!QNext]_(Queue!qvars)
  <2> SUFFICES ASSUME IInv, IInv', [Next]_vars PROVE Queue!QNext \/ UNCHANGED Queue!qvars
    OBVIOUS
  <2> USE DEF Queue!QNext, Queue!qvars, caller, buffers, failed, worker, session, server
  <2>1. CASE EncodeRow
    <3>1. pc' = "idle" /\ op' = "push" /\ rowNumber' = rowNumber + 1 /\ stored' = stored
      BY <2>1 DEF EncodeRow, IInv, Control, CallerControl
    <3> QED BY <3>1 DEF Queue!Accept
  <2>2. CASE WaitDone
    <3>1. pc' = "idle" /\ rowNumber' = rowNumber /\ stored' = stored
      BY <2>2 DEF WaitDone, Return
    <3>2. FlushStoresAll'
      BY DEF IInv, RowFlow
    <3> QED BY <3>1, <3>2 DEF Queue!FlushOk, Queue!OtherCall, FlushStoresAll
  <2>3. CASE ServerStore
    <3>1. wire = "request" /\ inflight \subseteq 1..rowNumber /\ rowNumber \in 0..MaxRows
      BY <2>3 DEF ServerStore, IInv, Control, TypeOK, RowFlow, KnownRows
    <3>2. \A r \in inflight : stored[r] = 0
      BY <3>1 DEF IInv, RowFlow, InFlightRows
    <3>3. \A r \in inflight, q \in 1..rowNumber : q < r => stored[q] = 1 \/ q \in inflight
      BY <3>1, MaxRowsAssumption DEF IInv, RowFlow, InFlightRows, Rows
    <3>4. stored' = [r \in 1..MaxRows |-> IF r \in inflight THEN 1 ELSE stored[r]]
      BY <2>3, <3>2 DEF ServerStore, Rows
    <3>5. UNCHANGED <<rowNumber, pc, op, ret>>
      BY <2>3 DEF ServerStore
    <3> QED BY <3>1, <3>2, <3>3, <3>4, <3>5 DEF Queue!Store
  <2>4. CASE PushRow \/ Flush \/ Close
    <3>1. (pc' # "idle" \/ op' = "push") /\ UNCHANGED <<rowNumber, stored>>
      BY <2>4 DEF PushRow, Flush, Close, Call
    <3> QED BY <3>1 DEF Queue!OtherCall
  <2>5. CASE RejectRow \/ InterruptExpire \/ Hangup
    <3>1. ~(pc' = "idle" /\ op' = "flush" /\ ret' = "ok") /\ UNCHANGED <<rowNumber, stored>>
      BY <2>5 DEF RejectRow, InterruptExpire, Hangup, Return, IInv, Control, CallerControl
    <3> QED BY <3>1 DEF Queue!OtherCall
  <2>6. CASE \/ Dispatch \/ DispatchNothing \/ Acquire \/ WaitTake \/ Interrupted \/ InterruptFail
    <3>1. pc # "idle" /\ pc' # "idle" /\ UNCHANGED <<rowNumber, stored>>
      BY <2>6 DEF Dispatch, DispatchNothing, Acquire, AfterDispatch, WaitTake, Interrupted, InterruptFail
    <3> QED BY <3>1
  <2>7. CASE WorkerStep
    BY <2>7 DEF WorkerStep, Receive, RunDone, CheckFailure, Write, WriteFail, ReadReply, ReadFail,
                RecordFailure, Release
  <2>8. CASE Cancel \/ ServerRefuse \/ LinkDown
    BY <2>8 DEF Cancel, ServerRefuse, LinkDown
  <2>9. CASE UNCHANGED vars
    BY <2>9 DEF vars
  <2> QED
    BY <2>1, <2>2, <2>3, <2>4, <2>5, <2>6, <2>7, <2>8, <2>9
       DEF Next, CallerStep, NewCall, Environment, Finished
<1> QED BY <1>1, <1>2, Invariance, PTL DEF Spec, ImplementsQueue, Queue!QSpec
=============================================================================
