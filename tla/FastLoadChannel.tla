--------------------------- MODULE FastLoadChannel ---------------------------
(***************************************************************************)
(* One FastLoad data channel (fastload_data_channel.go): the goroutine     *)
(* that calls AddRow, Flush and close, the goroutine run() that sends the  *)
(* batches, the buffers they pass each other through the Go channels       *)
(* `pending' and `free', and the data session's socket.                    *)
(*                                                                         *)
(* `free' holds empty batches only, which are interchangeable, so it and   *)
(* wait()'s slice `held' are sets; `pending' keeps its order.  A batch is  *)
(* the set of its rows' numbers and the writer's position.  Row numbers    *)
(* count the rows this channel was given.                                  *)
(***************************************************************************)
EXTENDS Integers, Sequences, FiniteSets

CONSTANTS Buffers,       \* fastLoadBuffersPerSession batches
          NoBuf,         \* Go's nil batch
          BodyLen,       \* bytes of a batch's body
          MaxParcelLen,  \* the longest parcel a row can take
          Encrypted,     \* messages of the session are wrapped (gss)
          MaxRows        \* bound: rows given to the channel

ASSUME BuffersAssumption == IsFiniteSet(Buffers) /\ Buffers # {} /\ NoBuf \notin Buffers
\* startFastLoadDataChannel refuses a row that may not fit an empty body.
ASSUME LengthAssumption == /\ BodyLen \in Nat /\ MaxParcelLen \in Nat
                           /\ 0 < MaxParcelLen /\ MaxParcelLen <= BodyLen
ASSUME EncryptedAssumption == Encrypted \in BOOLEAN
ASSUME MaxRowsAssumption == MaxRows \in Nat

VARIABLES
    \* the calling goroutine
    pc,         \* where it is in its call, "idle" between calls
    op,         \* the call: "push", "flush" or "close"
    ctx,        \* the call's context: "background", "live" or "done"
    ret,        \* what the last call returned: "ok" or "err"
    rowNumber,  \* rows accepted so far
    held,       \* wait()'s slice of collected batches
    \* the channel
    cur, pending, closed, free, err, broken,
    body, pos,  \* the rows in each batch, and its writer's position
    \* the goroutine run()
    wpc, wbuf, werr,
    \* the data session's connection and its server
    bad,        \* markUnusable was called
    deadline,   \* SetDeadline(now) was called
    open,       \* the socket is not closed
    link,       \* the network: "up" or "down"
    wire,       \* "none", "request", "reply" or "refusal"
    inflight,   \* the rows of the last request
    stored      \* how many times the server has stored each row

caller == <<pc, op, ctx, ret, rowNumber, held>>
buffers == <<cur, pending, closed, free, body, pos>>
failed == <<err, broken>>
worker == <<wpc, wbuf, werr>>
session == <<bad, deadline, open, link>>
server == <<wire, inflight, stored>>
vars == <<caller, buffers, failed, worker, session, server>>

Rows == 1..MaxRows
Errors == {"ctx", "server", "io", "deadline"}

-----------------------------------------------------------------------------
(* Helpers.                                                                *)

\* The batches in a Go channel.
InQueue(q) == {q[i] : i \in DOMAIN q}

\* setFailure keeps the first error.
FirstFailure(e) == IF err = "none" THEN e ELSE err

\* wait's loop condition: batches still to be collected.
InHand == IF cur = NoBuf THEN 0 ELSE 1
\* Mutant of Missing: wait stops one batch early.
MissingOneLess == Cardinality(held) + InHand < Cardinality(Buffers) - 1

Missing == Cardinality(held) + InHand < Cardinality(Buffers)

\* A call returns r; wait's deferred function gives back what it held.
Return(r) == /\ pc' = "idle"
             /\ ret' = r
             /\ free' = free \cup held
             /\ held' = {}

-----------------------------------------------------------------------------
Init ==
    /\ pc = "idle" /\ op = "push" /\ ctx = "background" /\ ret = "ok"
    /\ rowNumber = 0 /\ held = {}
    /\ cur \in Buffers /\ free = Buffers \ {cur}
    /\ pending = <<>> /\ closed = FALSE
    /\ body = [b \in Buffers |-> {}] /\ pos = [b \in Buffers |-> 0]
    /\ err = "none" /\ broken = FALSE
    /\ wpc = "recv" /\ wbuf = NoBuf /\ werr = "none"
    /\ bad = FALSE /\ deadline = FALSE /\ open = TRUE /\ link = "up"
    /\ wire = "none" /\ inflight = {} /\ stored = [r \in Rows |-> 0]

\* The caller starts a call with a context of its choice, perhaps one that is
\* already cancelled.  A finished load refuses calls (fastLoadTx.done), which
\* is what `closed' stands for here.
Call(o) == /\ pc = "idle" /\ ~closed
           /\ op' = o
           /\ ctx' \in {"background", "live", "done"}

Cancel == /\ ctx = "live" /\ pc # "idle"
          /\ ctx' = "done"
          /\ UNCHANGED <<pc, op, ret, rowNumber, held, buffers, failed, worker, session, server>>

\* Mutant of PushRow: the room test forgets that a row may need MaxParcelLen.
PushRowAnyRoom ==
    /\ Call("push") /\ rowNumber < MaxRows
    /\ pc' = IF err # "none" THEN "idle"
             ELSE IF cur = NoBuf THEN "acquire"
             ELSE IF BodyLen - pos[cur] < 1 THEN "dispatch"
             ELSE "encode"
    /\ ret' = IF err # "none" THEN "err" ELSE ret
    /\ UNCHANGED <<rowNumber, held, buffers, failed, worker, session, server>>

\* pushRow up to its dispatch: the sticky failure, then the room left.
PushRow ==
    /\ Call("push") /\ rowNumber < MaxRows
    /\ pc' = IF err # "none" THEN "idle"
             ELSE IF cur = NoBuf THEN "acquire"
             ELSE IF BodyLen - pos[cur] < MaxParcelLen THEN "dispatch"
             ELSE "encode"
    /\ ret' = IF err # "none" THEN "err" ELSE ret
    /\ UNCHANGED <<rowNumber, held, buffers, failed, worker, session, server>>

\* pushRow encodes the row into the current batch.
EncodeRow ==
    /\ pc = "encode"
    /\ \E len \in 1..MaxParcelLen : pos' = [pos EXCEPT ![cur] = @ + len]
    /\ body' = [body EXCEPT ![cur] = @ \cup {rowNumber + 1}]
    /\ rowNumber' = rowNumber + 1
    /\ pc' = "idle" /\ ret' = "ok"
    /\ UNCHANGED <<op, ctx, held, cur, pending, closed, free, failed, worker, session, server>>

\* pushRow cannot encode the values: it rolls the partial row back.
RejectRow ==
    /\ pc = "encode"
    /\ pc' = "idle" /\ ret' = "err"
    /\ UNCHANGED <<op, ctx, rowNumber, held, buffers, failed, worker, session, server>>

\* Flush begins with dispatch.
Flush ==
    /\ Call("flush")
    /\ pc' = "dispatch"
    /\ UNCHANGED <<ret, rowNumber, held, buffers, failed, worker, session, server>>

AfterDispatch == IF op = "push" THEN "encode" ELSE "wait"

\* Mutant of Dispatch: cur still points at the batch it queued.
DispatchKeepsCur ==
    /\ pc = "dispatch"
    /\ cur # NoBuf /\ body[cur] # {}
    /\ Len(pending) < Cardinality(Buffers)
    /\ pending' = Append(pending, cur)
    /\ pc' = "acquire"
    /\ UNCHANGED <<cur, op, ctx, ret, rowNumber, held, closed, free, body, pos, failed, worker, session, server>>

\* dispatch queues the current batch for run() ...
Dispatch ==
    /\ pc = "dispatch"
    /\ cur # NoBuf /\ body[cur] # {}
    /\ Len(pending) < Cardinality(Buffers)
    /\ pending' = Append(pending, cur)
    /\ cur' = NoBuf
    /\ pc' = "acquire"
    /\ UNCHANGED <<op, ctx, ret, rowNumber, held, closed, free, body, pos, failed, worker, session, server>>

\* ... unless there is none or it has no rows.
DispatchNothing ==
    /\ pc = "dispatch"
    /\ cur # NoBuf => body[cur] = {}
    /\ pc' = AfterDispatch
    /\ UNCHANGED <<op, ctx, ret, rowNumber, held, buffers, failed, worker, session, server>>

\* acquire takes a free batch.  It is empty, so pushRow's room test passes.
Acquire ==
    /\ pc = "acquire"
    /\ cur' \in free
    /\ free' = free \ {cur'}
    /\ pc' = AfterDispatch
    /\ UNCHANGED <<op, ctx, ret, rowNumber, held, pending, closed, body, pos, failed, worker, session, server>>

\* wait collects the batches run() gives back ...
WaitTake ==
    /\ pc = "wait" /\ Missing
    /\ \E b \in free : held' = held \cup {b} /\ free' = free \ {b}
    /\ UNCHANGED <<pc, op, ctx, ret, rowNumber, cur, pending, closed, body, pos, failed, worker, session, server>>

\* ... and reports the channel's failure, if any, when it has them all.
WaitDone ==
    /\ pc = "wait" /\ ~Missing
    /\ Return(IF err = "none" THEN "ok" ELSE "err")
    /\ UNCHANGED <<op, ctx, rowNumber, cur, pending, closed, body, pos, failed, worker, session, server>>

\* The select of acquire, wait or close sees the context's end.
Interrupted ==
    /\ ctx = "done"
    /\ pc \in {"acquire", "closing"} \/ (pc = "wait" /\ Missing)
    /\ pc' = "interrupt"
    /\ UNCHANGED <<op, ctx, ret, rowNumber, held, buffers, failed, worker, session, server>>

\* Mutant of InterruptFail: the deadline is set before the failure.
InterruptDeadlineFirst ==
    /\ pc = "interrupt"
    /\ deadline' = TRUE
    /\ pc' = "expire"
    /\ UNCHANGED <<op, ctx, ret, rowNumber, held, buffers, failed, worker, bad, open, link, server>>

\* interrupt: setFailure and broken ...
InterruptFail ==
    /\ pc = "interrupt"
    /\ err' = FirstFailure("ctx")
    /\ broken' = TRUE
    /\ pc' = "expire"
    /\ UNCHANGED <<op, ctx, ret, rowNumber, held, buffers, worker, session, server>>

\* Mutant of InterruptExpire: interrupt does not touch the socket.
InterruptLeavesSocket ==
    /\ pc = "expire"
    /\ IF op = "close" THEN pc' = "join" /\ UNCHANGED <<ret, free, held>> ELSE Return("err")
    /\ UNCHANGED <<op, ctx, rowNumber, cur, pending, closed, body, pos, failed, worker, session, server>>

\* ... then the socket's deadline; acquire and wait return the error, close
\* goes on to wait for run().
InterruptExpire ==
    /\ pc = "expire"
    /\ deadline' = TRUE
    /\ IF op = "close" THEN pc' = "join" /\ UNCHANGED <<ret, free, held>> ELSE Return("err")
    /\ UNCHANGED <<op, ctx, rowNumber, cur, pending, closed, body, pos, failed, worker, bad, open, link, server>>

\* close closes `pending', once (closeOnce).
Close ==
    /\ Call("close")
    /\ closed' = TRUE
    /\ pc' = "closing"
    /\ UNCHANGED <<ret, rowNumber, held, cur, pending, free, body, pos, failed, worker, session, server>>

\* Mutant of Hangup: close does not wait for run().
HangupAtOnce ==
    /\ pc \in {"closing", "join"}
    /\ open' = FALSE
    /\ pc' = "idle" /\ ret' = "ok"
    /\ UNCHANGED <<op, ctx, rowNumber, held, buffers, failed, worker, bad, deadline, link, server>>

\* close saw run() finish: it closes the socket.  Unless the channel is broken
\* it does so through conn.Close, whose logoff usable() refuses (Session.tla),
\* so that close then returns ErrBadConn.
Hangup ==
    /\ pc \in {"closing", "join"} /\ wpc = "done"
    /\ open' = FALSE
    /\ pc' = "idle" /\ ret' = IF broken \/ bad THEN "ok" ELSE "err"
    /\ UNCHANGED <<op, ctx, rowNumber, held, buffers, failed, worker, bad, deadline, link, server>>

-----------------------------------------------------------------------------
(* run() and sendBatch.                                                    *)

\* `for b := range c.pending' takes the next batch ...
Receive ==
    /\ wpc = "recv" /\ pending # <<>>
    /\ wbuf' = Head(pending) /\ pending' = Tail(pending)
    /\ wpc' = "check"
    /\ UNCHANGED <<caller, cur, closed, free, body, pos, failed, werr, session, server>>

\* ... or ends when the channel is closed and drained.
RunDone ==
    /\ wpc = "recv" /\ pending = <<>> /\ closed
    /\ wpc' = "done"
    /\ UNCHANGED <<caller, buffers, failed, wbuf, werr, session, server>>

\* Mutant of CheckFailure: run() goes on sending after a failure.
CheckNothing ==
    /\ wpc = "check"
    /\ wpc' = "write"
    /\ UNCHANGED <<caller, buffers, failed, wbuf, werr, session, server>>

\* A batch is only sent while the channel has not failed.
CheckFailure ==
    /\ wpc = "check"
    /\ wpc' = IF err = "none" THEN "write" ELSE "release"
    /\ UNCHANGED <<caller, buffers, failed, wbuf, werr, session, server>>

\* sendBatchIO writes the batch.  A dead link may swallow the message.
Write ==
    /\ wpc = "write" /\ ~bad /\ open /\ ~deadline
    /\ \/ /\ wire' = "request" /\ inflight' = body[wbuf]
       \/ /\ link = "down" /\ UNCHANGED <<wire, inflight>>
    /\ wpc' = "read"
    /\ UNCHANGED <<caller, buffers, failed, wbuf, werr, session, stored>>

\* The write fails.  writeLanMessage loses the error of a wrapped message, so
\* an encrypted session goes on to read.
WriteFail ==
    /\ wpc = "write"
    /\ bad \/ ~open \/ deadline \/ link = "down"
    /\ bad' = TRUE
    /\ wpc' = IF Encrypted THEN "read" ELSE "fail"
    /\ werr' = IF Encrypted THEN "none" ELSE IF deadline THEN "deadline" ELSE "io"
    /\ UNCHANGED <<caller, buffers, failed, wbuf, deadline, open, link, server>>

\* The server's answer: an activity count, or an error parcel.
ReadReply ==
    /\ wpc = "read" /\ ~deadline /\ wire \in {"reply", "refusal"}
    /\ wpc' = IF wire = "reply" THEN "release" ELSE "fail"
    /\ werr' = IF wire = "reply" THEN "none" ELSE "server"
    /\ wire' = "none"
    /\ UNCHANGED <<caller, buffers, failed, wbuf, session, inflight, stored>>

\* The read fails: readLanMessage marks the connection unusable.
ReadFail ==
    /\ wpc = "read"
    /\ deadline \/ link = "down"
    /\ werr' = IF deadline THEN "deadline" ELSE "io"
    /\ bad' = TRUE
    /\ wpc' = "fail"
    /\ UNCHANGED <<caller, buffers, failed, wbuf, deadline, open, link, server>>

\* Mutant of RecordFailure: run() returns on its first failure.
RecordFailureAndStop ==
    /\ wpc = "fail"
    /\ broken' = (broken \/ werr # "server")
    /\ err' = FirstFailure(werr)
    /\ wpc' = "done" /\ werr' = "none"
    /\ UNCHANGED <<caller, buffers, wbuf, session, server>>

\* sendBatch and run record the failure.  A connection error breaks the
\* channel, and a deadline that interrupt set stands for interrupt's cause.
RecordFailure ==
    /\ wpc = "fail"
    /\ broken' = (broken \/ werr # "server")
    /\ err' = FirstFailure(werr)
    /\ wpc' = "release" /\ werr' = "none"
    /\ UNCHANGED <<caller, buffers, wbuf, session, server>>

\* Mutant of Release: the batch is given back without its reset.
ReleaseWithoutReset ==
    /\ wpc = "release"
    /\ Cardinality(free) < Cardinality(Buffers)
    /\ free' = free \cup {wbuf}
    /\ wbuf' = NoBuf
    /\ wpc' = "recv"
    /\ UNCHANGED <<caller, cur, pending, closed, body, pos, failed, werr, session, server>>

\* run resets the batch and gives it back.
Release ==
    /\ wpc = "release"
    /\ Cardinality(free) < Cardinality(Buffers)
    /\ body' = [body EXCEPT ![wbuf] = {}]
    /\ pos' = [pos EXCEPT ![wbuf] = 0]
    /\ free' = free \cup {wbuf}
    /\ wbuf' = NoBuf
    /\ wpc' = "recv"
    /\ UNCHANGED <<caller, cur, pending, closed, failed, werr, session, server>>

-----------------------------------------------------------------------------
(* The database, and the network between.                                  *)

ServerStore ==
    /\ wire = "request"
    /\ stored' = [r \in Rows |-> IF r \in inflight THEN stored[r] + 1 ELSE stored[r]]
    /\ wire' = "reply"
    /\ UNCHANGED <<caller, buffers, failed, worker, session, inflight>>

ServerRefuse ==
    /\ wire = "request"
    /\ wire' = "refusal"
    /\ UNCHANGED <<caller, buffers, failed, worker, session, inflight, stored>>

LinkDown ==
    /\ link = "up" /\ open
    /\ link' = "down"
    /\ UNCHANGED <<caller, buffers, failed, worker, bad, deadline, open, server>>

-----------------------------------------------------------------------------
CallerStep == \/ EncodeRow \/ RejectRow \/ Dispatch \/ DispatchNothing \/ Acquire
              \/ WaitTake \/ WaitDone \/ Interrupted \/ InterruptFail
              \/ InterruptExpire \/ Hangup
WorkerStep == \/ Receive \/ RunDone \/ CheckFailure \/ Write \/ WriteFail
              \/ ReadReply \/ ReadFail \/ RecordFailure \/ Release
NewCall == PushRow \/ Flush \/ Close
Environment == Cancel \/ ServerStore \/ ServerRefuse \/ LinkDown
\* A closed channel takes no more calls.
Finished == pc = "idle" /\ closed /\ UNCHANGED vars

Next == CallerStep \/ WorkerStep \/ NewCall \/ Environment \/ Finished

\* Go's scheduler runs both goroutines; nothing makes the server answer, the
\* context end or the caller call.
Fairness == WF_vars(CallerStep) /\ WF_vars(WorkerStep)

Spec == Init /\ [][Next]_vars /\ Fairness

-----------------------------------------------------------------------------
(* What the channel guarantees.                                            *)

\* The values every variable can take; a batch's writer never passes the end
\* of its body (the room test of pushRow), whatever the rows' lengths.
TypeOK ==
    /\ pc \in {"idle", "encode", "dispatch", "acquire", "wait", "interrupt",
               "expire", "closing", "join"}
    /\ op \in {"push", "flush", "close"}
    /\ ctx \in {"background", "live", "done"}
    /\ ret \in {"ok", "err"}
    /\ rowNumber \in 0..MaxRows
    /\ held \subseteq Buffers /\ free \subseteq Buffers
    /\ cur \in Buffers \cup {NoBuf} /\ wbuf \in Buffers \cup {NoBuf}
    /\ pending \in Seq(Buffers)
    /\ body \in [Buffers -> SUBSET Rows]
    /\ pos \in [Buffers -> 0..BodyLen]
    /\ err \in Errors \cup {"none"} /\ werr \in Errors \cup {"none"}
    /\ wpc \in {"recv", "check", "write", "read", "fail", "release", "done"}
    /\ closed \in BOOLEAN /\ broken \in BOOLEAN /\ bad \in BOOLEAN
    /\ deadline \in BOOLEAN /\ open \in BOOLEAN
    /\ link \in {"up", "down"}
    /\ wire \in {"none", "request", "reply", "refusal"}
    /\ inflight \subseteq Rows
    /\ stored \in [Rows -> Nat]

\* Every batch is in exactly one place: the caller's hands (cur or held), a
\* Go channel, or run()'s hands.  So the two goroutines never touch the same
\* batch, which nothing but this hand-over protects, and none is ever lost.
BuffersOwnedOnce ==
    /\ \A i, j \in DOMAIN pending : i # j => pending[i] # pending[j]
    /\ InQueue(pending) \cap free = {}
    /\ held \cap (InQueue(pending) \cup free) = {}
    /\ cur \notin InQueue(pending) \cup free \cup held
    /\ wbuf \notin InQueue(pending) \cup free \cup held
    /\ cur = wbuf => cur = NoBuf
    /\ Buffers \subseteq {cur, wbuf} \cup InQueue(pending) \cup free \cup held

\* The sends to `pending' and `free' find room: dispatch, run and wait's
\* deferred function send outside any select, so a full Go channel would block
\* them for good, whatever the context says.
SendsNeverBlock ==
    /\ pc = "dispatch" /\ cur # NoBuf => Len(pending) < Cardinality(Buffers)
    /\ wpc = "release" => Cardinality(free) < Cardinality(Buffers)
    /\ Cardinality(free) + Cardinality(held) <= Cardinality(Buffers)

\* The server stores each row at most once, and never a row after one it did
\* not store: whatever fails, the rows loaded are the first rows given.
StoredInOrderOnce ==
    \A r \in Rows :
        /\ stored[r] <= 1
        /\ stored[r] = 1 => \A q \in 1..r : stored[q] = 1

\* A Flush that returned nil means every row given so far is stored.
FlushStoresAll ==
    pc = "idle" /\ op = "flush" /\ ret = "ok" =>
        \A r \in 1..rowNumber : stored[r] = 1

\* The failure a caller is told is a cause: the i/o timeout that interrupt
\* provokes in run() never replaces the context's error.
CauseIsReported == err # "deadline"

\* close lets the I/O finish: when the socket is closed run() is gone, and
\* unless a failure is recorded every batch it was given is stored.
CloseFinishesIO ==
    ~open => /\ wpc = "done"
             /\ err = "none" => \A r \in 1..rowNumber : stored[r] = 1 \/ r \in body[cur]

\* The channel implements the abstract queue of rows.
Queue == INSTANCE FastLoadQueue WITH
            accepted <- rowNumber,
            flushed <- pc = "idle" /\ op = "flush" /\ ret = "ok"
ImplementsQueue == Queue!QSpec

\* A call whose context ends returns, even when the server never answers.
CancelledCallReturns == (pc # "idle" /\ ctx = "done") ~> (pc = "idle")

\* When the server answers every request, every call returns: no context has to
\* end for it.
AnsweredCallReturns == []<>(wire # "request") => ((pc # "idle") ~> (pc = "idle"))
=============================================================================
