------------------------------ MODULE RowReader ------------------------------
(***************************************************************************)
(* A result set and the LOBs of its rows, read through the connection's    *)
(* buffer: Next takes parcels from an array of its own and fetches more,   *)
(* GetBytes fetches a LOB in between through the connection's array.       *)
(* Column values and locators are slices of the array they were read from. *)
(* Which request a Continue names is the subject of Session.               *)
(***************************************************************************)
EXTENDS ReadBuffer, Lob, FiniteSets

CONSTANTS Rows,       \* the number of rows of the result
          LobSizes,   \* the lengths a LOB may have
          MaxGets,    \* bound: calls of GetBytes
          MaxFaults   \* bound: errors of the server and of the connection

ASSUME RowsAssumption == Rows \in Nat /\ MaxGets \in Nat /\ MaxFaults \in Nat
ASSUME SizesAssumption == LobSizes \subseteq Nat /\ IsFiniteSet(LobSizes)

VARIABLES
    tls, prefetch,      \* frames around messages; the configuration's LOBPrefetch
    slow,               \* the network delivers cell by cell, or all it can at once
    layout, size,       \* how the server sends each row; how long their LOBs are
    pc, op,             \* the step of the method, and what it is reading
    msgLen, bad,        \* from the message's header; the connection is unusable
    reader,             \* the parcels the result set has not read
    dest,               \* Next's row: its number (0 for none) and its slice
    slob,               \* Next is inside the LOB of a row
    status,             \* of the result set: "open", "eof", "error" or "closed"
    given,              \* the rows the caller has got
    lobs, got,          \* the LOB objects, and what GetBytes returned, by row
    cur, gets,          \* the LOB being fetched; calls of GetBytes so far
    \* the server
    sent, message, faults

setup == <<tls, prefetch, slow, layout, size>>
control == <<pc, op, msgLen, bad>>
rowVars == <<reader, dest, slob, status, given>>
lobVars == <<lobs, got, cur, gets>>
server == <<sent, message, faults>>
vars == <<bufferVars, setup, control, rowVars, lobVars, server>>

RowIds == 1..Rows
NoRow == [row |-> 0, value |-> Slice(1, 0, 0)]

-----------------------------------------------------------------------------
(* The server's messages.                                                  *)

Bytes(r) == [i \in 1..size |-> 10 * r + i]
Parcel(f, r, b) == [kind |-> f, row |-> r, body |-> b]
Plain(f) == Parcel(f, 0, <<>>)
Header(n) == [kind |-> "header", len |-> n]
Frame == [kind |-> "frame"]

\* A whole row in one parcel, or in parts with its LOB among them.
RowParcels(r) ==
    IF layout[r] = "record" THEN <<Parcel("Record", r, <<>>)>>
    ELSE <<Parcel("MultiPartRecord", r, <<>>), Parcel("StartSlobData", r, <<>>),
           Parcel("SlobData", r, [i \in 1..LengthBytes |-> 0] \o Bytes(r)),
           Plain("EndSlobData"), Plain("MultiPartEnd")>>

ResultParcels == <<Plain("StatementInfo")>> \o FlattenSeq([r \in RowIds |-> RowParcels(r)])
                 \o <<Plain("EndStatement"), Plain("EndRequest")>>

\* The record of a locator: an indicator, the length and the bytes.
LobRecord(r) == Parcel("Record", r, <<0>> \o [i \in 1..(LengthBytes - 1) |-> 0] \o <<size>> \o Bytes(r))

Framed(parcels) == (IF tls THEN <<Frame>> ELSE <<>>) \o <<Header(Len(parcels) + 1)>> \o parcels

Answers(parcels) == message' = parcels /\ wire' = wire \o Framed(parcels)

\* The server's answers to what the client asks for.
AnswerRows ==
    \E n \in 1..(Len(ResultParcels) - sent) :
        /\ Answers(SubSeq(ResultParcels, sent + 1, sent + n))
        /\ sent' = sent + n /\ UNCHANGED faults
AnswerLob ==
    /\ Answers(<<LobRecord(cur), Plain("EndRequest")>>) \/ Answers(<<LobRecord(cur)>>)
    /\ UNCHANGED <<sent, faults>>
AnswerEnd == Answers(<<Plain("EndRequest")>>) /\ UNCHANGED <<sent, faults>>
Fault == faults < MaxFaults /\ faults' = faults + 1
AnswerError == Fault /\ Answers(<<Plain("Failure")>>) /\ UNCHANGED sent

-----------------------------------------------------------------------------
Init ==
    /\ BufferInit
    /\ tls \in BOOLEAN /\ prefetch \in BOOLEAN /\ slow \in BOOLEAN
    /\ layout \in [RowIds -> {"record", "inline"}] /\ size \in LobSizes
    /\ pc = "write" /\ op = "query" /\ msgLen = 0 /\ bad = FALSE
    /\ reader = Slice(1, 0, 0) /\ dest = NoRow /\ slob = FALSE
    /\ status = "open"
    /\ given = <<>> /\ lobs = [r \in RowIds |-> NewLob(size)]
    /\ got = [r \in RowIds |-> [known |-> FALSE, bytes |-> <<>>]]
    /\ cur = 0 /\ gets = 0
    /\ sent = 0 /\ message = <<>> /\ faults = 0

-----------------------------------------------------------------------------
(* Sending a request and receiving its answer.                             *)

\* A method returns with an error.  Query and Next end the result set with it.
Failed ==
    /\ pc' = "idle" /\ op' = "none" /\ cur' = 0 /\ dest' = NoRow
    /\ status' = IF op \in {"query", "next"} \/ dest # NoRow THEN "error" ELSE status

Write ==
    /\ pc = "write" /\ ~bad
    /\ \/ op \in {"query", "next"} /\ AnswerRows
       \/ op = "lob" /\ ~lobs[cur].started /\ AnswerLob
       \/ op \in {"drain", "cancel"} /\ AnswerEnd
       \/ op = "lob" /\ lobs[cur].started /\ AnswerEnd
       \/ AnswerError
    /\ pc' = IF tls THEN "frame" ELSE "header"
    /\ UNCHANGED <<heap, store, pending, filling, setup, op, msgLen, bad, rowVars, lobVars>>

WriteFails ==
    /\ pc = "write" /\ bad
    /\ Failed
    /\ UNCHANGED <<bufferVars, setup, msgLen, bad, reader, slob, given, lobs, got, gets, server>>

Wanted == IF pc = "body" THEN msgLen ELSE 1
Ready == filling = NotFilling /\ pending.len >= Wanted

Fill ==
    /\ pc \in {"frame", "header", "body"} /\ BeginFill(Wanted)
    /\ UNCHANGED <<setup, control, rowVars, lobVars, server>>

Receive ==
    /\ wire # <<>> /\ filling # NotFilling
    /\ ReadSome(IF slow THEN 1 ELSE Min({Len(wire), Len(heap[filling.dest]) - filling.have}))
    /\ UNCHANGED <<setup, control, rowVars, lobVars, server>>

\* A deadline or a broken connection ends the read; fetch's deferred function makes
\* its LOB start over.
ReadError ==
    /\ ReadFails /\ Fault
    /\ bad' = TRUE /\ Failed
    /\ lobs' = IF cur = 0 THEN lobs ELSE [lobs EXCEPT ![cur].started = FALSE]
    /\ UNCHANGED <<setup, msgLen, reader, slob, given, got, gets, sent, message>>

TakeFrame ==
    /\ pc = "frame" /\ Ready
    /\ pending' = Left(1) /\ pc' = "header"
    /\ UNCHANGED <<heap, store, filling, wire, setup, op, msgLen, bad, rowVars, lobVars, server>>

\* peek leaves the header in the buffer.
PeekHeader ==
    /\ pc = "header" /\ Ready
    /\ msgLen' = CellsOf(Taken(1))[1].len /\ pc' = "body"
    /\ UNCHANGED <<bufferVars, setup, op, bad, rowVars, lobVars, server>>

\* The message is in the buffer, and read from it.
Take == pc = "body" /\ Ready /\ pending' = Left(msgLen) /\ UNCHANGED <<store, filling, wire, setup, msgLen, server>>
Parcels == Tail(CellsOf(Taken(msgLen)))
Has(flavor) == \E i \in DOMAIN Parcels : Parcels[i].kind = flavor

\* Mutant: only the first message of a result is copied.
OwnsFirst(o) == o = "query"
\* Who calls readLanMessageRawOwned.
Owns(o) == o \in {"query", "next"}

\* The array the result set reads from.  Only Query looks for an error in it.
TakeRows ==
    /\ Take /\ op \in {"query", "next"}
    /\ IF Owns(op)
       THEN heap' = Append(heap, CellsOf(Taken(msgLen))) /\ reader' = Slice(Len(heap) + 1, 1, msgLen - 1)
       ELSE reader' = Slice(pending.at, pending.from + 1, msgLen - 1) /\ UNCHANGED heap
    /\ IF op = "next" THEN pc' = "scan" /\ UNCHANGED <<op, status>>
       ELSE pc' = "idle" /\ op' = "none" /\ status' = IF Has("Failure") THEN "error" ELSE status
    /\ UNCHANGED <<bad, dest, slob, given, lobVars>>

\* A message of fetch.  An error cancels the request; the last message does so too.
TakeLob ==
    /\ Take /\ op = "lob"
    /\ LET taken == IF Has("Record") THEN TakeRecord(lobs[cur], Parcels[1].body) ELSE Ok(lobs[cur])
           failed == Has("Failure") \/ ~taken.ok
       IN /\ lobs' = [lobs EXCEPT ![cur] = [taken.lob EXCEPT !.started = @ /\ ~failed]]
          /\ op' = IF failed THEN "cancel" ELSE IF Has("EndRequest") THEN "drain" ELSE "lob"
    /\ pc' = "write"
    /\ UNCHANGED <<heap, bad, rowVars, got, cur, gets>>

\* A row is handed to the caller.
Give(row) == given' = Append(given, row) /\ dest' = NoRow

\* GetBytes returns the bytes of LOB l to its caller, or to finalizeRow.
Got(r, l, row) ==
    /\ got' = [got EXCEPT ![r] = [known |-> TRUE, bytes |-> l.data]]
    /\ pc' = "idle" /\ op' = "none" /\ cur' = 0
    /\ IF row = NoRow THEN UNCHANGED <<dest, given>> ELSE Give(row)

\* The answer to the cancel of a complete LOB, whatever it says.
TakeDrain ==
    /\ Take /\ op = "drain"
    /\ lobs' = [lobs EXCEPT ![cur] = CompleteLob(@)]
    /\ Got(cur, lobs[cur], dest)
    /\ UNCHANGED <<heap, bad, reader, slob, status, gets>>

\* The answer to the cancel after a failed fetch, or that of Close.
TakeCancel ==
    /\ Take /\ op = "cancel"
    /\ Failed
    /\ UNCHANGED <<heap, bad, reader, slob, given, lobs, got, gets>>

-----------------------------------------------------------------------------
(* Next, one parcel at a time.                                             *)

BeginNext ==
    /\ pc = "idle" /\ status = "open"
    /\ op' = "next" /\ dest' = NoRow /\ slob' = FALSE
    /\ pc' = IF reader.len = 0 THEN "write" ELSE "scan"
    /\ UNCHANGED <<bufferVars, setup, msgLen, bad, reader, status, given, lobVars, server>>

Current == CellsOf(reader)[1]
Advanced == Slice(reader.at, reader.from + 1, reader.len - 1)
Scans(flavors) ==
    /\ pc = "scan" /\ Current.kind \in flavors /\ reader' = Advanced
    /\ UNCHANGED <<bufferVars, setup, msgLen, bad, gets, server>>

\* Mutant: an array that ends inside a row ends the result set.
ContinueQuietly(d) ==
    IF Advanced.len > 0 THEN dest' = d /\ UNCHANGED <<pc, op, status>>
    ELSE pc' = "idle" /\ op' = "none" /\ status' = "eof" /\ dest' = NoRow
\* After a parcel that does not complete a row: an array that ends here is an error.
Continue(d) ==
    IF Advanced.len > 0 THEN dest' = d /\ UNCHANGED <<pc, op, status>>
    ELSE pc' = "idle" /\ op' = "none" /\ status' = "error" /\ dest' = NoRow

\* finalizeRow: with LOBPrefetch the row waits for the bytes of its LOB.
Finalize(row, l) ==
    \/ /\ ~prefetch /\ Give(row)
       /\ pc' = "idle" /\ op' = "none" /\ UNCHANGED <<status, cur, got>>
    \/ prefetch /\ l.done /\ l.made /\ Got(row.row, l, row) /\ UNCHANGED status
    \/ /\ prefetch /\ ~(l.done /\ l.made) /\ (~l.attached \/ bad)
       /\ pc' = "idle" /\ op' = "none" /\ status' = "error" /\ dest' = NoRow /\ UNCHANGED <<cur, got, given>>
    \/ /\ prefetch /\ ~(l.done /\ l.made) /\ l.attached /\ ~bad
       /\ pc' = "write" /\ op' = "lob" /\ cur' = row.row /\ dest' = row /\ UNCHANGED <<status, got, given>>

\* The values of a row are slices of the array it is read from.
RowHere == [row |-> Current.row, value |-> Slice(reader.at, reader.from, 1)]

NextRecord == Scans({"Record"}) /\ Finalize(RowHere, lobs[Current.row]) /\ UNCHANGED <<slob, lobs>>

NextMultiPart == Scans({"MultiPartRecord"}) /\ Continue(RowHere) /\ UNCHANGED <<slob, given, lobs, got, cur>>

NextMultiPartEnd == Scans({"MultiPartEnd"}) /\ Finalize(dest, lobs[dest.row]) /\ UNCHANGED <<slob, lobs>>

NextStartSlob ==
    /\ Scans({"StartSlobData"}) /\ Continue(dest) /\ slob' = TRUE
    /\ lobs' = [lobs EXCEPT ![Current.row] = StartLob(@).lob]
    /\ UNCHANGED <<given, got, cur>>

NextSlobData ==
    /\ Scans({"SlobData"}) /\ Continue(dest)
    /\ lobs' = IF slob THEN [lobs EXCEPT ![Current.row] = TakeSlobData(@, Current.body)] ELSE lobs
    /\ UNCHANGED <<slob, given, got, cur>>

NextEndSlob ==
    /\ Scans({"EndSlobData"}) /\ Continue(dest) /\ slob' = FALSE
    /\ lobs' = IF slob THEN [lobs EXCEPT ![dest.row] = CompleteLob(@)] ELSE lobs
    /\ UNCHANGED <<given, got, cur>>

NextOther == Scans({"StatementInfo", "EndStatement", "Failure"}) /\ Continue(dest) /\ UNCHANGED <<slob, given, lobs, got, cur>>

NextEOF ==
    /\ Scans({"EndRequest"})
    /\ pc' = "idle" /\ op' = "none" /\ status' = "eof" /\ dest' = NoRow
    /\ UNCHANGED <<slob, given, lobs, got, cur>>

-----------------------------------------------------------------------------
(* The caller's other calls.                                               *)

\* GetBytes of a row's LOB, between two calls of Next or after the last.
GetBytes(r) ==
    /\ pc = "idle" /\ gets < MaxGets /\ gets' = gets + 1
    /\ ~prefetch /\ \E i \in DOMAIN given : given[i].row = r
    /\ LET l == lobs[r]
       IN IF l.done /\ l.made THEN Got(r, l, NoRow)
          ELSE IF l.attached /\ ~bad THEN pc' = "write" /\ op' = "lob" /\ cur' = r /\ UNCHANGED <<dest, given, got>>
          ELSE UNCHANGED <<pc, op, cur, dest, given, got>>
    /\ UNCHANGED <<bufferVars, setup, msgLen, bad, reader, slob, status, lobs, server>>

\* Close looks for EndRequest in the array before it cancels.  database/sql closes a
\* result set whose Next failed.
Close ==
    /\ pc = "idle" /\ status # "closed"
    /\ status' = "closed"
    /\ IF status = "eof" \/ \E i \in 1..reader.len : CellsOf(reader)[i].kind = "EndRequest"
       THEN UNCHANGED <<pc, op>> ELSE pc' = "write" /\ op' = "cancel"
    /\ UNCHANGED <<bufferVars, setup, msgLen, bad, reader, dest, slob, given, lobVars, server>>

\* Nothing is left to do but to read LOBs again.
Finished == pc = "idle" /\ status = "closed" /\ UNCHANGED vars

ClientStep ==
    \/ Write \/ WriteFails \/ Fill \/ TakeFrame \/ PeekHeader \/ TakeRows \/ TakeLob \/ TakeDrain \/ TakeCancel
    \/ NextRecord \/ NextMultiPart \/ NextMultiPartEnd \/ NextStartSlob \/ NextSlobData \/ NextEndSlob
    \/ NextOther \/ NextEOF

Next ==
    \/ ClientStep \/ Receive \/ ReadError
    \/ BeginNext \/ (\E r \in RowIds : GetBytes(r)) \/ Close \/ Finished

\* The goroutine runs and what was sent arrives.
Spec == Init /\ [][Next]_vars /\ WF_vars(ClientStep) /\ WF_vars(Receive)

-----------------------------------------------------------------------------
(* Properties.                                                             *)

\* The values of the variables.
TypeOK ==
    /\ BufferTypeOK
    /\ pc \in {"idle", "write", "frame", "header", "body", "scan"}
    /\ op \in {"none", "query", "next", "lob", "drain", "cancel"} /\ (op = "none") = (pc = "idle")
    /\ status \in {"open", "eof", "error", "closed"} /\ bad \in BOOLEAN /\ slob \in BOOLEAN
    /\ dest.row \in 0..Rows /\ cur \in 0..Rows /\ gets \in 0..MaxGets /\ faults \in 0..MaxFaults
    /\ reader.at \in 1..Len(heap) /\ reader.from + reader.len <= Len(heap[reader.at])
    /\ pc = "scan" => reader.len > 0

\* A message that is taken from the buffer is the message that was sent, however
\* it was cut on its way and whatever the buffer was used for before; and the array
\* kept for later messages is never larger than the limit.
BufferIsExact ==
    /\ pc = "body" /\ Ready => Parcels = message
    /\ KeptIsBounded

\* Row values and locators are slices of the array they were read from: nothing that
\* is read later, rows or LOBs, changes them.
ValuesAreStable ==
    \A i \in DOMAIN given :
        /\ CellsOf(given[i].value)[1].kind \in {"Record", "MultiPartRecord"}
        /\ CellsOf(given[i].value)[1].row = given[i].row

\* The caller gets the rows in order, none twice and none left out, and is told that
\* they are all only when they are, wherever the server cuts the result.
RowsAreComplete ==
    /\ \A i \in DOMAIN given : given[i].row = i
    /\ status = "eof" => Len(given) = Rows

\* The caller sees each row as the server sent it, in order, and keeps it as it is.
RowsAreExact == RowsAreComplete /\ ValuesAreStable

\* What GetBytes returns without an error is the LOB, by locator or from the row, and
\* also after fetches that failed.
LobIsWhole == \A r \in RowIds : got[r].known => got[r].bytes = Bytes(r)

\* Every call returns, if the server answers or the connection fails.
CallsReturn == pc # "idle" ~> pc = "idle"
=============================================================================
