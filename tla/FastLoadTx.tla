----------------------------- MODULE FastLoadTx ------------------------------
(***************************************************************************)
(* A FastLoad connection and its transaction: BeginFastLoad, AddRow,       *)
(* Flush, End, Abort and the two Close methods, against a server that      *)
(* keeps the table locked from BEGIN LOADING to a committed END LOADING,   *)
(* whatever becomes of the client.                                         *)
(*                                                                         *)
(* A method is the sequence of statements it still has to do, `todo', and  *)
(* one step does the first of them: the client refuses it, the server      *)
(* executes or refuses it, or the control session breaks before or after   *)
(* it was executed.  The data channels promise what FastLoadQueue says.    *)
(***************************************************************************)
EXTENDS Integers, Sequences

CONSTANTS MaxLoads,   \* bound: loads begun in a behaviour
          MaxRows     \* bound: rows accepted by one load

ASSUME BoundsAssumption == MaxLoads \in Nat /\ MaxRows \in Nat

ErrorTables == {"err1", "err2"}

VARIABLES
    \* the caller
    op,         \* the method under way: "none", "begin", "flush", "end" or "abort"
    todo,       \* the statements it still has to do
    err,        \* an error it collected
    loading,    \* BeginFastLoad's flag: its BEGIN LOADING succeeded
    aborting,   \* the method is, or has called, Abort
    live,       \* its context has not ended
    ret,        \* the last method, how it returned and whether it rolled the load back
    report,     \* the rejected rows that End's result tells of, by error table
    \* the connection and the transaction
    tx,         \* "none", "open" or "done"
    load,       \* the number of the load
    accepted,   \* the number of rows it accepted
    opened, control,   \* the sessions are open; the control session is "none", "up" or "bad"
    inTx,       \* its transactionInProgress
    channels,   \* the data channels are open
    \* the server
    locked,     \* the table is being loaded
    errTabs,    \* the error tables that exist
    rejected,   \* the rows in them
    staged,     \* rows the data sessions delivered
    table,      \* rows of the table
    srvTx,      \* the control session has a transaction
    ending      \* END LOADING was done in it

caller == <<op, todo, err, loading, aborting, live, ret, report>>
sessions == <<opened, control, inTx, channels>>
handle == <<tx, load, accepted>>
server == <<locked, errTabs, rejected, staged, table, srvTx, ending>>
vars == <<caller, sessions, handle, server>>

RowsOf(n, k) == {<<n, i>> : i \in 1..k}

-----------------------------------------------------------------------------
(* The methods as sequences of statements.                                 *)

DropErrorTables == <<"DROP_err1", "DROP_err2">>

\* Mutant: the rows END LOADING brought into the table stay there.
ReleaseLoadKeepsRows == <<"ET", "BEGIN_LOADING", "BT", "END_LOADING", "ET">>
\* releaseLoad restarts the load, ends it and empties the table.
ReleaseLoad == <<"ET", "BEGIN_LOADING", "BT", "END_LOADING", "ET", "DELETE">>

\* Mutant: the error tables of an earlier load are not dropped.
BeginProgramKeepsErrors == <<"PREPARE", "CHANNELS", "PROBE", "CLEARED", "DATEFORM", "START", "BT", "USING">>
\* BeginFastLoad: the column types and the workload check, the data channels,
\* clearStaleLoad (the probe adds releaseLoad if it finds the table locked), and
\* the load itself: "START" is its BEGIN LOADING.
BeginProgram == <<"PREPARE", "CHANNELS", "PROBE">> \o DropErrorTables
                \o <<"CLEARED", "DATEFORM", "START", "BT", "USING">>

\* Mutant: the error tables are dropped before the second one was read.
EndProgramDropsFirst == <<"FLUSH", "CHECKPOINT", "ET", "BT", "END_LOADING", "ET", "READ_err1">>
                        \o DropErrorTables \o <<"READ_err2">>
\* End: endLoading, then the error tables.
EndProgram == <<"FLUSH", "CHECKPOINT", "ET", "BT", "END_LOADING", "ET", "READ_err1", "READ_err2">>
              \o DropErrorTables

\* What Abort does once it has closed the data channels and the sessions.
AbortProgram == <<"OPEN", "CHANNELS">> \o ReleaseLoad \o DropErrorTables

ControlStatements == {"PREPARE", "PROBE", "DATEFORM", "BEGIN_LOADING", "START", "USING", "CHECKPOINT", "END_LOADING",
                      "BT", "ET", "DELETE", "DROP_err1", "DROP_err2", "READ_err1", "READ_err2"}

\* controlExec, clearStaleLoad and the END LOADING of endLoading look at the
\* context before they send anything.
LooksAtContext(s) == s \notin {"PREPARE", "BT", "ET", "READ_err1", "READ_err2"}

\* Mutant: releaseLoad goes on when the load could not be restarted or ended.
CollectedToo(s) == s \in {"DROP_err1", "DROP_err2", "READ_err1", "READ_err2", "BEGIN_LOADING", "END_LOADING"}
\* Errors collected while the method goes on.
Collected(s) == s \in {"DROP_err1", "DROP_err2", "READ_err1", "READ_err2"}

-----------------------------------------------------------------------------
Nothing == [op |-> "none", ok |-> TRUE, rolledBack |-> FALSE]

NoRows == [t \in ErrorTables |-> {}]

Init ==
    /\ op = "none" /\ todo = <<>> /\ err = FALSE /\ loading = FALSE /\ aborting = FALSE
    /\ live = TRUE /\ ret = Nothing /\ report = NoRows
    /\ opened = FALSE /\ control = "none" /\ inTx = FALSE /\ channels = FALSE
    /\ tx = "none" /\ load = 0 /\ accepted = 0
    /\ locked = FALSE /\ errTabs = {} /\ rejected = NoRows /\ staged = {} /\ table = {}
    /\ srvTx = FALSE /\ ending = FALSE

\* The statement to do next.
Now == IF todo = <<>> THEN "none" ELSE Head(todo)

\* The method o starts on the statements p.
Start(o, p) ==
    /\ op = "none"
    /\ op' = o /\ todo' = p
    /\ err' = FALSE /\ loading' = FALSE /\ aborting' = FALSE /\ live' \in BOOLEAN
    /\ ret' = Nothing /\ report' = NoRows

Return(o, ok, rolledBack) ==
    /\ op' = "none" /\ todo' = <<>> /\ err' = FALSE /\ loading' = FALSE /\ aborting' = FALSE /\ live' = TRUE
    /\ ret' = [op |-> o, ok |-> ok, rolledBack |-> rolledBack]
    /\ UNCHANGED report

\* The server loses the control session and rolls its transaction back.
SessionLost == srvTx' = FALSE /\ ending' = FALSE

CloseSessions == opened' = FALSE /\ control' = "none" /\ inTx' = FALSE /\ SessionLost

\* Mutant: a transaction stays usable after its abort.
FinishStaysOpen == channels' = FALSE /\ UNCHANGED tx
\* finish: the data channels are closed and the transaction cannot be used
\* again.  A failed BeginFastLoad hands none out.
Finish == channels' = FALSE /\ tx' = IF op = "begin" THEN "none" ELSE "done"

-----------------------------------------------------------------------------
(* The caller.                                                             *)

\* A first load opens the sessions.
BeginFastLoad ==
    /\ tx # "open" /\ load < MaxLoads
    /\ Start("begin", (IF opened THEN <<>> ELSE <<"OPEN">>) \o BeginProgram)
    /\ tx' = "none" /\ load' = load + 1 /\ accepted' = 0
    /\ UNCHANGED <<sessions, server>>

\* The row is queued; some of the queued rows may reach the server already.
AddRow ==
    /\ op = "none" /\ tx = "open" /\ accepted < MaxRows
    /\ accepted' = accepted + 1
    /\ \E rs \in SUBSET RowsOf(load, accepted') : staged' = staged \cup rs
    /\ ret' = Nothing
    /\ UNCHANGED <<op, todo, err, loading, aborting, live, report, sessions, tx, load, locked, errTabs, rejected,
                   table, srvTx, ending>>

Flush == tx = "open" /\ Start("flush", <<"FLUSH">>) /\ UNCHANGED <<sessions, handle, server>>

End == tx = "open" /\ Start("end", EndProgram) /\ UNCHANGED <<sessions, handle, server>>

\* Abort starts by closing the data channels and both sessions.
BeginAbort ==
    /\ todo' = AbortProgram /\ aborting' = TRUE /\ err' = FALSE
    /\ channels' = FALSE /\ CloseSessions
    /\ UNCHANGED <<report, handle, locked, errTabs, rejected, staged, table>>

\* Abort, or Close of a transaction that is not done.
Abort ==
    /\ op = "none" /\ tx = "open"
    /\ op' = "abort" /\ loading' = FALSE /\ live' \in BOOLEAN /\ ret' = Nothing
    /\ BeginAbort

\* Close of a transaction that is done returns at once.
CloseDone ==
    /\ op = "none" /\ tx = "done"
    /\ Return("close", TRUE, FALSE)
    /\ UNCHANGED <<sessions, handle, server>>

\* Close of the connection, its transaction closed.
CloseConnection ==
    /\ op = "none" /\ tx # "open"
    /\ Return("closeConnection", TRUE, FALSE)
    /\ CloseSessions
    /\ UNCHANGED <<channels, handle, locked, errTabs, rejected, staged, table>>

-----------------------------------------------------------------------------
(* Steps of a method.                                                      *)

Advance == todo' = Tail(todo) /\ UNCHANGED err

\* The statement failed: its error is collected or ends the method.
Fail(s) == IF Collected(s) THEN todo' = Tail(todo) /\ err' = TRUE
                           ELSE todo' = <<"FAIL">> /\ UNCHANGED err

Step(s) == Now = s /\ UNCHANGED <<op, aborting, live, ret, handle>>

\* The control and the diagnostic session.
Open ==
    /\ Step("OPEN")
    /\ \/ live /\ Advance /\ opened' = TRUE /\ control' = "up" /\ inTx' = FALSE
       \/ Fail("OPEN") /\ UNCHANGED <<opened, control, inTx>>
    /\ UNCHANGED <<loading, report, channels, server>>

OpenDataChannels ==
    /\ Step("CHANNELS")
    /\ \/ live /\ Advance /\ channels' = TRUE
       \/ Fail("CHANNELS") /\ UNCHANGED channels
    /\ UNCHANGED <<loading, report, opened, control, inTx, server>>

\* All rows are delivered, or the flush fails and only some are.
FlushChannels ==
    /\ Step("FLUSH")
    /\ \/ Advance /\ staged' = staged \cup RowsOf(load, accepted)
       \/ Fail("FLUSH") /\ \E rs \in SUBSET RowsOf(load, accepted) : staged' = staged \cup rs
    /\ UNCHANGED <<loading, report, sessions, locked, errTabs, rejected, table, srvTx, ending>>

\* clearStaleLoad returns the errors dropErrorTables collected.
Cleared ==
    /\ Step("CLEARED")
    /\ IF err THEN Fail("CLEARED") ELSE Advance
    /\ UNCHANGED <<loading, report, sessions, server>>

\* fastLoadBegin and fastLoadCommit do nothing when the client sees the session
\* in, or out of, a transaction.
Skipped(s) == (s = "BT" /\ inTx) \/ (s = "ET" /\ ~inTx)

Skip ==
    /\ Skipped(Now) /\ Step(Now) /\ Advance
    /\ UNCHANGED <<loading, report, sessions, server>>

\* The context has ended, or the session is unusable.
RefuseByClient ==
    /\ Now \in ControlStatements /\ ~Skipped(Now) /\ Step(Now)
    /\ (LooksAtContext(Now) /\ ~live) \/ control = "bad"
    /\ Fail(Now)
    /\ UNCHANGED <<loading, report, sessions, server>>

Sent(s) ==
    /\ s \in ControlStatements /\ ~Skipped(s) /\ Step(s)
    /\ control = "up" /\ (LooksAtContext(s) => live)

\* The server has to refuse these: a locked table is not read, emptied or
\* dropped, and a load starts on an empty table and without error tables or
\* restarts one that was left.
Executable(s) ==
    CASE s \in {"PROBE", "DELETE", "DROP_err1", "DROP_err2"} -> ~locked
      [] s \in {"BEGIN_LOADING", "START"} -> locked \/ (table = {} /\ errTabs = {})
      [] s = "END_LOADING" -> locked
      [] OTHER -> TRUE

\* The statement makes the end of the load permanent.
Ends(s) == (s = "ET" /\ ending) \/ (s = "END_LOADING" /\ ~srvTx)

\* BEGIN LOADING creates the error tables, empty.  At the end of the load each
\* row comes into the table or, if it breaks a rule of the column or of the
\* index, into one of them.
Perform(s) ==
    /\ locked' = (s \in {"BEGIN_LOADING", "START"} \/ (locked /\ ~Ends(s)))
    /\ errTabs' = CASE s \in {"BEGIN_LOADING", "START"} -> ErrorTables
                    [] s = "DROP_err1" -> errTabs \ {"err1"}
                    [] s = "DROP_err2" -> errTabs \ {"err2"}
                    [] OTHER -> errTabs
    /\ IF Ends(s)
         THEN \E good, bad \in SUBSET staged :
                /\ good \cap bad = {}
                /\ table' = table \cup good
                /\ rejected' = [t \in ErrorTables |-> IF t = "err1" THEN bad ELSE (staged \ good) \ bad]
                /\ staged' = {}
         ELSE /\ table' = IF s = "DELETE" THEN {} ELSE table
              /\ rejected' = [t \in ErrorTables |-> IF t \in errTabs' THEN rejected[t] ELSE {}]
              /\ UNCHANGED staged

\* readFastLoadErrorTable1 and countFastLoadErrorTable; a table that does not
\* exist has no rows (error 3807).
Reads(s) ==
    report' = IF s = "READ_err1" THEN [report EXCEPT !["err1"] = rejected["err1"]]
              ELSE IF s = "READ_err2" THEN [report EXCEPT !["err2"] = rejected["err2"]]
              ELSE report

Executed ==
    /\ Sent(Now) /\ Executable(Now) /\ Perform(Now) /\ Reads(Now) /\ Advance
    /\ srvTx' = (Now = "BT" \/ (srvTx /\ Now # "ET"))
    /\ ending' = IF Now = "END_LOADING" THEN srvTx ELSE ending /\ Now # "ET"
    /\ inTx' = srvTx'
    /\ loading' = (loading \/ Now = "START")
    /\ UNCHANGED <<opened, control, channels>>

\* The probe's error 2652 makes clearStaleLoad release the load.
StatementsAfterLock == ReleaseLoad \o Tail(todo)

\* An error of the server rolls the transaction back.
RefusedByServer ==
    /\ Sent(Now)
    /\ IF Now = "PROBE" /\ locked THEN todo' = StatementsAfterLock /\ UNCHANGED err ELSE Fail(Now)
    /\ inTx' = FALSE /\ SessionLost
    /\ UNCHANGED <<loading, report, opened, control, channels, locked, errTabs, rejected, staged, table>>

\* The control session breaks before the statement was executed, or after.
Broken ==
    /\ Sent(Now) /\ Fail(Now)
    /\ control' = "bad" /\ SessionLost
    /\ \/ UNCHANGED <<locked, errTabs, rejected, staged, table>>
       \/ Executable(Now) /\ Perform(Now)
    /\ UNCHANGED <<loading, report, opened, inTx, channels>>

\* Mutant: the data channels of a load that did not begin stay open.
CloseChannelsNever == UNCHANGED channels
\* A flush that fails leaves the channels to the transaction.
CloseChannels == channels' = (channels /\ op = "flush")

\* BeginFastLoad aborts the load it began, and End the load it could not end,
\* under a context that has not ended; finish follows an Abort that failed.
Failed ==
    /\ Now = "FAIL"
    /\ IF aborting
         THEN /\ Finish /\ Return(op, FALSE, FALSE)
              /\ UNCHANGED <<opened, control, inTx, load, accepted, server>>
       ELSE IF op = "end" \/ loading
         THEN BeginAbort /\ live' = TRUE /\ UNCHANGED <<op, loading, ret>>
       ELSE /\ CloseChannels /\ Return(op, FALSE, FALSE)
            /\ UNCHANGED <<opened, control, inTx, handle, server>>

\* All statements are done.
Complete ==
    /\ op # "none" /\ todo = <<>>
    /\ IF aborting THEN Finish /\ Return(op, op = "abort" /\ ~err, ~err)
       ELSE IF op = "end" THEN Finish /\ Return(op, ~err, FALSE)
       ELSE /\ Return(op, TRUE, FALSE)
            /\ tx' = "open" /\ UNCHANGED channels
    /\ UNCHANGED <<opened, control, inTx, load, accepted, server>>

-----------------------------------------------------------------------------
(* The environment.                                                        *)

ContextEnds ==
    /\ op # "none" /\ live
    /\ live' = FALSE
    /\ UNCHANGED <<op, todo, err, loading, aborting, ret, report, sessions, handle, server>>

\* The client's process dies and another one takes its place.
Crash ==
    /\ op' = "none" /\ todo' = <<>> /\ err' = FALSE /\ loading' = FALSE /\ aborting' = FALSE
    /\ live' = TRUE /\ ret' = Nothing /\ report' = NoRows
    /\ opened' = FALSE /\ control' = "none" /\ inTx' = FALSE /\ channels' = FALSE
    /\ tx' = "none" /\ accepted' = 0
    /\ SessionLost
    /\ UNCHANGED <<load, locked, errTabs, rejected, staged, table>>

Next ==
    \/ BeginFastLoad \/ AddRow \/ Flush \/ End \/ Abort \/ CloseDone \/ CloseConnection
    \/ Open \/ OpenDataChannels \/ FlushChannels \/ Cleared \/ Skip
    \/ RefuseByClient \/ Executed \/ RefusedByServer \/ Broken \/ Failed \/ Complete
    \/ ContextEnds \/ Crash

Spec == Init /\ [][Next]_vars

-----------------------------------------------------------------------------
(* What a load guarantees.                                                 *)

\* The values of the variables; the transaction flag belongs to a session.
TypeOK ==
    /\ op \in {"none", "begin", "flush", "end", "abort"}
    /\ todo \in Seq(ControlStatements \cup {"OPEN", "CHANNELS", "FLUSH", "CLEARED", "FAIL"})
    /\ op = "none" => todo = <<>>
    /\ {err, loading, aborting, live, opened, inTx, channels, locked, srvTx, ending} \subseteq BOOLEAN
    /\ tx \in {"none", "open", "done"} /\ control \in {"none", "up", "bad"}
    /\ inTx => control # "none"
    /\ load \in 0..MaxLoads /\ accepted \in 0..MaxRows
    /\ errTabs \subseteq ErrorTables
    /\ staged \cup table \subseteq (1..MaxLoads) \X (1..MaxRows)
    /\ {rejected, report} \subseteq [ErrorTables -> SUBSET ((1..MaxLoads) \X (1..MaxRows))]
    /\ ret \in [op : {"none", "begin", "flush", "end", "abort", "close", "closeConnection"},
                ok : BOOLEAN, rolledBack : BOOLEAN]

\* However an earlier load ended, by a crash of the client too, BeginFastLoad
\* sends BEGIN LOADING to a table nobody loads, without error tables, and
\* outside a transaction.
LoadStartsClean == Now = "START" => ~locked /\ errTabs = {} /\ ~srvTx

\* A transaction in the caller's hands has the load: its table is locked, its
\* channels and sessions are open, its control session works and no row of another load will be loaded
\* with its own.
OpenTxHoldsTheLoad ==
    tx = "open" /\ op = "none" => /\ locked /\ channels /\ opened /\ control = "up"
                                  /\ staged \subseteq RowsOf(load, accepted)

\* Each of the rows is in one of the three sets.
SplitOver(rows, good, bad, double) ==
    /\ good \cup bad \cup double = rows
    /\ good \cap bad = {} /\ good \cap double = {} /\ bad \cap double = {}

\* When End returns without an error each row of the load is in the table or
\* reported as rejected, in Errors or in UniqueViolations, but not both, the
\* table has no other rows, and nothing is left to commit or to drop.
EndedLoadIsExact ==
    ret.op = "end" /\ ret.ok => /\ SplitOver(RowsOf(load, accepted), table, report["err1"], report["err2"])
                                /\ ~locked /\ ~srvTx /\ errTabs = {}

\* An Abort without an error, called by the caller, by End or by BeginFastLoad,
\* leaves no trace of the load.
AbortRollsBack == ret.rolledBack => ~locked /\ table = {} /\ staged = {} /\ errTabs = {}

\* No data session outlives its transaction, whichever way that ended.
NoChannelLeaks == tx # "open" /\ op = "none" => ~channels

-----------------------------------------------------------------------------
(* What becomes of the table (FastLoadTable).                              *)

\* The statements ahead of the method.
Ahead == {todo[i] : i \in 1..Len(todo)}

\* A load is the caller's until Abort begins or End has committed it.
InHands == tx = "open" /\ ~aborting /\ (op = "end" => "ET" \in Ahead)

\* releaseLoad has restarted the load and will empty the table.
Clearing == "DELETE" \in Ahead /\ "BEGIN_LOADING" \notin Ahead

Table == INSTANCE FastLoadTable WITH
            Rows <- (1..MaxLoads) \X (1..MaxRows),
            held <- InHands,
            rows <- IF InHands THEN RowsOf(load, accepted) ELSE staged,
            clearing <- Clearing

\* The rows of a load that the server does not reject come into the table all at
\* once, and the driver never takes a committed load's rows away again; only what
\* a load that was given up left behind comes into the table later, on its way
\* out.
ImplementsTable == Table!TSpec
=============================================================================
