------------------------------- MODULE Session -------------------------------
(***************************************************************************)
(* One database session: the connection, its statements, their result sets *)
(* and LOBs, the goroutines that turn the end of a context into a read     *)
(* deadline, and the exchange of messages with the server.                 *)
(*                                                                         *)
(* database/sql gives a connection to one goroutine at a time, so calls    *)
(* are sequential; the watchers run beside them.  A call is a sequence of  *)
(* socket steps: `send' writes a request, `read' waits for its answer,     *)
(* `cancel' and `drain' are sendCancelAndDrain, `finish' is the end of     *)
(* runCancelable.                                                          *)
(***************************************************************************)
EXTENDS Integers, FiniteSets

CONSTANTS Stmts,       \* prepared statements
          Keep,        \* answers are kept by the server until cancelled (LOB support)
          Encrypted,   \* messages are wrapped
          Interleave,  \* the methods the caller starts while a result set is open
          MaxCalls     \* bound: Exec, Query, LOB and session calls in a behaviour

ASSUME StmtsAssumption == IsFiniteSet(Stmts) /\ Stmts # {}
ASSUME FlagsAssumption == Keep \in BOOLEAN /\ Encrypted \in BOOLEAN
ASSUME InterleaveAssumption == Interleave \subseteq {"exec", "query", "session", "lob"}
ASSUME MaxCallsAssumption == MaxCalls \in Nat

Calls == 1..MaxCalls

VARIABLES
    \* the caller
    pc, op,      \* the step it is at, and in which method
    call,        \* the number of the latest call
    stmt,        \* the statement the method is about
    tgt,         \* the result set the method is about
    res,         \* the error the method has so far, and then returns
    \* contexts and their watchers, by call
    ctx,         \* "unused", "background", "live" or "done"
    watch,       \* runCancelable's watcher: "none", "on", "stopped" or "gone"
    rwatch,      \* the result set's watcher
    \* the connection
    bad, closed, requestNo,
    deadline,    \* the read deadline: "none", "drain" (in ten seconds) or "past"
    expired,     \* the drain's ten seconds have passed
    \* statements, result sets, the LOB being read
    openKeep, reqNo,
    rows,
    lobReq, lobStarted,
    \* the network and the server
    link,
    ask,         \* the request on its way to the server
    ans,         \* the answer on its way back
    openReqs,    \* requests the server keeps open
    loggedOff

control == <<pc, op, call, stmt, tgt, res>>
watchers == <<ctx, watch, rwatch>>
conn == <<bad, closed, requestNo, deadline, expired>>
objects == <<openKeep, reqNo, rows, lobReq, lobStarted>>
net == <<link, ask, ans, openReqs, loggedOff>>
vars == <<control, watchers, conn, objects, net>>

Nothing == [kind |-> "none", req |-> 0]
Msg(k, n) == [kind |-> k, req |-> n]
NoRows(s) == [state |-> "none", stmt |-> s, buf |-> "empty", src |-> 0, own |-> 0]

-----------------------------------------------------------------------------
(* Helpers.                                                                *)

Usable == ~closed /\ ~bad

\* Mutant: an error of the socket leaves the connection usable.
MarkUnusableNever == UNCHANGED bad
MarkUnusable == bad' = TRUE

\* Mutant: the deadline of a cancel is not taken back.
ClearDeadlineNever == UNCHANGED deadline
\* sendCancelAndDrain's deferred SetReadDeadline.
ClearDeadline == deadline' = "none"

\* The caller may start a request.  database/sql keeps the connection to a result
\* set until it is closed, except in a transaction; a LOB is read at any time.
MayStart(o) ==
    /\ pc = "idle" /\ ~closed
    /\ o \in Interleave \/ \A j \in Calls : rows[j].state # "open"

\* Mutant: a LOB cancels the statement's request instead of its own.
CancelReqOfStatement == IF op = "rclose" THEN reqNo[rows[tgt].stmt] ELSE reqNo[stmt]
\* The request a Cancel names: sendCancelAndDrain of the statement, or the LOB's.
CancelReq == CASE op = "lob" -> lobReq
               [] op = "rclose" -> reqNo[rows[tgt].stmt]
               [] OTHER -> reqNo[stmt]

\* Methods that run inside runCancelable.
Cancelable == op \in {"exec", "query", "lob"}

\* Back to the caller.
Return == pc' = "idle" /\ op' = "none" /\ tgt' = 0

\* The method is over with error e; runCancelable still has to finish.
Leave(e) ==
    /\ res' = e
    /\ IF Cancelable THEN pc' = "finish" /\ UNCHANGED <<op, tgt>> ELSE Return

\* Mutant: no goroutine watches the context.
WatcherNone(c) == "none"
WatcherFor(c) == IF c = "live" THEN "on" ELSE "none"

\* The next call, with a context that never ends or one that may: runCancelable
\* starts a watcher for the second kind.
NewContext(kinds) ==
    /\ call < MaxCalls
    /\ call' = call + 1
    /\ \E c \in kinds :
          /\ ctx' = [ctx EXCEPT ![call + 1] = c]
          /\ watch' = [watch EXCEPT ![call + 1] = WatcherFor(c)]
    /\ UNCHANGED rwatch

-----------------------------------------------------------------------------
Init ==
    /\ pc = "idle" /\ op = "none" /\ call = 0 /\ stmt \in Stmts /\ tgt = 0
    /\ res = "ok"
    /\ ctx = [j \in Calls |-> "unused"]
    /\ watch = [j \in Calls |-> "none"] /\ rwatch = [j \in Calls |-> "none"]
    /\ bad = FALSE /\ closed = FALSE /\ requestNo = 0
    /\ deadline = "none" /\ expired = FALSE
    /\ openKeep = [s \in Stmts |-> FALSE] /\ reqNo = [s \in Stmts |-> 0]
    /\ rows = [j \in Calls |-> NoRows(stmt)]
    /\ lobReq = 0 /\ lobStarted = FALSE
    /\ link = "up" /\ ask = Nothing /\ ans = Nothing /\ openReqs = {} /\ loggedOff = FALSE

-----------------------------------------------------------------------------
(* The methods.                                                            *)

\* ExecContext and QueryContext: execute first cancels the request the
\* statement still has open.
Execute(o, s) ==
    /\ MayStart(o) /\ NewContext({"background", "live"})
    /\ op' = o /\ stmt' = s /\ res' = "ok"
    /\ pc' = IF openKeep[s] THEN "cancel" ELSE "send"
    /\ UNCHANGED <<tgt, conn, objects, net>>

Exec == \E s \in Stmts : Execute("exec", s)
Query == \E s \in Stmts : Execute("query", s)

\* prepare, execSessionSQL and the like: one request, which no context can end.
SessionSQL ==
    /\ MayStart("session") /\ NewContext({"background"})
    /\ op' = "session" /\ res' = "ok"
    /\ pc' = "send"
    /\ UNCHANGED <<stmt, tgt, conn, objects, net>>

\* GetBytesContext on a locator: fetch refuses an unusable connection.
LobFetch ==
    /\ MayStart("lob") /\ Keep /\ Usable /\ NewContext({"background", "live"})
    /\ op' = "lob" /\ res' = "ok" /\ lobStarted' = FALSE
    /\ pc' = "send"
    /\ UNCHANGED <<stmt, tgt, conn, openKeep, reqNo, rows, lobReq, net>>

\* Rows.Next returns a row of its buffer ...
NextRow ==
    /\ pc = "idle" /\ ~closed
    /\ \E j \in Calls :
          /\ rows[j].state = "open" /\ rows[j].buf = "rows"
          /\ rows' = [rows EXCEPT ![j].buf = "empty"]
    /\ res' = "ok"
    /\ UNCHANGED <<pc, op, call, stmt, tgt, watchers, conn, openKeep, reqNo, lobReq, lobStarted, net>>

\* ... or meets EndRequest ...
NextEOF ==
    /\ pc = "idle" /\ ~closed
    /\ \E j \in Calls :
          /\ rows[j].state = "open" /\ rows[j].buf = "end"
          /\ rows' = [rows EXCEPT ![j].state = "done"]
    /\ res' = "ok"
    /\ UNCHANGED <<pc, op, call, stmt, tgt, watchers, conn, openKeep, reqNo, lobReq, lobStarted, net>>

\* ... or runs out of buffer and fetches more.
NextFetch ==
    /\ pc = "idle" /\ ~closed
    /\ \E j \in Calls : rows[j].state = "open" /\ rows[j].buf = "empty" /\ tgt' = j
    /\ op' = "next" /\ res' = "ok"
    /\ pc' = "send"
    /\ UNCHANGED <<call, stmt, watchers, conn, objects, net>>

StopWatcher(w, j) == [w EXCEPT ![j] = IF @ = "on" THEN "stopped" ELSE @]

\* Rows.Close of a result set whose EndRequest was read or is in the buffer:
\* the deadline stays as it is.
RowsCloseDone ==
    /\ pc = "idle" /\ ~closed
    /\ \E j \in Calls :
          /\ rows[j].state = "done" \/ (rows[j].state = "open" /\ rows[j].buf = "end")
          /\ rows' = [rows EXCEPT ![j].state = "closed"]
          /\ rwatch' = StopWatcher(rwatch, j)
    /\ res' = "ok"
    /\ UNCHANGED <<pc, op, call, stmt, tgt, ctx, watch, conn, openKeep, reqNo, lobReq, lobStarted, net>>

\* Rows.Close of an unfinished result set cancels its request.
RowsClose ==
    /\ pc = "idle" /\ ~closed
    /\ \E j \in Calls :
          /\ rows[j].state = "open" /\ rows[j].buf # "end"
          /\ rows' = [rows EXCEPT ![j].state = "closed"]
          /\ rwatch' = StopWatcher(rwatch, j)
          /\ tgt' = j
    /\ op' = "rclose" /\ res' = "ok"
    /\ deadline' = "none"
    /\ pc' = "cancel"
    /\ UNCHANGED <<call, stmt, ctx, watch, bad, closed, requestNo, expired, openKeep, reqNo, lobReq, lobStarted, net>>

\* Stmt.Close cancels the request the statement has open.  Outside a transaction
\* database/sql closes a statement after its result sets.
StmtClose ==
    /\ pc = "idle" /\ ~closed
    /\ \E s \in Stmts :
          /\ openKeep[s] /\ stmt' = s
          /\ Interleave # {} \/ \A j \in Calls : ~(rows[j].state = "open" /\ rows[j].stmt = s)
    /\ op' = "sclose" /\ res' = "ok"
    /\ pc' = "cancel"
    /\ UNCHANGED <<call, tgt, watchers, conn, objects, net>>

\* Conn.Close: closed is set first, so usable() refuses the logoff message.
ConnClose ==
    /\ pc = "idle" /\ ~closed
    /\ closed' = TRUE
    /\ loggedOff' = (~bad /\ ~closed')
    /\ res' = IF bad THEN "ok" ELSE "badconn"
    /\ UNCHANGED <<pc, op, call, stmt, tgt, watchers, bad, requestNo, deadline, expired, objects, link, ask, ans, openReqs>>

-----------------------------------------------------------------------------
(* Socket steps.                                                           *)

\* The message of a request: Next and a LOB already begun continue, with the
\* connection's latest request number; the others start a new request.
Continues == op = "next" \/ (op = "lob" /\ lobStarted)
RequestKind == IF Continues THEN "continue" ELSE IF op \in {"query", "lob"} THEN "select" ELSE "dml"

\* Mutant: every message takes a number of its own.
NextNumberAlways == requestNo + 1
\* The number of the next message.
NextNumber == IF Continues THEN requestNo ELSE requestNo + 1

\* A statement, and a LOB, remember the number of the request they start.
RememberRequest ==
    /\ reqNo' = IF op \in {"exec", "query"} THEN [reqNo EXCEPT ![stmt] = requestNo'] ELSE reqNo
    /\ lobReq' = IF op = "lob" /\ ~Continues THEN requestNo' ELSE lobReq

\* What happens before the message is written: the number is taken from the
\* connection, and a query of a keeping session marks its statement open.
BuildRequest ==
    /\ requestNo' = NextNumber
    /\ openKeep' = IF op \in {"exec", "query"} THEN [openKeep EXCEPT ![stmt] = Keep /\ op = "query"]
                   ELSE openKeep

Send ==
    /\ pc = "send" /\ Usable
    /\ BuildRequest /\ RememberRequest
    /\ ask' = Msg(RequestKind, requestNo')
    /\ pc' = "read"
    /\ UNCHANGED <<op, call, stmt, tgt, res, watchers, bad, closed, deadline, expired, rows, lobStarted, link, ans, openReqs, loggedOff>>

\* writeLanMessage fails: the connection is unusable, or becomes so.  The error
\* of a wrapped message is lost and the method goes on to read.
SendFail ==
    /\ pc = "send" /\ (~Usable \/ link = "down")
    /\ BuildRequest
    /\ MarkUnusable
    /\ IF Usable /\ Encrypted
         THEN pc' = "read" /\ RememberRequest /\ UNCHANGED <<op, tgt, res>>
         ELSE Leave(IF Usable THEN "io" ELSE "badconn") /\ UNCHANGED <<reqNo, lobReq>>
    /\ UNCHANGED <<call, stmt, watchers, closed, deadline, expired, rows, lobStarted, net>>

\* Exec and session SQL take the one message of their answer.
ReadStatus ==
    /\ pc = "read" /\ op \in {"exec", "session"}
    /\ ans # Nothing /\ deadline # "past"
    /\ Leave(IF ans.kind = "error" THEN "td" ELSE "ok")
    /\ ans' = Nothing
    /\ UNCHANGED <<call, stmt, watchers, conn, objects, link, ask, openReqs, loggedOff>>

\* Query gets its first buffer, and a result set unless the answer is an error.
ReadRows ==
    /\ pc = "read" /\ op = "query"
    /\ ans # Nothing /\ deadline # "past"
    /\ Leave(IF ans.kind = "error" THEN "td" ELSE "ok")
    /\ rows' = IF ans.kind = "error" THEN rows
               ELSE [rows EXCEPT ![call] = [state |-> "open", stmt |-> stmt,
                       buf |-> IF ans.kind = "end" THEN "end" ELSE "rows",
                       src |-> ans.req, own |-> reqNo[stmt]]]
    /\ ans' = Nothing
    /\ UNCHANGED <<call, stmt, watchers, conn, openKeep, reqNo, lobReq, lobStarted, link, ask, openReqs, loggedOff>>

\* fetchMore replaces the buffer.  It does not look for an error parcel: Next
\* reads past it and returns ErrInvalidRead.
ReadMore ==
    /\ pc = "read" /\ op = "next"
    /\ ans # Nothing /\ deadline # "past"
    /\ Leave(IF ans.kind = "error" THEN "invalid" ELSE "ok")
    /\ rows' = [rows EXCEPT ![tgt].buf = CASE ans.kind = "error" -> "empty"
                                           [] ans.kind = "end" -> "end"
                                           [] OTHER -> "rows",
                            ![tgt].src = ans.req]
    /\ ans' = Nothing
    /\ UNCHANGED <<call, stmt, watchers, conn, openKeep, reqNo, lobReq, lobStarted, link, ask, openReqs, loggedOff>>

\* A LOB's buffer: the last one, and an error, are followed by a cancel.
ReadLob ==
    /\ pc = "read" /\ op = "lob"
    /\ ans # Nothing /\ deadline # "past"
    /\ pc' = IF ans.kind = "data" THEN "finish" ELSE "cancel"
    /\ res' = CASE ans.kind = "data" -> "more" [] ans.kind = "end" -> "ok" [] OTHER -> "td"
    /\ lobStarted' = (ans.kind # "error")
    /\ ans' = Nothing
    /\ UNCHANGED <<op, call, stmt, tgt, watchers, conn, openKeep, reqNo, rows, lobReq, link, ask, openReqs, loggedOff>>

\* Any read error marks the connection unusable.  A LOB's fetch then tries to
\* cancel its request all the same; fetchMore reports its result set's context.
ReadFail ==
    /\ pc = "read"
    /\ deadline = "past" \/ link = "down"
    /\ MarkUnusable
    /\ LET e == IF deadline # "past" THEN "io"
                ELSE IF op = "next" /\ ctx[tgt] = "done" THEN "ctx" ELSE "timeout"
       IN IF op = "lob" THEN pc' = "cancel" /\ res' = e /\ lobStarted' = FALSE /\ UNCHANGED <<op, tgt>>
                        ELSE Leave(e) /\ UNCHANGED lobStarted
    /\ UNCHANGED <<call, stmt, watchers, closed, requestNo, deadline, expired, openKeep, reqNo, rows, lobReq, net>>

\* sendCancelAndDrain: the Cancel message, then ten seconds for its answer.
SendCancel ==
    /\ pc = "cancel" /\ Usable
    /\ ask' = Msg("cancel", CancelReq)
    /\ deadline' = "drain" /\ expired' = FALSE
    /\ pc' = "drain"
    /\ UNCHANGED <<op, call, stmt, tgt, res, watchers, bad, closed, requestNo, objects, link, ans, openReqs, loggedOff>>

\* The statement a cancel is for is no longer open, whatever became of it.
ReleaseKeep == openKeep' = CASE op = "lob" -> openKeep
                             [] op = "rclose" -> [openKeep EXCEPT ![rows[tgt].stmt] = FALSE]
                             [] OTHER -> [openKeep EXCEPT ![stmt] = FALSE]

\* The error of a LOB's fetch survives its cancel.
CancelFailed(e) == Leave(IF op = "lob" /\ res # "ok" THEN res ELSE e)

SendCancelFail ==
    /\ pc = "cancel" /\ (~Usable \/ link = "down")
    /\ MarkUnusable
    /\ IF Usable /\ Encrypted
         THEN pc' = "drain" /\ deadline' = "drain" /\ expired' = FALSE /\ UNCHANGED <<op, tgt, res, openKeep>>
         ELSE CancelFailed(IF Usable THEN "io" ELSE "badconn") /\ ReleaseKeep /\ UNCHANGED <<deadline, expired>>
    /\ UNCHANGED <<call, stmt, watchers, closed, requestNo, reqNo, rows, lobReq, lobStarted, net>>

\* The cancel is answered: execute goes on, the others are done.  execute and a
\* completed LOB ignore the server's errors.
Drained ==
    /\ pc = "drain" /\ ans # Nothing /\ deadline # "past"
    /\ ans' = Nothing
    /\ ClearDeadline
    /\ ReleaseKeep
    /\ IF op \in {"exec", "query"} THEN pc' = "send" /\ UNCHANGED <<op, tgt, res>>
       ELSE IF op = "lob" THEN Leave(res)
       ELSE Leave(IF ans.kind = "error" THEN "td" ELSE "ok")
    /\ UNCHANGED <<call, stmt, watchers, bad, closed, requestNo, expired, reqNo, rows, lobReq, lobStarted, link, ask, openReqs, loggedOff>>

DrainFail ==
    /\ pc = "drain" /\ (deadline = "past" \/ link = "down")
    /\ MarkUnusable
    /\ ClearDeadline
    /\ ReleaseKeep
    /\ CancelFailed(IF deadline = "past" THEN "timeout" ELSE "io")
    /\ UNCHANGED <<call, stmt, watchers, closed, requestNo, expired, reqNo, rows, lobReq, lobStarted, net>>

\* GetBytesContext fetches on until the LOB is complete.
MoreToFetch == op = "lob" /\ res = "more"

\* The end of runCancelable, and of the call.  A timeout under an ended context
\* is that context's error and leaves the deadline; anything else clears it.
Finish ==
    /\ pc = "finish"
    /\ LET cancelled == ctx[call] = "done" /\ res = "timeout"
       IN /\ deadline' = IF ctx[call] = "background" \/ cancelled THEN deadline ELSE "none"
          /\ IF MoreToFetch THEN pc' = "send" /\ UNCHANGED <<op, tgt>> ELSE Return
          /\ res' = IF MoreToFetch THEN "ok" ELSE IF cancelled THEN "ctx" ELSE res
          /\ watch' = IF MoreToFetch /\ ctx[call] # "background"
                        THEN [watch EXCEPT ![call] = "on"] ELSE StopWatcher(watch, call)
          /\ rwatch' = IF op = "query" /\ res = "ok" /\ ctx[call] # "background"
                         THEN [rwatch EXCEPT ![call] = "on"] ELSE rwatch
    /\ UNCHANGED <<call, stmt, ctx, bad, closed, requestNo, expired, objects, net>>

-----------------------------------------------------------------------------
(* Watchers.  When the context has ended and the watcher was told to stop, *)
(* its select may still take the context's case.                           *)

Fires(w, j) == w[j] \in {"on", "stopped"} /\ ctx[j] = "done"

WatcherFires ==
    /\ \E j \in Calls :
          \/ /\ Fires(watch, j)
             /\ watch' = [watch EXCEPT ![j] = "gone"] /\ UNCHANGED rwatch
          \/ /\ Fires(rwatch, j)
             /\ rwatch' = [rwatch EXCEPT ![j] = "gone"] /\ UNCHANGED watch
    /\ deadline' = "past"
    /\ UNCHANGED <<control, ctx, bad, closed, requestNo, expired, objects, net>>

WatcherExits ==
    /\ \E j \in Calls :
          \/ watch[j] = "stopped" /\ watch' = [watch EXCEPT ![j] = "gone"] /\ UNCHANGED rwatch
          \/ rwatch[j] = "stopped" /\ rwatch' = [rwatch EXCEPT ![j] = "gone"] /\ UNCHANGED watch
    /\ UNCHANGED <<control, ctx, conn, objects, net>>

-----------------------------------------------------------------------------
(* The context's owner, the clock, the network and the server.             *)

Cancel ==
    /\ \E j \in Calls : ctx[j] = "live" /\ ctx' = [ctx EXCEPT ![j] = "done"]
    /\ UNCHANGED <<control, watch, rwatch, conn, objects, net>>

DrainExpires ==
    /\ deadline = "drain"
    /\ deadline' = "past" /\ expired' = TRUE
    /\ UNCHANGED <<control, watchers, bad, closed, requestNo, objects, net>>

LinkDown ==
    /\ link = "up" /\ ~closed
    /\ link' = "down"
    /\ UNCHANGED <<control, watchers, conn, objects, ask, ans, openReqs, loggedOff>>

\* The server's answers.  A request that returns rows stays open until its last
\* buffer or, with Keep, until it is cancelled.
ServerAnswers ==
    /\ ask # Nothing /\ link = "up"
    /\ ask' = Nothing
    /\ \E k \in {"data", "end", "error"} :
          /\ ask.kind \in {"dml", "cancel"} => k # "data"
          /\ ask.kind = "continue" /\ ask.req \notin openReqs => k = "error"
          /\ ans' = Msg(k, ask.req)
          /\ openReqs' = IF \/ ask.kind = "dml"
                            \/ ask.kind = "continue" /\ ask.req \notin openReqs THEN openReqs
                         ELSE IF ask.kind # "cancel" /\ (k = "data" \/ (k = "end" /\ Keep))
                           THEN openReqs \cup {ask.req} ELSE openReqs \ {ask.req}
    /\ UNCHANGED <<control, watchers, conn, objects, link, loggedOff>>

-----------------------------------------------------------------------------
ClientStep == \/ Send \/ SendFail \/ ReadStatus \/ ReadRows \/ ReadMore \/ ReadLob \/ ReadFail
              \/ SendCancel \/ SendCancelFail \/ Drained \/ DrainFail \/ Finish
NewMethod == \/ Exec \/ Query \/ SessionSQL \/ LobFetch \/ NextRow \/ NextEOF \/ NextFetch
             \/ RowsCloseDone \/ RowsClose \/ StmtClose \/ ConnClose
WatcherStep == WatcherFires \/ WatcherExits
Environment == Cancel \/ DrainExpires \/ LinkDown \/ ServerAnswers
\* A closed connection takes no more calls.
Finished == closed /\ UNCHANGED vars

Next == ClientStep \/ NewMethod \/ WatcherStep \/ Environment \/ Finished

\* The goroutines run and time passes; the server may never answer.
Fairness == WF_vars(ClientStep) /\ WF_vars(WatcherStep) /\ WF_vars(DrainExpires)

Spec == Init /\ [][Next]_vars /\ Fairness

-----------------------------------------------------------------------------
(* What a session guarantees.                                              *)

\* The values of the variables.
TypeOK ==
    /\ pc \in {"idle", "send", "read", "cancel", "drain", "finish"}
    /\ op \in {"none", "exec", "query", "session", "lob", "next", "rclose", "sclose"}
    /\ call \in 0..MaxCalls /\ stmt \in Stmts /\ tgt \in 0..MaxCalls
    /\ res \in {"ok", "td", "io", "timeout", "badconn", "ctx", "invalid"} \cup
              (IF pc = "finish" THEN {"more"} ELSE {})
    /\ ctx \in [Calls -> {"unused", "background", "live", "done"}]
    /\ watch \in [Calls -> {"none", "on", "stopped", "gone"}]
    /\ rwatch \in [Calls -> {"none", "on", "stopped", "gone"}]
    /\ bad \in BOOLEAN /\ closed \in BOOLEAN /\ requestNo \in Nat
    /\ deadline \in {"none", "drain", "past"} /\ expired \in BOOLEAN
    /\ openKeep \in [Stmts -> BOOLEAN] /\ reqNo \in [Stmts -> Nat]
    /\ rows \in [Calls -> [state : {"none", "open", "done", "closed"}, stmt : Stmts,
                           buf : {"rows", "end", "empty"}, src : Nat, own : Nat]]
    /\ lobReq \in Nat /\ lobStarted \in BOOLEAN
    /\ link \in {"up", "down"} /\ loggedOff \in BOOLEAN
    /\ ask \in [kind : {"none", "dml", "select", "continue", "cancel"}, req : Nat]
    /\ ans \in [kind : {"none", "data", "end", "error"}, req : Nat]
    /\ openReqs \subseteq 1..requestNo

\* Between methods a usable connection has nothing on the wire: no later
\* request can read what an earlier one left, however that one ended.
NoLeftovers == pc = "idle" /\ Usable => ask = Nothing /\ ans = Nothing

\* A result set only ever holds rows of its own request: fetchMore continues
\* the request whose rows it reads.
RowsAreTheirOwn == \A j \in Calls : rows[j].state = "open" => rows[j].src = rows[j].own

\* When every result set and statement is closed, the server of a usable
\* connection keeps no request open.
ServerKeepsNothing ==
    /\ pc = "idle" /\ Usable
    /\ \A j \in Calls : rows[j].state # "open"
    /\ \A s \in Stmts : ~openKeep[s]
    => openReqs = {}

\* The ten seconds given to a cancel never time an ordinary read, which only
\* the end of some context can cut short.
ReadsAreNotTimed ==
    pc = "read" => /\ deadline # "drain"
                   /\ deadline = "past" => \E j \in Calls : ctx[j] = "done"

\* Exec and Query return once their context has ended, even if the server
\* never answers.
CancelledCallReturns ==
    (pc # "idle" /\ op \in {"exec", "query"} /\ ctx[call] = "done") ~> (pc = "idle")
=============================================================================
