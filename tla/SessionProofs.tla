---------------------------- MODULE SessionProofs -----------------------------
(***************************************************************************)
(* Proofs about Session for any number of statements and calls, with and   *)
(* without LOB support and encryption.                                     *)
(***************************************************************************)
EXTENDS Session, TLAPS

-----------------------------------------------------------------------------
(* The inductive invariant.                                                *)

\* Which method can be at which step, and what it is about.
Control ==
    /\ pc = "idle" <=> op = "none"
    /\ pc \in {"send", "read"} => op \in {"exec", "query", "session", "lob", "next"}
    /\ pc \in {"cancel", "drain"} => op \in {"exec", "query", "lob", "rclose", "sclose"}
    /\ pc = "finish" => op \in {"exec", "query", "lob"}
    /\ op \in {"exec", "query", "session", "lob"} => call # 0
    /\ op \in {"next", "rclose"} => tgt # 0
    /\ res = "more" => op = "lob" /\ lobStarted

\* One message is under way at most; a usable connection has none between the
\* sending of a request and the reading of its answer.
Wire ==
    /\ ans # Nothing => ask = Nothing
    /\ Usable /\ pc \notin {"read", "drain"} => ask = Nothing /\ ans = Nothing
    /\ ask.kind = "select" => ask.req \in 1..requestNo
    /\ ask.kind = "none" => ask = Nothing

\* Only a drain is timed; otherwise a context that has ended set the deadline.
Deadlines ==
    /\ deadline = "drain" => pc = "drain"
    /\ deadline = "past" /\ pc # "drain" => \E j \in Calls : ctx[j] = "done"
    /\ \A j \in Calls : j > call => ctx[j] = "unused"

IInv == TypeOK /\ Control /\ Wire /\ Deadlines

\* Between the sending of a request and the reading of its answer.
Awaiting ==
    /\ pc = "read" /\ ask # Nothing =>
          /\ ask.req = requestNo
          /\ ask.kind = "select" => op \in {"query", "lob"} /\ (op = "lob" => lobReq = requestNo)
          /\ ask.kind = "dml" => op \in {"exec", "session"}
          /\ ask.kind # "cancel"
    /\ pc = "read" /\ ans # Nothing => ans.req = requestNo
    /\ pc = "read" /\ op = "query" => reqNo[stmt] = requestNo /\ (Keep => openKeep[stmt])
    /\ pc = "send" /\ op \in {"exec", "query"} => ~openKeep[stmt]
    /\ op = "lob" => Keep

\* Without interleaving a result set that is open has the latest request.
ResultSets ==
    /\ \A j \in Calls : rows[j].state = "open" =>
          rows[j].own = requestNo /\ rows[j].src = requestNo /\ reqNo[rows[j].stmt] = requestNo
    /\ op \in {"exec", "session", "lob"} \/ (op = "query" /\ pc # "finish") =>
          \A j \in Calls : rows[j].state # "open"
    /\ op = "next" => rows[tgt].state = "open"

\* Who will still end a request that the server keeps open.
KeptByStmt(r) == \E s \in Stmts : openKeep[s] /\ reqNo[s] = r
ReadByRows(r) == ~Keep /\ \E j \in Calls : rows[j].state = "open" /\ rows[j].buf # "end" /\ reqNo[rows[j].stmt] = r
CancelledByRows(r) == op = "rclose" /\ reqNo[rows[tgt].stmt] = r
AwaitedByQuery(r) == ~Keep /\ op = "query" /\ pc = "read" /\ requestNo = r
ReadByLob(r) == op = "lob" /\ lobReq = r /\ (pc = "send" => lobStarted) /\ (pc = "finish" => res = "more")
Tracked(r) == KeptByStmt(r) \/ ReadByRows(r) \/ CancelledByRows(r) \/ AwaitedByQuery(r) \/ ReadByLob(r)

\* A drain waits for the answer to its own Cancel, and the last buffer of a result
\* set, like an error, ends its request.
UnderWay ==
    /\ pc = "drain" /\ ask # Nothing => ask = Msg("cancel", CancelReq)
    /\ pc = "drain" /\ ans # Nothing => CancelReq \notin openReqs
    /\ ~Keep /\ pc = "read" /\ ans.kind = "end" /\ op \in {"query", "next"} => requestNo \notin openReqs
    /\ ~Keep /\ pc = "read" /\ ans.kind = "error" /\ op = "query" => requestNo \notin openReqs

\* No request of a usable connection is forgotten.
ServerRequests == (Usable => \A r \in openReqs : Tracked(r)) /\ UnderWay

Apart == Awaiting /\ ResultSets /\ ServerRequests

-----------------------------------------------------------------------------
(* Types.                                                                  *)

Steps == {"idle", "send", "read", "cancel", "drain", "finish"}
Methods == {"none", "exec", "query", "session", "lob", "next", "rclose", "sclose"}
Results == {"ok", "td", "io", "timeout", "badconn", "ctx", "invalid", "more"}
Contexts == {"unused", "background", "live", "done"}
Watches == {"none", "on", "stopped", "gone"}
ResultSet == [state : {"none", "open", "done", "closed"}, stmt : Stmts,
              buf : {"rows", "end", "empty"}, src : Nat, own : Nat]

\* The values of the variables, group by group.
CallerTypes ==
    /\ pc \in Steps /\ op \in Methods /\ call \in 0..MaxCalls /\ stmt \in Stmts /\ tgt \in 0..MaxCalls
    /\ res \in Results /\ (res = "more" => pc = "finish")
WatcherTypes == ctx \in [Calls -> Contexts] /\ watch \in [Calls -> Watches] /\ rwatch \in [Calls -> Watches]
Flags == bad \in BOOLEAN /\ closed \in BOOLEAN /\ expired \in BOOLEAN /\ lobStarted \in BOOLEAN /\ loggedOff \in BOOLEAN
Numbers == requestNo \in Nat /\ lobReq \in Nat /\ deadline \in {"none", "drain", "past"} /\ link \in {"up", "down"}
StmtTypes == openKeep \in [Stmts -> BOOLEAN] /\ reqNo \in [Stmts -> Nat]
RowTypes == rows \in [Calls -> ResultSet]
NetTypes == /\ ask \in [kind : {"none", "dml", "select", "continue", "cancel"}, req : Nat]
            /\ ans \in [kind : {"none", "data", "end", "error"}, req : Nat]
            /\ openReqs \subseteq 1..requestNo

Types == CallerTypes /\ WatcherTypes /\ Flags /\ Numbers /\ StmtTypes /\ RowTypes /\ NetTypes

\* The groups are the types.
LEMMA TypesAre == TypeOK <=> Types
<1>1. res \in Results /\ (res = "more" => pc = "finish")
      <=> res \in {"ok", "td", "io", "timeout", "badconn", "ctx", "invalid"} \cup
                 (IF pc = "finish" THEN {"more"} ELSE {})
  BY DEF Results
<1> QED BY <1>1, Zenon DEF TypeOK, Types, CallerTypes, WatcherTypes, Flags, Numbers, StmtTypes, RowTypes, NetTypes,
             Steps, Methods, Contexts, Watches, ResultSet

\* Where a method that is over goes.
LEMMA Leaving ==
    ASSUME NEW e, Leave(e)
    PROVE  /\ res' = e
           /\ op \in {"exec", "query", "lob"} => pc' = "finish" /\ op' = op /\ tgt' = tgt
           /\ op \notin {"exec", "query", "lob"} => pc' = "idle" /\ op' = "none" /\ tgt' = 0
BY Zenon DEF Leave, Cancelable, Return

\* A method that leaves is at a step it may be at.
LEMMA LeavingKeeps ==
    ASSUME CallerTypes, Control, pc \in {"send", "read", "cancel", "drain"},
           NEW e \in Results, Leave(e), e = "more" => op = "lob" /\ lobStarted',
           call' = call, stmt' = stmt
    PROVE  CallerTypes' /\ Control'
<1>t. /\ pc \in Steps /\ op \in Methods /\ call \in 0..MaxCalls /\ stmt \in Stmts /\ tgt \in 0..MaxCalls
  BY DEF CallerTypes
<1>1. CASE op \in {"exec", "query", "lob"}
  <2>1. res' = e /\ pc' = "finish" /\ op' = op /\ tgt' = tgt
    BY <1>1, Leaving
  <2> QED BY <1>t, <1>1, <2>1 DEF CallerTypes, Control, Steps, Methods
<1>2. CASE op \notin {"exec", "query", "lob"}
  <2>1. res' = e /\ pc' = "idle" /\ op' = "none" /\ tgt' = 0 /\ e # "more"
    BY <1>2, Leaving
  <2> QED BY <1>t, <1>2, <2>1, MaxCallsAssumption DEF CallerTypes, Control, Steps, Methods
<1> QED BY <1>1, <1>2

\* The caller's variables keep their types, and its methods their steps.
LEMMA CallerKeeps ==
    ASSUME CallerTypes, Control, [Next]_vars
    PROVE  CallerTypes' /\ Control'
<1> USE DEF control, watchers, conn, objects, net
<1>t. /\ pc \in Steps /\ op \in Methods /\ call \in 0..MaxCalls /\ stmt \in Stmts /\ tgt \in 0..MaxCalls
      /\ res \in Results /\ (res = "more" => pc = "finish")
  BY DEF CallerTypes
<1>m. MaxCalls \in Nat
  BY MaxCallsAssumption
<1>1. CASE Exec \/ Query
  <2>1. PICK s \in Stmts, o \in {"exec", "query"} : Execute(o, s)
    BY <1>1 DEF Exec, Query
  <2>2. /\ pc = "idle" /\ call < MaxCalls /\ call' = call + 1 /\ op' = o /\ stmt' = s /\ res' = "ok"
        /\ pc' \in {"cancel", "send"} /\ tgt' = tgt /\ lobStarted' = lobStarted
    BY <2>1 DEF Execute, MayStart, NewContext
  <2> QED BY <1>t, <1>m, <2>2 DEF CallerTypes, Control, Steps, Methods, Results
<1>2. CASE SessionSQL \/ LobFetch
  <2>2. /\ pc = "idle" /\ call < MaxCalls /\ call' = call + 1 /\ op' \in {"session", "lob"} /\ stmt' = stmt
        /\ res' = "ok" /\ pc' = "send" /\ tgt' = tgt
    BY <1>2 DEF SessionSQL, LobFetch, MayStart, NewContext
  <2> QED BY <1>t, <1>m, <2>2 DEF CallerTypes, Control, Steps, Methods, Results
<1>3. CASE NextRow \/ NextEOF \/ RowsCloseDone \/ ConnClose
  <2>2. /\ pc = "idle" /\ pc' = pc /\ op' = op /\ call' = call /\ stmt' = stmt /\ tgt' = tgt
        /\ res' \in {"ok", "badconn"} /\ lobStarted' = lobStarted
    BY <1>3 DEF NextRow, NextEOF, RowsCloseDone, ConnClose
  <2> QED BY <1>t, <2>2 DEF CallerTypes, Control, Results
<1>4. CASE NextFetch \/ RowsClose
  <2>2. /\ call' = call /\ stmt' = stmt /\ res' = "ok" /\ tgt' \in Calls
        /\ \/ op' = "next" /\ pc' = "send"
           \/ op' = "rclose" /\ pc' = "cancel"
    BY <1>4 DEF NextFetch, RowsClose
  <2> QED BY <1>t, <1>m, <2>2 DEF CallerTypes, Control, Steps, Methods, Results, Calls
<1>5. CASE StmtClose
  <2>2. /\ call' = call /\ stmt' \in Stmts /\ res' = "ok" /\ tgt' = tgt
        /\ op' = "sclose" /\ pc' = "cancel"
    BY <1>5 DEF StmtClose
  <2> QED BY <1>t, <2>2 DEF CallerTypes, Control, Steps, Methods, Results
<1>6. CASE Send \/ SendCancel
  <2>2. /\ call' = call /\ stmt' = stmt /\ res' = res /\ tgt' = tgt /\ op' = op
        /\ \/ pc = "send" /\ pc' = "read"
           \/ pc = "cancel" /\ pc' = "drain"
    BY <1>6 DEF Send, SendCancel
  <2> QED BY <1>t, <2>2 DEF CallerTypes, Control, Steps
<1>7. CASE SendFail
  <2>1. pc = "send" /\ call' = call /\ stmt' = stmt /\ res # "more"
    BY <1>7, <1>t DEF SendFail
  <2>2. CASE pc' = "read" /\ op' = op /\ tgt' = tgt /\ res' = res
    BY <1>t, <2>1, <2>2 DEF CallerTypes, Control, Steps
  <2>3. CASE Leave("io") \/ Leave("badconn")
    <3>1. "io" \in Results /\ "badconn" \in Results
      BY DEF Results
    <3> QED BY <2>1, <2>3, <3>1, LeavingKeeps
  <2> QED BY <1>7, <2>2, <2>3, Zenon DEF SendFail
<1>8. CASE ReadStatus \/ ReadRows \/ ReadMore
  <2>1. pc = "read" /\ call' = call /\ stmt' = stmt /\ op # "lob"
    BY <1>8 DEF ReadStatus, ReadRows, ReadMore
  <2>2. Leave("ok") \/ Leave("td") \/ Leave("invalid")
    BY <1>8, Zenon DEF ReadStatus, ReadRows, ReadMore
  <2>3. "ok" \in Results /\ "td" \in Results /\ "invalid" \in Results
    BY DEF Results
  <2> QED BY <2>1, <2>2, <2>3, LeavingKeeps
<1>9. CASE ReadLob
  <2>1. /\ pc = "read" /\ op = "lob" /\ call' = call /\ stmt' = stmt /\ op' = op /\ tgt' = tgt
        /\ lobStarted' = (ans.kind # "error")
        /\ pc' = IF ans.kind = "data" THEN "finish" ELSE "cancel"
        /\ res' = CASE ans.kind = "data" -> "more" [] ans.kind = "end" -> "ok" [] OTHER -> "td"
    BY <1>9, Zenon DEF ReadLob
  <2>2. \/ pc' = "finish" /\ res' = "more" /\ lobStarted'
        \/ pc' = "cancel" /\ res' \in {"ok", "td"}
    <3>1. CASE ans.kind = "data"
      BY <2>1, <3>1
    <3>2. CASE ans.kind # "data"
      BY <2>1, <3>2
    <3> QED BY <3>1, <3>2
  <2>3. CASE pc' = "finish" /\ res' = "more" /\ lobStarted'
    BY <1>t, <2>1, <2>3 DEF CallerTypes, Control, Steps, Results
  <2>4. CASE pc' = "cancel" /\ res' \in {"ok", "td"}
    BY <1>t, <2>1, <2>4 DEF CallerTypes, Control, Steps, Results
  <2> QED BY <2>2, <2>3, <2>4
<1>10. CASE ReadFail
  <2>1. pc = "read" /\ call' = call /\ stmt' = stmt
    BY <1>10, Zenon DEF ReadFail
  <2>2. CASE op = "lob"
    <3>1. pc' = "cancel" /\ op' = op /\ tgt' = tgt /\ res' \in {"io", "ctx", "timeout"}
      BY <1>10, <2>2 DEF ReadFail
    <3> QED BY <1>t, <2>1, <2>2, <3>1 DEF CallerTypes, Control, Steps, Results
  <2>3. CASE op # "lob"
    <3>1. Leave("io") \/ Leave("ctx") \/ Leave("timeout")
      BY <1>10, <2>3, Zenon DEF ReadFail
    <3>2. "io" \in Results /\ "ctx" \in Results /\ "timeout" \in Results
      BY DEF Results
    <3> QED BY <2>1, <3>1, <3>2, LeavingKeeps
  <2> QED BY <2>2, <2>3
<1>11. CASE SendCancelFail
  <2>1. pc = "cancel" /\ call' = call /\ stmt' = stmt /\ res # "more" /\ lobStarted' = lobStarted
    BY <1>11, <1>t DEF SendCancelFail
  <2>2. CASE pc' = "drain" /\ op' = op /\ tgt' = tgt /\ res' = res
    BY <1>t, <2>1, <2>2 DEF CallerTypes, Control, Steps
  <2>3. CASE CancelFailed("io") \/ CancelFailed("badconn")
    <3>1. Leave(res) \/ Leave("io") \/ Leave("badconn")
      BY <2>3, Zenon DEF CancelFailed
    <3>2. res \in Results /\ "io" \in Results /\ "badconn" \in Results
      BY <1>t DEF Results
    <3> QED BY <2>1, <3>1, <3>2, LeavingKeeps
  <2> QED BY <1>11, <2>2, <2>3, Zenon DEF SendCancelFail
<1>12. CASE Drained
  <2>1. pc = "drain" /\ call' = call /\ stmt' = stmt /\ res # "more"
    BY <1>12, <1>t DEF Drained
  <2>2. CASE op \in {"exec", "query"}
    <3>1. pc' = "send" /\ op' = op /\ tgt' = tgt /\ res' = res
      BY <1>12, <2>2, Zenon DEF Drained
    <3> QED BY <1>t, <2>1, <2>2, <3>1 DEF CallerTypes, Control, Steps
  <2>3. CASE op \notin {"exec", "query"}
    <3>1. Leave(res) \/ Leave("td") \/ Leave("ok")
      BY <1>12, <2>3, Zenon DEF Drained
    <3>2. res \in Results /\ "td" \in Results /\ "ok" \in Results
      BY <1>t DEF Results
    <3> QED BY <2>1, <3>1, <3>2, LeavingKeeps
  <2> QED BY <2>2, <2>3
<1>13. CASE DrainFail
  <2>1. pc = "drain" /\ call' = call /\ stmt' = stmt /\ res # "more"
    BY <1>13, <1>t DEF DrainFail
  <2>2. Leave(res) \/ Leave("timeout") \/ Leave("io")
    BY <1>13, Zenon DEF DrainFail, CancelFailed
  <2>3. res \in Results /\ "timeout" \in Results /\ "io" \in Results
    BY <1>t DEF Results
  <2> QED BY <2>1, <2>2, <2>3, LeavingKeeps
<1>14. CASE Finish
  <2>1. pc = "finish" /\ call' = call /\ stmt' = stmt
    BY <1>14, Zenon DEF Finish
  <2>2. CASE MoreToFetch
    <3>1. op = "lob" /\ pc' = "send" /\ op' = op /\ tgt' = tgt /\ res' = "ok"
      BY <1>14, <2>2, Zenon DEF Finish, MoreToFetch
    <3> QED BY <1>t, <2>1, <3>1 DEF CallerTypes, Control, Steps, Results
  <2>3. CASE ~MoreToFetch
    <3>1. pc' = "idle" /\ op' = "none" /\ tgt' = 0 /\ (res' = "ctx" \/ res' = res)
      BY <1>14, <2>3, Zenon DEF Finish, Return
    <3>2. res # "more"
      BY <2>1, <2>3 DEF Control, MoreToFetch
    <3> QED BY <1>t, <2>1, <3>1, <3>2, <1>m DEF CallerTypes, Control, Steps, Methods, Results
  <2> QED BY <2>2, <2>3
<1>15. CASE WatcherStep \/ Environment \/ UNCHANGED vars
  <2>1. /\ pc' = pc /\ op' = op /\ call' = call /\ stmt' = stmt /\ tgt' = tgt /\ res' = res
        /\ lobStarted' = lobStarted
    BY <1>15, Zenon DEF WatcherStep, WatcherFires, WatcherExits, Environment, Cancel, DrainExpires, LinkDown,
                        ServerAnswers, vars
  <2> QED BY <2>1, Zenon DEF CallerTypes, Control
<1> QED BY <1>1, <1>2, <1>3, <1>4, <1>5, <1>6, <1>7, <1>8, <1>9, <1>10, <1>11, <1>12, <1>13, <1>14, <1>15, Zenon
        DEF Next, ClientStep, NewMethod, Finished

\* The actions that leave the contexts and their watchers alone.
Unwatched ==
    \/ NextRow \/ NextEOF \/ NextFetch \/ StmtClose \/ ConnClose
    \/ Send \/ SendFail \/ ReadStatus \/ ReadRows \/ ReadMore \/ ReadLob \/ ReadFail
    \/ SendCancel \/ SendCancelFail \/ Drained \/ DrainFail
    \/ DrainExpires \/ LinkDown \/ ServerAnswers \/ UNCHANGED vars

\* None of them changes a context or a watcher.
LEMMA UnwatchedIs ==
    ASSUME Unwatched
    PROVE  ctx' = ctx /\ watch' = watch /\ rwatch' = rwatch
BY Zenon DEF Unwatched, NextRow, NextEOF, NextFetch, StmtClose, ConnClose,
       Send, SendFail, ReadStatus, ReadRows, ReadMore, ReadLob, ReadFail, SendCancel, SendCancelFail,
       Drained, DrainFail, DrainExpires, LinkDown, ServerAnswers, vars, watchers

\* The rest of them.
LEMMA WatchedOnes ==
    ASSUME [Next]_vars
    PROVE  \/ Unwatched \/ Exec \/ Query \/ SessionSQL \/ LobFetch
           \/ RowsCloseDone \/ RowsClose \/ Finish \/ WatcherStep \/ Cancel
BY Zenon DEF Next, ClientStep, NewMethod, Environment, Finished, Unwatched

\* Stopping a watcher keeps it one.
LEMMA StopWatcherType ==
    ASSUME NEW w \in [Calls -> Watches], NEW j \in Calls
    PROVE  StopWatcher(w, j) \in [Calls -> Watches]
BY DEF StopWatcher, Watches

\* What a new context does to the contexts there are.
LEMMA NewContextIs ==
    ASSUME CallerTypes, WatcherTypes, NEW kinds \in SUBSET {"background", "live"}, NewContext(kinds)
    PROVE  /\ call < MaxCalls /\ call + 1 \in Calls /\ call' = call + 1
           /\ \E c \in kinds : ctx' = [ctx EXCEPT ![call + 1] = c]
           /\ ctx' \in [Calls -> Contexts] /\ watch' \in [Calls -> Watches] /\ rwatch' = rwatch
<1>0. call \in 0..MaxCalls /\ ctx \in [Calls -> Contexts] /\ watch \in [Calls -> Watches]
  BY DEF CallerTypes, WatcherTypes
<1>1. call < MaxCalls /\ call' = call + 1 /\ rwatch' = rwatch
  BY DEF NewContext
<1>2. call + 1 \in Calls
  BY <1>0, <1>1, MaxCallsAssumption DEF Calls
<1>3. PICK c \in kinds : /\ ctx' = [ctx EXCEPT ![call + 1] = c]
                         /\ watch' = [watch EXCEPT ![call + 1] = WatcherFor(c)]
  BY Zenon DEF NewContext
<1>4. ctx' \in [Calls -> Contexts]
  <2> c \in Contexts
    BY DEF Contexts
  <2> QED BY <1>0, <1>3, Zenon
<1>5. watch' \in [Calls -> Watches]
  <2> WatcherFor(c) \in Watches
    BY DEF WatcherFor, Watches
  <2> QED BY <1>0, <1>3, Zenon
<1> QED BY <1>1, <1>2, <1>3, <1>4, <1>5

\* Every call has a context and at most two watchers.
LEMMA WatchersKeep ==
    ASSUME CallerTypes, Control, WatcherTypes, [Next]_vars
    PROVE  WatcherTypes'
<1>0. ctx \in [Calls -> Contexts] /\ watch \in [Calls -> Watches] /\ rwatch \in [Calls -> Watches]
  BY DEF WatcherTypes
<1> USE DEF watchers
<1>1. CASE Unwatched
  BY <1>0, <1>1, UnwatchedIs, Zenon DEF WatcherTypes
<1>2. CASE Exec \/ Query \/ SessionSQL \/ LobFetch
  <2>1. NewContext({"background", "live"}) \/ NewContext({"background"})
    BY <1>2, Zenon DEF Exec, Query, Execute, SessionSQL, LobFetch
  <2>2. {"background", "live"} \in SUBSET {"background", "live"} /\ {"background"} \in SUBSET {"background", "live"}
    OBVIOUS
  <2>3. ctx' \in [Calls -> Contexts] /\ watch' \in [Calls -> Watches] /\ rwatch' = rwatch
    BY <2>1, <2>2, NewContextIs
  <2> QED BY <1>0, <2>3, Zenon DEF WatcherTypes
<1>3. CASE RowsCloseDone \/ RowsClose
  <2>1. PICK j \in Calls : rwatch' = StopWatcher(rwatch, j) /\ ctx' = ctx /\ watch' = watch
    BY <1>3, Zenon DEF RowsCloseDone, RowsClose
  <2> QED BY <1>0, <2>1, StopWatcherType, Zenon DEF WatcherTypes
<1>4. CASE Finish
  <2>1. call \in Calls
    BY <1>4, MaxCallsAssumption DEF Finish, CallerTypes, Control, Calls
  <2>2. \/ watch' = [watch EXCEPT ![call] = "on"] \/ watch' = StopWatcher(watch, call)
    BY <1>4, Zenon DEF Finish
  <2>3. rwatch' = [rwatch EXCEPT ![call] = "on"] \/ rwatch' = rwatch
    BY <1>4, Zenon DEF Finish
  <2>4. "on" \in Watches
    BY DEF Watches
  <2>5. watch' \in [Calls -> Watches]
    BY <1>0, <2>1, <2>2, <2>4, StopWatcherType, Zenon
  <2>6. rwatch' \in [Calls -> Watches]
    BY <1>0, <2>3, <2>4, Zenon
  <2>7. ctx' = ctx
    BY <1>4, Zenon DEF Finish
  <2> QED BY <1>0, <2>5, <2>6, <2>7, Zenon DEF WatcherTypes
<1>5. CASE WatcherStep
  <2>1. ctx' = ctx
    BY <1>5, Zenon DEF WatcherStep, WatcherFires, WatcherExits
  <2>2. PICK j \in Calls : \/ watch' = [watch EXCEPT ![j] = "gone"] /\ rwatch' = rwatch
                           \/ rwatch' = [rwatch EXCEPT ![j] = "gone"] /\ watch' = watch
    BY <1>5, Zenon DEF WatcherStep, WatcherFires, WatcherExits
  <2>3. "gone" \in Watches
    BY DEF Watches
  <2> QED BY <1>0, <2>1, <2>2, <2>3, Zenon DEF WatcherTypes
<1>6. CASE Cancel
  <2>1. PICK j \in Calls : ctx' = [ctx EXCEPT ![j] = "done"] /\ watch' = watch /\ rwatch' = rwatch
    BY <1>6, Zenon DEF Cancel
  <2>2. "done" \in Contexts
    BY DEF Contexts
  <2> QED BY <1>0, <2>1, <2>2, Zenon DEF WatcherTypes
<1> QED BY <1>1, <1>2, <1>3, <1>4, <1>5, <1>6, WatchedOnes, Zenon

\* The flags of the connection, of the LOB and of the server.
LEMMA FlagsKeep ==
    ASSUME Flags, [Next]_vars
    PROVE  Flags'
<1> USE DEF conn, objects, net
<1>1. bad' \in BOOLEAN
  <2> bad' = bad \/ bad' = TRUE
    BY Zenon DEF Next, ClientStep, NewMethod, WatcherStep, Environment, Finished, vars, Exec, Query, Execute,
       SessionSQL, LobFetch, NextRow, NextEOF, NextFetch, RowsCloseDone, RowsClose, StmtClose, ConnClose,
       Send, SendFail, ReadStatus, ReadRows, ReadMore, ReadLob, ReadFail, SendCancel, SendCancelFail, Drained,
       DrainFail, Finish, WatcherFires, WatcherExits, Cancel, DrainExpires, LinkDown, ServerAnswers, MarkUnusable
  <2> QED BY Zenon DEF Flags
<1>2. closed' \in BOOLEAN /\ loggedOff' \in BOOLEAN
  <2>1. CASE ConnClose
    BY <2>1, Zenon DEF ConnClose
  <2>2. CASE ~ConnClose
    <3> closed' = closed /\ loggedOff' = loggedOff
      BY <2>2, Zenon DEF Next, ClientStep, NewMethod, WatcherStep, Environment, Finished, vars, Exec, Query, Execute,
       SessionSQL, LobFetch, NextRow, NextEOF, NextFetch, RowsCloseDone, RowsClose, StmtClose,
       Send, SendFail, ReadStatus, ReadRows, ReadMore, ReadLob, ReadFail, SendCancel, SendCancelFail, Drained,
       DrainFail, Finish, WatcherFires, WatcherExits, Cancel, DrainExpires, LinkDown, ServerAnswers
    <3> QED BY Zenon DEF Flags
  <2> QED BY <2>1, <2>2
<1>3. expired' \in BOOLEAN
  <2> expired' = expired \/ expired' = TRUE \/ expired' = FALSE
    BY Zenon DEF Next, ClientStep, NewMethod, WatcherStep, Environment, Finished, vars, Exec, Query, Execute,
       SessionSQL, LobFetch, NextRow, NextEOF, NextFetch, RowsCloseDone, RowsClose, StmtClose, ConnClose,
       Send, SendFail, ReadStatus, ReadRows, ReadMore, ReadLob, ReadFail, SendCancel, SendCancelFail, Drained,
       DrainFail, Finish, WatcherFires, WatcherExits, Cancel, DrainExpires, LinkDown, ServerAnswers
  <2> QED BY Zenon DEF Flags
<1>4. lobStarted' \in BOOLEAN
  <2>1. CASE ReadLob
    BY <2>1, Zenon DEF ReadLob
  <2>2. CASE ~ReadLob
    <3> lobStarted' = lobStarted \/ lobStarted' = FALSE
      BY <2>2, Zenon DEF Next, ClientStep, NewMethod, WatcherStep, Environment, Finished, vars, Exec, Query, Execute,
       SessionSQL, LobFetch, NextRow, NextEOF, NextFetch, RowsCloseDone, RowsClose, StmtClose, ConnClose,
       Send, SendFail, ReadStatus, ReadRows, ReadMore, ReadFail, SendCancel, SendCancelFail, Drained,
       DrainFail, Finish, WatcherFires, WatcherExits, Cancel, DrainExpires, LinkDown, ServerAnswers
    <3> QED BY Zenon DEF Flags
  <2> QED BY <2>1, <2>2
<1> QED BY <1>1, <1>2, <1>3, <1>4, Zenon DEF Flags

\* The connection's request number only grows, by one at a time.
LEMMA NumberGrows ==
    ASSUME Numbers, [Next]_vars
    PROVE  /\ requestNo' = requestNo \/ requestNo' = requestNo + 1
           /\ requestNo' \in Nat /\ 1..requestNo \subseteq 1..requestNo'
           /\ ~(Send \/ SendFail) => requestNo' = requestNo
<1> USE DEF conn
<1>0. requestNo \in Nat
  BY DEF Numbers
<1>1. CASE Send \/ SendFail
  <2> requestNo' = requestNo \/ requestNo' = requestNo + 1
    BY <1>1, Zenon DEF Send, SendFail, BuildRequest, NextNumber
  <2> QED BY <1>0, <1>1
<1>2. CASE ~(Send \/ SendFail)
  <2> requestNo' = requestNo
    BY <1>2, Zenon DEF Next, ClientStep, NewMethod, WatcherStep, Environment, Finished, vars, Exec, Query, Execute,
       SessionSQL, LobFetch, NextRow, NextEOF, NextFetch, RowsCloseDone, RowsClose, StmtClose, ConnClose,
       ReadStatus, ReadRows, ReadMore, ReadLob, ReadFail, SendCancel, SendCancelFail, Drained,
       DrainFail, Finish, WatcherFires, WatcherExits, Cancel, DrainExpires, LinkDown, ServerAnswers
  <2> QED BY <1>0, <1>2
<1> QED BY <1>1, <1>2

\* The numbers, the deadline and the link.
LEMMA NumbersKeep ==
    ASSUME Numbers, [Next]_vars
    PROVE  Numbers'
<1> USE DEF conn, objects, net
<1>0. lobReq \in Nat /\ deadline \in {"none", "drain", "past"} /\ link \in {"up", "down"}
  BY DEF Numbers
<1>1. requestNo' \in Nat
  BY NumberGrows
<1>2. lobReq' \in Nat
  <2> lobReq' = lobReq \/ lobReq' = requestNo'
    BY Zenon DEF Next, ClientStep, NewMethod, WatcherStep, Environment, Finished, vars, Exec, Query, Execute,
       SessionSQL, LobFetch, NextRow, NextEOF, NextFetch, RowsCloseDone, RowsClose, StmtClose, ConnClose,
       Send, SendFail, ReadStatus, ReadRows, ReadMore, ReadLob, ReadFail, SendCancel, SendCancelFail, Drained,
       DrainFail, Finish, WatcherFires, WatcherExits, Cancel, DrainExpires, LinkDown, ServerAnswers,
       RememberRequest
  <2> QED BY <1>0, <1>1, Zenon
<1>3. deadline' \in {"none", "drain", "past"}
  <2> deadline' = deadline \/ deadline' = "none" \/ deadline' = "drain" \/ deadline' = "past"
    BY Zenon DEF Next, ClientStep, NewMethod, WatcherStep, Environment, Finished, vars, Exec, Query, Execute,
       SessionSQL, LobFetch, NextRow, NextEOF, NextFetch, RowsCloseDone, RowsClose, StmtClose, ConnClose,
       Send, SendFail, ReadStatus, ReadRows, ReadMore, ReadLob, ReadFail, SendCancel, SendCancelFail, Drained,
       DrainFail, Finish, WatcherFires, WatcherExits, Cancel, DrainExpires, LinkDown, ServerAnswers,
       ClearDeadline
  <2> QED BY <1>0
<1>4. link' \in {"up", "down"}
  <2> link' = link \/ link' = "down"
    BY Zenon DEF Next, ClientStep, NewMethod, WatcherStep, Environment, Finished, vars, Exec, Query, Execute,
       SessionSQL, LobFetch, NextRow, NextEOF, NextFetch, RowsCloseDone, RowsClose, StmtClose, ConnClose,
       Send, SendFail, ReadStatus, ReadRows, ReadMore, ReadLob, ReadFail, SendCancel, SendCancelFail, Drained,
       DrainFail, Finish, WatcherFires, WatcherExits, Cancel, DrainExpires, LinkDown, ServerAnswers
  <2> QED BY <1>0
<1> QED BY <1>1, <1>2, <1>3, <1>4, Zenon DEF Numbers

\* The requests the statements have open.
LEMMA StmtsKeep ==
    ASSUME CallerTypes, Control, Numbers, StmtTypes, RowTypes, [Next]_vars
    PROVE  StmtTypes'
<1> USE DEF objects
<1>0. openKeep \in [Stmts -> BOOLEAN] /\ reqNo \in [Stmts -> Nat] /\ stmt \in Stmts
  BY DEF StmtTypes, CallerTypes
<1>n. requestNo' \in Nat
  BY NumberGrows
<1>1. CASE Send \/ SendFail
  <2>1. openKeep' \in [Stmts -> BOOLEAN]
    <3>1. openKeep' = [openKeep EXCEPT ![stmt] = (Keep /\ op = "query")] \/ openKeep' = openKeep
      BY <1>1, Zenon DEF Send, SendFail, BuildRequest
    <3>2. (Keep /\ op = "query") \in BOOLEAN
      BY Zenon
    <3> QED BY <1>0, <3>1, <3>2, Zenon
  <2>2. reqNo' \in [Stmts -> Nat]
    <3>1. reqNo' = [reqNo EXCEPT ![stmt] = requestNo'] \/ reqNo' = reqNo
      BY <1>1, Zenon DEF Send, SendFail, RememberRequest
    <3> QED BY <1>0, <1>n, <3>1, Zenon
  <2> QED BY <2>1, <2>2 DEF StmtTypes
<1>2. CASE SendCancelFail \/ Drained \/ DrainFail
  <2>1. reqNo' = reqNo
    BY <1>2, Zenon DEF SendCancelFail, Drained, DrainFail
  <2>2. openKeep' = openKeep \/ ReleaseKeep
    BY <1>2, Zenon DEF SendCancelFail, Drained, DrainFail
  <2>3. CASE ReleaseKeep
    <3>1. CASE op = "lob"
      <4> openKeep' = openKeep
        BY <2>3, <3>1 DEF ReleaseKeep
      <4> QED BY <1>0, <2>1, Zenon DEF StmtTypes
    <3>2. CASE op = "rclose"
      <4> openKeep' = [openKeep EXCEPT ![rows[tgt].stmt] = FALSE]
        BY <2>3, <3>2 DEF ReleaseKeep
      <4> QED BY <1>0, <2>1, Zenon DEF StmtTypes
    <3>3. CASE op # "lob" /\ op # "rclose"
      <4> openKeep' = [openKeep EXCEPT ![stmt] = FALSE]
        BY <2>3, <3>3 DEF ReleaseKeep
      <4> QED BY <1>0, <2>1, Zenon DEF StmtTypes
    <3> QED BY <3>1, <3>2, <3>3
  <2> QED BY <1>0, <2>1, <2>2, <2>3, Zenon DEF StmtTypes
<1>3. CASE ~(Send \/ SendFail \/ SendCancelFail \/ Drained \/ DrainFail)
  <2>1. openKeep' = openKeep /\ reqNo' = reqNo
    BY <1>3, Zenon DEF Next, ClientStep, NewMethod, WatcherStep, Environment, Finished, vars, Exec, Query, Execute,
       SessionSQL, LobFetch, NextRow, NextEOF, NextFetch, RowsCloseDone, RowsClose, StmtClose, ConnClose,
       ReadStatus, ReadRows, ReadMore, ReadLob, ReadFail, SendCancel,
       Finish, WatcherFires, WatcherExits, Cancel, DrainExpires, LinkDown, ServerAnswers
  <2> QED BY <1>0, <2>1, Zenon DEF StmtTypes
<1> QED BY <1>1, <1>2, <1>3

\* The result sets.
LEMMA RowsKeep ==
    ASSUME CallerTypes, Control, StmtTypes, RowTypes, NetTypes, [Next]_vars
    PROVE  RowTypes'
<1> USE DEF objects
<1>0. rows \in [Calls -> ResultSet]
  BY DEF RowTypes
<1>1. CASE NextRow \/ NextEOF \/ RowsCloseDone \/ RowsClose
  <2>1. PICK j \in Calls : \/ rows' = [rows EXCEPT ![j].buf = "empty"]
                           \/ rows' = [rows EXCEPT ![j].state = "done"]
                           \/ rows' = [rows EXCEPT ![j].state = "closed"]
    BY <1>1, Zenon DEF NextRow, NextEOF, RowsCloseDone, RowsClose
  <2>2. rows[j] \in ResultSet
    BY <1>0
  <2>3. /\ [rows[j] EXCEPT !.buf = "empty"] \in ResultSet
        /\ [rows[j] EXCEPT !.state = "done"] \in ResultSet
        /\ [rows[j] EXCEPT !.state = "closed"] \in ResultSet
    BY <2>2 DEF ResultSet
  <2> QED BY <1>0, <2>1, <2>3, Zenon DEF RowTypes
<1>2. CASE ReadRows
  <2>1. call \in Calls /\ stmt \in Stmts
    BY <1>2, MaxCallsAssumption DEF ReadRows, CallerTypes, Control, Calls
  <2>2. ans.req \in Nat /\ reqNo[stmt] \in Nat
    BY <2>1 DEF NetTypes, StmtTypes
  <2> DEFINE new == [state |-> "open", stmt |-> stmt, buf |-> IF ans.kind = "end" THEN "end" ELSE "rows",
                     src |-> ans.req, own |-> reqNo[stmt]]
  <2>3. new \in ResultSet
    BY <2>1, <2>2 DEF ResultSet
  <2>4. rows' = rows \/ rows' = [rows EXCEPT ![call] = new]
    BY <1>2, Zenon DEF ReadRows
  <2> HIDE DEF new
  <2> QED BY <1>0, <2>1, <2>3, <2>4, Zenon DEF RowTypes
<1>3. CASE ReadMore
  <2>1. tgt \in Calls
    BY <1>3, MaxCallsAssumption DEF ReadMore, CallerTypes, Control, Calls
  <2>2. ans.req \in Nat
    BY DEF NetTypes
  <2> DEFINE b == CASE ans.kind = "error" -> "empty" [] ans.kind = "end" -> "end" [] OTHER -> "rows"
             new == [rows[tgt] EXCEPT !.buf = b, !.src = ans.req]
  <2>3. b \in {"rows", "end", "empty"}
    OBVIOUS
  <2>4. rows[tgt] \in ResultSet
    BY <1>0, <2>1
  <2>5. rows' = [rows EXCEPT ![tgt].buf = b, ![tgt].src = ans.req]
    BY <1>3, Zenon DEF ReadMore
  <2> HIDE DEF b
  <2>6. new \in ResultSet
    BY <2>2, <2>3, <2>4 DEF ResultSet
  <2>7. rows' = [rows EXCEPT ![tgt] = new]
    BY <1>0, <2>1, <2>5
  <2> HIDE DEF new
  <2> QED BY <1>0, <2>6, <2>7, Zenon DEF RowTypes
<1>4. CASE ~(NextRow \/ NextEOF \/ RowsCloseDone \/ RowsClose \/ ReadRows \/ ReadMore)
  <2>1. rows' = rows
    BY <1>4, Zenon DEF Next, ClientStep, NewMethod, WatcherStep, Environment, Finished, vars, Exec, Query, Execute,
       SessionSQL, LobFetch, NextFetch, StmtClose, ConnClose,
       Send, SendFail, ReadStatus, ReadLob, ReadFail, SendCancel, SendCancelFail, Drained, DrainFail,
       Finish, WatcherFires, WatcherExits, Cancel, DrainExpires, LinkDown, ServerAnswers
  <2> QED BY <1>0, <2>1, Zenon DEF RowTypes
<1> QED BY <1>1, <1>2, <1>3, <1>4

\* What a step leaves alone while nothing is sent or answered.
Silent == \/ Exec \/ Query \/ SessionSQL \/ LobFetch \/ NextRow \/ NextEOF \/ NextFetch
          \/ RowsCloseDone \/ RowsClose \/ StmtClose \/ ConnClose \/ Finish
          \/ WatcherFires \/ WatcherExits \/ Cancel \/ DrainExpires \/ LinkDown \/ Finished \/ UNCHANGED vars

\* A silent step leaves the messages and the numbers alone, and begins or ends a
\* method at most; nothing makes a connection usable again.
LEMMA SilentIs ==
    ASSUME Silent
    PROVE  /\ ask' = ask /\ ans' = ans /\ openReqs' = openReqs /\ requestNo' = requestNo
           /\ pc' = pc \/ pc \in {"idle", "finish"}
           /\ bad' = bad /\ (closed' = closed \/ closed' = TRUE)
<1> USE DEF conn, net, control, objects, watchers
<1>1. ask' = ask /\ ans' = ans /\ openReqs' = openReqs /\ requestNo' = requestNo /\ bad' = bad
  BY Zenon DEF Silent, Finished, vars, Exec, Query, Execute,
     SessionSQL, LobFetch, NextRow, NextEOF, NextFetch, RowsCloseDone, RowsClose, StmtClose, ConnClose,
     Finish, WatcherFires, WatcherExits, Cancel, DrainExpires, LinkDown
<1>2. pc' = pc \/ pc = "idle" \/ pc = "finish"
  BY Zenon DEF Silent, Finished, vars, Exec, Query, Execute, MayStart,
     SessionSQL, LobFetch, NextRow, NextEOF, NextFetch, RowsCloseDone, RowsClose, StmtClose, ConnClose,
     Finish, WatcherFires, WatcherExits, Cancel, DrainExpires, LinkDown
<1>3. closed' = closed \/ closed' = TRUE
  BY Zenon DEF Silent, Finished, vars, Exec, Query, Execute,
     SessionSQL, LobFetch, NextRow, NextEOF, NextFetch, RowsCloseDone, RowsClose, StmtClose, ConnClose,
     Finish, WatcherFires, WatcherExits, Cancel, DrainExpires, LinkDown
<1> QED BY <1>1, <1>2, <1>3

\* The steps there are.
LEMMA StepsAre ==
    ASSUME [Next]_vars
    PROVE  \/ Silent \/ Send \/ SendFail \/ ReadStatus \/ ReadRows \/ ReadMore \/ ReadLob \/ ReadFail
           \/ SendCancel \/ SendCancelFail \/ Drained \/ DrainFail \/ ServerAnswers
BY Zenon DEF Next, ClientStep, NewMethod, WatcherStep, Environment, Silent

\* The number a Cancel names is a request's.
LEMMA CancelReqType ==
    ASSUME CallerTypes, Control, Numbers, StmtTypes, RowTypes
    PROVE  CancelReq \in Nat
<1>0. lobReq \in Nat /\ reqNo \in [Stmts -> Nat] /\ stmt \in Stmts /\ rows \in [Calls -> ResultSet]
  BY DEF Numbers, StmtTypes, CallerTypes, RowTypes
<1>1. CASE op = "lob"
  BY <1>0, <1>1 DEF CancelReq
<1>2. CASE op = "rclose"
  <2>1. tgt \in Calls
    BY <1>2, MaxCallsAssumption DEF CallerTypes, Control, Calls
  <2>2. rows[tgt].stmt \in Stmts
    BY <1>0, <2>1 DEF ResultSet
  <2>3. CancelReq = reqNo[rows[tgt].stmt]
    BY <1>2 DEF CancelReq
  <2> QED BY <1>0, <2>2, <2>3
<1>3. CASE op # "lob" /\ op # "rclose"
  BY <1>0, <1>3 DEF CancelReq
<1> QED BY <1>1, <1>2, <1>3

\* What the server does with the request it answers.
LEMMA AnswerIs ==
    ASSUME NetTypes, Wire, ServerAnswers
    PROVE  /\ ask # Nothing /\ ask' = Nothing
           /\ ans' \in [kind : {"data", "end", "error"}, req : Nat] /\ ans'.req = ask.req
           /\ openReqs' \subseteq 1..requestNo
           /\ requestNo' = requestNo /\ pc' = pc /\ bad' = bad /\ closed' = closed
<1> USE DEF conn, control
<1>0. /\ ask \in [kind : {"none", "dml", "select", "continue", "cancel"}, req : Nat]
      /\ openReqs \subseteq 1..requestNo
      /\ ask.kind = "select" => ask.req \in 1..requestNo
      /\ ask.kind = "none" => ask = Nothing
  BY DEF NetTypes, Wire
<1>1. ask # Nothing /\ ask' = Nothing /\ requestNo' = requestNo /\ pc' = pc /\ bad' = bad /\ closed' = closed
  BY Zenon DEF ServerAnswers
<1>2. PICK k \in {"data", "end", "error"} :
        /\ ans' = Msg(k, ask.req)
        /\ openReqs' = IF \/ ask.kind = "dml"
                          \/ ask.kind = "continue" /\ ask.req \notin openReqs THEN openReqs
                       ELSE IF ask.kind # "cancel" /\ (k = "data" \/ (k = "end" /\ Keep))
                         THEN openReqs \cup {ask.req} ELSE openReqs \ {ask.req}
  BY Zenon DEF ServerAnswers
<1>3. ans' \in [kind : {"data", "end", "error"}, req : Nat] /\ ans'.req = ask.req
  BY <1>0, <1>2 DEF Msg
<1>4. openReqs' \subseteq 1..requestNo
  <2>1. CASE ask.kind = "select"
    BY <1>0, <1>2, <2>1
  <2>2. CASE ask.kind = "continue"
    BY <1>0, <1>2, <2>2
  <2>3. CASE ask.kind \in {"dml", "cancel"}
    BY <1>0, <1>2, <2>3
  <2> QED BY <1>0, <1>1, <2>1, <2>2, <2>3
<1> QED BY <1>1, <1>3, <1>4

\* The messages and the requests the server has open.
LEMMA NetKeeps ==
    ASSUME CallerTypes, Control, Numbers, StmtTypes, RowTypes, NetTypes, Wire, [Next]_vars
    PROVE  NetTypes' /\ Wire'
<1> USE DEF conn, net, control, objects, watchers
<1>0. /\ ask \in [kind : {"none", "dml", "select", "continue", "cancel"}, req : Nat]
      /\ ans \in [kind : {"none", "data", "end", "error"}, req : Nat]
      /\ openReqs \subseteq 1..requestNo
      /\ requestNo \in Nat
  BY DEF NetTypes, Numbers
<1>n. requestNo' \in Nat /\ 1..requestNo \subseteq 1..requestNo'
  BY NumberGrows
<1>w. /\ ans # Nothing => ask = Nothing
      /\ Usable /\ pc \notin {"read", "drain"} => ask = Nothing /\ ans = Nothing
      /\ ask.kind = "select" => ask.req \in 1..requestNo
      /\ ask.kind = "none" => ask = Nothing
  BY DEF Wire
<1>z. Nothing.kind = "none" /\ Nothing.req = 0 /\ Nothing \in [kind : {"none"}, req : Nat]
  BY DEF Nothing
<1>1. CASE Silent
  <2>1. /\ ask' = ask /\ ans' = ans /\ openReqs' = openReqs
        /\ pc' = pc \/ pc \in {"idle", "finish"}
        /\ bad' = bad /\ (closed' = closed \/ closed' = TRUE)
    BY <1>1, SilentIs
  <2>2. Usable' => Usable
    BY <2>1 DEF Usable
  <2>3. NetTypes'
    BY <1>0, <1>n, <2>1 DEF NetTypes
  <2>4. Wire'
    BY <1>w, <1>n, <2>1, <2>2 DEF Wire, Nothing
  <2> QED BY <2>3, <2>4
<1>2. CASE Send
  <2>1. /\ ask' = Msg(RequestKind, requestNo') /\ ans' = ans /\ openReqs' = openReqs
        /\ pc = "send" /\ pc' = "read" /\ Usable /\ requestNo' = NextNumber
    BY <1>2, Zenon DEF Send, BuildRequest
  <2>2. ans = Nothing
    BY <1>w, <2>1
  <2>3. RequestKind \in {"dml", "select", "continue"}
    BY DEF RequestKind
  <2>4. RequestKind = "select" => requestNo' = requestNo + 1
    BY <2>1 DEF RequestKind, NextNumber
  <2>5. ask'.kind = RequestKind /\ ask'.req = requestNo'
    BY <2>1 DEF Msg
  <2>6. NetTypes'
    BY <1>0, <1>n, <2>1, <2>3 DEF NetTypes, Msg
  <2>7. Wire'
    BY <1>0, <1>n, <2>1, <2>2, <2>3, <2>4, <2>5 DEF Wire, Nothing
  <2> QED BY <2>6, <2>7
<1>3. CASE SendFail \/ ReadFail \/ SendCancelFail \/ DrainFail
  <2>1. bad' = TRUE /\ ask' = ask /\ ans' = ans /\ openReqs' = openReqs
    BY <1>3, Zenon DEF SendFail, ReadFail, SendCancelFail, DrainFail, MarkUnusable
  <2>2. ~Usable'
    BY <2>1 DEF Usable
  <2>3. NetTypes'
    BY <1>0, <1>n, <2>1 DEF NetTypes
  <2>4. Wire'
    BY <1>w, <1>n, <2>1, <2>2 DEF Wire, Nothing
  <2> QED BY <2>3, <2>4
<1>4. CASE ReadStatus \/ ReadRows \/ ReadMore \/ ReadLob \/ Drained
  <2>1. ans # Nothing /\ ans' = Nothing /\ ask' = ask /\ openReqs' = openReqs
    BY <1>4, Zenon DEF ReadStatus, ReadRows, ReadMore, ReadLob, Drained
  <2>2. ask' = Nothing
    BY <1>w, <2>1
  <2>3. NetTypes'
    BY <1>0, <1>n, <2>1, <1>z DEF NetTypes
  <2>4. Wire'
    BY <2>1, <2>2, <1>z DEF Wire, Nothing
  <2> QED BY <2>3, <2>4
<1>5. CASE SendCancel
  <2>1. /\ ask' = Msg("cancel", CancelReq) /\ ans' = ans /\ openReqs' = openReqs
        /\ pc = "cancel" /\ pc' = "drain" /\ Usable
    BY <1>5, Zenon DEF SendCancel
  <2>2. ans = Nothing
    BY <1>w, <2>1
  <2>3. CancelReq \in Nat
    BY CancelReqType
  <2>4. NetTypes'
    BY <1>0, <1>n, <2>1, <2>3 DEF NetTypes, Msg
  <2>5. ask'.kind = "cancel"
    BY <2>1 DEF Msg
  <2>6. Wire'
    BY <2>1, <2>2, <2>5 DEF Wire, Nothing
  <2> QED BY <2>4, <2>6
<1>6. CASE ServerAnswers
  <2>1. /\ ask # Nothing /\ ask' = Nothing
        /\ ans' \in [kind : {"data", "end", "error"}, req : Nat]
        /\ openReqs' \subseteq 1..requestNo
        /\ requestNo' = requestNo /\ pc' = pc /\ bad' = bad /\ closed' = closed
    BY <1>6, AnswerIs
  <2>2. Usable' => Usable
    BY <2>1 DEF Usable
  <2>3. NetTypes'
    BY <2>1, <1>z DEF NetTypes
  <2>4. Wire'
    BY <1>w, <2>1, <2>2, <1>z DEF Wire, Nothing
  <2> QED BY <2>3, <2>4
<1> QED BY <1>1, <1>2, <1>3, <1>4, <1>5, <1>6, StepsAre, Zenon

\* The steps that neither begin a call nor touch a deadline or a context.
Untimed == \/ NextRow \/ NextEOF \/ NextFetch \/ RowsCloseDone \/ StmtClose \/ ConnClose
           \/ Send \/ SendFail \/ ReadStatus \/ ReadRows \/ ReadMore \/ ReadLob \/ ReadFail
           \/ WatcherExits \/ LinkDown \/ ServerAnswers \/ Finished \/ UNCHANGED vars

\* They do not leave a drain either.
LEMMA UntimedIs ==
    ASSUME Untimed
    PROVE  /\ deadline' = deadline /\ ctx' = ctx /\ call' = call
           /\ pc' = pc \/ pc \in {"idle", "send", "read"}
<1> USE DEF conn, net, control, objects, watchers
<1>1. deadline' = deadline /\ ctx' = ctx /\ call' = call
  BY Zenon DEF Untimed, Finished, vars, NextRow, NextEOF, NextFetch, RowsCloseDone, StmtClose, ConnClose,
     Send, SendFail, ReadStatus, ReadRows, ReadMore, ReadLob, ReadFail, WatcherExits, LinkDown, ServerAnswers
<1>2. pc' = pc \/ pc = "idle" \/ pc = "send" \/ pc = "read"
  BY Zenon DEF Untimed, Finished, vars, NextRow, NextEOF, NextFetch, RowsCloseDone, StmtClose, ConnClose,
     Send, SendFail, ReadStatus, ReadRows, ReadMore, ReadLob, ReadFail, WatcherExits, LinkDown, ServerAnswers
<1> QED BY <1>1, <1>2

\* The deadlines are those of drains and of contexts that have ended.
LEMMA DeadlinesKeep ==
    ASSUME CallerTypes, Control, WatcherTypes, Numbers, Deadlines, [Next]_vars
    PROVE  Deadlines'
<1> USE DEF conn, net, control, objects, watchers
<1>0. /\ deadline \in {"none", "drain", "past"} /\ ctx \in [Calls -> Contexts] /\ call \in 0..MaxCalls
      /\ MaxCalls \in Nat
  BY MaxCallsAssumption DEF Numbers, WatcherTypes, CallerTypes
<1>d. /\ deadline = "drain" => pc = "drain"
      /\ deadline = "past" /\ pc # "drain" => \E j \in Calls : ctx[j] = "done"
      /\ \A j \in Calls : j > call => ctx[j] = "unused"
  BY DEF Deadlines
<1>1. CASE Untimed
  <2>1. /\ deadline' = deadline /\ ctx' = ctx /\ call' = call
        /\ pc' = pc \/ pc \in {"idle", "send", "read"}
    BY <1>1, UntimedIs
  <2> QED BY <1>d, <2>1 DEF Deadlines
<1>2. CASE Exec \/ Query \/ SessionSQL \/ LobFetch
  <2>1. NewContext({"background", "live"}) \/ NewContext({"background"})
    BY <1>2, Zenon DEF Exec, Query, Execute, SessionSQL, LobFetch
  <2>2. {"background", "live"} \in SUBSET {"background", "live"} /\ {"background"} \in SUBSET {"background", "live"}
    OBVIOUS
  <2>3. /\ call' = call + 1 /\ call + 1 \in Calls
        /\ \E c \in {"background", "live"} : ctx' = [ctx EXCEPT ![call + 1] = c]
    BY <2>1, <2>2, NewContextIs
  <2>4. deadline' = deadline /\ pc = "idle"
    BY <1>2, Zenon DEF Exec, Query, Execute, SessionSQL, LobFetch, MayStart
  <2>5. deadline' = "past" => \E j \in Calls : ctx'[j] = "done"
    <3>1. SUFFICES ASSUME deadline = "past"
                   PROVE  \E j \in Calls : ctx'[j] = "done"
      BY <2>4
    <3>2. PICK j \in Calls : ctx[j] = "done"
      BY <1>d, <2>4, <3>1
    <3>3. j # call + 1
      BY <1>0, <1>d, <3>2
    <3>4. ctx'[j] = ctx[j]
      BY <1>0, <2>3, <3>3
    <3> QED BY <3>2, <3>4
  <2>6. \A j \in Calls : j > call' => ctx'[j] = "unused"
    <3>1. SUFFICES ASSUME NEW j \in Calls, j > call + 1
                   PROVE  ctx'[j] = "unused"
      BY <2>3
    <3>2. j # call + 1 /\ j > call /\ j \in Int
      BY <1>0, <3>1 DEF Calls
    <3>3. ctx'[j] = ctx[j]
      BY <1>0, <2>3, <3>2
    <3> QED BY <1>d, <3>2, <3>3
  <2>7. deadline' # "drain"
    BY <1>d, <2>4
  <2> QED BY <2>5, <2>6, <2>7 DEF Deadlines
<1>3. CASE RowsClose \/ Drained \/ DrainFail \/ SendCancel
  <2>1. ctx' = ctx /\ call' = call
    BY <1>3, Zenon DEF RowsClose, Drained, DrainFail, SendCancel
  <2>2. deadline' = "none" \/ (deadline' = "drain" /\ pc' = "drain")
    BY <1>3, Zenon DEF RowsClose, Drained, DrainFail, SendCancel, ClearDeadline
  <2> QED BY <1>d, <2>1, <2>2 DEF Deadlines
<1>4. CASE SendCancelFail
  <2>1. ctx' = ctx /\ call' = call /\ pc = "cancel"
    BY <1>4, Zenon DEF SendCancelFail
  <2>2. deadline' = deadline \/ (deadline' = "drain" /\ pc' = "drain")
    BY <1>4, Zenon DEF SendCancelFail
  <2> QED BY <1>d, <2>1, <2>2 DEF Deadlines
<1>5. CASE Finish
  <2>1. ctx' = ctx /\ call' = call /\ pc = "finish"
    BY <1>5, Zenon DEF Finish
  <2>2. deadline' = deadline \/ deadline' = "none"
    BY <1>5, Zenon DEF Finish
  <2> QED BY <1>d, <2>1, <2>2 DEF Deadlines
<1>6. CASE WatcherFires
  <2>1. ctx' = ctx /\ call' = call /\ pc' = pc /\ deadline' = "past"
    BY <1>6, Zenon DEF WatcherFires
  <2>2. \E j \in Calls : ctx[j] = "done"
    BY <1>6, Zenon DEF WatcherFires, Fires
  <2> QED BY <1>d, <2>1, <2>2 DEF Deadlines
<1>7. CASE Cancel
  <2>1. deadline' = deadline /\ call' = call /\ pc' = pc
    BY <1>7, Zenon DEF Cancel
  <2>2. PICK j \in Calls : ctx[j] = "live" /\ ctx' = [ctx EXCEPT ![j] = "done"]
    BY <1>7, Zenon DEF Cancel
  <2>3. ctx'[j] = "done"
    BY <1>0, <2>2
  <2>4. \A i \in Calls : i > call' => ctx'[i] = "unused"
    BY <1>0, <1>d, <2>1, <2>2
  <2> QED BY <1>d, <2>1, <2>3, <2>4 DEF Deadlines
<1>8. CASE DrainExpires
  <2>1. deadline = "drain" /\ deadline' = "past" /\ ctx' = ctx /\ call' = call /\ pc' = pc
    BY <1>8, Zenon DEF DrainExpires
  <2> QED BY <1>d, <2>1 DEF Deadlines
<1>9. \/ Untimed \/ Exec \/ Query \/ SessionSQL \/ LobFetch \/ RowsClose \/ Drained \/ DrainFail \/ SendCancel
      \/ SendCancelFail \/ Finish \/ WatcherFires \/ Cancel \/ DrainExpires
  BY Zenon DEF Next, ClientStep, NewMethod, WatcherStep, Environment, Untimed
<1> QED BY <1>1, <1>2, <1>3, <1>4, <1>5, <1>6, <1>7, <1>8, <1>9

-----------------------------------------------------------------------------
(* Theorems for every way of interleaving.                                 *)

\* A new connection is in order.
LEMMA InitInv == Init => IInv
<1> SUFFICES ASSUME Init
             PROVE  IInv
  OBVIOUS
<1> USE DEF Init
<1>m. MaxCalls \in Nat
  BY MaxCallsAssumption
<1>1. CallerTypes
  BY <1>m DEF CallerTypes, Steps, Methods, Results
<1>2. WatcherTypes
  BY DEF WatcherTypes, Contexts, Watches
<1>3. Flags /\ Numbers /\ StmtTypes
  BY DEF Flags, Numbers, StmtTypes
<1>4. RowTypes
  BY DEF RowTypes, ResultSet, NoRows
<1>5. NetTypes
  BY DEF NetTypes, Nothing
<1>6. TypeOK
  BY <1>1, <1>2, <1>3, <1>4, <1>5, TypesAre DEF Types
<1>7. Control
  BY DEF Control
<1>8. Wire
  BY DEF Wire, Nothing
<1>9. Deadlines
  BY DEF Deadlines
<1> QED BY <1>6, <1>7, <1>8, <1>9 DEF IInv

\* Every step preserves the invariant.
LEMMA StepInv == IInv /\ [Next]_vars => IInv'
<1> SUFFICES ASSUME IInv, [Next]_vars
             PROVE  IInv'
  OBVIOUS
<1>0. /\ CallerTypes /\ WatcherTypes /\ Flags /\ Numbers /\ StmtTypes /\ RowTypes /\ NetTypes
      /\ Control /\ Wire /\ Deadlines
  BY TypesAre, Zenon DEF IInv, Types
<1>1. CallerTypes' /\ Control'
  BY <1>0, CallerKeeps
<1>2. WatcherTypes' /\ Flags' /\ Numbers' /\ StmtTypes' /\ RowTypes'
  BY <1>0, WatchersKeep, FlagsKeep, NumbersKeep, StmtsKeep, RowsKeep
<1>3. NetTypes' /\ Wire'
  BY <1>0, NetKeeps
<1>4. Deadlines'
  BY <1>0, DeadlinesKeep
<1>5. Types'
  BY <1>1, <1>2, <1>3, Zenon DEF Types
<1>6. TypeOK'
  BY <1>5, TypesAre, PTL
<1> QED BY <1>1, <1>3, <1>4, <1>6, Zenon DEF IInv

\* The invariant holds in every state of a session.
THEOREM Invariance == Spec => []IInv
BY InitInv, StepInv, PTL DEF Spec

\* The variables keep their types.
THEOREM TypeCorrect == Spec => []TypeOK
<1>1. IInv => TypeOK
  BY DEF IInv
<1> QED BY <1>1, Invariance, PTL

\* Whatever the method, however it ended, and whatever is interleaved with it:
\* no answer waits on a usable connection for the next method to read.
THEOREM NothingIsLeftOver == Spec => []NoLeftovers
<1>1. IInv => NoLeftovers
  BY DEF IInv, Wire, NoLeftovers
<1> QED BY <1>1, Invariance, PTL

\* No ordinary read is cut short by the ten seconds of an earlier cancel.
THEOREM ReadsAreUntimed == Spec => []ReadsAreNotTimed
<1>1. IInv => ReadsAreNotTimed
  BY DEF IInv, Deadlines, ReadsAreNotTimed
<1> QED BY <1>1, Invariance, PTL

-----------------------------------------------------------------------------
(* Result sets that are not interleaved with other requests.               *)

\* The steps of the watchers, of the contexts, of the clock and of the link.
Bystander == WatcherFires \/ WatcherExits \/ Cancel \/ DrainExpires \/ LinkDown \/ Finished \/ UNCHANGED vars

\* They leave the caller, the objects, the messages and the server alone.
LEMMA BystanderIs ==
    ASSUME Bystander
    PROVE  /\ control' = control /\ objects' = objects
           /\ ask' = ask /\ ans' = ans /\ openReqs' = openReqs
           /\ requestNo' = requestNo /\ bad' = bad /\ closed' = closed
BY Zenon DEF Bystander, Finished, vars, conn, net, WatcherFires, WatcherExits, Cancel, DrainExpires, LinkDown

\* The beginning of a method.
Starts == Exec \/ Query \/ SessionSQL \/ LobFetch \/ NextFetch \/ RowsClose \/ StmtClose

\* The methods that are one step.
Immediate == NextRow \/ NextEOF \/ RowsCloseDone \/ ConnClose

\* A method begins between others and sends nothing yet.  Whatever it is, execute
\* cancels the request that its statement has open before it sends its own.
LEMMA StartIs ==
    ASSUME Starts
    PROVE  /\ pc = "idle" /\ pc' \in {"send", "cancel"}
           /\ openKeep' = openKeep /\ reqNo' = reqNo /\ lobReq' = lobReq
           /\ ask' = ask /\ ans' = ans /\ openReqs' = openReqs
           /\ requestNo' = requestNo /\ bad' = bad /\ closed' = closed
           /\ pc' = "send" /\ op' \in {"exec", "query"} => ~openKeep[stmt']
           /\ op' = "lob" => Keep
           /\ rows' = rows \/ RowsClose
           /\ op' = "next" <=> NextFetch
           /\ op' = "rclose" <=> RowsClose
<1> USE DEF conn, net, objects
<1>1. CASE Exec \/ Query
  <2>1. PICK s \in Stmts, o \in {"exec", "query"} : Execute(o, s)
    BY <1>1 DEF Exec, Query
  <2>2. /\ pc = "idle" /\ op' = o /\ stmt' = s /\ pc' = IF openKeep[s] THEN "cancel" ELSE "send"
        /\ conn' = conn /\ objects' = objects /\ net' = net
    BY <2>1, Zenon DEF Execute, MayStart
  <2>3. ~NextFetch /\ ~RowsClose
    BY <2>2 DEF NextFetch, RowsClose
  <2> QED BY <2>2, <2>3
<1>2. CASE SessionSQL
  <2>1. op' = "session" /\ pc' = "send" /\ pc = "idle" /\ conn' = conn /\ objects' = objects /\ net' = net
    BY <1>2, Zenon DEF SessionSQL, MayStart
  <2>2. ~NextFetch /\ ~RowsClose
    BY <2>1 DEF NextFetch, RowsClose
  <2> QED BY <2>1, <2>2
<1>3. CASE LobFetch
  <2>1. /\ op' = "lob" /\ pc' = "send" /\ pc = "idle" /\ Keep /\ conn' = conn /\ net' = net
        /\ openKeep' = openKeep /\ reqNo' = reqNo /\ rows' = rows /\ lobReq' = lobReq
    BY <1>3, Zenon DEF LobFetch, MayStart
  <2>2. ~NextFetch /\ ~RowsClose
    BY <2>1 DEF NextFetch, RowsClose
  <2> QED BY <2>1, <2>2
<1>4. CASE NextFetch
  <2>1. op' = "next" /\ pc' = "send" /\ pc = "idle" /\ conn' = conn /\ objects' = objects /\ net' = net
    BY <1>4, Zenon DEF NextFetch
  <2>2. ~RowsClose
    BY <2>1 DEF RowsClose
  <2> QED BY <1>4, <2>1, <2>2
<1>5. CASE RowsClose
  <2>1. /\ op' = "rclose" /\ pc' = "cancel" /\ pc = "idle" /\ net' = net
        /\ requestNo' = requestNo /\ bad' = bad /\ closed' = closed
        /\ openKeep' = openKeep /\ reqNo' = reqNo /\ lobReq' = lobReq
    BY <1>5, Zenon DEF RowsClose
  <2>2. ~NextFetch
    BY <2>1 DEF NextFetch
  <2> QED BY <1>5, <2>1, <2>2
<1>6. CASE StmtClose
  <2>1. op' = "sclose" /\ pc' = "cancel" /\ pc = "idle" /\ conn' = conn /\ objects' = objects /\ net' = net
    BY <1>6, Zenon DEF StmtClose
  <2>2. ~NextFetch /\ ~RowsClose
    BY <2>1 DEF NextFetch, RowsClose
  <2> QED BY <2>1, <2>2
<1> QED BY <1>1, <1>2, <1>3, <1>4, <1>5, <1>6, Zenon DEF Starts

\* A method of one step stays between others; only Rows' methods change a result set.
LEMMA ImmediateIs ==
    ASSUME Immediate
    PROVE  /\ pc = "idle" /\ pc' = pc /\ op' = op /\ stmt' = stmt /\ tgt' = tgt
           /\ openKeep' = openKeep /\ reqNo' = reqNo /\ lobReq' = lobReq
           /\ ask' = ask /\ ans' = ans /\ openReqs' = openReqs
           /\ requestNo' = requestNo
           /\ bad' = bad /\ (closed' \/ closed' = closed)
BY Zenon DEF conn, net, objects, Immediate, NextRow, NextEOF, RowsCloseDone, ConnClose

\* The steps of a session, in the order they are looked at.
LEMMA KindsOfSteps ==
    ASSUME [Next]_vars
    PROVE  \/ Bystander \/ Starts \/ Immediate \/ Send \/ SendFail
           \/ ReadStatus \/ ReadRows \/ ReadMore \/ ReadLob \/ ReadFail
           \/ SendCancel \/ SendCancelFail \/ Drained \/ DrainFail \/ Finish \/ ServerAnswers
BY Zenon DEF Next, ClientStep, NewMethod, WatcherStep, Environment, Bystander, Starts, Immediate

\* A method that leaves is not at a socket step.
LEMMA LeavingIs ==
    ASSUME NEW e, Leave(e)
    PROVE  /\ pc' \in {"finish", "idle"} /\ op' \in {op, "none"}
           /\ pc' = "finish" => op \in {"exec", "query", "lob"} /\ op' = op /\ res' = e
           /\ pc' = "idle" => op' = "none"
BY Leaving

\* The end of runCancelable: the caller goes on, or a LOB does.
LEMMA FinishIs ==
    ASSUME Finish
    PROVE  /\ pc = "finish"
           /\ \/ pc' = "idle" /\ op' = "none" /\ ~MoreToFetch
              \/ pc' = "send" /\ op' = op /\ op = "lob" /\ res = "more" /\ tgt' = tgt
           /\ stmt' = stmt /\ objects' = objects /\ net' = net
           /\ requestNo' = requestNo /\ bad' = bad /\ closed' = closed
<1>1. /\ pc = "finish" /\ stmt' = stmt /\ objects' = objects /\ net' = net
      /\ requestNo' = requestNo /\ bad' = bad /\ closed' = closed
  BY Zenon DEF Finish
<1>2. CASE MoreToFetch
  <2>1. pc' = "send" /\ op' = op /\ tgt' = tgt
    BY <1>2, Zenon DEF Finish
  <2> QED BY <1>1, <1>2, <2>1 DEF MoreToFetch
<1>3. CASE ~MoreToFetch
  <2>1. pc' = "idle" /\ op' = "none"
    BY <1>3, Zenon DEF Finish, Return
  <2> QED BY <1>1, <1>3, <2>1
<1> QED BY <1>2, <1>3

\* Every step keeps what is known between a request and its answer.
LEMMA AwaitingKeeps ==
    ASSUME CallerTypes, Control, Numbers, StmtTypes, RowTypes, NetTypes, Wire, Awaiting, [Next]_vars
    PROVE  Awaiting'
<1> USE DEF conn, net, control, objects
<1>0. /\ openKeep \in [Stmts -> BOOLEAN] /\ reqNo \in [Stmts -> Nat] /\ stmt \in Stmts
      /\ pc \in Steps /\ op \in Methods /\ requestNo \in Nat
  BY DEF StmtTypes, CallerTypes, Numbers
<1>a. /\ pc = "read" /\ ask # Nothing =>
           /\ ask.req = requestNo
           /\ ask.kind = "select" => op \in {"query", "lob"} /\ (op = "lob" => lobReq = requestNo)
           /\ ask.kind = "dml" => op \in {"exec", "session"}
           /\ ask.kind # "cancel"
      /\ pc = "read" /\ ans # Nothing => ans.req = requestNo
      /\ pc = "read" /\ op = "query" => reqNo[stmt] = requestNo /\ (Keep => openKeep[stmt])
      /\ pc = "send" /\ op \in {"exec", "query"} => ~openKeep[stmt]
      /\ op = "lob" => Keep
  BY DEF Awaiting
<1>w. /\ ans # Nothing => ask = Nothing
      /\ Usable /\ pc \notin {"read", "drain"} => ask = Nothing /\ ans = Nothing
  BY DEF Wire
<1>c. pc = "send" => op \in {"exec", "query", "session", "lob", "next"}
  BY DEF Control
\* What a query has noted when it begins to wait.
<1>q. ASSUME BuildRequest, RememberRequest, op = "query"
      PROVE  reqNo'[stmt] = requestNo' /\ (Keep => openKeep'[stmt])
  <2>1. reqNo' = [reqNo EXCEPT ![stmt] = requestNo']
    BY <1>q DEF RememberRequest
  <2>2. openKeep' = [openKeep EXCEPT ![stmt] = (Keep /\ op = "query")]
    BY <1>q, Zenon DEF BuildRequest
  <2>3. Keep => openKeep'[stmt] = (Keep /\ op = "query")
    BY <1>0, <2>2, Zenon
  <2> QED BY <1>0, <1>q, <2>1, <2>3
<1>1. CASE Bystander
  <2>1. /\ pc' = pc /\ op' = op /\ stmt' = stmt /\ openKeep' = openKeep /\ reqNo' = reqNo /\ lobReq' = lobReq
        /\ ask' = ask /\ ans' = ans /\ requestNo' = requestNo
    BY <1>1, BystanderIs, Zenon
  <2> QED BY <1>a, <2>1, Zenon DEF Awaiting, Nothing
<1>2. CASE Starts
  <2>1. /\ pc' \in {"send", "cancel"} /\ openKeep' = openKeep
        /\ pc' = "send" /\ op' \in {"exec", "query"} => ~openKeep[stmt']
        /\ op' = "lob" => Keep
    BY <1>2, StartIs
  <2> QED BY <2>1 DEF Awaiting
<1>3. CASE Immediate
  <2>1. pc = "idle" /\ pc' = pc /\ op' = op
    BY <1>3, ImmediateIs
  <2> QED BY <1>a, <2>1 DEF Awaiting
<1>4. CASE Send
  <2>1. /\ pc = "send" /\ pc' = "read" /\ Usable /\ op' = op /\ stmt' = stmt /\ ans' = ans
        /\ ask' = Msg(RequestKind, requestNo') /\ BuildRequest /\ RememberRequest
    BY <1>4, Zenon DEF Send
  <2>2. ask'.kind = RequestKind /\ ask'.req = requestNo'
    BY <2>1 DEF Msg
  <2>3. ans' = Nothing
    BY <1>w, <2>1
  <2>4. RequestKind = "select" => op \in {"query", "lob"} /\ ~Continues
    BY DEF RequestKind
  <2>5. RequestKind = "dml" => op \in {"exec", "session"}
    BY <1>c, <2>1 DEF RequestKind, Continues
  <2>6. RequestKind # "cancel"
    BY DEF RequestKind
  <2>7. op = "lob" /\ ~Continues => lobReq' = requestNo'
    BY <2>1 DEF RememberRequest
  <2>8. op = "query" => reqNo'[stmt'] = requestNo' /\ (Keep => openKeep'[stmt'])
    BY <1>q, <2>1
  <2> QED BY <1>a, <2>1, <2>2, <2>3, <2>4, <2>5, <2>6, <2>7, <2>8 DEF Awaiting, Nothing
<1>5. CASE SendFail
  <2>1. pc = "send" /\ stmt' = stmt /\ ask' = ask /\ ans' = ans /\ BuildRequest
    BY <1>5, Zenon DEF SendFail
  <2>2. CASE Usable /\ RememberRequest /\ pc' = "read" /\ op' = op
    <3>1. ask' = Nothing /\ ans' = Nothing
      BY <1>w, <2>1, <2>2
    <3>2. op = "query" => reqNo'[stmt'] = requestNo' /\ (Keep => openKeep'[stmt'])
      BY <1>q, <2>1, <2>2
    <3> QED BY <1>a, <2>2, <3>1, <3>2 DEF Awaiting, Nothing
  <2>3. CASE Leave("io") \/ Leave("badconn")
    <3>1. pc' \in {"finish", "idle"} /\ op' \in {op, "none"}
      BY <2>3, LeavingIs
    <3> QED BY <1>a, <3>1 DEF Awaiting
  <2> QED BY <1>5, <2>2, <2>3, Zenon DEF SendFail
<1>6. CASE ReadStatus \/ ReadRows \/ ReadMore
  <2>1. Leave("ok") \/ Leave("td") \/ Leave("invalid")
    BY <1>6, Zenon DEF ReadStatus, ReadRows, ReadMore
  <2>2. pc' \in {"finish", "idle"} /\ op' \in {op, "none"}
    BY <2>1, LeavingIs
  <2> QED BY <1>a, <2>2 DEF Awaiting
<1>7. CASE ReadLob \/ ReadFail \/ SendCancel \/ SendCancelFail \/ DrainFail
  <2>1. \/ op' = op /\ pc' = "finish"
        \/ op' = op /\ pc' = "cancel"
        \/ op' = op /\ pc' = "drain"
        \/ \E e : Leave(e)
    BY <1>7, Zenon DEF ReadLob, ReadFail, SendCancel, SendCancelFail, DrainFail, CancelFailed
  <2>2. pc' \in {"finish", "idle", "cancel", "drain"} /\ op' \in {op, "none"}
    <3>1. CASE \E e : Leave(e)
      <4>1. PICK e : Leave(e)
        BY <3>1
      <4> QED BY <4>1, LeavingIs
    <3> QED BY <2>1, <3>1
  <2> QED BY <1>a, <2>2 DEF Awaiting
<1>8. CASE Drained
  <2>1. pc = "drain" /\ stmt' = stmt /\ ReleaseKeep
    BY <1>8, Zenon DEF Drained
  <2>2. CASE op \in {"exec", "query"}
    <3>1. pc' = "send" /\ op' = op
      BY <1>8, <2>2, Zenon DEF Drained
    <3>2. openKeep' = [openKeep EXCEPT ![stmt] = FALSE]
      BY <2>1, <2>2 DEF ReleaseKeep
    <3>3. openKeep'[stmt'] = FALSE
      BY <1>0, <2>1, <3>2, Zenon
    <3> QED BY <2>2, <3>1, <3>3 DEF Awaiting
  <2>3. CASE op \notin {"exec", "query"}
    <3>1. Leave(res) \/ Leave("td") \/ Leave("ok")
      BY <1>8, <2>3, Zenon DEF Drained
    <3>2. pc' \in {"finish", "idle"} /\ op' \in {op, "none"}
      BY <3>1, LeavingIs
    <3> QED BY <1>a, <3>2 DEF Awaiting
  <2> QED BY <2>2, <2>3
<1>9. CASE Finish
  <2>1. \/ pc' = "idle" /\ op' = "none"
        \/ pc' = "send" /\ op' = op /\ op = "lob"
    BY <1>9, FinishIs
  <2> QED BY <1>a, <2>1 DEF Awaiting
<1>10. CASE ServerAnswers
  <2>1. ask # Nothing /\ ask' = Nothing /\ ans'.req = ask.req /\ requestNo' = requestNo /\ pc' = pc
    BY <1>10, AnswerIs
  <2>2. op' = op /\ stmt' = stmt /\ openKeep' = openKeep /\ reqNo' = reqNo /\ lobReq' = lobReq
    BY <1>10, Zenon DEF ServerAnswers
  <2>3. Nothing' = Nothing
    BY DEF Nothing
  <2> QED BY <1>a, <2>1, <2>2, <2>3 DEF Awaiting
<1> QED BY <1>1, <1>2, <1>3, <1>4, <1>5, <1>6, <1>7, <1>8, <1>9, <1>10, KindsOfSteps, Zenon

\* A method that leaves is no longer Next, and Query only at its end.
LEMMA LeavingMethods ==
    ASSUME NEW e, Leave(e)
    PROVE  /\ op' \in {op, "none"} /\ op' # "next" /\ op' # "rclose"
           /\ op' = "query" => pc' = "finish"
<1>1. /\ pc' \in {"finish", "idle"} /\ op' \in {op, "none"}
      /\ pc' = "finish" => op \in {"exec", "query", "lob"} /\ op' = op
      /\ pc' = "idle" => op' = "none"
  BY LeavingIs
<1> QED BY <1>1

\* The result sets and the numbers a socket step other than a send or a read of
\* rows leaves alone.
LEMMA QuietIs ==
    ASSUME ReadStatus \/ ReadLob \/ ReadFail \/ SendCancel \/ SendCancelFail \/ Drained \/ DrainFail
    PROVE  /\ rows' = rows /\ requestNo' = requestNo /\ reqNo' = reqNo /\ lobReq' = lobReq
           /\ pc \in {"read", "cancel", "drain"}
           /\ (op' = op /\ tgt' = tgt) \/ (\E e : Leave(e))
<1> USE DEF conn, objects
<1>1. rows' = rows /\ requestNo' = requestNo /\ reqNo' = reqNo /\ lobReq' = lobReq
  BY Zenon DEF ReadStatus, ReadLob, ReadFail, SendCancel, SendCancelFail, Drained, DrainFail
<1>2. pc = "read" \/ pc = "cancel" \/ pc = "drain"
  BY Zenon DEF ReadStatus, ReadLob, ReadFail, SendCancel, SendCancelFail, Drained, DrainFail
<1>3. (op' = op /\ tgt' = tgt) \/ (\E e : Leave(e))
  BY Zenon DEF ReadStatus, ReadLob, ReadFail, SendCancel, SendCancelFail, Drained, DrainFail, CancelFailed
<1> QED BY <1>1, <1>2, <1>3

\* Every step keeps the result sets that are open at the latest request.
LEMMA ResultSetsKeep ==
    ASSUME Interleave = {},
           CallerTypes, Control, Numbers, StmtTypes, RowTypes, NetTypes, Wire, Awaiting, ResultSets, [Next]_vars
    PROVE  ResultSets'
<1> USE DEF conn, net, control, objects
<1>0. /\ reqNo \in [Stmts -> Nat] /\ stmt \in Stmts /\ rows \in [Calls -> ResultSet]
      /\ pc \in Steps /\ op \in Methods /\ requestNo \in Nat
  BY DEF StmtTypes, CallerTypes, Numbers, RowTypes
<1>r. /\ \A j \in Calls : rows[j].state = "open" =>
           rows[j].own = requestNo /\ rows[j].src = requestNo /\ reqNo[rows[j].stmt] = requestNo
      /\ op \in {"exec", "session", "lob"} \/ (op = "query" /\ pc # "finish") =>
           \A j \in Calls : rows[j].state # "open"
      /\ op = "next" => rows[tgt].state = "open"
  BY DEF ResultSets
<1>c. /\ pc = "idle" <=> op = "none"
      /\ pc = "send" => op \in {"exec", "query", "session", "lob", "next"}
      /\ op = "next" => tgt \in Calls
  BY MaxCallsAssumption DEF Control, CallerTypes, Calls
\* A step that leaves the result sets and the numbers alone and does not begin a
\* method.
<1>f. ASSUME rows' = rows, requestNo' = requestNo, reqNo' = reqNo,
             op' \in {op, "none"}, op' = "next" => tgt' = tgt,
             op' = "query" /\ pc' # "finish" => pc # "finish"
      PROVE  ResultSets'
  BY <1>r, <1>f DEF ResultSets
\* A step that closes result sets at most.
<1>g. ASSUME requestNo' = requestNo, reqNo' = reqNo, op' \in {"none", "rclose", "sclose"},
             \A i \in Calls : rows'[i].state = "open" =>
                /\ rows[i].state = "open"
                /\ rows'[i].own = rows[i].own /\ rows'[i].src = rows[i].src /\ rows'[i].stmt = rows[i].stmt
      PROVE  ResultSets'
  BY <1>r, <1>g DEF ResultSets
<1>1. CASE Bystander
  <2>1. /\ pc' = pc /\ op' = op /\ tgt' = tgt /\ reqNo' = reqNo /\ rows' = rows /\ requestNo' = requestNo
    BY <1>1, BystanderIs, Zenon
  <2> QED BY <1>f, <2>1
<1>2. CASE Starts
  <2>1. /\ requestNo' = requestNo /\ reqNo' = reqNo
        /\ rows' = rows \/ RowsClose
        /\ op' = "next" <=> NextFetch
        /\ op' = "rclose" <=> RowsClose
    BY <1>2, StartIs
  <2>2. CASE Exec \/ Query \/ SessionSQL \/ LobFetch
    <3>1. PICK o : MayStart(o)
      BY <2>2, Zenon DEF Exec, Query, Execute, SessionSQL, LobFetch
    <3>2. \A j \in Calls : rows[j].state # "open"
      BY <3>1 DEF MayStart
    <3>3. op' \in {"exec", "query", "session", "lob"}
      BY <2>2 DEF Exec, Query, Execute, SessionSQL, LobFetch
    <3>4. rows' = rows
      BY <2>1, <3>3
    <3> QED BY <3>2, <3>3, <3>4 DEF ResultSets
  <2>3. CASE NextFetch
    <3>1. PICK j \in Calls : rows[j].state = "open" /\ tgt' = j
      BY <2>3, Zenon DEF NextFetch
    <3>2. op' = "next" /\ rows' = rows
      BY <2>1, <2>3
    <3> QED BY <1>r, <2>1, <3>1, <3>2 DEF ResultSets
  <2>4. CASE RowsClose
    <3>1. PICK j \in Calls : rows' = [rows EXCEPT ![j].state = "closed"]
      BY <2>4, Zenon DEF RowsClose
    <3>2. op' = "rclose"
      BY <2>1, <2>4
    <3>3. \A i \in Calls : rows'[i].state = "open" => rows'[i] = rows[i]
      BY <1>0, <3>1 DEF ResultSet
    <3> QED BY <1>g, <2>1, <3>2, <3>3
  <2>5. CASE StmtClose
    <3>1. op' = "sclose" /\ rows' = rows
      BY <2>5, Zenon DEF StmtClose
    <3> QED BY <1>g, <2>1, <3>1
  <2> QED BY <1>2, <2>2, <2>3, <2>4, <2>5, Zenon DEF Starts
<1>3. CASE Immediate
  <2>1. pc = "idle" /\ op' = op /\ reqNo' = reqNo /\ requestNo' = requestNo
    BY <1>3, ImmediateIs
  <2>2. CASE ConnClose
    <3>1. rows' = rows
      BY <2>2, Zenon DEF ConnClose
    <3> QED BY <1>c, <1>g, <2>1, <3>1
  <2>3. CASE NextRow
    <3>1. PICK j \in Calls : rows' = [rows EXCEPT ![j].buf = "empty"]
      BY <2>3, Zenon DEF NextRow
    <3>2. \A i \in Calls : /\ rows'[i].state = rows[i].state /\ rows'[i].own = rows[i].own
                           /\ rows'[i].src = rows[i].src /\ rows'[i].stmt = rows[i].stmt
      BY <1>0, <3>1 DEF ResultSet
    <3> QED BY <1>c, <1>g, <2>1, <3>2
  <2>4. CASE NextEOF \/ RowsCloseDone
    <3>1. PICK j \in Calls : \/ rows' = [rows EXCEPT ![j].state = "done"]
                             \/ rows' = [rows EXCEPT ![j].state = "closed"]
      BY <2>4, Zenon DEF NextEOF, RowsCloseDone
    <3>2. \A i \in Calls : rows'[i].state = "open" => rows'[i] = rows[i]
      BY <1>0, <3>1 DEF ResultSet
    <3> QED BY <1>c, <1>g, <2>1, <3>2
  <2> QED BY <1>3, <2>2, <2>3, <2>4, Zenon DEF Immediate
<1>4. CASE Send \/ SendFail
  <2>1. pc = "send" /\ rows' = rows /\ BuildRequest
    BY <1>4, Zenon DEF Send, SendFail
  <2>2. (op' = op /\ tgt' = tgt) \/ (\E e : Leave(e))
    BY <1>4, Zenon DEF Send, SendFail
  <2>3. /\ op' \in {op, "none"}
        /\ op' = "next" => tgt' = tgt
    BY <2>2, LeavingMethods
  <2>4. CASE op = "next"
    <3>1. requestNo' = requestNo
      BY <2>1, <2>4 DEF BuildRequest, NextNumber, Continues
    <3>2. reqNo' = reqNo \/ RememberRequest
      BY <1>4, Zenon DEF Send, SendFail
    <3>3. reqNo' = reqNo
      BY <2>4, <3>2 DEF RememberRequest
    <3> QED BY <1>f, <2>1, <2>3, <2>4, <3>1, <3>3
  <2>5. CASE op # "next"
    <3>1. \A j \in Calls : rows[j].state # "open"
      BY <1>c, <1>r, <2>1, <2>5
    <3>2. op' # "next"
      BY <2>3, <2>5
    <3> QED BY <2>1, <3>1, <3>2 DEF ResultSets
  <2> QED BY <2>4, <2>5
<1>5. CASE ReadStatus \/ ReadLob \/ ReadFail \/ SendCancel \/ SendCancelFail \/ Drained \/ DrainFail
  <2>1. /\ rows' = rows /\ requestNo' = requestNo /\ reqNo' = reqNo
        /\ pc \in {"read", "cancel", "drain"}
        /\ (op' = op /\ tgt' = tgt) \/ (\E e : Leave(e))
    BY <1>5, QuietIs
  <2>2. op' \in {op, "none"} /\ (op' = "next" => tgt' = tgt)
    BY <2>1, LeavingMethods
  <2> QED BY <1>f, <2>1, <2>2
<1>6. CASE ReadRows
  <2>1. /\ pc = "read" /\ op = "query" /\ ans # Nothing /\ requestNo' = requestNo /\ reqNo' = reqNo
        /\ \E e : Leave(e)
    BY <1>6, Zenon DEF ReadRows
  <2>2. op' # "next" /\ op' \in {op, "none"} /\ (op' = "query" => pc' = "finish")
    BY <2>1, LeavingMethods
  <2>3. ans.req = requestNo /\ reqNo[stmt] = requestNo
    BY <2>1 DEF Awaiting
  <2>4. \A j \in Calls : rows[j].state # "open"
    BY <1>r, <2>1
  <2>5. CASE rows' = rows
    BY <2>1, <2>2, <2>4, <2>5 DEF ResultSets
  <2>6. CASE rows' = [rows EXCEPT ![call] = [state |-> "open", stmt |-> stmt,
                        buf |-> IF ans.kind = "end" THEN "end" ELSE "rows", src |-> ans.req, own |-> reqNo[stmt]]]
    <3>1. \A j \in Calls : rows'[j].state = "open" => rows'[j].own = requestNo /\ rows'[j].src = requestNo /\ rows'[j].stmt = stmt
      <4>1. \A j \in Calls : j # call => rows'[j] = rows[j]
        BY <1>0, <2>6
      <4>2. call \in Calls => rows'[call].own = requestNo /\ rows'[call].src = requestNo /\ rows'[call].stmt = stmt
        BY <1>0, <2>3, <2>6
      <4> QED BY <2>4, <4>1, <4>2
    <3> QED BY <2>1, <2>2, <2>3, <3>1 DEF ResultSets
  <2> QED BY <1>6, <2>5, <2>6, Zenon DEF ReadRows
<1>7. CASE ReadMore
  <2>1. /\ pc = "read" /\ op = "next" /\ ans # Nothing /\ requestNo' = requestNo /\ reqNo' = reqNo
        /\ \E e : Leave(e)
    BY <1>7, Zenon DEF ReadMore
  <2>2. op' = "none"
    BY <2>1, LeavingMethods
  <2>3. ans.req = requestNo
    BY <2>1 DEF Awaiting
  <2>4. PICK b : rows' = [rows EXCEPT ![tgt].buf = b, ![tgt].src = ans.req]
    BY <1>7, Zenon DEF ReadMore
  <2>5. \A j \in Calls : /\ rows'[j].state = rows[j].state /\ rows'[j].own = rows[j].own
                         /\ rows'[j].stmt = rows[j].stmt /\ rows'[j].src \in {rows[j].src, requestNo}
    BY <1>0, <2>3, <2>4 DEF ResultSet
  <2> QED BY <1>r, <2>1, <2>2, <2>5 DEF ResultSets
<1>8. CASE Finish
  <2>1. /\ pc = "finish" /\ rows' = rows /\ reqNo' = reqNo /\ requestNo' = requestNo
        /\ \/ pc' = "idle" /\ op' = "none"
           \/ pc' = "send" /\ op' = op /\ op = "lob"
    BY <1>8, FinishIs, Zenon
  <2> QED BY <1>f, <2>1
<1>9. CASE ServerAnswers
  <2>1. rows' = rows /\ requestNo' = requestNo /\ reqNo' = reqNo /\ op' = op /\ tgt' = tgt /\ pc' = pc
    BY <1>9, Zenon DEF ServerAnswers
  <2> QED BY <1>f, <2>1
<1> QED BY <1>1, <1>2, <1>3, <1>4, <1>5, <1>6, <1>7, <1>8, <1>9, KindsOfSteps, Zenon

\* No step makes a connection usable again.
LEMMA StaysUnusable ==
    ASSUME [Next]_vars, Usable'
    PROVE  Usable
<1> USE DEF conn
<1>1. CASE Bystander
  BY <1>1, BystanderIs DEF Usable
<1>2. CASE Starts
  BY <1>2, StartIs DEF Usable
<1>3. CASE Immediate
  BY <1>3, ImmediateIs DEF Usable
<1>4. CASE Finish
  BY <1>4, FinishIs DEF Usable
<1>5. CASE SendFail \/ ReadFail \/ SendCancelFail \/ DrainFail
  <2>1. bad'
    BY <1>5, Zenon DEF SendFail, ReadFail, SendCancelFail, DrainFail, MarkUnusable
  <2> QED BY <2>1 DEF Usable
<1>6. CASE Send \/ ReadStatus \/ ReadRows \/ ReadMore \/ ReadLob \/ SendCancel \/ Drained \/ ServerAnswers
  <2>1. bad' = bad /\ closed' = closed
    BY <1>6, Zenon DEF Send, ReadStatus, ReadRows, ReadMore, ReadLob, SendCancel, Drained, ServerAnswers
  <2> QED BY <2>1 DEF Usable
<1> QED BY <1>1, <1>2, <1>3, <1>4, <1>5, <1>6, KindsOfSteps, Zenon

\* The request an answer makes the server keep open is the latest one, and the
\* method that waits for the answer knows of it.
LEMMA OpenedIsTracked ==
    ASSUME CallerTypes, NetTypes, Wire, Awaiting, ServerRequests, Usable, ServerAnswers,
           NEW r \in openReqs' \ openReqs
    PROVE  Tracked(r)
<1>1. ask # Nothing
  BY Zenon DEF ServerAnswers
<1>2. PICK k : openReqs' = IF \/ ask.kind = "dml"
                              \/ ask.kind = "continue" /\ ask.req \notin openReqs THEN openReqs
                           ELSE IF ask.kind # "cancel" /\ (k = "data" \/ (k = "end" /\ Keep))
                             THEN openReqs \cup {ask.req} ELSE openReqs \ {ask.req}
  BY Zenon DEF ServerAnswers
<1>3. r = ask.req /\ ask.kind \notin {"dml", "cancel", "continue"}
  BY <1>2
<1>4. ask.kind = "select"
  BY <1>1, <1>3 DEF NetTypes, Wire
<1>5. pc = "read"
  <2>1. pc \in {"read", "drain"}
    BY <1>1 DEF Wire
  <2>2. pc # "drain"
    BY <1>1, <1>4 DEF ServerRequests, UnderWay, Msg
  <2> QED BY <2>1, <2>2
<1>6. ask.req = requestNo /\ op \in {"query", "lob"} /\ (op = "lob" => lobReq = requestNo)
  BY <1>1, <1>4, <1>5 DEF Awaiting
<1>7. CASE op = "lob"
  BY <1>3, <1>5, <1>6, <1>7 DEF Tracked, ReadByLob
<1>8. CASE op = "query" /\ ~Keep
  BY <1>3, <1>5, <1>6, <1>8 DEF Tracked, AwaitedByQuery
<1>9. CASE op = "query" /\ Keep
  <2>1. reqNo[stmt] = requestNo /\ openKeep[stmt] /\ stmt \in Stmts
    BY <1>5, <1>9 DEF Awaiting, CallerTypes
  <2> QED BY <1>3, <1>6, <2>1 DEF Tracked, KeptByStmt
<1> QED BY <1>6, <1>7, <1>8, <1>9

\* Whoever would end a request still will, or passes it on, until it has ended.
LEMMA TrackingKeeps ==
    ASSUME Interleave = {}, CallerTypes, Control, Numbers, StmtTypes, RowTypes, NetTypes, Wire,
           Awaiting, ResultSets, ServerRequests, [Next]_vars, Usable', NEW r \in openReqs'
    PROVE  Tracked(r)'
<1> USE DEF conn, net, control, objects
<1>0. /\ openKeep \in [Stmts -> BOOLEAN] /\ reqNo \in [Stmts -> Nat] /\ stmt \in Stmts
      /\ rows \in [Calls -> ResultSet] /\ pc \in Steps /\ op \in Methods /\ requestNo \in Nat
  BY DEF StmtTypes, CallerTypes, Numbers, RowTypes
<1>u. Usable
  BY StaysUnusable
<1>t. r \in openReqs => Tracked(r)
  BY <1>u DEF ServerRequests, UnderWay
<1>o. /\ op \in {"exec", "session", "lob"} \/ (op = "query" /\ pc # "finish") =>
           \A j \in Calls : rows[j].state # "open"
      /\ op = "next" => rows[tgt].state = "open"
  BY DEF ResultSets
<1>c. /\ pc = "idle" <=> op = "none"
      /\ pc = "send" => op \in {"exec", "query", "session", "lob", "next"}
      /\ op \in {"next", "rclose"} => tgt \in Calls
      /\ res = "more" => op = "lob" /\ lobStarted
  BY MaxCallsAssumption DEF Control, CallerTypes, Calls
\* A statement that keeps the request goes on keeping it.
<1>k. ASSUME openKeep' = openKeep, reqNo' = reqNo, KeptByStmt(r)
      PROVE  Tracked(r)'
  BY <1>k, Zenon DEF Tracked, KeptByStmt
\* So does a result set that reads it.
<1>j. ASSUME rows' = rows, reqNo' = reqNo, ReadByRows(r)
      PROVE  Tracked(r)'
  BY <1>j, Zenon DEF Tracked, ReadByRows
\* A result set that is still open and not at its end reads its request.
<1>i. ASSUME reqNo' = reqNo, ReadByRows(r),
             \A i \in Calls : rows[i].state = "open" /\ rows[i].buf # "end" =>
                rows'[i].state = "open" /\ rows'[i].buf # "end" /\ rows'[i].stmt = rows[i].stmt
      PROVE  Tracked(r)'
  BY <1>i DEF Tracked, ReadByRows
<1>1. CASE Bystander
  <2>1. /\ pc' = pc /\ op' = op /\ tgt' = tgt /\ stmt' = stmt /\ res' = res /\ requestNo' = requestNo
        /\ openKeep' = openKeep /\ reqNo' = reqNo /\ rows' = rows /\ lobReq' = lobReq /\ lobStarted' = lobStarted
        /\ openReqs' = openReqs
    BY <1>1, BystanderIs, Zenon
  <2> QED BY <1>t, <2>1 DEF Tracked, KeptByStmt, ReadByRows, CancelledByRows, AwaitedByQuery, ReadByLob
<1>2. CASE Starts
  <2>1. /\ pc = "idle" /\ openKeep' = openKeep /\ reqNo' = reqNo /\ openReqs' = openReqs
        /\ rows' = rows \/ RowsClose
        /\ op' = "rclose" <=> RowsClose
    BY <1>2, StartIs
  <2>2. op = "none"
    BY <1>c, <2>1
  <2>3. KeptByStmt(r) \/ ReadByRows(r)
    BY <1>t, <2>1, <2>2 DEF Tracked, CancelledByRows, AwaitedByQuery, ReadByLob
  <2>4. CASE RowsClose /\ ReadByRows(r)
    <3>1. PICK j \in Calls : rows' = [rows EXCEPT ![j].state = "closed"] /\ tgt' = j
      BY <2>4, Zenon DEF RowsClose
    <3>2. op' = "rclose"
      BY <2>1, <2>4
    <3>3. PICK i \in Calls : rows[i].state = "open" /\ rows[i].buf # "end" /\ reqNo[rows[i].stmt] = r
      BY <2>4 DEF ReadByRows
    <3>4. rows'[i].stmt = rows[i].stmt
      BY <1>0, <3>1 DEF ResultSet
    <3>5. CASE i = j
      <4>1. reqNo'[rows'[tgt'].stmt] = r
        BY <2>1, <3>1, <3>3, <3>4, <3>5
      <4> QED BY <3>2, <4>1, Zenon DEF Tracked, CancelledByRows
    <3>6. CASE i # j
      <4>1. rows'[i] = rows[i]
        BY <1>0, <3>1, <3>6
      <4>2. ~Keep
        BY <2>4 DEF ReadByRows
      <4> QED BY <2>1, <3>3, <4>1, <4>2 DEF Tracked, ReadByRows
    <3> QED BY <3>5, <3>6
  <2> QED BY <1>k, <1>j, <2>1, <2>3, <2>4
<1>3. CASE Immediate
  <2>1. pc = "idle" /\ openKeep' = openKeep /\ reqNo' = reqNo /\ openReqs' = openReqs
    BY <1>3, ImmediateIs
  <2>2. KeptByStmt(r) \/ ReadByRows(r)
    BY <1>c, <1>t, <2>1 DEF Tracked, CancelledByRows, AwaitedByQuery, ReadByLob
  <2>3. CASE ConnClose
    <3>1. closed'
      BY <2>3, Zenon DEF ConnClose
    <3> QED BY <3>1 DEF Usable
  <2>4. CASE NextRow
    <3>1. PICK j \in Calls : rows' = [rows EXCEPT ![j].buf = "empty"]
      BY <2>4, Zenon DEF NextRow
    <3>2. \A i \in Calls : rows[i].state = "open" /\ rows[i].buf # "end" =>
                rows'[i].state = "open" /\ rows'[i].buf # "end" /\ rows'[i].stmt = rows[i].stmt
      BY <1>0, <3>1 DEF ResultSet
    <3> QED BY <1>i, <1>k, <2>1, <2>2, <3>2
  <2>5. CASE NextEOF \/ RowsCloseDone
    <3>1. PICK j \in Calls : /\ \/ rows' = [rows EXCEPT ![j].state = "done"]
                                \/ rows' = [rows EXCEPT ![j].state = "closed"]
                             /\ rows[j].state = "open" => rows[j].buf = "end"
      BY <2>5 DEF NextEOF, RowsCloseDone
    <3>2. \A i \in Calls : rows[i].state = "open" /\ rows[i].buf # "end" =>
                rows'[i].state = "open" /\ rows'[i].buf # "end" /\ rows'[i].stmt = rows[i].stmt
      <4>1. SUFFICES ASSUME NEW i \in Calls, rows[i].state = "open", rows[i].buf # "end"
                     PROVE  rows'[i] = rows[i]
        OBVIOUS
      <4>2. i # j
        BY <3>1, <4>1
      <4> QED BY <1>0, <3>1, <4>2
    <3> QED BY <1>i, <1>k, <2>1, <2>2, <3>2
  <2> QED BY <1>3, <2>3, <2>4, <2>5, Zenon DEF Immediate
<1>4. CASE Send
  <2>1. /\ pc = "send" /\ pc' = "read" /\ op' = op /\ stmt' = stmt /\ tgt' = tgt /\ rows' = rows
        /\ openReqs' = openReqs /\ BuildRequest /\ RememberRequest
    BY <1>4, Zenon DEF Send
  <2>2. KeptByStmt(r) \/ ReadByRows(r) \/ ReadByLob(r)
    BY <1>c, <1>t, <2>1 DEF Tracked, CancelledByRows, AwaitedByQuery
  <2>3. CASE KeptByStmt(r)
    <3>1. PICK s \in Stmts : openKeep[s] /\ reqNo[s] = r
      BY <2>3 DEF KeptByStmt
    <3>2. CASE op \in {"exec", "query"}
      <4>1. s # stmt
        BY <2>1, <3>1, <3>2 DEF Awaiting
      <4>2. openKeep' = [openKeep EXCEPT ![stmt] = (Keep /\ op = "query")]
        BY <2>1, <3>2, Zenon DEF BuildRequest
      <4>3. reqNo' = [reqNo EXCEPT ![stmt] = requestNo']
        BY <2>1, <3>2, Zenon DEF RememberRequest
      <4>4. openKeep'[s] = openKeep[s] /\ reqNo'[s] = reqNo[s]
        BY <1>0, <4>1, <4>2, <4>3, Zenon
      <4> QED BY <3>1, <4>4, Zenon DEF Tracked, KeptByStmt
    <3>3. CASE op \notin {"exec", "query"}
      <4>1. openKeep' = openKeep /\ reqNo' = reqNo
        BY <2>1, <3>3 DEF BuildRequest, RememberRequest
      <4> QED BY <1>k, <2>3, <4>1
    <3> QED BY <3>2, <3>3
  <2>4. CASE ReadByRows(r)
    <3>1. op = "next"
      BY <1>c, <1>o, <2>1, <2>4 DEF ReadByRows
    <3>2. reqNo' = reqNo
      BY <2>1, <3>1 DEF RememberRequest
    <3> QED BY <1>j, <2>1, <2>4, <3>2
  <2>5. CASE ReadByLob(r)
    <3>1. op = "lob" /\ lobReq = r /\ lobStarted
      BY <2>1, <2>5 DEF ReadByLob
    <3>2. lobReq' = lobReq
      BY <2>1, <3>1 DEF RememberRequest, Continues
    <3> QED BY <2>1, <3>1, <3>2 DEF Tracked, ReadByLob
  <2> QED BY <2>2, <2>3, <2>4, <2>5
<1>5. CASE SendFail \/ ReadFail \/ SendCancelFail \/ DrainFail
  <2>1. bad'
    BY <1>5, Zenon DEF SendFail, ReadFail, SendCancelFail, DrainFail, MarkUnusable
  <2> QED BY <2>1 DEF Usable
<1>6. CASE ReadStatus
  <2>1. /\ pc = "read" /\ op \in {"exec", "session"}
        /\ openReqs' = openReqs /\ openKeep' = openKeep /\ reqNo' = reqNo /\ rows' = rows
    BY <1>6, Zenon DEF ReadStatus
  <2>2. KeptByStmt(r) \/ ReadByRows(r)
    BY <1>t, <2>1 DEF Tracked, CancelledByRows, AwaitedByQuery, ReadByLob
  <2> QED BY <1>k, <1>j, <2>1, <2>2
<1>7. CASE ReadRows
  <2>1. /\ pc = "read" /\ op = "query" /\ openReqs' = openReqs /\ openKeep' = openKeep /\ reqNo' = reqNo
    BY <1>7, Zenon DEF ReadRows
  <2>2. ~ReadByRows(r)
    BY <1>o, <2>1 DEF ReadByRows
  <2>3. KeptByStmt(r) \/ AwaitedByQuery(r)
    BY <1>t, <2>1, <2>2 DEF Tracked, CancelledByRows, ReadByLob
  <2>4. CASE AwaitedByQuery(r)
    <3>1. ~Keep /\ requestNo = r
      BY <2>4 DEF AwaitedByQuery
    <3>2. ans.kind # "end" /\ ans.kind # "error"
      BY <2>1, <3>1 DEF ServerRequests, UnderWay
    <3>3. rows' = [rows EXCEPT ![call] = [state |-> "open", stmt |-> stmt, buf |-> "rows",
                                          src |-> ans.req, own |-> reqNo[stmt]]]
      BY <1>7, <3>2 DEF ReadRows
    <3>4. call \in Calls
      BY <2>1, MaxCallsAssumption DEF Control, CallerTypes, Calls
    <3>5. rows'[call].state = "open" /\ rows'[call].buf = "rows" /\ rows'[call].stmt = stmt
      BY <1>0, <3>3, <3>4
    <3>6. reqNo[stmt] = requestNo
      BY <2>1 DEF Awaiting
    <3>7. reqNo'[rows'[call].stmt] = r
      BY <2>1, <3>1, <3>5, <3>6
    <3> QED BY <3>1, <3>4, <3>5, <3>7 DEF Tracked, ReadByRows
  <2> QED BY <1>k, <2>1, <2>3, <2>4
<1>8. CASE ReadMore
  <2>1. /\ pc = "read" /\ op = "next" /\ openReqs' = openReqs /\ openKeep' = openKeep /\ reqNo' = reqNo
    BY <1>8, Zenon DEF ReadMore
  <2>2. KeptByStmt(r) \/ ReadByRows(r)
    BY <1>t, <2>1 DEF Tracked, CancelledByRows, AwaitedByQuery, ReadByLob
  <2>3. CASE ReadByRows(r)
    <3>1. ~Keep
      BY <2>3 DEF ReadByRows
    <3>2. PICK i \in Calls : rows[i].state = "open" /\ rows[i].buf # "end" /\ reqNo[rows[i].stmt] = r
      BY <2>3 DEF ReadByRows
    <3>3. r = requestNo
      BY <3>2 DEF ResultSets
    <3>4. ans.kind # "end"
      BY <2>1, <3>1, <3>3 DEF ServerRequests, UnderWay
    <3>5. PICK b \in {"empty", "rows"} : rows' = [rows EXCEPT ![tgt].buf = b, ![tgt].src = ans.req]
      BY <1>8, <3>4, Zenon DEF ReadMore
    <3>6. \A j \in Calls : rows[j].state = "open" /\ rows[j].buf # "end" =>
                rows'[j].state = "open" /\ rows'[j].buf # "end" /\ rows'[j].stmt = rows[j].stmt
      BY <1>0, <3>5 DEF ResultSet
    <3> QED BY <1>i, <2>1, <2>3, <3>6
  <2> QED BY <1>k, <2>1, <2>2, <2>3
<1>9. CASE ReadLob
  <2>1. /\ pc = "read" /\ op = "lob" /\ op' = op /\ openReqs' = openReqs /\ openKeep' = openKeep /\ reqNo' = reqNo
        /\ lobReq' = lobReq /\ rows' = rows
        /\ pc' = IF ans.kind = "data" THEN "finish" ELSE "cancel"
        /\ res' = CASE ans.kind = "data" -> "more" [] ans.kind = "end" -> "ok" [] OTHER -> "td"
    BY <1>9, Zenon DEF ReadLob
  <2>2. pc' # "send" /\ (pc' = "finish" => res' = "more")
    BY <2>1
  <2>3. KeptByStmt(r) \/ ReadByRows(r) \/ ReadByLob(r)
    BY <1>t, <2>1 DEF Tracked, CancelledByRows, AwaitedByQuery
  <2>4. CASE ReadByLob(r)
    BY <2>1, <2>2, <2>4 DEF Tracked, ReadByLob
  <2> QED BY <1>k, <1>j, <2>1, <2>3, <2>4
<1>10. CASE SendCancel
  <2>1. /\ pc = "cancel" /\ pc' = "drain" /\ op' = op /\ tgt' = tgt /\ openReqs' = openReqs
        /\ openKeep' = openKeep /\ reqNo' = reqNo /\ rows' = rows /\ lobReq' = lobReq
    BY <1>10, Zenon DEF SendCancel
  <2>2. CASE CancelledByRows(r)
    BY <2>1, <2>2 DEF Tracked, CancelledByRows
  <2>3. CASE ReadByLob(r)
    BY <2>1, <2>3 DEF Tracked, ReadByLob
  <2>4. ~AwaitedByQuery(r)
    BY <2>1 DEF AwaitedByQuery
  <2> QED BY <1>k, <1>j, <1>t, <2>1, <2>2, <2>3, <2>4 DEF Tracked
<1>11. CASE Drained
  <2>1. /\ pc = "drain" /\ ans # Nothing /\ openReqs' = openReqs /\ reqNo' = reqNo /\ rows' = rows /\ ReleaseKeep
    BY <1>11, Zenon DEF Drained
  <2>2. CancelReq # r
    BY <2>1 DEF ServerRequests, UnderWay
  <2>3. ~CancelledByRows(r) /\ ~ReadByLob(r) /\ ~AwaitedByQuery(r)
    BY <2>1, <2>2 DEF CancelReq, CancelledByRows, ReadByLob, AwaitedByQuery
  <2>4. CASE KeptByStmt(r)
    <3>1. PICK s \in Stmts : openKeep[s] /\ reqNo[s] = r
      BY <2>4 DEF KeptByStmt
    <3>2. openKeep'[s] = openKeep[s]
      <4>1. CASE op = "lob"
        BY <2>1, <4>1 DEF ReleaseKeep
      <4>2. CASE op = "rclose"
        <5>1. openKeep' = [openKeep EXCEPT ![rows[tgt].stmt] = FALSE]
          BY <2>1, <4>2 DEF ReleaseKeep
        <5>2. s # rows[tgt].stmt
          BY <2>2, <3>1, <4>2 DEF CancelReq
        <5> QED BY <1>0, <5>1, <5>2, Zenon
      <4>3. CASE op # "lob" /\ op # "rclose"
        <5>1. openKeep' = [openKeep EXCEPT ![stmt] = FALSE]
          BY <2>1, <4>3 DEF ReleaseKeep
        <5>2. s # stmt
          BY <2>2, <3>1, <4>3 DEF CancelReq
        <5> QED BY <1>0, <5>1, <5>2, Zenon
      <4> QED BY <4>1, <4>2, <4>3
    <3>3. reqNo'[s] = r /\ openKeep'[s]
      BY <2>1, <3>1, <3>2, Zenon
    <3> QED BY <3>3, Zenon DEF Tracked, KeptByStmt
  <2> QED BY <1>j, <1>t, <2>1, <2>3, <2>4 DEF Tracked
<1>12. CASE Finish
  <2>1. /\ pc = "finish" /\ openReqs' = openReqs /\ openKeep' = openKeep /\ reqNo' = reqNo /\ rows' = rows
        /\ lobReq' = lobReq /\ lobStarted' = lobStarted
        /\ \/ pc' = "idle" /\ op' = "none" /\ ~MoreToFetch
           \/ pc' = "send" /\ op' = op /\ op = "lob" /\ res = "more"
    BY <1>12, FinishIs, Zenon
  <2>2. CASE ReadByLob(r)
    <3>1. op = "lob" /\ res = "more" /\ lobReq = r
      BY <2>1, <2>2 DEF ReadByLob
    <3>2. pc' = "send" /\ op' = "lob"
      BY <2>1, <3>1 DEF MoreToFetch
    <3>3. lobStarted'
      BY <1>c, <2>1, <3>1, Zenon
    <3>4. lobReq' = r
      BY <2>1, <3>1
    <3> QED BY <3>2, <3>3, <3>4 DEF Tracked, ReadByLob
  <2>3. ~CancelledByRows(r) /\ ~AwaitedByQuery(r)
    BY <2>1 DEF CancelledByRows, AwaitedByQuery, Control
  <2> QED BY <1>k, <1>j, <1>t, <2>1, <2>2, <2>3 DEF Tracked
<1>13. CASE ServerAnswers
  <2>1. Tracked(r)
    BY <1>13, <1>t, <1>u, OpenedIsTracked
  <2>2. /\ pc' = pc /\ op' = op /\ tgt' = tgt /\ res' = res /\ requestNo' = requestNo
        /\ openKeep' = openKeep /\ reqNo' = reqNo /\ rows' = rows /\ lobReq' = lobReq /\ lobStarted' = lobStarted
    BY <1>13, Zenon DEF ServerAnswers
  <2> QED BY <2>1, <2>2 DEF Tracked, KeptByStmt, ReadByRows, CancelledByRows, AwaitedByQuery, ReadByLob
<1> QED BY <1>1, <1>2, <1>3, <1>4, <1>5, <1>6, <1>7, <1>8, <1>9, <1>10, <1>11, <1>12, <1>13, KindsOfSteps, Zenon

\* What is under way stays in order.
LEMMA UnderWayKeeps ==
    ASSUME CallerTypes, Control, Numbers, NetTypes, Wire, Awaiting, UnderWay, [Next]_vars
    PROVE  UnderWay'
<1> USE DEF conn, net, control, objects
<1>w. /\ ans # Nothing => ask = Nothing
      /\ Usable /\ pc \notin {"read", "drain"} => ask = Nothing /\ ans = Nothing
  BY DEF Wire
<1>z. Nothing.kind = "none" /\ Nothing' = Nothing
  BY DEF Nothing
\* A step to nowhere but a read or a drain has nothing to show.
<1>f. ASSUME pc' \notin {"read", "drain"}
      PROVE  UnderWay'
  BY <1>f DEF UnderWay
\* Neither has one with nothing under way.
<1>g. ASSUME ask' = Nothing, ans' = Nothing
      PROVE  UnderWay'
  BY <1>g, <1>z DEF UnderWay
<1>1. CASE Bystander
  <2>1. /\ pc' = pc /\ op' = op /\ tgt' = tgt /\ stmt' = stmt /\ requestNo' = requestNo
        /\ reqNo' = reqNo /\ rows' = rows /\ lobReq' = lobReq
        /\ ask' = ask /\ ans' = ans /\ openReqs' = openReqs
    BY <1>1, BystanderIs, Zenon
  <2>2. CancelReq' = CancelReq
    BY <2>1, Zenon DEF CancelReq
  <2> QED BY <1>z, <2>1, <2>2 DEF UnderWay, Msg
<1>2. CASE Starts
  <2>1. pc' \in {"send", "cancel"}
    BY <1>2, StartIs
  <2> QED BY <1>f, <2>1
<1>3. CASE Immediate
  <2>1. pc' = "idle"
    BY <1>3, ImmediateIs
  <2> QED BY <1>f, <2>1
<1>4. CASE Send
  <2>1. pc = "send" /\ pc' = "read" /\ Usable /\ ans' = ans
    BY <1>4, Zenon DEF Send
  <2>2. ans' = Nothing
    BY <1>w, <2>1
  <2> QED BY <1>z, <2>1, <2>2 DEF UnderWay
<1>5. CASE SendFail
  <2>1. pc = "send" /\ ask' = ask /\ ans' = ans
    BY <1>5, Zenon DEF SendFail
  <2>2. Usable \/ (\E e : Leave(e))
    BY <1>5, Zenon DEF SendFail
  <2>3. CASE Usable
    BY <1>g, <1>w, <2>1, <2>3
  <2>4. CASE \E e : Leave(e)
    <3>1. pc' \in {"finish", "idle"}
      BY <2>4, LeavingIs
    <3> QED BY <1>f, <3>1
  <2> QED BY <2>2, <2>3, <2>4
<1>6. CASE ReadStatus \/ ReadRows \/ ReadMore \/ ReadLob \/ Drained
  <2>1. ans # Nothing /\ ans' = Nothing /\ ask' = ask
    BY <1>6, Zenon DEF ReadStatus, ReadRows, ReadMore, ReadLob, Drained
  <2> QED BY <1>g, <1>w, <2>1
<1>7. CASE ReadFail \/ DrainFail
  <2>1. pc' = "cancel" \/ (\E e : Leave(e))
    BY <1>7, Zenon DEF ReadFail, DrainFail, CancelFailed
  <2>2. pc' \in {"finish", "idle", "cancel"}
    BY <2>1, LeavingIs
  <2> QED BY <1>f, <2>2
<1>8. CASE SendCancel
  <2>1. /\ pc = "cancel" /\ pc' = "drain" /\ Usable /\ ask' = Msg("cancel", CancelReq) /\ ans' = ans
        /\ op' = op /\ tgt' = tgt /\ stmt' = stmt /\ reqNo' = reqNo /\ rows' = rows /\ lobReq' = lobReq
    BY <1>8, Zenon DEF SendCancel
  <2>2. CancelReq' = CancelReq
    BY <2>1, Zenon DEF CancelReq
  <2>3. ans' = Nothing
    BY <1>w, <2>1
  <2> QED BY <1>z, <2>1, <2>2, <2>3 DEF UnderWay, Msg
<1>9. CASE SendCancelFail
  <2>1. pc = "cancel" /\ ask' = ask /\ ans' = ans
    BY <1>9, Zenon DEF SendCancelFail
  <2>2. Usable \/ (\E e : Leave(e))
    BY <1>9, Zenon DEF SendCancelFail, CancelFailed
  <2>3. CASE Usable
    BY <1>g, <1>w, <2>1, <2>3
  <2>4. CASE \E e : Leave(e)
    <3>1. pc' \in {"finish", "idle"}
      BY <2>4, LeavingIs
    <3> QED BY <1>f, <3>1
  <2> QED BY <2>2, <2>3, <2>4
<1>10. CASE Finish
  <2>1. pc' \in {"idle", "send"}
    BY <1>10, FinishIs
  <2> QED BY <1>f, <2>1
<1>11. CASE ServerAnswers
  <2>1. /\ pc' = pc /\ op' = op /\ tgt' = tgt /\ stmt' = stmt /\ requestNo' = requestNo
        /\ reqNo' = reqNo /\ rows' = rows /\ lobReq' = lobReq /\ ask # Nothing /\ ask' = Nothing
    BY <1>11, Zenon DEF ServerAnswers
  <2>2. CancelReq' = CancelReq
    BY <2>1, Zenon DEF CancelReq
  <2>3. PICK k \in {"data", "end", "error"} :
          /\ ans' = Msg(k, ask.req)
          /\ openReqs' = IF \/ ask.kind = "dml"
                            \/ ask.kind = "continue" /\ ask.req \notin openReqs THEN openReqs
                         ELSE IF ask.kind # "cancel" /\ (k = "data" \/ (k = "end" /\ Keep))
                           THEN openReqs \cup {ask.req} ELSE openReqs \ {ask.req}
    BY <1>11, Zenon DEF ServerAnswers
  <2>4. ASSUME pc = "drain"
        PROVE  CancelReq \notin openReqs'
    <3>1. ask = Msg("cancel", CancelReq)
      BY <2>1, <2>4 DEF UnderWay
    <3>2. ask.kind = "cancel" /\ ask.req = CancelReq
      BY <3>1 DEF Msg
    <3> QED BY <2>3, <3>2
  <2>5. ASSUME ~Keep, pc = "read", ans'.kind \in {"end", "error"}, op \in {"query", "next"}
        PROVE  requestNo \notin openReqs'
    <3>1. ask.req = requestNo /\ ask.kind # "dml" /\ ask.kind # "cancel"
      BY <2>1, <2>5 DEF Awaiting
    <3>2. k # "data"
      BY <2>3, <2>5 DEF Msg
    <3> QED BY <2>3, <2>5, <3>1, <3>2
  <2> QED BY <1>z, <2>1, <2>2, <2>4, <2>5 DEF UnderWay
<1> QED BY <1>1, <1>2, <1>3, <1>4, <1>5, <1>6, <1>7, <1>8, <1>9, <1>10, <1>11, KindsOfSteps, Zenon

\* Every step keeps the result sets apart.
LEMMA ApartKeeps ==
    ASSUME Interleave = {}, IInv, Apart, [Next]_vars
    PROVE  Apart'
<1>0. /\ CallerTypes /\ WatcherTypes /\ Flags /\ Numbers /\ StmtTypes /\ RowTypes /\ NetTypes
      /\ Control /\ Wire
  BY TypesAre, Zenon DEF IInv, Types
<1>1. Awaiting /\ ResultSets /\ ServerRequests /\ UnderWay
  BY DEF Apart, ServerRequests
<1>2. Awaiting'
  BY <1>0, <1>1, AwaitingKeeps
<1>3. ResultSets'
  BY <1>0, <1>1, ResultSetsKeep
<1>4. UnderWay'
  BY <1>0, <1>1, UnderWayKeeps
<1>5. Usable' => \A r \in openReqs' : Tracked(r)'
  BY <1>0, <1>1, TrackingKeeps
<1>6. ServerRequests'
  BY <1>4, <1>5, Zenon DEF ServerRequests
<1> QED BY <1>2, <1>3, <1>6, Zenon DEF Apart

\* The strengthened invariant, where no request is interleaved with a result set.
LEMMA ApartInvariance ==
    ASSUME Interleave = {}
    PROVE  Spec => [](IInv /\ Apart)
<1>1. Init => IInv /\ Apart
  <2> SUFFICES ASSUME Init
               PROVE  Apart
    BY InitInv
  <2>1. Awaiting
    BY DEF Init, Awaiting
  <2>2. ResultSets
    BY DEF Init, ResultSets, NoRows
  <2>3. ServerRequests
    BY DEF Init, ServerRequests, UnderWay, Nothing
  <2> QED BY <2>1, <2>2, <2>3 DEF Apart
<1>2. IInv /\ Apart /\ [Next]_vars => (IInv /\ Apart)'
  BY StepInv, ApartKeeps
<1> QED BY <1>1, <1>2, PTL DEF Spec

\* Where the caller starts no other request while a result set is open, as
\* database/sql sees to outside transactions, every result set holds the rows of
\* its own request, for all that fetchMore names the connection's latest one.
THEOREM RowsStayTheirOwn ==
    ASSUME Interleave = {}
    PROVE  Spec => []RowsAreTheirOwn
<1>1. IInv /\ Apart => RowsAreTheirOwn
  BY DEF Apart, ResultSets, RowsAreTheirOwn
<1> QED BY <1>1, ApartInvariance, PTL

\* Under the same condition no request is forgotten: a usable connection whose
\* statements and result sets are closed has left nothing open on the server,
\* whichever of its calls failed, were cancelled or were answered with an error.
THEOREM NothingIsKept ==
    ASSUME Interleave = {}
    PROVE  Spec => []ServerKeepsNothing
<1>1. IInv /\ Apart => ServerKeepsNothing
  <2> SUFFICES ASSUME IInv, Apart, pc = "idle", Usable, \A j \in Calls : rows[j].state # "open",
                      \A s \in Stmts : ~openKeep[s], NEW r \in openReqs
               PROVE  FALSE
    BY DEF ServerKeepsNothing
  <2>1. op = "none"
    BY DEF IInv, Control
  <2>2. Tracked(r)
    BY DEF Apart, ServerRequests
  <2> QED BY <2>1, <2>2 DEF Tracked, KeptByStmt, ReadByRows, CancelledByRows, AwaitedByQuery, ReadByLob
<1> QED BY <1>1, ApartInvariance, PTL
=============================================================================
