----------------------------- MODULE Transaction -----------------------------
(***************************************************************************)
(* Transactions of one pooled connection: Begin, Commit and Rollback, the  *)
(* statements between them, and what the server does with each.            *)
(*                                                                         *)
(* The connection keeps `currentTransaction' and the flag that every       *)
(* response carries in its header, `transactionInProgress'.  The server    *)
(* ends a transaction by itself when a statement in it fails, so the two   *)
(* sides may come to disagree about what is open.  A request and its       *)
(* response are one step; the link may be lost before or after the server  *)
(* executed it.                                                            *)
(***************************************************************************)
EXTENDS Integers, FiniteSets

CONSTANTS TModes,     \* values of the TMODE option
          Semantics,  \* default semantics a server announces: 'A' or 'T'
          MaxTxs,     \* bound: transactions begun
          MaxStmts,   \* bound: statements executed
          MaxNest     \* bound: nested BTs

ASSUME ModesAssumption == TModes \subseteq {"DEFAULT", "TERA", "ANSI"} /\ TModes # {}
ASSUME SemanticsAssumption == Semantics \subseteq {"A", "T"} /\ Semantics # {}
ASSUME BoundsAssumption == MaxTxs \in Nat /\ MaxStmts \in Nat /\ MaxNest \in Nat \ {0}

Txs == 1..MaxTxs
Stmts == 1..MaxStmts
NoTx == 0

VARIABLES
    \* the connection
    mode, bad, inProgress, current,
    \* the caller, through database/sql
    user,      \* the transaction it holds
    pc,        \* "idle", or "commit" inside Commit's loop
    outcome,   \* what Commit or Rollback reported of each transaction
    refused,   \* transactions in which a statement failed
    tried,     \* statements sent so far
    done,      \* statements reported done, with their transactions
    \* the server
    nest,      \* open BTs; in ANSI mode 1 while a transaction is open
    work,      \* statements of the open transaction
    stored     \* statements that have been committed

connection == <<mode, bad, inProgress, current>>
caller == <<user, pc, outcome, refused, tried, done>>
server == <<nest, work, stored>>
vars == <<connection, caller, server>>

\* authenticate: how TMODE and the server's default decide the mode.
TransactionMode(tmode, semantics) ==
    IF tmode = "ANSI" \/ (tmode = "DEFAULT" /\ semantics = "A") THEN "ANSI" ELSE "TERA"

Init ==
    /\ \E tmode \in TModes, semantics \in Semantics : mode = TransactionMode(tmode, semantics)
    /\ bad = FALSE /\ inProgress = FALSE /\ current = NoTx
    /\ user = NoTx /\ pc = "idle"
    /\ outcome = [t \in Txs |-> "unused"]
    /\ refused = {} /\ tried = 0 /\ done = {}
    /\ nest = 0 /\ work = {} /\ stored = {}

StmtsOf(t) == {d.stmt : d \in {e \in done : e.tx = t}}

-----------------------------------------------------------------------------
(* The server's part of a request.                                         *)

\* A request: SQL of the driver's own, or the caller's statement s.
Sql(text) == [text |-> text, stmts |-> {}]
Statement(s) == [text |-> "statement", stmts |-> {s}]

Depth(q) ==
    CASE q.text = "BT" -> nest + 1
      [] q.text = "ET" -> nest - 1
      [] q.text \in {"COMMIT WORK", "ABORT", "ROLLBACK WORK"} -> 0
      [] q.text = "statement" -> IF mode = "ANSI" THEN 1 ELSE nest
      [] OTHER -> nest

Stored(q) ==
    IF Depth(q) > 0 \/ q.text \in {"ABORT", "ROLLBACK WORK"} THEN stored
    ELSE stored \cup work \cup q.stmts

Executes(q) ==
    /\ nest' = Depth(q)
    /\ work' = IF nest' = 0 THEN {} ELSE work \cup q.stmts
    /\ stored' = Stored(q)

\* A failure rolls back the whole transaction; an ANSI error may leave it.
Refuses ==
    /\ nest' \in IF mode = "ANSI" THEN {nest, 0} ELSE {0}
    /\ work' = IF nest' = 0 THEN {} ELSE work
    /\ UNCHANGED stored

\* The session is gone, and with it what it had open.
SessionLost(q) ==
    /\ nest' = 0 /\ work' = {}
    /\ stored' \in {stored, Stored(q)}

-----------------------------------------------------------------------------
(* execSessionSQL and Exec: the ways a request can end.                    *)

\* Mutant: the flag of an error response is not looked at.
NoteProgressOfSuccessOnly == inProgress' = IF nest' < nest THEN inProgress ELSE nest' > 0
\* readLanMessageRawInto: every response says whether a transaction is open.
NoteProgress == inProgress' = (nest' > 0)

Succeeds(q) == ~bad /\ Executes(q) /\ NoteProgress /\ UNCHANGED bad
FailsAtServer == ~bad /\ Refuses /\ NoteProgress /\ UNCHANGED bad
ConnectionError(q) ==
    \/ ~bad /\ bad' = TRUE /\ SessionLost(q) /\ UNCHANGED inProgress
    \/ bad /\ UNCHANGED <<bad, inProgress, server>>

\* 3514: there is no transaction to abort.
NothingToAbort == ~bad /\ nest = 0 /\ UNCHANGED <<bad, inProgress, server>>

-----------------------------------------------------------------------------
(* Begin.                                                                  *)

\* database/sql takes a connection out of the pool; ResetSession refuses a bad one.
FromPool == pc = "idle" /\ user = NoTx /\ ~bad

Opened(t) ==
    /\ current' = t /\ user' = t
    /\ outcome' = [outcome EXCEPT ![t] = "open"]

NeedsBT == mode = "TERA" /\ ~inProgress

Begin(t) ==
    /\ FromPool /\ current = NoTx
    /\ outcome[t] = "unused" /\ \A u \in 1..(t - 1) : outcome[u] # "unused"
    /\ IF NeedsBT
       THEN \/ Succeeds(Sql("BT")) /\ Opened(t)
            \/ /\ FailsAtServer \/ ConnectionError(Sql("BT"))
               /\ UNCHANGED <<current, user, outcome>>
       ELSE Opened(t) /\ UNCHANGED <<bad, inProgress, server>>
    /\ UNCHANGED <<mode, pc, refused, tried, done>>

\* Begin reports a transaction in progress and changes nothing.
BeginInProgress == FromPool /\ current # NoTx /\ UNCHANGED vars

-----------------------------------------------------------------------------
(* Statements, in the caller's transaction or outside of any.              *)

Exec(s) ==
    /\ pc = "idle" /\ (user = NoTx => ~bad)
    /\ s = tried + 1 /\ tried' = s
    /\ \/ Succeeds(Statement(s)) /\ done' = done \cup {[stmt |-> s, tx |-> user]} /\ UNCHANGED refused
       \/ /\ FailsAtServer \/ ConnectionError(Statement(s))
          /\ refused' = IF user = NoTx THEN refused ELSE refused \cup {user}
          /\ UNCHANGED done
    /\ UNCHANGED <<mode, current, user, pc, outcome>>

\* The caller sends a BT of its own, which Commit has to balance.
ExecBT ==
    /\ pc = "idle" /\ user # NoTx
    /\ mode = "TERA" /\ nest \in 1..(MaxNest - 1)
    /\ Succeeds(Sql("BT"))
    /\ UNCHANGED <<mode, current, user, pc, outcome, refused, tried, done>>

\* Ping reports no error of the server's, and marks the connection on any other.
Ping ==
    /\ FromPool
    /\ Succeeds(Sql("--isValid")) \/ FailsAtServer \/ ConnectionError(Sql("--isValid"))
    /\ UNCHANGED <<mode, current, caller>>

-----------------------------------------------------------------------------
(* Commit and Rollback.  database/sql takes the transaction for finished   *)
(* whatever they return.                                                   *)

Report(how) ==
    /\ outcome' = [outcome EXCEPT ![user] = how]
    /\ user' = NoTx /\ pc' = "idle"
    /\ UNCHANGED <<mode, refused, tried, done>>

\* Mutant: the transaction stays with the connection.
FinishedKeeping(how) == Report(how) /\ UNCHANGED current
Finished(how) == Report(how) /\ current' = NoTx

\* Mutant: an error is tried again, not returned.
ReturnErrorNever == UNCHANGED <<mode, current, caller>>
ReturnError == Report("failed") /\ UNCHANGED current

Commit ==
    /\ pc = "idle" /\ user # NoTx
    /\ pc' = "commit"
    /\ UNCHANGED <<connection, user, outcome, refused, tried, done, server>>

\* Mutant: one ET is thought to be enough.
CommitOnceTera ==
    /\ pc = "commit" /\ mode = "TERA"
    /\ IF inProgress
       THEN \/ Succeeds(Sql("ET")) /\ Finished("committed")
            \/ (FailsAtServer \/ ConnectionError(Sql("ET"))) /\ ReturnError
       ELSE Finished("committed") /\ UNCHANGED <<bad, inProgress, server>>
\* An ET for every open BT, by what the last response said.
CommitTera ==
    /\ pc = "commit" /\ mode = "TERA"
    /\ IF inProgress
       THEN \/ Succeeds(Sql("ET")) /\ UNCHANGED <<mode, current, caller>>
            \/ (FailsAtServer \/ ConnectionError(Sql("ET"))) /\ ReturnError
       ELSE Finished("committed") /\ UNCHANGED <<bad, inProgress, server>>

CommitAnsi ==
    /\ pc = "commit" /\ mode = "ANSI"
    /\ \/ Succeeds(Sql("COMMIT WORK")) /\ Finished("committed")
       \/ (FailsAtServer \/ ConnectionError(Sql("COMMIT WORK"))) /\ ReturnError

AbortSQL == Sql(IF mode = "TERA" THEN "ABORT" ELSE "ROLLBACK WORK")

\* Mutant: Rollback only forgets the transaction.
RollbackNothing ==
    /\ pc = "idle" /\ user # NoTx
    /\ Finished("rolledback") /\ UNCHANGED <<bad, inProgress, server>>
Rollback ==
    /\ pc = "idle" /\ user # NoTx
    /\ \/ nest > 0 /\ Succeeds(AbortSQL) /\ Finished("rolledback")
       \/ NothingToAbort /\ Finished("rolledback")
       \/ ((nest > 0 /\ FailsAtServer) \/ ConnectionError(AbortSQL)) /\ ReturnError

\* The pool replaces a bad connection that came back.
Discard ==
    /\ pc = "idle" /\ user = NoTx /\ bad
    /\ bad' = FALSE /\ inProgress' = FALSE /\ current' = NoTx
    /\ UNCHANGED <<mode, caller, server>>

Next ==
    \/ \E t \in Txs : Begin(t)
    \/ BeginInProgress
    \/ \E s \in Stmts : Exec(s)
    \/ ExecBT \/ Ping
    \/ Commit \/ CommitTera \/ CommitAnsi
    \/ Rollback \/ Discard

Spec == Init /\ [][Next]_vars /\ WF_vars(CommitTera \/ CommitAnsi)

-----------------------------------------------------------------------------
(* Properties.                                                             *)

TypeOK ==
    /\ mode \in {"TERA", "ANSI"}
    /\ bad \in BOOLEAN /\ inProgress \in BOOLEAN
    /\ current \in Txs \cup {NoTx} /\ user \in Txs \cup {NoTx}
    /\ pc \in {"idle", "commit"}
    /\ outcome \in [Txs -> {"unused", "open", "committed", "rolledback", "failed"}]
    /\ refused \subseteq Txs /\ tried \in 0..MaxStmts
    /\ done \subseteq [stmt : Stmts, tx : Txs \cup {NoTx}]
    /\ nest \in 0..MaxNest
    /\ work \subseteq Stmts /\ stored \subseteq Stmts

\* A transaction none of whose statements failed is all or nothing, and is all when
\* Commit returned nil and nothing when Rollback did.
AllOrNothing ==
    \A t \in Txs \ refused :
        /\ outcome[t] = "committed" => StmtsOf(t) \subseteq stored
        /\ outcome[t] = "rolledback" => StmtsOf(t) \cap stored = {}
        /\ outcome[t] = "failed" => StmtsOf(t) \subseteq stored \/ StmtsOf(t) \cap stored = {}

\* The flag the connection keeps, by which Begin and Commit decide what to send, is the
\* server's state as long as the session lives.  In TERA mode a connection in the pool
\* has no transaction open, so a statement outside of one is stored when Exec returns.
PoolIsClean ==
    /\ ~bad => inProgress = (nest > 0)
    /\ mode = "TERA" /\ user = NoTx => nest = 0 /\ StmtsOf(NoTx) \subseteq stored

\* Begin refuses a connection of the pool only after a Commit or Rollback of it failed.
StuckAfterFailureOnly ==
    user = NoTx /\ current # NoTx => outcome[current] = "failed"

\* The loop of Commit ends, however deep the caller nested its transaction and
\* whatever becomes of the connection.
CommitReturns == pc = "commit" ~> pc = "idle"

\* No row of a transaction that was rolled back is found afterwards.
RollbackLeavesNothing ==
    \A t \in Txs : outcome[t] = "rolledback" => StmtsOf(t) \cap stored = {}
=============================================================================
