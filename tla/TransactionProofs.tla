-------------------------- MODULE TransactionProofs --------------------------
(***************************************************************************)
(* Proofs about Transaction for any modes, any number of transactions and  *)
(* statements, and any depth of nesting.                                   *)
(***************************************************************************)
EXTENDS Transaction, TLAPS

-----------------------------------------------------------------------------
(* The inductive invariant.                                                *)

\* Who holds which transaction, and that a statement's number is new.
Bookkeeping ==
    /\ done \subseteq [stmt : 1..tried, tx : Txs \cup {NoTx}]
    /\ work \subseteq 1..tried /\ stored \subseteq 1..tried
    /\ user # NoTx => current = user /\ outcome[user] = "open"
    /\ pc = "commit" => user # NoTx
    /\ current # NoTx => outcome[current] \in {"open", "failed"}
    /\ \A t \in Txs : outcome[t] = "open" => t = user
    /\ \A t \in Txs : outcome[t] = "unused" => t \notin refused /\ \A d \in done : d.tx # t

\* What the connection knows of the server's transaction.
ServerControl ==
    /\ ~bad => (inProgress <=> nest > 0)
    /\ bad => nest = 0
    /\ nest = 0 => work = {}
    /\ mode = "ANSI" => nest <= 1
    /\ mode = "TERA" /\ user = NoTx => nest = 0
    /\ user # NoTx /\ user \notin refused =>
          ~bad /\ (mode = "TERA" /\ pc = "idle" => nest > 0)

\* Where the statements S of a transaction with outcome o are.
Whereabouts(S, o) ==
    /\ o = "open" => \/ S \subseteq work /\ S \cap stored = {}
                     \/ pc = "commit" /\ S \subseteq stored
    /\ o = "committed" => S \subseteq stored
    /\ o = "rolledback" => S \cap stored = {} /\ S \cap work = {}
    /\ o = "failed" => \/ S \subseteq stored
                       \/ S \cap stored = {} /\ (S \subseteq work \/ S \cap work = {})

StatementsPlaced == \A t \in Txs \ refused : Whereabouts(StmtsOf(t), outcome[t])

\* In TERA mode a statement outside of transactions is stored.
LooseStatementsStored == mode = "TERA" => StmtsOf(NoTx) \subseteq stored

IInv == TypeOK /\ Bookkeeping /\ ServerControl /\ StatementsPlaced /\ LooseStatementsStored
-----------------------------------------------------------------------------
(* What a request does at the server, by its text.                         *)

\* BT opens a transaction, or a deeper level of it.
LEMMA BTEffect ==
    ASSUME TypeOK, Executes(Sql("BT"))
    PROVE  nest' = nest + 1 /\ work' = work /\ stored' = stored
BY DEF TypeOK, Executes, Depth, Stored, Sql

\* ET closes a level; the last one commits.
LEMMA ETEffect ==
    ASSUME TypeOK, Executes(Sql("ET")), nest > 0
    PROVE  /\ nest' = nest - 1
           /\ nest' > 0 => work' = work /\ stored' = stored
           /\ nest' = 0 => work' = {} /\ stored' = stored \cup work
BY DEF TypeOK, Executes, Depth, Stored, Sql

\* COMMIT WORK commits, at any depth.
LEMMA CommitWorkEffect ==
    ASSUME TypeOK, Executes(Sql("COMMIT WORK"))
    PROVE  nest' = 0 /\ work' = {} /\ stored' = stored \cup work
BY DEF TypeOK, Executes, Depth, Stored, Sql

\* Either way of aborting drops the transaction's statements.
LEMMA AbortEffect ==
    ASSUME TypeOK, Executes(AbortSQL)
    PROVE  nest' = 0 /\ work' = {} /\ stored' = stored
BY DEF TypeOK, Executes, Depth, Stored, Sql, AbortSQL

\* Ping's request changes nothing.
LEMMA IsValidEffect ==
    ASSUME TypeOK, nest = 0 => work = {}, Executes(Sql("--isValid"))
    PROVE  nest' = nest /\ work' = work /\ stored' = stored
BY DEF TypeOK, Executes, Depth, Stored, Sql

\* A statement joins the open transaction, or is a transaction of its own.
LEMMA StatementEffect ==
    ASSUME TypeOK, NEW s, Executes(Statement(s))
    PROVE  /\ nest' = IF mode = "ANSI" THEN 1 ELSE nest
           /\ nest' > 0 => work' = work \cup {s} /\ stored' = stored
           /\ nest' = 0 => work' = {} /\ stored' = stored \cup work \cup {s}
BY DEF TypeOK, Executes, Depth, Stored, Statement

\* When the answer to BT is lost, nothing was stored.
LEMMA LostBT ==
    ASSUME TypeOK, SessionLost(Sql("BT"))
    PROVE  nest' = 0 /\ work' = {} /\ stored' = stored
BY DEF TypeOK, SessionLost, Depth, Stored, Sql

\* Nor when the answer to Ping's request is lost.
LEMMA LostIsValid ==
    ASSUME TypeOK, nest = 0 => work = {}, SessionLost(Sql("--isValid"))
    PROVE  nest' = 0 /\ work' = {} /\ stored' = stored
BY DEF TypeOK, SessionLost, Depth, Stored, Sql

\* Nor when the answer to an abort is lost.
LEMMA LostAbort ==
    ASSUME TypeOK, SessionLost(AbortSQL)
    PROVE  nest' = 0 /\ work' = {} /\ stored' = stored
BY DEF TypeOK, SessionLost, Depth, Stored, Sql, AbortSQL

\* When the answer to ET is lost, the transaction was stored or was not.
LEMMA LostET ==
    ASSUME TypeOK, nest > 0, SessionLost(Sql("ET"))
    PROVE  nest' = 0 /\ work' = {} /\ stored' \in {stored, stored \cup work}
BY DEF TypeOK, SessionLost, Depth, Stored, Sql

\* So it is when the answer to COMMIT WORK is lost.
LEMMA LostCommitWork ==
    ASSUME TypeOK, SessionLost(Sql("COMMIT WORK"))
    PROVE  nest' = 0 /\ work' = {} /\ stored' \in {stored, stored \cup work}
BY DEF TypeOK, SessionLost, Depth, Stored, Sql

\* When the answer to a statement is lost, it was stored with its transaction or was not.
LEMMA LostStatement ==
    ASSUME TypeOK, NEW s, SessionLost(Statement(s))
    PROVE  nest' = 0 /\ work' = {} /\ stored' \in {stored, stored \cup work \cup {s}}
BY DEF TypeOK, SessionLost, Depth, Stored, Statement

\* After an answer the connection knows whether a transaction is open.
LEMMA SuccessNoted ==
    ASSUME TypeOK, NEW q, Succeeds(q), nest' \in Nat
    PROVE  /\ bad = FALSE /\ bad' = FALSE
           /\ inProgress' \in BOOLEAN /\ (inProgress' <=> nest' > 0)
<1>1. bad = FALSE /\ bad' = FALSE /\ inProgress' = (nest' > 0)
  BY DEF TypeOK, Succeeds, NoteProgress
<1>2. inProgress' \in BOOLEAN
  BY <1>1
<1>3. inProgress' <=> nest' > 0
  BY <1>1, Zenon
<1> QED BY <1>1, <1>2, <1>3

\* The same for an error of the server's, which ends the transaction or, in ANSI mode,
\* may leave it as it was.
LEMMA FailureNoted ==
    ASSUME TypeOK, ServerControl, FailsAtServer
    PROVE  /\ bad = FALSE /\ bad' = FALSE /\ stored' = stored
           /\ \/ nest' = 0 /\ work' = {}
              \/ mode = "ANSI" /\ nest' = nest /\ work' = work
           /\ inProgress' \in BOOLEAN /\ (inProgress' <=> nest' > 0)
<1>1. nest \in Nat /\ (nest = 0 => work = {}) /\ bad \in BOOLEAN
  BY DEF TypeOK, ServerControl
<1>2. bad = FALSE /\ bad' = FALSE /\ stored' = stored
  BY <1>1 DEF FailsAtServer, Refuses
<1>3. \/ nest' = 0 /\ work' = {}
      \/ mode = "ANSI" /\ nest' = nest /\ work' = work
  BY <1>1 DEF FailsAtServer, Refuses
<1>4. nest' \in Nat /\ inProgress' = (nest' > 0)
  BY <1>1, <1>3 DEF FailsAtServer, NoteProgress
<1>5. inProgress' \in BOOLEAN
  BY <1>4
<1>6. inProgress' <=> nest' > 0
  BY <1>4, Zenon
<1> QED BY <1>2, <1>3, <1>5, <1>6

\* A connection error marks the connection, and the server has nothing open.
LEMMA ErrorMarks ==
    ASSUME TypeOK, ServerControl, NEW q, ConnectionError(q)
    PROVE  /\ bad' = TRUE /\ inProgress' = inProgress
           /\ nest' = 0 /\ work' = {}
           /\ \/ bad = FALSE /\ SessionLost(q)
              \/ bad = TRUE /\ stored' = stored
<1>1. CASE bad = FALSE
  BY <1>1 DEF ConnectionError, SessionLost
<1>2. CASE bad = TRUE
  <2>1. nest = 0 /\ work = {}
    BY <1>2 DEF ServerControl
  <2> QED BY <1>2, <2>1 DEF ConnectionError, server
<1> QED BY <1>1, <1>2 DEF TypeOK

-----------------------------------------------------------------------------
(* The invariant is inductive.                                             *)

\* No transaction is open on a new connection.
LEMMA IInvInit == Init => IInv
<1> SUFFICES ASSUME Init PROVE IInv
  OBVIOUS
<1>1. mode \in {"TERA", "ANSI"}
  BY DEF Init, TransactionMode
<1>2. TypeOK
  <2>1. bad \in BOOLEAN /\ inProgress \in BOOLEAN
    BY DEF Init
  <2>2. outcome \in [Txs -> {"unused", "open", "committed", "rolledback", "failed"}]
    BY DEF Init
  <2>3. tried \in 0..MaxStmts /\ nest \in 0..MaxNest
    BY BoundsAssumption DEF Init
  <2>4. /\ current \in Txs \cup {NoTx} /\ user \in Txs \cup {NoTx} /\ pc \in {"idle", "commit"}
        /\ refused \subseteq Txs /\ work \subseteq Stmts /\ stored \subseteq Stmts
    BY DEF Init
  <2>5. done \subseteq [stmt : Stmts, tx : Txs \cup {NoTx}]
    BY DEF Init
  <2> QED BY <1>1, <2>1, <2>2, <2>3, <2>4, <2>5 DEF TypeOK
<1>3. \A t : StmtsOf(t) = {}
  BY DEF Init, StmtsOf
<1>4. Bookkeeping
  BY BoundsAssumption DEF Init, Bookkeeping, NoTx
<1>5. ServerControl
  BY DEF Init, ServerControl
<1>6. StatementsPlaced /\ LooseStatementsStored
  BY <1>3 DEF Init, StatementsPlaced, LooseStatementsStored, Whereabouts
<1> QED BY <1>2, <1>4, <1>5, <1>6 DEF IInv

\* The statements of a transaction that is not open stay where they are, or go together
\* with the rest of the server's transaction, when statements N join it.
LEMMA SettledStay ==
    ASSUME NEW t \in Txs, NEW N,
           StmtsOf(t)' = StmtsOf(t), outcome'[t] = outcome[t], outcome[t] # "open",
           Whereabouts(StmtsOf(t), outcome[t]), StmtsOf(t) \cap N = {},
           \/ stored' = stored /\ work' \in {{}, work, work \cup N}
           \/ stored' = stored \cup work \cup N /\ work' = {}
    PROVE  Whereabouts(StmtsOf(t), outcome[t])'
BY DEF Whereabouts

\* Only statements that were sent belong to a transaction.
LEMMA StatementsSent ==
    ASSUME Bookkeeping, NEW t
    PROVE  StmtsOf(t) \subseteq 1..tried
BY DEF Bookkeeping, StmtsOf

\* Begin opens a transaction of which nothing was executed yet, and sends BT unless
\* the connection says that one is open.
LEMMA BeginKeeps == ASSUME IInv, NEW t \in Txs, Begin(t) PROVE IInv'
<1>1. TypeOK /\ Bookkeeping /\ ServerControl /\ StatementsPlaced /\ LooseStatementsStored
  BY DEF IInv
<1>2. /\ UNCHANGED <<mode, pc, refused, tried, done>>
      /\ pc = "idle" /\ user = NoTx /\ current = NoTx /\ outcome[t] = "unused"
  BY DEF Begin, FromPool
<1>3. bad = FALSE /\ nest \in Nat /\ t # NoTx
  BY <1>1 DEF Begin, FromPool, TypeOK, Txs, NoTx
<1>4. \/ /\ nest = 0 /\ nest' = 1 /\ inProgress' = TRUE /\ bad' = FALSE
         /\ work' = work /\ stored' = stored /\ Opened(t)
      \/ /\ nest' = 0 /\ work' = {} /\ stored' = stored /\ nest = 0
         /\ UNCHANGED <<current, user, outcome>>
         /\ \/ bad' = TRUE /\ inProgress' = inProgress
            \/ bad' = FALSE /\ inProgress' = FALSE
      \/ /\ mode = "TERA" => nest > 0
         /\ Opened(t) /\ UNCHANGED <<bad, inProgress, nest, work, stored>>
  <2>1. CASE NeedsBT
    <3>1. nest = 0 /\ mode # "ANSI"
      BY <2>1, <1>1, <1>3 DEF NeedsBT, ServerControl
    <3>2. CASE Succeeds(Sql("BT")) /\ Opened(t)
      <4>1. Executes(Sql("BT"))
        BY <3>2 DEF Succeeds
      <4>2. nest' = 1 /\ work' = work /\ stored' = stored
        BY <4>1, <3>1, <1>1, BTEffect
      <4>3. bad' = FALSE /\ inProgress' \in BOOLEAN /\ (inProgress' <=> nest' > 0)
        BY <4>2, <3>2, <1>1, SuccessNoted
      <4> QED BY <4>2, <4>3, <3>1, <3>2
    <3>3. CASE FailsAtServer /\ UNCHANGED <<current, user, outcome>>
      BY <3>1, <3>3, <1>1, FailureNoted
    <3>4. CASE ConnectionError(Sql("BT")) /\ UNCHANGED <<current, user, outcome>>
      <4>1. bad' = TRUE /\ inProgress' = inProgress /\ SessionLost(Sql("BT"))
        BY <3>4, <1>1, <1>3, ErrorMarks
      <4>2. nest' = 0 /\ work' = {} /\ stored' = stored
        BY <4>1, <1>1, LostBT
      <4> QED BY <4>1, <4>2, <3>1, <3>4
    <3> QED BY <2>1, <3>2, <3>3, <3>4 DEF Begin
  <2>2. CASE ~NeedsBT
    BY <2>2, <1>1, <1>3 DEF Begin, NeedsBT, ServerControl, server
  <2> QED BY <2>1, <2>2
<1>5. TypeOK'
  <2>1. bad' \in BOOLEAN /\ inProgress' \in BOOLEAN
    BY <1>1, <1>4 DEF TypeOK
  <2>2. nest' \in 0..MaxNest
    BY <1>1, <1>4, BoundsAssumption DEF TypeOK
  <2>3. /\ current' \in Txs \cup {NoTx} /\ user' \in Txs \cup {NoTx}
        /\ work' \subseteq Stmts /\ stored' \subseteq Stmts
    BY <1>1, <1>4 DEF TypeOK, Opened
  <2>4. outcome' \in [Txs -> {"unused", "open", "committed", "rolledback", "failed"}]
    BY <1>1, <1>4 DEF TypeOK, Opened
  <2> QED BY <1>1, <1>2, <2>1, <2>2, <2>3, <2>4 DEF TypeOK
<1>6. Bookkeeping'
  <2>1. UNCHANGED <<tried, done>> /\ stored' = stored /\ work' \subseteq work
    BY <1>2, <1>4
  <2>2. CASE Opened(t)
    <3>1. outcome' = [outcome EXCEPT ![t] = "open"] /\ current' = t /\ user' = t
      BY <2>2 DEF Opened
    <3>2. outcome'[t] = "open" /\ \A u \in Txs \ {t} : outcome'[u] = outcome[u]
      BY <1>1, <3>1 DEF TypeOK
    <3>3. \A u \in Txs : outcome[u] # "open"
      BY <1>1, <1>2 DEF Bookkeeping, Txs, NoTx
    <3> QED BY <1>1, <1>2, <1>3, <2>1, <3>1, <3>2, <3>3 DEF Bookkeeping
  <2>3. CASE UNCHANGED <<current, user, outcome>>
    BY <1>1, <1>2, <2>1, <2>3 DEF Bookkeeping
  <2> QED BY <1>4, <2>2, <2>3
<1>7. ServerControl'
  <2>1. t \notin refused
    BY <1>1, <1>2 DEF Bookkeeping
  <2>2. CASE Opened(t)
    BY <1>1, <1>2, <1>3, <1>4, <2>2 DEF ServerControl, Opened
  <2>3. CASE UNCHANGED <<current, user, outcome>>
    <3>1. /\ nest' = 0 /\ work' = {} /\ nest = 0 /\ user' = NoTx /\ mode' = mode
          /\ bad' = TRUE \/ inProgress' = FALSE
      BY <1>2, <1>3, <1>4, <2>3 DEF Opened
    <3> QED BY <3>1 DEF ServerControl
  <2> QED BY <1>4, <2>2, <2>3
<1>8. \A u : StmtsOf(u)' = StmtsOf(u)
  BY <1>2 DEF StmtsOf
<1>9. StmtsOf(t) = {}
  BY <1>1, <1>2 DEF Bookkeeping, StmtsOf
<1>10. StatementsPlaced'
  BY <1>1, <1>2, <1>3, <1>4, <1>8, <1>9
     DEF TypeOK, Bookkeeping, ServerControl, StatementsPlaced, Whereabouts, Opened
<1>11. LooseStatementsStored'
  BY <1>1, <1>2, <1>4, <1>8 DEF LooseStatementsStored
<1> QED BY <1>5, <1>6, <1>7, <1>10, <1>11 DEF IInv

\* Exec sends one statement with a new number; a failure makes the transaction one that
\* was refused.
LEMMA ExecKeeps == ASSUME IInv, NEW s \in Stmts, Exec(s) PROVE IInv'
<1>1. TypeOK /\ Bookkeeping /\ ServerControl /\ StatementsPlaced /\ LooseStatementsStored
  BY DEF IInv
<1>2. /\ UNCHANGED <<mode, current, user, pc, outcome>>
      /\ pc = "idle" /\ s = tried + 1 /\ tried' = s
  BY DEF Exec
<1>3. /\ tried \in Nat /\ nest \in Nat /\ s \notin 1..tried /\ s \in 1..tried' /\ 1..tried \subseteq 1..tried'
      /\ tried' \in 0..MaxStmts
  BY <1>1, <1>2, BoundsAssumption DEF TypeOK, Stmts
<1>4. s \notin stored /\ \A t : s \notin StmtsOf(t)
  BY <1>1, <1>3, StatementsSent DEF Bookkeeping
<1>5. CASE Succeeds(Statement(s)) /\ done' = done \cup {[stmt |-> s, tx |-> user]} /\ UNCHANGED refused
  <2>1. Executes(Statement(s))
    BY <1>5 DEF Succeeds
  <2>2. /\ nest' = IF mode = "ANSI" THEN 1 ELSE nest
        /\ nest' > 0 => work' = work \cup {s} /\ stored' = stored
        /\ nest' = 0 => work' = {} /\ stored' = stored \cup work \cup {s}
    BY <2>1, <1>1, StatementEffect
  <2>3. nest' \in 0..MaxNest /\ nest' \in Nat
    BY <2>2, <1>1, BoundsAssumption DEF TypeOK
  <2>4. /\ bad = FALSE /\ bad' = FALSE
        /\ inProgress' \in BOOLEAN /\ (inProgress' <=> nest' > 0)
    BY <1>1, <1>5, <2>3, SuccessNoted
  <2>5. \/ nest' > 0 /\ work' = work \cup {s} /\ stored' = stored
        \/ nest' = 0 /\ work' = {} /\ stored' = stored \cup work \cup {s}
    BY <2>2, <2>3
  <2>6. \A t : t = user => StmtsOf(t)' = StmtsOf(t) \cup {s}
    <3>1. SUFFICES ASSUME NEW t, t = user PROVE StmtsOf(t)' = StmtsOf(t) \cup {s}
      OBVIOUS
    <3>2. {e \in done' : e.tx = t} = {e \in done : e.tx = t} \cup {[stmt |-> s, tx |-> user]}
      BY <1>5, <3>1
    <3>3. s = [stmt |-> s, tx |-> user].stmt
      OBVIOUS
    <3>4. \A x : x \in StmtsOf(t)' <=> x \in StmtsOf(t) \/ x = s
      BY <3>2, <3>3 DEF StmtsOf
    <3> QED BY <3>4
  <2>7. \A t : t # user => StmtsOf(t)' = StmtsOf(t)
    BY <1>2, <1>5 DEF StmtsOf
  <2>8. TypeOK'
    <3>1. done' \subseteq [stmt : Stmts, tx : Txs \cup {NoTx}]
      BY <1>1, <1>5 DEF TypeOK
    <3>2. work' \subseteq Stmts /\ stored' \subseteq Stmts
      BY <1>1, <2>5 DEF TypeOK
    <3> QED BY <1>1, <1>2, <1>3, <1>5, <2>3, <2>4, <3>1, <3>2 DEF TypeOK
  <2>9. Bookkeeping'
    <3>1. done' \subseteq [stmt : 1..tried', tx : Txs \cup {NoTx}]
      BY <1>1, <1>3, <1>5 DEF TypeOK, Bookkeeping
    <3>2. work' \subseteq 1..tried' /\ stored' \subseteq 1..tried'
      BY <1>1, <1>3, <2>5 DEF Bookkeeping
    <3>3. \A t \in Txs : outcome[t] = "unused" => \A d \in done' : d.tx # t
      BY <1>1, <1>5 DEF Bookkeeping, Txs, NoTx
    <3> QED BY <1>1, <1>2, <1>5, <3>1, <3>2, <3>3 DEF Bookkeeping
  <2>10. ServerControl'
    BY <1>1, <1>2, <1>5, <2>2, <2>3, <2>4, <2>5 DEF ServerControl
  <2>11. StatementsPlaced'
    <3>1. SUFFICES ASSUME NEW t \in Txs, t \notin refused
                   PROVE  Whereabouts(StmtsOf(t), outcome[t])'
      BY <1>5 DEF StatementsPlaced
    <3>2. Whereabouts(StmtsOf(t), outcome[t])
      BY <1>1, <3>1 DEF StatementsPlaced
    <3>3. CASE t = user
      <4>1. outcome[t] = "open" /\ outcome'[t] = "open" /\ nest' > 0
        BY <3>1, <3>3, <1>1, <1>2, <2>2 DEF TypeOK, Bookkeeping, ServerControl, Txs, NoTx
      <4>2. StmtsOf(t) \subseteq work /\ StmtsOf(t) \cap stored = {}
        BY <3>2, <4>1, <1>2 DEF Whereabouts
      <4>3. StmtsOf(t)' = StmtsOf(t) \cup {s} /\ work' = work \cup {s} /\ stored' = stored
        BY <4>1, <3>3, <2>2, <2>6
      <4> QED BY <4>1, <4>2, <4>3, <1>4 DEF Whereabouts
    <3>4. CASE t # user
      <4>1. outcome[t] # "open" /\ outcome'[t] = outcome[t]
        BY <3>4, <1>1, <1>2 DEF Bookkeeping
      <4>2. StmtsOf(t)' = StmtsOf(t) /\ StmtsOf(t) \cap {s} = {}
        BY <3>4, <2>7, <1>4
      <4> QED BY <3>2, <4>1, <4>2, <2>5, SettledStay
    <3> QED BY <3>3, <3>4
  <2>12. LooseStatementsStored'
    <3>1. CASE user = NoTx
      BY <3>1, <1>1, <1>2, <2>2, <2>6 DEF ServerControl, LooseStatementsStored
    <3>2. CASE user # NoTx
      BY <3>2, <1>1, <1>2, <2>5, <2>7 DEF LooseStatementsStored
    <3> QED BY <3>1, <3>2
  <2> QED BY <2>8, <2>9, <2>10, <2>11, <2>12 DEF IInv
<1>6. CASE /\ FailsAtServer \/ ConnectionError(Statement(s))
           /\ refused' = IF user = NoTx THEN refused ELSE refused \cup {user}
           /\ UNCHANGED done
  <2>1. /\ bad' \in BOOLEAN /\ inProgress' \in BOOLEAN
        /\ bad' = FALSE => (inProgress' <=> nest' > 0)
        /\ \/ nest' = 0 /\ work' = {}
           \/ mode = "ANSI" /\ nest' = nest /\ work' = work /\ bad' = FALSE
        /\ \/ stored' = stored /\ work' \in {{}, work}
           \/ stored' = stored \cup work \cup {s} /\ work' = {}
    <3>1. CASE FailsAtServer
      BY <3>1, <1>1, FailureNoted
    <3>2. CASE ConnectionError(Statement(s))
      <4>1. /\ bad' = TRUE /\ inProgress' = inProgress /\ nest' = 0 /\ work' = {}
            /\ stored' = stored \/ SessionLost(Statement(s))
        BY <3>2, <1>1, ErrorMarks
      <4>2. stored' \in {stored, stored \cup work \cup {s}}
        BY <4>1, <1>1, LostStatement
      <4> QED BY <4>1, <4>2, <1>1 DEF TypeOK
    <3> QED BY <1>6, <3>1, <3>2
  <2>2. \A t : StmtsOf(t)' = StmtsOf(t)
    BY <1>6 DEF StmtsOf
  <2>3. TypeOK'
    <3>1. refused' \subseteq Txs
      BY <1>1, <1>6 DEF TypeOK
    <3>2. nest' \in 0..MaxNest /\ work' \subseteq Stmts /\ stored' \subseteq Stmts
      BY <1>1, <2>1, BoundsAssumption DEF TypeOK
    <3> QED BY <1>1, <1>2, <1>3, <1>6, <2>1, <3>1, <3>2 DEF TypeOK
  <2>4. Bookkeeping'
    <3>1. work' \subseteq 1..tried' /\ stored' \subseteq 1..tried'
      BY <1>1, <1>3, <2>1 DEF Bookkeeping
    <3>2. done' \subseteq [stmt : 1..tried', tx : Txs \cup {NoTx}]
      BY <1>1, <1>3, <1>6 DEF Bookkeeping
    <3>3. \A t \in Txs : outcome[t] = "unused" => t \notin refused'
      BY <1>1, <1>6 DEF Bookkeeping
    <3> QED BY <1>1, <1>2, <1>6, <3>1, <3>2, <3>3 DEF Bookkeeping
  <2>5. ServerControl'
    BY <1>1, <1>2, <1>6, <2>1 DEF ServerControl
  <2>6. StatementsPlaced'
    <3>1. SUFFICES ASSUME NEW t \in Txs, t \notin refused'
                   PROVE  Whereabouts(StmtsOf(t), outcome[t])'
      BY DEF StatementsPlaced
    <3>2. t \notin refused /\ t # user
      BY <3>1, <1>6 DEF Txs, NoTx
    <3>3. Whereabouts(StmtsOf(t), outcome[t]) /\ outcome[t] # "open" /\ outcome'[t] = outcome[t]
      BY <3>2, <1>1, <1>2 DEF StatementsPlaced, Bookkeeping
    <3>4. StmtsOf(t)' = StmtsOf(t) /\ StmtsOf(t) \cap {s} = {}
      BY <2>2, <1>4
    <3>5. \/ stored' = stored /\ work' \in {{}, work, work \cup {s}}
          \/ stored' = stored \cup work \cup {s} /\ work' = {}
      BY <2>1
    <3> QED BY <3>3, <3>4, <3>5, SettledStay
  <2>7. LooseStatementsStored'
    BY <1>1, <1>2, <2>1, <2>2 DEF LooseStatementsStored
  <2> QED BY <2>3, <2>4, <2>5, <2>6, <2>7 DEF IInv
<1> QED BY <1>5, <1>6 DEF Exec

\* A BT of the caller's own only goes one level deeper.
LEMMA ExecBTKeeps == ASSUME IInv, ExecBT PROVE IInv'
<1>1. TypeOK /\ Bookkeeping /\ ServerControl /\ StatementsPlaced /\ LooseStatementsStored
  BY DEF IInv
<1>2. /\ UNCHANGED <<mode, current, user, pc, outcome, refused, tried, done>>
      /\ pc = "idle" /\ user # NoTx /\ mode = "TERA" /\ nest \in 1..(MaxNest - 1)
      /\ Succeeds(Sql("BT"))
  BY DEF ExecBT
<1>3. Executes(Sql("BT"))
  BY <1>2 DEF Succeeds
<1>4. nest' = nest + 1 /\ work' = work /\ stored' = stored
  BY <1>1, <1>3, BTEffect
<1>5. nest' \in 0..MaxNest /\ nest' \in Nat /\ nest' > 0
  BY <1>2, <1>4, BoundsAssumption
<1>6. bad' = FALSE /\ inProgress' \in BOOLEAN /\ (inProgress' <=> nest' > 0)
  BY <1>1, <1>2, <1>5, SuccessNoted
<1>7. \A t : StmtsOf(t)' = StmtsOf(t)
  BY <1>2 DEF StmtsOf
<1>8. TypeOK'
  BY <1>1, <1>2, <1>4, <1>5, <1>6 DEF TypeOK
<1>9. Bookkeeping'
  BY <1>1, <1>2, <1>4 DEF Bookkeeping
<1>10. ServerControl'
  BY <1>1, <1>2, <1>4, <1>5, <1>6 DEF ServerControl
<1>11. StatementsPlaced' /\ LooseStatementsStored'
  BY <1>1, <1>2, <1>4, <1>7 DEF StatementsPlaced, Whereabouts, LooseStatementsStored
<1> QED BY <1>8, <1>9, <1>10, <1>11 DEF IInv

\* Ping leaves what is stored, and in ANSI mode may find the transaction gone.
LEMMA PingKeeps == ASSUME IInv, Ping PROVE IInv'
<1>1. TypeOK /\ Bookkeeping /\ ServerControl /\ StatementsPlaced /\ LooseStatementsStored
  BY DEF IInv
<1>2. UNCHANGED <<mode, current, user, pc, outcome, refused, tried, done>> /\ user = NoTx
  BY DEF Ping, FromPool, caller
<1>3. /\ bad' \in BOOLEAN /\ inProgress' \in BOOLEAN
      /\ bad' = FALSE => (inProgress' <=> nest' > 0)
      /\ stored' = stored
      /\ \/ nest' = 0 /\ work' = {}
         \/ nest' = nest /\ work' = work /\ bad' = FALSE
  <2>1. nest \in Nat /\ (nest = 0 => work = {})
    BY <1>1 DEF TypeOK, ServerControl
  <2>2. CASE Succeeds(Sql("--isValid"))
    <3>1. Executes(Sql("--isValid"))
      BY <2>2 DEF Succeeds
    <3>2. nest' = nest /\ work' = work /\ stored' = stored
      BY <1>1, <2>1, <3>1, IsValidEffect
    <3> QED BY <1>1, <2>1, <2>2, <3>2, SuccessNoted
  <2>3. CASE FailsAtServer
    BY <1>1, <2>3, FailureNoted
  <2>4. CASE ConnectionError(Sql("--isValid"))
    <3>1. /\ bad' = TRUE /\ inProgress' = inProgress /\ nest' = 0 /\ work' = {}
          /\ stored' = stored \/ SessionLost(Sql("--isValid"))
      BY <1>1, <2>4, ErrorMarks
    <3>2. stored' = stored
      BY <1>1, <2>1, <3>1, LostIsValid
    <3> QED BY <1>1, <3>1, <3>2 DEF TypeOK
  <2> QED BY <2>2, <2>3, <2>4 DEF Ping
<1>4. \A t : StmtsOf(t)' = StmtsOf(t)
  BY <1>2 DEF StmtsOf
<1>5. TypeOK'
  BY <1>1, <1>2, <1>3, BoundsAssumption DEF TypeOK
<1>6. Bookkeeping'
  BY <1>1, <1>2, <1>3 DEF Bookkeeping
<1>7. ServerControl'
  BY <1>1, <1>2, <1>3 DEF ServerControl
<1>8. StatementsPlaced'
  <2>1. SUFFICES ASSUME NEW t \in Txs, t \notin refused
                 PROVE  Whereabouts(StmtsOf(t), outcome[t])'
    BY <1>2 DEF StatementsPlaced
  <2>2. Whereabouts(StmtsOf(t), outcome[t]) /\ outcome[t] # "open" /\ outcome'[t] = outcome[t]
    BY <2>1, <1>1, <1>2 DEF StatementsPlaced, Bookkeeping, Txs, NoTx
  <2>3. StmtsOf(t) \cap {} = {}
    OBVIOUS
  <2> QED BY <1>3, <1>4, <2>2, <2>3, SettledStay
<1>9. LooseStatementsStored'
  BY <1>1, <1>2, <1>3, <1>4 DEF LooseStatementsStored
<1> QED BY <1>5, <1>6, <1>7, <1>8, <1>9 DEF IInv

\* Commit only enters its loop, which asks nothing of the server yet.
LEMMA CommitKeeps == ASSUME IInv, Commit PROVE IInv'
<1>1. TypeOK /\ Bookkeeping /\ ServerControl /\ StatementsPlaced /\ LooseStatementsStored
  BY DEF IInv
<1>2. /\ UNCHANGED <<mode, bad, inProgress, current, user, outcome, refused, tried, done>>
      /\ UNCHANGED <<nest, work, stored>>
      /\ pc' = "commit" /\ user # NoTx
  BY DEF Commit, connection, server
<1>3. \A t : StmtsOf(t)' = StmtsOf(t)
  BY <1>2 DEF StmtsOf
<1>4. TypeOK'
  BY <1>1, <1>2 DEF TypeOK
<1>5. Bookkeeping' /\ ServerControl'
  BY <1>1, <1>2 DEF Bookkeeping, ServerControl
<1>6. StatementsPlaced' /\ LooseStatementsStored'
  BY <1>1, <1>2, <1>3 DEF StatementsPlaced, Whereabouts, LooseStatementsStored
<1> QED BY <1>4, <1>5, <1>6 DEF IInv

\* When Commit or Rollback returns, the transaction is the caller's no more, and only an
\* error leaves it with the connection.
LEMMA ReportKeeps ==
    ASSUME TypeOK, Bookkeeping, user # NoTx, NEW how \in {"committed", "rolledback", "failed"},
           Report(how), current' = NoTx \/ (how = "failed" /\ current' = current),
           work' \subseteq work, stored' \subseteq stored \cup work
    PROVE  /\ outcome' \in [Txs -> {"unused", "open", "committed", "rolledback", "failed"}]
           /\ current' \in Txs \cup {NoTx} /\ Bookkeeping'
           /\ outcome'[user] = how /\ \A t \in Txs : t # user => outcome'[t] = outcome[t] /\ outcome[t] # "open"
           /\ \A t : StmtsOf(t)' = StmtsOf(t)
<1>1. user \in Txs /\ current = user
  BY DEF TypeOK, Bookkeeping
<1>2. /\ outcome' = [outcome EXCEPT ![user] = how] /\ user' = NoTx /\ pc' = "idle"
      /\ UNCHANGED <<mode, refused, tried, done>>
  BY DEF Report
<1>3. /\ outcome' \in [Txs -> {"unused", "open", "committed", "rolledback", "failed"}]
      /\ outcome'[user] = how /\ \A t \in Txs : t # user => outcome'[t] = outcome[t]
  BY <1>1, <1>2 DEF TypeOK
<1>4. \A t \in Txs : t # user => outcome[t] # "open"
  BY DEF Bookkeeping
<1>5. current' \in Txs \cup {NoTx}
  BY <1>1
<1>6. Bookkeeping'
  <2>1. work' \subseteq 1..tried' /\ stored' \subseteq 1..tried'
    BY <1>2 DEF Bookkeeping
  <2>2. current' # NoTx => outcome'[current'] \in {"open", "failed"}
    BY <1>1, <1>3
  <2>3. \A t \in Txs : outcome'[t] # "open"
    BY <1>3, <1>4
  <2>4. \A t \in Txs : outcome'[t] = "unused" => t \notin refused /\ \A d \in done : d.tx # t
    BY <1>3 DEF Bookkeeping
  <2> QED BY <1>2, <2>1, <2>2, <2>3, <2>4 DEF Bookkeeping
<1>7. \A t : StmtsOf(t)' = StmtsOf(t)
  BY <1>2 DEF StmtsOf
<1> QED BY <1>3, <1>4, <1>5, <1>6, <1>7

\* The state after a return: the server has nothing of a TERA transaction open, and the
\* statements of the transaction are where the caller was told they are.
LEMMA ReturnKeeps ==
    ASSUME IInv, user # NoTx, NEW how \in {"committed", "rolledback", "failed"},
           Report(how), current' = NoTx \/ (how = "failed" /\ current' = current),
           \/ stored' = stored /\ work' \in {{}, work}
           \/ stored' = stored \cup work /\ work' = {},
           bad' \in BOOLEAN, inProgress' \in BOOLEAN, nest' \in 0..MaxNest,
           bad' = FALSE => (inProgress' <=> nest' > 0),
           bad' = TRUE => nest' = 0, nest' = 0 => work' = {}, nest' <= 1,
           mode = "TERA" => nest' = 0,
           \A t \in Txs \ refused : t = user => Whereabouts(StmtsOf(t), how)'
    PROVE  IInv'
<1>1. TypeOK /\ Bookkeeping /\ ServerControl /\ StatementsPlaced /\ LooseStatementsStored
  BY DEF IInv
<1>2. work' \subseteq work /\ stored' \subseteq stored \cup work /\ stored \subseteq stored'
  OBVIOUS
<1>3. /\ outcome' \in [Txs -> {"unused", "open", "committed", "rolledback", "failed"}]
      /\ current' \in Txs \cup {NoTx} /\ Bookkeeping'
      /\ outcome'[user] = how /\ \A t \in Txs : t # user => outcome'[t] = outcome[t] /\ outcome[t] # "open"
      /\ \A t : StmtsOf(t)' = StmtsOf(t)
  BY <1>1, <1>2, ReportKeeps
<1>4. user' = NoTx /\ pc' = "idle" /\ UNCHANGED <<mode, refused, tried, done>>
  BY DEF Report
<1>5. TypeOK'
  <2>1. work' \subseteq Stmts /\ stored' \subseteq Stmts
    BY <1>1, <1>2 DEF TypeOK
  <2> QED BY <1>1, <1>3, <1>4, <2>1 DEF TypeOK
<1>6. ServerControl'
  BY <1>4 DEF ServerControl
<1>7. StatementsPlaced'
  <2>1. SUFFICES ASSUME NEW t \in Txs, t \notin refused
                 PROVE  Whereabouts(StmtsOf(t), outcome[t])'
    BY <1>4 DEF StatementsPlaced
  <2>2. CASE t = user
    <3>1. Whereabouts(StmtsOf(t), how)' /\ outcome'[t] = how
      BY <2>1, <2>2, <1>3
    <3> QED BY <3>1 DEF Whereabouts
  <2>3. CASE t # user
    <3>1. Whereabouts(StmtsOf(t), outcome[t])
      BY <1>1, <2>1 DEF StatementsPlaced
    <3>2. StmtsOf(t) \cap {} = {} /\ work \cup {} = work /\ stored \cup work \cup {} = stored \cup work
      OBVIOUS
    <3> QED BY <2>3, <3>1, <3>2, <1>3, SettledStay
  <2> QED BY <2>2, <2>3
<1>8. LooseStatementsStored'
  BY <1>1, <1>2, <1>3, <1>4 DEF LooseStatementsStored
<1> QED BY <1>3, <1>5, <1>6, <1>7, <1>8 DEF IInv

\* Commit's loop in TERA mode: an ET more, a return, or an error.
LEMMA CommitTeraKeeps == ASSUME IInv, CommitTera PROVE IInv'
<1>1. TypeOK /\ Bookkeeping /\ ServerControl /\ StatementsPlaced /\ LooseStatementsStored
  BY DEF IInv
<1>2. pc = "commit" /\ mode = "TERA" /\ user # NoTx /\ user \in Txs
  BY <1>1 DEF CommitTera, Bookkeeping, TypeOK
<1>3. nest \in Nat /\ nest <= MaxNest /\ outcome[user] = "open" /\ bad \in BOOLEAN /\ inProgress \in BOOLEAN
  BY <1>1, <1>2, BoundsAssumption DEF TypeOK, Bookkeeping
<1>4. \A t \in Txs \ refused : t = user =>
         /\ bad = FALSE
         /\ \/ StmtsOf(t) \subseteq work /\ StmtsOf(t) \cap stored = {}
            \/ StmtsOf(t) \subseteq stored
  BY <1>1, <1>2, <1>3 DEF ServerControl, StatementsPlaced, Whereabouts
<1>5. CASE inProgress /\ Succeeds(Sql("ET")) /\ UNCHANGED <<mode, current, caller>>
  <2>1. Executes(Sql("ET")) /\ UNCHANGED <<mode, current, user, pc, outcome, refused, tried, done>>
    BY <1>5 DEF Succeeds, caller
  <2>2. nest > 0
    BY <1>1, <1>5 DEF ServerControl, Succeeds
  <2>3. /\ nest' = nest - 1
        /\ nest' > 0 => work' = work /\ stored' = stored
        /\ nest' = 0 => work' = {} /\ stored' = stored \cup work
    BY <1>1, <2>1, <2>2, ETEffect
  <2>4. nest' \in Nat /\ nest' \in 0..MaxNest
    BY <1>3, <2>2, <2>3, BoundsAssumption
  <2>5. /\ bad = FALSE /\ bad' = FALSE
        /\ inProgress' \in BOOLEAN /\ (inProgress' <=> nest' > 0)
    BY <1>1, <1>5, <2>4, SuccessNoted
  <2>6. \/ nest' > 0 /\ work' = work /\ stored' = stored
        \/ nest' = 0 /\ work' = {} /\ stored' = stored \cup work
    <3>1. nest' > 0 \/ nest' = 0
      BY <2>4
    <3> QED BY <2>3, <3>1
  <2>7. \A t : StmtsOf(t)' = StmtsOf(t)
    BY <2>1 DEF StmtsOf
  <2>8. TypeOK'
    <3>1. work' \subseteq Stmts /\ stored' \subseteq Stmts
      BY <1>1, <2>6 DEF TypeOK
    <3> QED BY <1>1, <2>1, <2>4, <2>5, <3>1 DEF TypeOK
  <2>9. Bookkeeping'
    <3>1. work' \subseteq 1..tried /\ stored' \subseteq 1..tried
      BY <1>1, <2>6 DEF Bookkeeping
    <3> QED BY <1>1, <2>1, <3>1 DEF Bookkeeping
  <2>10. ServerControl'
    BY <1>1, <1>2, <2>1, <2>4, <2>5, <2>6 DEF ServerControl
  <2>11. StatementsPlaced'
    <3>1. SUFFICES ASSUME NEW t \in Txs, t \notin refused
                   PROVE  Whereabouts(StmtsOf(t), outcome[t])'
      BY <2>1 DEF StatementsPlaced
    <3>2. CASE t = user
      BY <3>1, <3>2, <1>2, <1>3, <1>4, <2>1, <2>6, <2>7 DEF Whereabouts
    <3>3. CASE t # user
      <4>1. outcome'[t] = outcome[t] /\ outcome[t] # "open" /\ Whereabouts(StmtsOf(t), outcome[t])
        BY <3>1, <3>3, <1>1, <2>1 DEF Bookkeeping, StatementsPlaced
      <4>2. StmtsOf(t) \cap {} = {} /\ stored \cup work \cup {} = stored \cup work
        OBVIOUS
      <4> QED BY <4>1, <4>2, <2>6, <2>7, SettledStay
    <3> QED BY <3>2, <3>3
  <2>12. LooseStatementsStored'
    BY <1>1, <2>1, <2>6, <2>7 DEF LooseStatementsStored
  <2> QED BY <2>8, <2>9, <2>10, <2>11, <2>12 DEF IInv
<1>6. CASE inProgress /\ FailsAtServer /\ ReturnError
  <2>1. /\ bad' = FALSE /\ stored' = stored /\ nest' = 0 /\ work' = {}
        /\ inProgress' \in BOOLEAN /\ (inProgress' <=> nest' > 0)
    BY <1>1, <1>2, <1>6, FailureNoted
  <2>2. Report("failed") /\ current' = current
    BY <1>6 DEF ReturnError
  <2>3. \A t \in Txs \ refused : t = user => Whereabouts(StmtsOf(t), "failed")'
    BY <1>4, <2>1, <2>2 DEF Whereabouts, Report, StmtsOf
  <2>4. nest' = 0 /\ stored' = stored /\ work' = {} /\ inProgress' \in BOOLEAN /\ bad' \in BOOLEAN
    BY <2>1
  <2>5. bad' = FALSE => (inProgress' <=> nest' > 0)
    BY <2>1
  <2>6. nest' \in 0..MaxNest /\ nest' <= 1
    BY <2>4, BoundsAssumption
  <2> QED BY <1>2, <2>2, <2>3, <2>4, <2>5, <2>6, ReturnKeeps
<1>7. CASE inProgress /\ ConnectionError(Sql("ET")) /\ ReturnError
  <2>1. /\ bad' = TRUE /\ inProgress' = inProgress /\ nest' = 0 /\ work' = {}
        /\ \/ bad = FALSE /\ SessionLost(Sql("ET"))
           \/ bad = TRUE /\ stored' = stored
    BY <1>1, <1>7, ErrorMarks
  <2>2. stored' = stored \/ stored' = stored \cup work
    <3>1. CASE bad = FALSE /\ SessionLost(Sql("ET"))
      <4>1. nest > 0
        BY <1>1, <1>7, <3>1 DEF ServerControl
      <4> QED BY <1>1, <3>1, <4>1, LostET
    <3> QED BY <2>1, <3>1
  <2>3. Report("failed") /\ current' = current
    BY <1>7 DEF ReturnError
  <2>4. \A t \in Txs \ refused : t = user => Whereabouts(StmtsOf(t), "failed")'
    BY <1>4, <2>1, <2>2, <2>3 DEF Whereabouts, Report, StmtsOf
  <2> QED BY <1>2, <1>3, <2>1, <2>2, <2>3, <2>4, ReturnKeeps, BoundsAssumption
<1>8. CASE ~inProgress /\ Finished("committed") /\ UNCHANGED <<bad, inProgress, server>>
  <2>1. UNCHANGED <<bad, inProgress, nest, work, stored>> /\ Report("committed") /\ current' = NoTx
    BY <1>8 DEF server, Finished
  <2>2. nest = 0 /\ work = {}
    BY <1>1, <1>8, <1>3 DEF ServerControl
  <2>3. \A t \in Txs \ refused : t = user => Whereabouts(StmtsOf(t), "committed")'
    BY <1>4, <2>1, <2>2 DEF Whereabouts, Report, StmtsOf
  <2>4. bad' = FALSE => (inProgress' <=> nest' > 0)
    BY <1>8, <2>1, <2>2
  <2>5. nest' = 0 /\ nest' \in 0..MaxNest /\ nest' <= 1 /\ bad' \in BOOLEAN /\ inProgress' \in BOOLEAN
    BY <1>3, <2>1, <2>2
  <2>6. stored' = stored /\ work' = work /\ work' = {}
    BY <2>1, <2>2
  <2> QED BY <1>2, <2>1, <2>3, <2>4, <2>5, <2>6, ReturnKeeps
<1> QED BY <1>5, <1>6, <1>7, <1>8 DEF CommitTera

\* Commit in ANSI mode: one COMMIT WORK, or an error.
LEMMA CommitAnsiKeeps == ASSUME IInv, CommitAnsi PROVE IInv'
<1>1. TypeOK /\ Bookkeeping /\ ServerControl /\ StatementsPlaced /\ LooseStatementsStored
  BY DEF IInv
<1>2. pc = "commit" /\ mode = "ANSI" /\ mode # "TERA" /\ user # NoTx /\ user \in Txs
  BY <1>1 DEF CommitAnsi, Bookkeeping, TypeOK
<1>3. /\ nest \in Nat /\ nest \in 0..MaxNest /\ nest <= 1 /\ (nest = 0 => work = {})
      /\ outcome[user] = "open" /\ inProgress \in BOOLEAN
  BY <1>1, <1>2, BoundsAssumption DEF TypeOK, Bookkeeping, ServerControl
<1>4. \A t \in Txs \ refused : t = user =>
         \/ StmtsOf(t) \subseteq work /\ StmtsOf(t) \cap stored = {}
         \/ StmtsOf(t) \subseteq stored
  BY <1>1, <1>3 DEF StatementsPlaced, Whereabouts
<1>5. CASE Succeeds(Sql("COMMIT WORK")) /\ Finished("committed")
  <2>1. Executes(Sql("COMMIT WORK")) /\ Report("committed") /\ current' = NoTx
    BY <1>5 DEF Succeeds, Finished
  <2>2. nest' = 0 /\ work' = {} /\ stored' = stored \cup work
    BY <1>1, <2>1, CommitWorkEffect
  <2>3. nest' \in Nat /\ nest' \in 0..MaxNest /\ nest' <= 1
    BY <2>2, BoundsAssumption
  <2>4. bad' = FALSE /\ inProgress' \in BOOLEAN /\ (inProgress' <=> nest' > 0)
    BY <1>1, <1>5, <2>3, SuccessNoted
  <2>5. \A t \in Txs \ refused : t = user => Whereabouts(StmtsOf(t), "committed")'
    BY <1>4, <2>1, <2>2 DEF Whereabouts, Report, StmtsOf
  <2>6. bad' \in BOOLEAN /\ bad' # TRUE /\ (bad' = FALSE => (inProgress' <=> nest' > 0))
    BY <2>4
  <2> QED BY <1>2, <2>1, <2>2, <2>3, <2>4, <2>5, <2>6, ReturnKeeps
<1>6. CASE FailsAtServer /\ ReturnError
  <2>1. /\ bad' = FALSE /\ stored' = stored
        /\ \/ nest' = 0 /\ work' = {}
           \/ nest' = nest /\ work' = work
        /\ inProgress' \in BOOLEAN /\ (inProgress' <=> nest' > 0)
    BY <1>1, <1>6, FailureNoted
  <2>2. Report("failed") /\ current' = current
    BY <1>6 DEF ReturnError
  <2>3. \A t \in Txs \ refused : t = user => Whereabouts(StmtsOf(t), "failed")'
    BY <1>4, <2>1, <2>2 DEF Whereabouts, Report, StmtsOf
  <2>4. nest' \in 0..MaxNest /\ nest' <= 1 /\ (nest' = 0 => work' = {})
    BY <1>3, <2>1, BoundsAssumption
  <2>5. bad' \in BOOLEAN /\ bad' # TRUE /\ (bad' = FALSE => (inProgress' <=> nest' > 0))
    BY <2>1
  <2>6. stored' = stored /\ work' \in {{}, work} /\ inProgress' \in BOOLEAN
    BY <2>1
  <2> QED BY <1>2, <2>2, <2>3, <2>4, <2>5, <2>6, ReturnKeeps
<1>7. CASE ConnectionError(Sql("COMMIT WORK")) /\ ReturnError
  <2>1. /\ bad' = TRUE /\ inProgress' = inProgress /\ nest' = 0 /\ work' = {}
        /\ SessionLost(Sql("COMMIT WORK")) \/ stored' = stored
    BY <1>1, <1>7, ErrorMarks
  <2>2. stored' = stored \/ stored' = stored \cup work
    BY <1>1, <2>1, LostCommitWork
  <2>3. Report("failed") /\ current' = current
    BY <1>7 DEF ReturnError
  <2>4. \A t \in Txs \ refused : t = user => Whereabouts(StmtsOf(t), "failed")'
    BY <1>4, <2>1, <2>2, <2>3 DEF Whereabouts, Report, StmtsOf
  <2>5. nest' \in 0..MaxNest /\ nest' <= 1
    <3>1. nest' = 0
      BY <2>1
    <3> QED BY <3>1, BoundsAssumption
  <2> QED BY <1>2, <1>3, <2>1, <2>2, <2>3, <2>4, <2>5, ReturnKeeps
<1> QED BY <1>5, <1>6, <1>7 DEF CommitAnsi

\* Rollback: the transaction is aborted, or there was none to abort, or an error.
LEMMA RollbackKeeps == ASSUME IInv, Rollback PROVE IInv'
<1>1. TypeOK /\ Bookkeeping /\ ServerControl /\ StatementsPlaced /\ LooseStatementsStored
  BY DEF IInv
<1>2. pc = "idle" /\ user # NoTx /\ user \in Txs
  BY <1>1 DEF Rollback, TypeOK
<1>3. /\ nest \in Nat /\ nest \in 0..MaxNest /\ (mode = "ANSI" => nest <= 1) /\ (nest = 0 => work = {})
      /\ outcome[user] = "open" /\ inProgress \in BOOLEAN /\ mode \in {"TERA", "ANSI"}
  BY <1>1, <1>2, BoundsAssumption DEF TypeOK, Bookkeeping, ServerControl
<1>4. \A t \in Txs \ refused : t = user => StmtsOf(t) \subseteq work /\ StmtsOf(t) \cap stored = {}
  BY <1>1, <1>2, <1>3 DEF StatementsPlaced, Whereabouts
<1>5. CASE Succeeds(AbortSQL) /\ Finished("rolledback")
  <2>1. Executes(AbortSQL) /\ Report("rolledback") /\ current' = NoTx
    BY <1>5 DEF Succeeds, Finished
  <2>2. nest' = 0 /\ work' = {} /\ stored' = stored
    BY <1>1, <2>1, AbortEffect
  <2>3. nest' \in Nat /\ nest' \in 0..MaxNest /\ nest' <= 1
    BY <2>2, BoundsAssumption
  <2>4. bad' = FALSE /\ inProgress' \in BOOLEAN /\ (inProgress' <=> nest' > 0)
    BY <1>1, <1>5, <2>3, SuccessNoted
  <2>5. \A t \in Txs \ refused : t = user => Whereabouts(StmtsOf(t), "rolledback")'
    BY <1>4, <2>1, <2>2 DEF Whereabouts, Report, StmtsOf
  <2>6. bad' \in BOOLEAN /\ bad' # TRUE /\ (bad' = FALSE => (inProgress' <=> nest' > 0))
    BY <2>4
  <2> QED BY <1>2, <2>1, <2>2, <2>3, <2>4, <2>5, <2>6, ReturnKeeps
<1>6. CASE NothingToAbort /\ Finished("rolledback")
  <2>1. /\ UNCHANGED <<bad, inProgress, nest, work, stored>> /\ nest = 0 /\ bad = FALSE
        /\ Report("rolledback") /\ current' = NoTx
    BY <1>1, <1>6 DEF NothingToAbort, Finished, server, TypeOK
  <2>2. nest' = 0 /\ work' = {} /\ stored' = stored /\ inProgress' \in BOOLEAN
    BY <1>3, <2>1
  <2>3. \A t \in Txs \ refused : t = user => Whereabouts(StmtsOf(t), "rolledback")'
    BY <1>4, <2>1, <2>2 DEF Whereabouts, Report, StmtsOf
  <2>4. bad' \in BOOLEAN /\ bad' # TRUE
    BY <2>1
  <2>5. inProgress' <=> nest' > 0
    BY <1>1, <2>1 DEF ServerControl
  <2>6. nest' \in 0..MaxNest /\ nest' <= 1
    BY <2>2, BoundsAssumption
  <2> QED BY <1>2, <2>1, <2>2, <2>3, <2>4, <2>5, <2>6, ReturnKeeps
<1>7. CASE FailsAtServer /\ ReturnError
  <2>1. /\ bad' = FALSE /\ stored' = stored
        /\ \/ nest' = 0 /\ work' = {}
           \/ mode = "ANSI" /\ nest' = nest /\ work' = work
        /\ inProgress' \in BOOLEAN /\ (inProgress' <=> nest' > 0)
    BY <1>1, <1>7, FailureNoted
  <2>2. Report("failed") /\ current' = current
    BY <1>7 DEF ReturnError
  <2>3. \A t \in Txs \ refused : t = user => Whereabouts(StmtsOf(t), "failed")'
    BY <1>4, <2>1, <2>2 DEF Whereabouts, Report, StmtsOf
  <2>4. /\ nest' \in 0..MaxNest /\ nest' <= 1 /\ (nest' = 0 => work' = {})
        /\ mode = "TERA" => nest' = 0
    BY <1>3, <2>1, BoundsAssumption
  <2>5. bad' \in BOOLEAN /\ bad' # TRUE /\ (bad' = FALSE => (inProgress' <=> nest' > 0))
    BY <2>1
  <2>6. stored' = stored /\ work' \in {{}, work} /\ inProgress' \in BOOLEAN
    BY <2>1
  <2> QED BY <1>2, <2>2, <2>3, <2>4, <2>5, <2>6, ReturnKeeps
<1>8. CASE ConnectionError(AbortSQL) /\ ReturnError
  <2>1. /\ bad' = TRUE /\ inProgress' = inProgress /\ nest' = 0 /\ work' = {}
        /\ SessionLost(AbortSQL) \/ stored' = stored
    BY <1>1, <1>8, ErrorMarks
  <2>2. stored' = stored
    BY <1>1, <2>1, LostAbort
  <2>3. Report("failed") /\ current' = current
    BY <1>8 DEF ReturnError
  <2>4. \A t \in Txs \ refused : t = user => Whereabouts(StmtsOf(t), "failed")'
    BY <1>4, <2>1, <2>2, <2>3 DEF Whereabouts, Report, StmtsOf
  <2>5. nest' \in 0..MaxNest /\ nest' <= 1
    <3>1. nest' = 0
      BY <2>1
    <3> QED BY <3>1, BoundsAssumption
  <2> QED BY <1>2, <1>3, <2>1, <2>2, <2>3, <2>4, <2>5, ReturnKeeps
<1> QED BY <1>5, <1>6, <1>7, <1>8 DEF Rollback

\* The pool's next connection starts with nothing open, as the lost session ended.
LEMMA DiscardKeeps == ASSUME IInv, Discard PROVE IInv'
<1>1. TypeOK /\ Bookkeeping /\ ServerControl /\ StatementsPlaced /\ LooseStatementsStored
  BY DEF IInv
<1>2. /\ UNCHANGED <<mode, user, pc, outcome, refused, tried, done, nest, work, stored>>
      /\ user = NoTx /\ bad /\ bad' = FALSE /\ inProgress' = FALSE /\ current' = NoTx
  BY DEF Discard, caller, server
<1>3. nest = 0
  BY <1>1, <1>2 DEF ServerControl
<1>4. \A t : StmtsOf(t)' = StmtsOf(t)
  BY <1>2 DEF StmtsOf
<1>5. TypeOK'
  <2>1. bad' \in BOOLEAN /\ inProgress' \in BOOLEAN /\ current' \in Txs \cup {NoTx}
    BY <1>2
  <2> QED BY <1>1, <1>2, <2>1 DEF TypeOK
<1>6. Bookkeeping'
  BY <1>1, <1>2 DEF Bookkeeping
<1>7. ServerControl'
  BY <1>1, <1>2, <1>3 DEF ServerControl
<1>8. StatementsPlaced' /\ LooseStatementsStored'
  BY <1>1, <1>2, <1>4 DEF StatementsPlaced, Whereabouts, LooseStatementsStored
<1> QED BY <1>5, <1>6, <1>7, <1>8 DEF IInv

\* No step leaves the invariant.
LEMMA IInvNext == IInv /\ [Next]_vars => IInv'
<1> SUFFICES ASSUME IInv, [Next]_vars PROVE IInv'
  OBVIOUS
<1>1. CASE \E t \in Txs : Begin(t)
  BY <1>1, BeginKeeps
<1>2. CASE \E s \in Stmts : Exec(s)
  BY <1>2, ExecKeeps
<1>3. CASE ExecBT \/ Ping
  BY <1>3, ExecBTKeeps, PingKeeps
<1>4. CASE Commit \/ CommitTera \/ CommitAnsi
  BY <1>4, CommitKeeps, CommitTeraKeeps, CommitAnsiKeeps
<1>5. CASE Rollback \/ Discard
  BY <1>5, RollbackKeeps, DiscardKeeps
<1>6. CASE UNCHANGED vars
  BY <1>6 DEF vars, connection, caller, server, IInv, TypeOK, Bookkeeping, ServerControl,
              StatementsPlaced, Whereabouts, LooseStatementsStored, StmtsOf
<1> QED BY <1>1, <1>2, <1>3, <1>4, <1>5, <1>6 DEF Next, BeginInProgress

-----------------------------------------------------------------------------
(* What the runs check, for every value of the constants.                  *)

\* The invariant holds in every reachable state.
LEMMA Invariant == Spec => []IInv
BY IInvInit, IInvNext, PTL DEF Spec

\* The variables keep their types; the levels of nesting stay within their bound.
THEOREM TypeCorrect == Spec => []TypeOK
<1>1. IInv => TypeOK
  BY DEF IInv
<1> QED BY <1>1, Invariant, PTL

\* A transaction without a failed statement is stored as a whole or not at all, as
\* Commit and Rollback reported it, whatever answers were lost.
THEOREM TransactionsAreAtomic == Spec => []AllOrNothing
<1>1. IInv => AllOrNothing
  BY DEF IInv, StatementsPlaced, Whereabouts, AllOrNothing
<1> QED BY <1>1, Invariant, PTL

\* A connection that is given back has no TERA transaction open, and knows whether it has.
THEOREM PoolStaysClean == Spec => []PoolIsClean
<1>1. ASSUME IInv PROVE PoolIsClean
  <2>1. inProgress \in BOOLEAN /\ nest \in Nat /\ (~bad => (inProgress <=> nest > 0))
    BY <1>1 DEF IInv, TypeOK, ServerControl
  <2>2. ~bad => inProgress = (nest > 0)
    BY <2>1
  <2> QED BY <1>1, <2>2 DEF IInv, ServerControl, LooseStatementsStored, PoolIsClean
<1> QED BY <1>1, Invariant, PTL

\* Only a Commit or Rollback that failed leaves a connection Begin refuses.
THEOREM OnlyFailuresStick == Spec => []StuckAfterFailureOnly
<1>1. IInv => StuckAfterFailureOnly
  BY DEF IInv, TypeOK, Bookkeeping, StuckAfterFailureOnly
<1> QED BY <1>1, Invariant, PTL
=============================================================================
