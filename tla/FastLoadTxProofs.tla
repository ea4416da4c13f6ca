-------------------------- MODULE FastLoadTxProofs ---------------------------
(***************************************************************************)
(* Proofs about FastLoadTx for any number of loads and rows.               *)
(***************************************************************************)
EXTENDS FastLoadTx, SequenceTheorems, TLAPS

-----------------------------------------------------------------------------
(* Where a method is: how many statements it still has to do.              *)

Statements == ControlStatements \cup {"OPEN", "CHANNELS", "FLUSH", "CLEARED", "FAIL"}

\* q is the end of the program p, and its first statement.
EndOf(q, p) == /\ Len(q) <= Len(p)
               /\ \A j \in 1..Len(q) : q[j] = p[Len(p) - Len(q) + j]
First(q) == IF q = <<>> THEN "none" ELSE Head(q)

Left == Len(todo)
Failing == todo = <<"FAIL">>

\* BeginFastLoad with its sessions still to open, and with a lock found by the probe.
BeginClosed == <<"OPEN">> \o BeginProgram
BeginLocked == ReleaseLoad \o SubSeq(BeginProgram, 4, 10)
FlushProgram == <<"FLUSH">>

Begins == op = "begin" /\ ~aborting /\ ~Failing
Flushes == op = "flush" /\ ~Failing
EndsLoad == op = "end" /\ ~aborting /\ ~Failing
Aborts == aborting /\ ~Failing

-----------------------------------------------------------------------------
(* The inductive invariant.                                                *)

\* What the error tables can hold, and what End can report of them.
RowsByTable == [ErrorTables -> SUBSET ((1..MaxLoads) \X (1..MaxRows))]

\* The method under way, its statements and its transaction belong together.
MethodControl ==
    /\ op # "none" => ret = Nothing
    /\ op = "begin" => tx = "none"
    /\ op \in {"flush", "end", "abort"} => tx = "open"
    /\ op = "begin" \/ tx = "open" => load > 0
    /\ op \in {"none", "flush"} => ~aborting
    /\ op = "abort" => aborting
    /\ loading => op = "begin"
    /\ Begins => EndOf(todo, BeginClosed) \/ EndOf(todo, BeginLocked)
    /\ Flushes => EndOf(todo, FlushProgram)
    /\ EndsLoad => EndOf(todo, EndProgram)
    /\ Aborts => EndOf(todo, AbortProgram)

\* What the sessions know of the server's transaction, and what that and the
\* lock keep.
SessionControl ==
    /\ opened <=> control # "none"
    /\ control = "up" => (inTx <=> srvTx)
    /\ control = "none" => ~inTx
    /\ control # "up" => ~srvTx
    /\ ending => srvTx
    /\ srvTx => locked
    /\ ~locked => staged = {}
    /\ locked => errTabs = ErrorTables

\* The error tables are dropped one after the other, the errors collected.
Dropped(n) ==
    /\ n = 1 => err \/ "err1" \notin errTabs
    /\ n = 0 => err \/ errTabs = {}

\* clearStaleLoad is releasing the lock it found.
Releasing == EndOf(todo, BeginLocked) /\ Left > 7

\* BeginFastLoad clears what an earlier load left before it begins its own.
BeginState ==
    Begins =>
        /\ Left \in 3..7 => ~locked
        /\ Dropped(Left - 5)
        /\ Left \in 3..4 => errTabs = {}
        /\ Left <= 2 => locked /\ table = {} /\ staged = {} /\ control = "up" /\ ~ending
        /\ Left = 11 /\ ~Releasing => ~opened
        /\ Left <= 8 \/ Releasing => channels
        /\ Left <= 10 \/ Releasing => opened
        /\ Releasing /\ Left \in {10, 11} => locked

\* A load is in the caller's hands, or End has not committed it yet.
Held ==
    \/ tx = "open" /\ op \in {"none", "flush"}
    \/ EndsLoad /\ Left >= 5

HeldState ==
    Held => /\ locked /\ channels /\ opened /\ control = "up"
            /\ table = {} /\ staged \subseteq RowsOf(load, accepted)
            /\ op \in {"none", "flush"} \/ Left >= 6 => ~ending

\* What End has reported of the rejected rows before it drops the error tables.
ReportState ==
    /\ Left \in 3..4 => err \/ errTabs = ErrorTables
    /\ Left = 4 => SplitOver(RowsOf(load, accepted), table, rejected["err1"], rejected["err2"])
    /\ Left = 3 => err \/ SplitOver(RowsOf(load, accepted), table, report["err1"], rejected["err2"])
    /\ Left <= 2 => err \/ SplitOver(RowsOf(load, accepted), table, report["err1"], report["err2"])

\* End delivers all rows, commits the load, reads the error tables and drops them.
EndState ==
    EndsLoad =>
        /\ Left \in 5..9 => staged = RowsOf(load, accepted)
        /\ Left = 7 => ~srvTx
        /\ Left \in {5, 6} => srvTx
        /\ Left = 5 => ending
        /\ Left <= 4 => ~locked
        /\ ReportState
        /\ Dropped(Left)

\* Abort ends the load and empties the table.
AbortState ==
    Aborts =>
        /\ Left = 10 => ~opened
        /\ Left <= 9 => opened
        /\ Left = 6 => locked
        /\ Left <= 2 => ~locked /\ table = {}
        /\ Dropped(Left)

IInv == /\ TypeOK /\ MethodControl /\ SessionControl
        /\ BeginState /\ HeldState /\ EndState /\ AbortState
        /\ NoChannelLeaks /\ EndedLoadIsExact /\ AbortRollsBack

-----------------------------------------------------------------------------
(* The programs, statement by statement.                                   *)

\* Joining two programs: their statements one after the other.
LEMMA JoinAt ==
    ASSUME NEW a \in Seq(Statements), NEW b \in Seq(Statements), NEW c, c = a \o b
    PROVE  /\ c \in Seq(Statements) /\ Len(c) = Len(a) + Len(b)
           /\ \A i \in 1..(Len(a) + Len(b)) : c[i] = IF i <= Len(a) THEN a[i] ELSE b[i - Len(a)]
BY ConcatProperties

\* The statements of dropErrorTables.
LEMMA DropAt ==
    /\ DropErrorTables \in Seq(Statements) /\ Len(DropErrorTables) = 2
    /\ DropErrorTables[1] = "DROP_err1" /\ DropErrorTables[2] = "DROP_err2"
BY DEF DropErrorTables, Statements, ControlStatements

\* The statements of releaseLoad.
LEMMA ReleaseAt ==
    /\ ReleaseLoad \in Seq(Statements) /\ Len(ReleaseLoad) = 6
    /\ ReleaseLoad[1] = "ET" /\ ReleaseLoad[2] = "BEGIN_LOADING" /\ ReleaseLoad[3] = "BT"
    /\ ReleaseLoad[4] = "END_LOADING" /\ ReleaseLoad[5] = "ET" /\ ReleaseLoad[6] = "DELETE"
BY DEF ReleaseLoad, Statements, ControlStatements

\* The statements of BeginFastLoad.
LEMMA BeginAt ==
    /\ BeginProgram \in Seq(Statements) /\ Len(BeginProgram) = 10
    /\ BeginProgram[1] = "PREPARE" /\ BeginProgram[2] = "CHANNELS" /\ BeginProgram[3] = "PROBE"
    /\ BeginProgram[4] = "DROP_err1" /\ BeginProgram[5] = "DROP_err2" /\ BeginProgram[6] = "CLEARED"
    /\ BeginProgram[7] = "DATEFORM" /\ BeginProgram[8] = "START" /\ BeginProgram[9] = "BT"
    /\ BeginProgram[10] = "USING"
<1>1. PICK a : a = <<"PREPARE", "CHANNELS", "PROBE">>
  OBVIOUS
<1>2. /\ a \in Seq(Statements) /\ Len(a) = 3
      /\ a[1] = "PREPARE" /\ a[2] = "CHANNELS" /\ a[3] = "PROBE"
  BY <1>1 DEF Statements, ControlStatements
<1>3. PICK b : b = <<"CLEARED", "DATEFORM", "START", "BT", "USING">>
  OBVIOUS
<1>4. /\ b \in Seq(Statements) /\ Len(b) = 5
      /\ b[1] = "CLEARED" /\ b[2] = "DATEFORM" /\ b[3] = "START" /\ b[4] = "BT" /\ b[5] = "USING"
  BY <1>3 DEF Statements, ControlStatements
<1>5. PICK c : c = a \o DropErrorTables
  OBVIOUS
<1>6. a \in Seq(Statements) /\ DropErrorTables \in Seq(Statements)
  BY <1>2, DropAt
<1>7. /\ c \in Seq(Statements) /\ Len(c) = Len(a) + Len(DropErrorTables)
      /\ \A i \in 1..(Len(a) + Len(DropErrorTables)) : c[i] = IF i <= Len(a) THEN a[i] ELSE DropErrorTables[i - Len(a)]
  BY <1>6, <1>5, JoinAt, Zenon
<1>8. Len(a) = 3 /\ Len(DropErrorTables) = 2
  BY <1>2, DropAt
<1>9. /\ Len(c) = 5 /\ \A i \in 1..3 : c[i] = a[i]
      /\ \A i \in 4..5 : c[i] = DropErrorTables[i - 3]
  BY <1>7, <1>8
<1>10. /\ c \in Seq(Statements) /\ Len(c) = 5
      /\ c[1] = "PREPARE" /\ c[2] = "CHANNELS" /\ c[3] = "PROBE" /\ c[4] = "DROP_err1"
      /\ c[5] = "DROP_err2"
  BY <1>7, <1>9, <1>2, DropAt
<1>11. BeginProgram = c \o b
  BY <1>1, <1>3, <1>5, Zenon DEF BeginProgram
<1>12. c \in Seq(Statements) /\ b \in Seq(Statements)
  BY <1>10, <1>4
<1>13. /\ BeginProgram \in Seq(Statements) /\ Len(BeginProgram) = Len(c) + Len(b)
      /\ \A i \in 1..(Len(c) + Len(b)) : BeginProgram[i] = IF i <= Len(c) THEN c[i] ELSE b[i - Len(c)]
  BY <1>12, <1>11, JoinAt, Zenon
<1>14. Len(c) = 5 /\ Len(b) = 5
  BY <1>10, <1>4
<1>15. /\ Len(BeginProgram) = 10 /\ \A i \in 1..5 : BeginProgram[i] = c[i]
      /\ \A i \in 6..10 : BeginProgram[i] = b[i - 5]
  BY <1>13, <1>14
<1> QED BY <1>13, <1>15, <1>10, <1>4

\* The same when the sessions are still to be opened.
LEMMA BeginClosedAt ==
    /\ BeginClosed \in Seq(Statements) /\ Len(BeginClosed) = 11
    /\ BeginClosed[1] = "OPEN" /\ BeginClosed[2] = "PREPARE" /\ BeginClosed[3] = "CHANNELS"
    /\ BeginClosed[4] = "PROBE" /\ BeginClosed[5] = "DROP_err1" /\ BeginClosed[6] = "DROP_err2"
    /\ BeginClosed[7] = "CLEARED" /\ BeginClosed[8] = "DATEFORM" /\ BeginClosed[9] = "START"
    /\ BeginClosed[10] = "BT" /\ BeginClosed[11] = "USING"
<1>1. PICK a : a = <<"OPEN">>
  OBVIOUS
<1>2. /\ a \in Seq(Statements) /\ Len(a) = 1
      /\ a[1] = "OPEN"
  BY <1>1 DEF Statements, ControlStatements
<1>3. BeginClosed = a \o BeginProgram
  BY <1>1, Zenon DEF BeginClosed
<1>4. a \in Seq(Statements) /\ BeginProgram \in Seq(Statements)
  BY <1>2, BeginAt
<1>5. /\ BeginClosed \in Seq(Statements) /\ Len(BeginClosed) = Len(a) + Len(BeginProgram)
      /\ \A i \in 1..(Len(a) + Len(BeginProgram)) : BeginClosed[i] = IF i <= Len(a) THEN a[i] ELSE BeginProgram[i - Len(a)]
  BY <1>4, <1>3, JoinAt, Zenon
<1>6. Len(a) = 1 /\ Len(BeginProgram) = 10
  BY <1>2, BeginAt
<1>7. /\ Len(BeginClosed) = 11 /\ \A i \in 1..1 : BeginClosed[i] = a[i]
      /\ \A i \in 2..11 : BeginClosed[i] = BeginProgram[i - 1]
  BY <1>5, <1>6
<1> QED BY <1>5, <1>7, <1>2, BeginAt

\* The same when the table was found locked.
LEMMA BeginLockedAt ==
    /\ BeginLocked \in Seq(Statements) /\ Len(BeginLocked) = 13
    /\ BeginLocked[1] = "ET" /\ BeginLocked[2] = "BEGIN_LOADING" /\ BeginLocked[3] = "BT"
    /\ BeginLocked[4] = "END_LOADING" /\ BeginLocked[5] = "ET" /\ BeginLocked[6] = "DELETE"
    /\ BeginLocked[7] = "DROP_err1" /\ BeginLocked[8] = "DROP_err2" /\ BeginLocked[9] = "CLEARED"
    /\ BeginLocked[10] = "DATEFORM" /\ BeginLocked[11] = "START" /\ BeginLocked[12] = "BT"
    /\ BeginLocked[13] = "USING"
<1>1. PICK a : a = SubSeq(BeginProgram, 4, 10)
  OBVIOUS
<1>2. \A i \in 4..10 : BeginProgram[i] \in Statements
  <2>1. BeginProgram \in Seq(Statements) /\ Len(BeginProgram) = 10
    BY BeginAt
  <2>2. \A i \in 1..Len(BeginProgram) : BeginProgram[i] \in Statements
    BY <2>1, ElementOfSeq
  <2>3. \A i \in 1..10 : BeginProgram[i] \in Statements
    BY <2>1, <2>2
  <2> QED BY <2>3
<1>3. a \in Seq(Statements) /\ Len(a) = 7 /\ \A i \in 1..7 : a[i] = BeginProgram[4 + i - 1]
  BY <1>2, <1>1, SubSeqProperties
<1>4. /\ a \in Seq(Statements) /\ Len(a) = 7
      /\ a[1] = "DROP_err1" /\ a[2] = "DROP_err2" /\ a[3] = "CLEARED" /\ a[4] = "DATEFORM"
      /\ a[5] = "START" /\ a[6] = "BT" /\ a[7] = "USING"
  BY <1>3, BeginAt
<1>5. BeginLocked = ReleaseLoad \o a
  BY <1>1, Zenon DEF BeginLocked
<1>6. ReleaseLoad \in Seq(Statements) /\ a \in Seq(Statements)
  BY ReleaseAt, <1>4
<1>7. /\ BeginLocked \in Seq(Statements) /\ Len(BeginLocked) = Len(ReleaseLoad) + Len(a)
      /\ \A i \in 1..(Len(ReleaseLoad) + Len(a)) : BeginLocked[i] = IF i <= Len(ReleaseLoad) THEN ReleaseLoad[i] ELSE a[i - Len(ReleaseLoad)]
  BY <1>6, <1>5, JoinAt, Zenon
<1>8. Len(ReleaseLoad) = 6 /\ Len(a) = 7
  BY ReleaseAt, <1>4
<1>9. /\ Len(BeginLocked) = 13 /\ \A i \in 1..6 : BeginLocked[i] = ReleaseLoad[i]
      /\ \A i \in 7..13 : BeginLocked[i] = a[i - 6]
  BY <1>7, <1>8
<1> QED BY <1>7, <1>9, ReleaseAt, <1>4

\* The statements of End.
LEMMA EndAt ==
    /\ EndProgram \in Seq(Statements) /\ Len(EndProgram) = 10
    /\ EndProgram[1] = "FLUSH" /\ EndProgram[2] = "CHECKPOINT" /\ EndProgram[3] = "ET"
    /\ EndProgram[4] = "BT" /\ EndProgram[5] = "END_LOADING" /\ EndProgram[6] = "ET"
    /\ EndProgram[7] = "READ_err1" /\ EndProgram[8] = "READ_err2" /\ EndProgram[9] = "DROP_err1"
    /\ EndProgram[10] = "DROP_err2"
<1>1. PICK a : a = <<"FLUSH", "CHECKPOINT", "ET", "BT", "END_LOADING", "ET", "READ_err1", "READ_err2">>
  OBVIOUS
<1>2. /\ a \in Seq(Statements) /\ Len(a) = 8
      /\ a[1] = "FLUSH" /\ a[2] = "CHECKPOINT" /\ a[3] = "ET" /\ a[4] = "BT" /\ a[5] = "END_LOADING"
      /\ a[6] = "ET" /\ a[7] = "READ_err1" /\ a[8] = "READ_err2"
  BY <1>1 DEF Statements, ControlStatements
<1>3. EndProgram = a \o DropErrorTables
  BY <1>1, Zenon DEF EndProgram
<1>4. a \in Seq(Statements) /\ DropErrorTables \in Seq(Statements)
  BY <1>2, DropAt
<1>5. /\ EndProgram \in Seq(Statements) /\ Len(EndProgram) = Len(a) + Len(DropErrorTables)
      /\ \A i \in 1..(Len(a) + Len(DropErrorTables)) : EndProgram[i] = IF i <= Len(a) THEN a[i] ELSE DropErrorTables[i - Len(a)]
  BY <1>4, <1>3, JoinAt, Zenon
<1>6. Len(a) = 8 /\ Len(DropErrorTables) = 2
  BY <1>2, DropAt
<1>7. /\ Len(EndProgram) = 10 /\ \A i \in 1..8 : EndProgram[i] = a[i]
      /\ \A i \in 9..10 : EndProgram[i] = DropErrorTables[i - 8]
  BY <1>5, <1>6
<1> QED BY <1>5, <1>7, <1>2, DropAt

\* The statements of Abort.
LEMMA AbortAt ==
    /\ AbortProgram \in Seq(Statements) /\ Len(AbortProgram) = 10
    /\ AbortProgram[1] = "OPEN" /\ AbortProgram[2] = "CHANNELS" /\ AbortProgram[3] = "ET"
    /\ AbortProgram[4] = "BEGIN_LOADING" /\ AbortProgram[5] = "BT"
    /\ AbortProgram[6] = "END_LOADING" /\ AbortProgram[7] = "ET" /\ AbortProgram[8] = "DELETE"
    /\ AbortProgram[9] = "DROP_err1" /\ AbortProgram[10] = "DROP_err2"
<1>1. PICK a : a = <<"OPEN", "CHANNELS">>
  OBVIOUS
<1>2. /\ a \in Seq(Statements) /\ Len(a) = 2
      /\ a[1] = "OPEN" /\ a[2] = "CHANNELS"
  BY <1>1 DEF Statements, ControlStatements
<1>3. PICK b : b = a \o ReleaseLoad
  OBVIOUS
<1>4. a \in Seq(Statements) /\ ReleaseLoad \in Seq(Statements)
  BY <1>2, ReleaseAt
<1>5. /\ b \in Seq(Statements) /\ Len(b) = Len(a) + Len(ReleaseLoad)
      /\ \A i \in 1..(Len(a) + Len(ReleaseLoad)) : b[i] = IF i <= Len(a) THEN a[i] ELSE ReleaseLoad[i - Len(a)]
  BY <1>4, <1>3, JoinAt, Zenon
<1>6. Len(a) = 2 /\ Len(ReleaseLoad) = 6
  BY <1>2, ReleaseAt
<1>7. /\ Len(b) = 8 /\ \A i \in 1..2 : b[i] = a[i]
      /\ \A i \in 3..8 : b[i] = ReleaseLoad[i - 2]
  BY <1>5, <1>6
<1>8. /\ b \in Seq(Statements) /\ Len(b) = 8
      /\ b[1] = "OPEN" /\ b[2] = "CHANNELS" /\ b[3] = "ET" /\ b[4] = "BEGIN_LOADING" /\ b[5] = "BT"
      /\ b[6] = "END_LOADING" /\ b[7] = "ET" /\ b[8] = "DELETE"
  BY <1>5, <1>7, <1>2, ReleaseAt
<1>9. AbortProgram = b \o DropErrorTables
  BY <1>1, <1>3, Zenon DEF AbortProgram
<1>10. b \in Seq(Statements) /\ DropErrorTables \in Seq(Statements)
  BY <1>8, DropAt
<1>11. /\ AbortProgram \in Seq(Statements) /\ Len(AbortProgram) = Len(b) + Len(DropErrorTables)
      /\ \A i \in 1..(Len(b) + Len(DropErrorTables)) : AbortProgram[i] = IF i <= Len(b) THEN b[i] ELSE DropErrorTables[i - Len(b)]
  BY <1>10, <1>9, JoinAt, Zenon
<1>12. Len(b) = 8 /\ Len(DropErrorTables) = 2
  BY <1>8, DropAt
<1>13. /\ Len(AbortProgram) = 10 /\ \A i \in 1..8 : AbortProgram[i] = b[i]
      /\ \A i \in 9..10 : AbortProgram[i] = DropErrorTables[i - 8]
  BY <1>11, <1>12
<1> QED BY <1>11, <1>13, <1>8, DropAt

\* Doing a statement takes the method one further.
LEMMA EndOfTail ==
    ASSUME NEW p \in Seq(Statements), NEW q \in Seq(Statements), EndOf(q, p), q # <<>>
    PROVE  /\ Len(q) \in 1..Len(p) /\ First(q) = p[Len(p) - Len(q) + 1]
           /\ EndOf(Tail(q), p) /\ Len(Tail(q)) = Len(q) - 1 /\ Tail(q) \in Seq(Statements)
<1>1. Len(q) \in 1..Len(p) /\ Len(p) \in Nat
  BY DEF EndOf
<1>2. First(q) = p[Len(p) - Len(q) + 1]
  BY <1>1 DEF First, EndOf
<1>3. /\ Len(Tail(q)) = Len(q) - 1 /\ Tail(q) \in Seq(Statements)
      /\ \A j \in 1..Len(Tail(q)) : Tail(q)[j] = q[j + 1]
  BY <1>1
<1>4. ASSUME NEW j \in 1..Len(Tail(q))
      PROVE  Tail(q)[j] = p[Len(p) - Len(Tail(q)) + j]
  <2>1. j + 1 \in 1..Len(q) /\ Len(p) - Len(q) + (j + 1) = Len(p) - Len(Tail(q)) + j
    BY <1>1, <1>3
  <2> QED BY <1>3, <2>1 DEF EndOf
<1> QED BY <1>1, <1>2, <1>3, <1>4 DEF EndOf

\* Where BeginFastLoad is, or any other method: nothing is left at its end.
LEMMA EndOfLeft ==
    ASSUME NEW p \in Seq(Statements), NEW q \in Seq(Statements), EndOf(q, p)
    PROVE  Len(q) \in 0..Len(p) /\ (Len(q) = 0 => q = <<>>) /\ (Len(q) > 0 => q # <<>>)
BY DEF EndOf

\* The statement a program is at follows from the number left to do.
LEMMA AtPlace ==
    ASSUME NEW p \in Seq(Statements), NEW q \in Seq(Statements), EndOf(q, p), NEW m, m = Len(p)
    PROVE  /\ Len(q) \in 0..m /\ (Len(q) = 0 => First(q) = "none")
           /\ Len(q) > 0 => First(q) = p[m + 1 - Len(q)]
<1>1. Len(q) \in 0..m /\ (Len(q) = 0 => q = <<>>) /\ (Len(q) > 0 => q # <<>>)
  BY EndOfLeft
<1>2. Len(q) = 0 => First(q) = "none"
  BY <1>1 DEF First
<1>3. ASSUME Len(q) > 0 PROVE First(q) = p[m + 1 - Len(q)]
  <2>1. First(q) = p[Len(p) - Len(q) + 1]
    BY <1>1, <1>3, EndOfTail
  <2>2. Len(p) - Len(q) + 1 = m + 1 - Len(q)
    BY <1>1
  <2> QED BY <2>1, <2>2
<1> QED BY <1>1, <1>2, <1>3

\* Flush has one thing to do.
LEMMA FlushProgramAt ==
    FlushProgram \in Seq(Statements) /\ Len(FlushProgram) = 1 /\ FlushProgram[1] = "FLUSH"
BY DEF FlushProgram, Statements

\* With n statements left BeginFastLoad with its sessions still to be opened is at the statement f.
BeginClosedIs(n, f) ==
    /\ n \in 0..11 /\ (n = 0 => f = "none")
    /\ (n = 11 => f = "OPEN") /\ (n = 10 => f = "PREPARE") /\ (n = 9 => f = "CHANNELS")
    /\ (n = 8 => f = "PROBE") /\ (n = 7 => f = "DROP_err1") /\ (n = 6 => f = "DROP_err2")
    /\ (n = 5 => f = "CLEARED") /\ (n = 4 => f = "DATEFORM") /\ (n = 3 => f = "START")
    /\ (n = 2 => f = "BT") /\ (n = 1 => f = "USING")

\* The statement is the one the program has there.
LEMMA BeginClosedPlaces ==
    ASSUME NEW n \in 0..11, NEW f, n = 0 => f = "none", n > 0 => f = BeginClosed[11 + 1 - n]
    PROVE  BeginClosedIs(n, f)
BY BeginClosedAt DEF BeginClosedIs

\* So are the statements that are left.
LEMMA BeginClosedPos ==
    ASSUME NEW q \in Seq(Statements), EndOf(q, BeginClosed)
    PROVE  BeginClosedIs(Len(q), First(q))
<1>1. BeginClosed \in Seq(Statements) /\ 11 = Len(BeginClosed)
  BY BeginClosedAt
<1>2. /\ Len(q) \in 0..11 /\ (Len(q) = 0 => First(q) = "none")
      /\ Len(q) > 0 => First(q) = BeginClosed[11 + 1 - Len(q)]
  BY <1>1, AtPlace, Zenon
<1> QED BY <1>2, BeginClosedPlaces, Zenon

\* With n statements left BeginFastLoad after its probe found a lock is at the statement f.
BeginLockedIs(n, f) ==
    /\ n \in 0..13 /\ (n = 0 => f = "none")
    /\ (n = 13 => f = "ET") /\ (n = 12 => f = "BEGIN_LOADING") /\ (n = 11 => f = "BT")
    /\ (n = 10 => f = "END_LOADING") /\ (n = 9 => f = "ET") /\ (n = 8 => f = "DELETE")
    /\ (n = 7 => f = "DROP_err1") /\ (n = 6 => f = "DROP_err2") /\ (n = 5 => f = "CLEARED")
    /\ (n = 4 => f = "DATEFORM") /\ (n = 3 => f = "START") /\ (n = 2 => f = "BT")
    /\ (n = 1 => f = "USING")

\* The statement is the one the program has there.
LEMMA BeginLockedPlaces ==
    ASSUME NEW n \in 0..13, NEW f, n = 0 => f = "none", n > 0 => f = BeginLocked[13 + 1 - n]
    PROVE  BeginLockedIs(n, f)
BY BeginLockedAt DEF BeginLockedIs

\* So are the statements that are left.
LEMMA BeginLockedPos ==
    ASSUME NEW q \in Seq(Statements), EndOf(q, BeginLocked)
    PROVE  BeginLockedIs(Len(q), First(q))
<1>1. BeginLocked \in Seq(Statements) /\ 13 = Len(BeginLocked)
  BY BeginLockedAt
<1>2. /\ Len(q) \in 0..13 /\ (Len(q) = 0 => First(q) = "none")
      /\ Len(q) > 0 => First(q) = BeginLocked[13 + 1 - Len(q)]
  BY <1>1, AtPlace, Zenon
<1> QED BY <1>2, BeginLockedPlaces, Zenon

\* With n statements left End is at the statement f.
EndIs(n, f) ==
    /\ n \in 0..10 /\ (n = 0 => f = "none")
    /\ (n = 10 => f = "FLUSH") /\ (n = 9 => f = "CHECKPOINT") /\ (n = 8 => f = "ET")
    /\ (n = 7 => f = "BT") /\ (n = 6 => f = "END_LOADING") /\ (n = 5 => f = "ET")
    /\ (n = 4 => f = "READ_err1") /\ (n = 3 => f = "READ_err2")
    /\ (n = 2 => f = "DROP_err1") /\ (n = 1 => f = "DROP_err2")

\* The statement is the one the program has there.
LEMMA EndPlaces ==
    ASSUME NEW n \in 0..10, NEW f, n = 0 => f = "none", n > 0 => f = EndProgram[10 + 1 - n]
    PROVE  EndIs(n, f)
BY EndAt DEF EndIs

\* So are the statements that are left.
LEMMA EndPos ==
    ASSUME NEW q \in Seq(Statements), EndOf(q, EndProgram)
    PROVE  EndIs(Len(q), First(q))
<1>1. EndProgram \in Seq(Statements) /\ 10 = Len(EndProgram)
  BY EndAt
<1>2. /\ Len(q) \in 0..10 /\ (Len(q) = 0 => First(q) = "none")
      /\ Len(q) > 0 => First(q) = EndProgram[10 + 1 - Len(q)]
  BY <1>1, AtPlace, Zenon
<1> QED BY <1>2, EndPlaces, Zenon

\* With n statements left Abort is at the statement f.
AbortIs(n, f) ==
    /\ n \in 0..10 /\ (n = 0 => f = "none")
    /\ (n = 10 => f = "OPEN") /\ (n = 9 => f = "CHANNELS") /\ (n = 8 => f = "ET")
    /\ (n = 7 => f = "BEGIN_LOADING") /\ (n = 6 => f = "BT") /\ (n = 5 => f = "END_LOADING")
    /\ (n = 4 => f = "ET") /\ (n = 3 => f = "DELETE") /\ (n = 2 => f = "DROP_err1")
    /\ (n = 1 => f = "DROP_err2")

\* The statement is the one the program has there.
LEMMA AbortPlaces ==
    ASSUME NEW n \in 0..10, NEW f, n = 0 => f = "none", n > 0 => f = AbortProgram[10 + 1 - n]
    PROVE  AbortIs(n, f)
BY AbortAt DEF AbortIs

\* So are the statements that are left.
LEMMA AbortPos ==
    ASSUME NEW q \in Seq(Statements), EndOf(q, AbortProgram)
    PROVE  AbortIs(Len(q), First(q))
<1>1. AbortProgram \in Seq(Statements) /\ 10 = Len(AbortProgram)
  BY AbortAt
<1>2. /\ Len(q) \in 0..10 /\ (Len(q) = 0 => First(q) = "none")
      /\ Len(q) > 0 => First(q) = AbortProgram[10 + 1 - Len(q)]
  BY <1>1, AtPlace, Zenon
<1> QED BY <1>2, AbortPlaces, Zenon

\* With n statements left Flush is at the statement f.
FlushIs(n, f) ==
    /\ n \in 0..1 /\ (n = 0 => f = "none")
    /\ (n = 1 => f = "FLUSH")

\* The statement is the one the program has there.
LEMMA FlushPlaces ==
    ASSUME NEW n \in 0..1, NEW f, n = 0 => f = "none", n > 0 => f = FlushProgram[1 + 1 - n]
    PROVE  FlushIs(n, f)
BY FlushProgramAt DEF FlushIs

\* So are the statements that are left.
LEMMA FlushPos ==
    ASSUME NEW q \in Seq(Statements), EndOf(q, FlushProgram)
    PROVE  FlushIs(Len(q), First(q))
<1>1. FlushProgram \in Seq(Statements) /\ 1 = Len(FlushProgram)
  BY FlushProgramAt
<1>2. /\ Len(q) \in 0..1 /\ (Len(q) = 0 => First(q) = "none")
      /\ Len(q) > 0 => First(q) = FlushProgram[1 + 1 - Len(q)]
  BY <1>1, AtPlace, Zenon
<1> QED BY <1>2, FlushPlaces, Zenon

\* BeginFastLoad after a lock and without one are at different statements until
\* the lock is released.
LEMMA PlacesDiffer ==
    ASSUME NEW n, NEW f, BeginClosedIs(n, f), BeginLockedIs(n, f)
    PROVE  n \in 0..7
BY DEF BeginClosedIs, BeginLockedIs

\* A program that ends both ways of begin has at most seven statements left.
LEMMA NotBoth ==
    ASSUME NEW q \in Seq(Statements), EndOf(q, BeginClosed), EndOf(q, BeginLocked)
    PROVE  Len(q) \in 0..7
<1>1. BeginClosedIs(Len(q), First(q)) /\ BeginLockedIs(Len(q), First(q))
  BY BeginClosedPos, BeginLockedPos
<1> QED BY <1>1, PlacesDiffer, Zenon

\* The statements BeginFastLoad does when its probe finds the table locked.
LEMMA LockFound ==
    ASSUME NEW q \in Seq(Statements), EndOf(q, BeginClosed), First(q) = "PROBE"
    PROVE  /\ ReleaseLoad \o Tail(q) \in Seq(Statements)
           /\ EndOf(ReleaseLoad \o Tail(q), BeginLocked)
           /\ Len(ReleaseLoad \o Tail(q)) = 13
<1>1. Len(q) = 8 /\ q # <<>>
  <2>1. BeginClosedIs(Len(q), First(q))
    BY BeginClosedPos
  <2>2. \A n, f : BeginClosedIs(n, f) /\ f = "PROBE" => n = 8
    BY DEF BeginClosedIs
  <2>3. Len(q) = 8
    BY <2>1, <2>2
  <2> QED BY <2>3
<1>2. BeginClosed \in Seq(Statements) /\ Len(BeginClosed) = 11
  BY BeginClosedAt
<1>3. PICK b : b = Tail(q)
  OBVIOUS
<1>4. EndOf(b, BeginClosed) /\ Len(b) = 7 /\ b \in Seq(Statements)
  BY <1>1, <1>2, <1>3, EndOfTail
<1>5. \A j \in 1..7 : b[j] = BeginClosed[j + 4]
  <2>1. ASSUME NEW j \in 1..7 PROVE b[j] = BeginClosed[j + 4]
    <3>1. b[j] = BeginClosed[Len(BeginClosed) - Len(b) + j]
      BY <1>4 DEF EndOf
    <3>2. Len(BeginClosed) - Len(b) + j = j + 4
      BY <1>2, <1>4
    <3> QED BY <3>1, <3>2
  <2> QED BY <2>1
<1>6. PICK c : c = ReleaseLoad \o b
  OBVIOUS
<1>7. ReleaseLoad \in Seq(Statements) /\ Len(ReleaseLoad) = 6
  BY ReleaseAt
<1>8. /\ c \in Seq(Statements) /\ Len(c) = Len(ReleaseLoad) + Len(b)
      /\ \A i \in 1..(Len(ReleaseLoad) + Len(b)) : c[i] = IF i <= Len(ReleaseLoad) THEN ReleaseLoad[i] ELSE b[i - Len(ReleaseLoad)]
  BY <1>4, <1>6, <1>7, JoinAt, Zenon
<1>9. /\ Len(c) = 13
      /\ \A i \in 1..6 : c[i] = ReleaseLoad[i]
      /\ \A i \in 7..13 : c[i] = BeginClosed[i - 2]
  <2>1. Len(c) = 13 /\ \A i \in 1..6 : c[i] = ReleaseLoad[i]
    BY <1>4, <1>7, <1>8
  <2>2. ASSUME NEW i \in 7..13 PROVE c[i] = BeginClosed[i - 2]
    <3>1. c[i] = b[i - 6]
      BY <1>4, <1>7, <1>8, SMTT(20)
    <3>2. i - 6 \in 1..7 /\ (i - 6) + 4 = i - 2
      OBVIOUS
    <3> QED BY <3>1, <3>2, <1>5
  <2> QED BY <2>1, <2>2
<1>10. /\ BeginLocked[1] = ReleaseLoad[1] /\ BeginLocked[2] = ReleaseLoad[2]
       /\ BeginLocked[3] = ReleaseLoad[3] /\ BeginLocked[4] = ReleaseLoad[4]
       /\ BeginLocked[5] = ReleaseLoad[5] /\ BeginLocked[6] = ReleaseLoad[6]
  BY BeginLockedAt, ReleaseAt, Zenon
<1>11. /\ BeginLocked[7] = BeginClosed[5] /\ BeginLocked[8] = BeginClosed[6]
       /\ BeginLocked[9] = BeginClosed[7] /\ BeginLocked[10] = BeginClosed[8]
       /\ BeginLocked[11] = BeginClosed[9] /\ BeginLocked[12] = BeginClosed[10]
       /\ BeginLocked[13] = BeginClosed[11]
  BY BeginLockedAt, BeginClosedAt, Zenon
<1>12. \A i \in 1..13 : c[i] = BeginLocked[i]
  <2>1. \A i \in 1..6 : c[i] = BeginLocked[i]
    BY <1>9, <1>10
  <2>2. \A i \in 7..13 : c[i] = BeginLocked[i]
    BY <1>9, <1>11
  <2> QED BY <2>1, <2>2
<1>13. Len(BeginLocked) = 13
  BY BeginLockedAt
<1>14. EndOf(c, BeginLocked)
  BY <1>9, <1>12, <1>13 DEF EndOf
<1> QED BY <1>3, <1>6, <1>8, <1>9, <1>14

-----------------------------------------------------------------------------

(* What a step of a method does with its statements.                       *)

\* The statements a step can be at.
Working == Statements \ {"FAIL"}

\* The statements left to do and the next of them.
LEMMA TodoType == TypeOK => todo \in Seq(Statements) /\ Now = First(todo)
BY DEF TypeOK, Statements, Now, First

\* The variables with a truth value.
LEMMA Flags ==
    TypeOK <=>
        /\ op \in {"none", "begin", "flush", "end", "abort"}
        /\ todo \in Seq(Statements)
        /\ op = "none" => todo = <<>>
        /\ err \in BOOLEAN /\ loading \in BOOLEAN /\ aborting \in BOOLEAN /\ live \in BOOLEAN
        /\ opened \in BOOLEAN /\ inTx \in BOOLEAN /\ channels \in BOOLEAN /\ locked \in BOOLEAN
        /\ srvTx \in BOOLEAN /\ ending \in BOOLEAN
        /\ tx \in {"none", "open", "done"} /\ control \in {"none", "up", "bad"}
        /\ inTx => control # "none"
        /\ load \in 0..MaxLoads /\ accepted \in 0..MaxRows
        /\ errTabs \subseteq ErrorTables
        /\ staged \cup table \subseteq (1..MaxLoads) \X (1..MaxRows)
        /\ rejected \in RowsByTable /\ report \in RowsByTable
        /\ ret \in [op : {"none", "begin", "flush", "end", "abort", "close", "closeConnection"},
                    ok : BOOLEAN, rolledBack : BOOLEAN]
<1>1. {err, loading, aborting, live, opened, inTx, channels, locked, srvTx, ending} \subseteq BOOLEAN
      <=> /\ err \in BOOLEAN /\ loading \in BOOLEAN /\ aborting \in BOOLEAN /\ live \in BOOLEAN
          /\ opened \in BOOLEAN /\ inTx \in BOOLEAN /\ channels \in BOOLEAN /\ locked \in BOOLEAN
          /\ srvTx \in BOOLEAN /\ ending \in BOOLEAN
  <2> HIDE DEF Statements
  <2> QED BY Zenon
<1>2. {rejected, report} \subseteq [ErrorTables -> SUBSET ((1..MaxLoads) \X (1..MaxRows))]
      <=> rejected \in RowsByTable /\ report \in RowsByTable
  BY Zenon DEF RowsByTable
<1> QED BY <1>1, <1>2, Zenon DEF TypeOK, Statements

\* Where the method under way is.
LEMMA Whereabouts ==
    ASSUME TypeOK, MethodControl
    PROVE  /\ Begins /\ Releasing => BeginLockedIs(Left, Now) /\ Left > 7
           /\ Begins /\ ~Releasing => BeginClosedIs(Left, Now)
           /\ Flushes => FlushIs(Left, Now)
           /\ EndsLoad => EndIs(Left, Now)
           /\ Aborts => AbortIs(Left, Now)
<1>1. todo \in Seq(Statements) /\ Now = First(todo)
  BY TodoType
<1>2. Releasing => BeginLockedIs(Left, Now) /\ Left > 7
  BY <1>1, BeginLockedPos, Zenon DEF Releasing, Left
<1>3. Begins /\ ~Releasing => BeginClosedIs(Left, Now)
  <2>1. CASE EndOf(todo, BeginClosed)
    BY <1>1, <2>1, BeginClosedPos, Zenon DEF Left
  <2>2. CASE EndOf(todo, BeginLocked)
    <3>1. BeginLockedIs(Left, Now)
      BY <1>1, <2>2, BeginLockedPos, Zenon DEF Left
    <3>2. ~Releasing => ~(Left > 7)
      BY <2>2 DEF Releasing
    <3>3. \A n, f : BeginLockedIs(n, f) /\ ~(n > 7) => BeginClosedIs(n, f)
      BY DEF BeginLockedIs, BeginClosedIs
    <3> QED BY <3>1, <3>2, <3>3, Zenon
  <2> QED BY <2>1, <2>2 DEF MethodControl
<1>4. Flushes => FlushIs(Left, Now)
  BY <1>1, FlushPos, Zenon DEF MethodControl, Left
<1>5. EndsLoad => EndIs(Left, Now)
  BY <1>1, EndPos, Zenon DEF MethodControl, Left
<1>6. Aborts => AbortIs(Left, Now)
  BY <1>1, AbortPos, Zenon DEF MethodControl, Left
<1> QED BY <1>2, <1>3, <1>4, <1>5, <1>6

\* Doing a statement keeps the method's program and leaves one statement less.
LEMMA Advancing ==
    ASSUME TypeOK, MethodControl, Now \in Working, todo' = Tail(todo), op' = op, aborting' = aborting
    PROVE  /\ op # "none" /\ todo' \in Seq(Statements) /\ Left \in Nat /\ Left > 0 /\ Left' = Left - 1
           /\ Begins' => /\ Begins /\ (Releasing' <=> Releasing /\ Left > 8)
                         /\ EndOf(todo, BeginClosed)' \/ EndOf(todo, BeginLocked)'
           /\ Flushes' => Flushes /\ EndOf(todo, FlushProgram)'
           /\ EndsLoad' => EndsLoad /\ EndOf(todo, EndProgram)'
           /\ Aborts' => Aborts /\ EndOf(todo, AbortProgram)'
<1>1. todo \in Seq(Statements) /\ Now = First(todo)
  BY TodoType
<1>2. todo # <<>> /\ ~Failing
  <2>1. "none" \notin Working /\ "FAIL" \notin Working
    BY DEF Working, Statements, ControlStatements
  <2>2. todo = <<"FAIL">> => Head(todo) = "FAIL"
    OBVIOUS
  <2> QED BY <2>1, <2>2, Zenon DEF Now, Failing
<1>3. op # "none" /\ todo' \in Seq(Statements) /\ Left \in Nat /\ Left > 0 /\ Left' = Left - 1
  <2>1. op # "none"
    BY <1>2, Flags
  <2>2. PICK q : q = todo
    OBVIOUS
  <2>3. q \in Seq(Statements) /\ q # <<>>
    BY <1>1, <1>2, <2>2
  <2>4. Tail(q) \in Seq(Statements) /\ Len(q) \in Nat /\ Len(q) > 0 /\ Len(Tail(q)) = Len(q) - 1
    BY <2>3
  <2> QED BY <2>1, <2>2, <2>4 DEF Left
<1>4. \A p \in Seq(Statements) : EndOf(todo, p) => EndOf(todo', p)
  BY <1>1, <1>2, EndOfTail
<1>5. ASSUME Begins'
      PROVE  /\ Begins /\ (Releasing' <=> Releasing /\ Left > 8)
             /\ EndOf(todo, BeginClosed)' \/ EndOf(todo, BeginLocked)'
  <2>1. Begins
    BY <1>2, <1>5 DEF Begins
  <2>2. BeginClosed \in Seq(Statements) /\ BeginLocked \in Seq(Statements)
    BY BeginClosedAt, BeginLockedAt
  <2>3. EndOf(todo, BeginClosed) \/ EndOf(todo, BeginLocked)
    BY <2>1 DEF MethodControl
  <2>4. EndOf(todo, BeginClosed)' <=> EndOf(todo', BeginClosed)
    BY DEF EndOf, BeginClosed, BeginProgram, DropErrorTables
  <2>5. EndOf(todo, BeginLocked)' <=> EndOf(todo', BeginLocked)
    BY DEF EndOf, BeginLocked, BeginProgram, DropErrorTables, ReleaseLoad
  <2>6. Releasing' <=> EndOf(todo', BeginLocked) /\ Left' > 7
    BY <2>5 DEF Releasing
  <2>7. CASE EndOf(todo, BeginLocked)
    <3>1. EndOf(todo', BeginLocked)
      BY <1>4, <2>2, <2>7
    <3> QED BY <1>3, <2>1, <2>5, <2>6, <2>7, <3>1 DEF Releasing
  <2>8. CASE ~EndOf(todo, BeginLocked)
    <3>1. EndOf(todo, BeginClosed) /\ EndOf(todo', BeginClosed)
      BY <1>4, <2>2, <2>3, <2>8
    <3>2. ~Releasing
      BY <2>8 DEF Releasing
    <3>3. EndOf(todo', BeginLocked) => Len(todo') \in 0..7
      BY <1>3, <3>1, NotBoth
    <3>4. Len(todo') = Left'
      BY DEF Left
    <3>5. EndOf(todo', BeginLocked) => Left' \in 0..7
      BY <3>3, <3>4
    <3>6. Left' \in 0..7 => ~(Left' > 7)
      OBVIOUS
    <3>7. ~Releasing'
      BY <2>6, <3>5, <3>6
    <3> QED BY <2>1, <2>4, <3>1, <3>2, <3>7
  <2> QED BY <2>7, <2>8
<1>6. ASSUME Flushes'
      PROVE  Flushes /\ EndOf(todo, FlushProgram)'
  <2>1. Flushes
    BY <1>2, <1>6 DEF Flushes
  <2>2. EndOf(todo', FlushProgram)
    BY <1>4, <2>1, FlushProgramAt DEF MethodControl
  <2> QED BY <2>1, <2>2 DEF EndOf, FlushProgram
<1>7. ASSUME EndsLoad'
      PROVE  EndsLoad /\ EndOf(todo, EndProgram)'
  <2>1. EndsLoad
    BY <1>2, <1>7 DEF EndsLoad
  <2>2. EndOf(todo', EndProgram)
    BY <1>4, <2>1, EndAt DEF MethodControl
  <2> QED BY <2>1, <2>2 DEF EndOf, EndProgram, DropErrorTables
<1>8. ASSUME Aborts'
      PROVE  Aborts /\ EndOf(todo, AbortProgram)'
  <2>1. Aborts
    BY <1>2, <1>8 DEF Aborts
  <2>2. EndOf(todo', AbortProgram)
    BY <1>4, <2>1, AbortAt DEF MethodControl
  <2> QED BY <2>1, <2>2 DEF EndOf, AbortProgram, DropErrorTables, ReleaseLoad
<1> QED BY <1>3, <1>5, <1>6, <1>7, <1>8

\* A step belongs to one of the four programs.
LEMMA Methods ==
    ASSUME TypeOK, MethodControl, Now \in Working
    PROVE  /\ op \in {"begin", "flush", "end", "abort"} /\ ~Failing
           /\ \/ Begins /\ ~Flushes /\ ~EndsLoad /\ ~Aborts
              \/ Flushes /\ ~Begins /\ ~EndsLoad /\ ~Aborts
              \/ EndsLoad /\ ~Begins /\ ~Flushes /\ ~Aborts
              \/ Aborts /\ ~Begins /\ ~Flushes /\ ~EndsLoad
           /\ Begins => op = "begin" /\ tx = "none"
           /\ Flushes <=> op = "flush"
           /\ Flushes => tx = "open"
           /\ EndsLoad => op = "end" /\ tx = "open"
<1>1. todo # <<>> /\ ~Failing
  <2>1. "none" \notin Working /\ "FAIL" \notin Working
    BY DEF Working, Statements, ControlStatements
  <2>2. todo = <<"FAIL">> => Head(todo) = "FAIL"
    OBVIOUS
  <2> QED BY <2>1, <2>2, Zenon DEF Now, Failing
<1>2. op \in {"begin", "flush", "end", "abort"} /\ aborting \in BOOLEAN
  BY <1>1, Flags
<1>3. /\ op \in {"none", "flush"} => ~aborting
      /\ op = "abort" => aborting
      /\ op = "begin" => tx = "none"
      /\ op \in {"flush", "end", "abort"} => tx = "open"
  BY DEF MethodControl
<1>4. /\ Begins <=> op = "begin" /\ ~aborting
      /\ Flushes <=> op = "flush"
      /\ EndsLoad <=> op = "end" /\ ~aborting
      /\ Aborts <=> aborting
  BY <1>1 DEF Begins, Flushes, EndsLoad, Aborts
<1> QED BY <1>1, <1>2, <1>3, <1>4

\* Where in which program a statement occurs.
Places ==
    /\ Now = "OPEN" => (Begins /\ ~Releasing /\ Left = 11) \/ (Aborts /\ Left = 10)
    /\ Now = "PREPARE" => Begins /\ ~Releasing /\ Left = 10
    /\ Now = "CHANNELS" => (Begins /\ ~Releasing /\ Left = 9) \/ (Aborts /\ Left = 9)
    /\ Now = "PROBE" => Begins /\ ~Releasing /\ Left = 8
    /\ Now = "DROP_err1" => (Begins /\ ~Releasing /\ Left = 7) \/ ((EndsLoad \/ Aborts) /\ Left = 2)
    /\ Now = "DROP_err2" => (Begins /\ ~Releasing /\ Left = 6) \/ ((EndsLoad \/ Aborts) /\ Left = 1)
    /\ Now = "CLEARED" => Begins /\ ~Releasing /\ Left = 5
    /\ Now = "DATEFORM" => Begins /\ ~Releasing /\ Left = 4
    /\ Now = "START" => Begins /\ ~Releasing /\ Left = 3
    /\ Now = "USING" => Begins /\ ~Releasing /\ Left = 1
    /\ Now = "BT" => \/ Begins /\ ~Releasing /\ Left = 2
                     \/ Begins /\ Releasing /\ Left = 11
                     \/ EndsLoad /\ Left = 7
                     \/ Aborts /\ Left = 6
    /\ Now = "ET" => \/ Begins /\ Releasing /\ Left \in {13, 9}
                     \/ EndsLoad /\ Left \in {8, 5}
                     \/ Aborts /\ Left \in {8, 4}
    /\ Now = "BEGIN_LOADING" => (Begins /\ Releasing /\ Left = 12) \/ (Aborts /\ Left = 7)
    /\ Now = "END_LOADING" => \/ Begins /\ Releasing /\ Left = 10
                              \/ EndsLoad /\ Left = 6
                              \/ Aborts /\ Left = 5
    /\ Now = "DELETE" => (Begins /\ Releasing /\ Left = 8) \/ (Aborts /\ Left = 3)
    /\ Now = "FLUSH" => (EndsLoad /\ Left = 10) \/ Flushes
    /\ Now = "CHECKPOINT" => EndsLoad /\ Left = 9
    /\ Now = "READ_err1" => EndsLoad /\ Left = 4
    /\ Now = "READ_err2" => EndsLoad /\ Left = 3
    /\ Flushes => Now = "FLUSH"

\* A step's statement tells where its method is.
LEMMA StatementPlaces ==
    ASSUME TypeOK, MethodControl, Now \in Working
    PROVE  Places
<1>1. "none" \notin Working
  BY DEF Working, Statements, ControlStatements
<1>2. CASE Begins /\ Releasing
  BY <1>1, <1>2, Whereabouts, Methods DEF BeginLockedIs, Places
<1>3. CASE Begins /\ ~Releasing
  BY <1>1, <1>3, Whereabouts, Methods DEF BeginClosedIs, Places
<1>4. CASE Flushes
  BY <1>1, <1>4, Whereabouts, Methods DEF FlushIs, Places
<1>5. CASE EndsLoad
  BY <1>1, <1>5, Whereabouts, Methods DEF EndIs, Places
<1>6. CASE Aborts
  BY <1>1, <1>6, Whereabouts, Methods DEF AbortIs, Places
<1> QED BY <1>2, <1>3, <1>4, <1>5, <1>6, Methods

\* What every step of a method keeps.
LEMMA StepKeeps ==
    ASSUME IInv, Now \in Working, Step(Now),
           \/ todo' = Tail(todo)
           \/ todo' = <<"FAIL">>
           \/ todo' = StatementsAfterLock /\ Now = "PROBE",
           loading' => loading \/ Now = "START"
    PROVE  /\ todo' \in Seq(Statements) /\ MethodControl'
           /\ NoChannelLeaks' /\ EndedLoadIsExact' /\ AbortRollsBack'
<1> USE DEF IInv
<1>1. /\ op \in {"begin", "flush", "end", "abort"} /\ ret = Nothing
      /\ op' = op /\ ret' = ret /\ tx' = tx /\ load' = load /\ aborting' = aborting
  BY Methods DEF MethodControl, Step, handle
<1>2. NoChannelLeaks' /\ EndedLoadIsExact' /\ AbortRollsBack'
  BY <1>1 DEF NoChannelLeaks, EndedLoadIsExact, AbortRollsBack, Nothing
<1>3. /\ op' # "none" => ret' = Nothing
      /\ op' = "begin" => tx' = "none"
      /\ op' \in {"flush", "end", "abort"} => tx' = "open"
      /\ op' = "begin" \/ tx' = "open" => load' > 0
      /\ op' \in {"none", "flush"} => ~aborting'
      /\ op' = "abort" => aborting'
  BY <1>1 DEF MethodControl
<1>4. loading' => op' = "begin"
  <2>1. Now = "START" => op = "begin"
    BY Methods, StatementPlaces DEF Places
  <2> QED BY <1>1, <2>1 DEF MethodControl
<1>5. CASE todo' = Tail(todo)
  BY <1>1, <1>2, <1>3, <1>4, <1>5, Advancing, Zenon DEF MethodControl
<1>6. CASE todo' = <<"FAIL">>
  <2>1. todo' \in Seq(Statements)
    BY <1>6 DEF Statements
  <2>2. ~Begins' /\ ~Flushes' /\ ~EndsLoad' /\ ~Aborts'
    BY <1>6 DEF Begins, Flushes, EndsLoad, Aborts, Failing
  <2> QED BY <1>2, <1>3, <1>4, <2>1, <2>2 DEF MethodControl
<1>7. CASE todo' = StatementsAfterLock /\ Now = "PROBE"
  <2>1. Begins /\ ~Releasing /\ todo \in Seq(Statements) /\ Now = First(todo)
    BY <1>7, StatementPlaces, TodoType DEF Places
  <2>2. EndOf(todo, BeginClosed)
    <3>1. EndOf(todo, BeginClosed) \/ EndOf(todo, BeginLocked)
      BY <2>1 DEF MethodControl
    <3>2. Left > 7
      BY <1>7, StatementPlaces DEF Places
    <3> QED BY <2>1, <3>1, <3>2 DEF Releasing
  <2>3. todo' \in Seq(Statements) /\ EndOf(todo', BeginLocked)
    BY <1>7, <2>1, <2>2, LockFound, Zenon DEF StatementsAfterLock
  <2>4. EndOf(todo, BeginLocked)'
    BY <2>3 DEF EndOf, BeginLocked, BeginProgram, DropErrorTables, ReleaseLoad
  <2>5. Begins /\ ~Flushes' /\ ~EndsLoad' /\ ~Aborts'
    BY <1>1, <2>1 DEF Begins, Flushes, EndsLoad, Aborts
  <2> QED BY <1>2, <1>3, <1>4, <2>3, <2>4, <2>5 DEF MethodControl
<1> QED BY <1>5, <1>6, <1>7

\* The types of the next state, one by one.
LEMMA TypeNext ==
    ASSUME /\ op' \in {"none", "begin", "flush", "end", "abort"}
           /\ todo' \in Seq(Statements) /\ (op' = "none" => todo' = <<>>),
           /\ err' \in BOOLEAN /\ loading' \in BOOLEAN /\ aborting' \in BOOLEAN /\ live' \in BOOLEAN
           /\ opened' \in BOOLEAN /\ inTx' \in BOOLEAN /\ channels' \in BOOLEAN /\ locked' \in BOOLEAN
           /\ srvTx' \in BOOLEAN /\ ending' \in BOOLEAN,
           /\ tx' \in {"none", "open", "done"} /\ control' \in {"none", "up", "bad"}
           /\ inTx' => control' # "none"
           /\ load' \in 0..MaxLoads /\ accepted' \in 0..MaxRows,
           /\ errTabs' \subseteq ErrorTables
           /\ staged' \subseteq (1..MaxLoads) \X (1..MaxRows)
           /\ table' \subseteq (1..MaxLoads) \X (1..MaxRows)
           /\ rejected' \in RowsByTable /\ report' \in RowsByTable,
           ret' \in [op : {"none", "begin", "flush", "end", "abort", "close", "closeConnection"},
                     ok : BOOLEAN, rolledBack : BOOLEAN]
    PROVE  TypeOK'
<1>1. {err', loading', aborting', live', opened', inTx', channels', locked', srvTx', ending'} \subseteq BOOLEAN
  BY Zenon
<1>2. staged' \cup table' \subseteq (1..MaxLoads) \X (1..MaxRows)
  OBVIOUS
<1>3. {rejected', report'} \subseteq [ErrorTables -> SUBSET ((1..MaxLoads) \X (1..MaxRows))]'
  BY Zenon DEF RowsByTable, ErrorTables
<1> QED BY <1>1, <1>2, <1>3, Zenon DEF TypeOK, Statements, ErrorTables

\* The variables of the connection, and of the server with what End reports of it.
ConnectionTypes ==
    /\ opened \in BOOLEAN /\ inTx \in BOOLEAN /\ channels \in BOOLEAN
    /\ control \in {"none", "up", "bad"} /\ (inTx => control # "none")
ServerTypes ==
    /\ locked \in BOOLEAN /\ srvTx \in BOOLEAN /\ ending \in BOOLEAN
    /\ errTabs \subseteq ErrorTables
    /\ staged \subseteq (1..MaxLoads) \X (1..MaxRows)
    /\ table \subseteq (1..MaxLoads) \X (1..MaxRows)
    /\ rejected \in RowsByTable /\ report \in RowsByTable

\* The types of the connection's part and of the server's.
LEMMA PartTypes == TypeOK => ConnectionTypes /\ ServerTypes
<1>1. TypeOK => ConnectionTypes
  BY Flags DEF ConnectionTypes
<1>2. TypeOK => /\ locked \in BOOLEAN /\ srvTx \in BOOLEAN /\ ending \in BOOLEAN
                /\ errTabs \subseteq ErrorTables
                /\ staged \cup table \subseteq (1..MaxLoads) \X (1..MaxRows)
                /\ rejected \in RowsByTable /\ report \in RowsByTable
  BY Flags
<1> QED BY <1>1, <1>2 DEF ServerTypes

\* A step of a method changes the types of these only.
LEMMA StepTypes ==
    ASSUME IInv, Now \in Working, Step(Now), todo' \in Seq(Statements),
           err' \in BOOLEAN, loading' \in BOOLEAN, ConnectionTypes', ServerTypes'
    PROVE  TypeOK'
<1>1. TypeOK
  BY DEF IInv
<1>2. op \in {"begin", "flush", "end", "abort"}
  BY Methods DEF IInv
<1>3. /\ op' = op /\ aborting' = aborting /\ live' = live /\ ret' = ret
      /\ tx' = tx /\ load' = load /\ accepted' = accepted
  BY DEF Step, handle
<1>4. /\ aborting \in BOOLEAN /\ live \in BOOLEAN /\ tx \in {"none", "open", "done"}
      /\ load \in 0..MaxLoads /\ accepted \in 0..MaxRows
      /\ ret \in [op : {"none", "begin", "flush", "end", "abort", "close", "closeConnection"},
                  ok : BOOLEAN, rolledBack : BOOLEAN]
  BY <1>1, Flags, Zenon
<1>5. /\ opened' \in BOOLEAN /\ inTx' \in BOOLEAN /\ channels' \in BOOLEAN
      /\ control' \in {"none", "up", "bad"} /\ (inTx' => control' # "none")
  BY Zenon DEF ConnectionTypes
<1>6. /\ locked' \in BOOLEAN /\ srvTx' \in BOOLEAN /\ ending' \in BOOLEAN
      /\ errTabs' \subseteq ErrorTables
      /\ staged' \subseteq (1..MaxLoads) \X (1..MaxRows)
      /\ table' \subseteq (1..MaxLoads) \X (1..MaxRows)
      /\ rejected' \in RowsByTable /\ report' \in RowsByTable
  BY Zenon DEF ServerTypes, ErrorTables
<1>7. /\ aborting' \in BOOLEAN /\ live' \in BOOLEAN /\ tx' \in {"none", "open", "done"}
      /\ load' \in 0..MaxLoads /\ accepted' \in 0..MaxRows
      /\ ret' \in [op : {"none", "begin", "flush", "end", "abort", "close", "closeConnection"},
                  ok : BOOLEAN, rolledBack : BOOLEAN]
      /\ op' \in {"none", "begin", "flush", "end", "abort"} /\ (op' = "none" => todo' = <<>>)
  <2>1. /\ aborting' \in BOOLEAN /\ live' \in BOOLEAN
        /\ ret' \in [op : {"none", "begin", "flush", "end", "abort", "close", "closeConnection"},
                  ok : BOOLEAN, rolledBack : BOOLEAN]
    BY <1>3, <1>4, Zenon
  <2>2. /\ tx' \in {"none", "open", "done"}
        /\ load' \in 0..MaxLoads /\ accepted' \in 0..MaxRows
        /\ op' \in {"none", "begin", "flush", "end", "abort"} /\ (op' = "none" => todo' = <<>>)
    BY <1>2, <1>3, <1>4
  <2> QED BY <2>1, <2>2
<1> QED BY <1>5, <1>6, <1>7, TypeNext, Zenon

-----------------------------------------------------------------------------
(* The statements keep the invariant.                                      *)

\* How far the method is, and what it has reached.
Reached == SessionControl /\ BeginState /\ HeldState /\ EndState /\ AbortState

\* A step that does its statement is one further in its program.
LEMMA Onwards ==
    ASSUME IInv, Now \in Working, Step(Now), todo' = Tail(todo)
    PROVE  /\ Left \in Nat /\ Left > 0 /\ Left' = Left - 1 /\ Places
           /\ Begins' => Begins /\ (Releasing' <=> Releasing /\ Left > 8)
           /\ EndsLoad' => EndsLoad
           /\ Aborts' => Aborts
           /\ Held' => Flushes \/ (EndsLoad /\ Left >= 6)
           /\ Held' => Held
           /\ ~(Begins /\ EndsLoad) /\ ~(Begins /\ Aborts) /\ ~(EndsLoad /\ Aborts)
           /\ op' = op /\ tx' = tx /\ load' = load /\ accepted' = accepted
<1>1. op' = op /\ aborting' = aborting /\ tx' = tx /\ load' = load /\ accepted' = accepted
  BY DEF Step, handle
<1>2. TypeOK /\ MethodControl
  BY DEF IInv
<1>3. /\ op # "none" /\ Left \in Nat /\ Left > 0 /\ Left' = Left - 1
      /\ Begins' => Begins /\ (Releasing' <=> Releasing /\ Left > 8)
      /\ Flushes' => Flushes
      /\ EndsLoad' => EndsLoad
      /\ Aborts' => Aborts
  BY <1>1, <1>2, Advancing, Zenon
<1>4. Places
  BY <1>2, StatementPlaces
<1>5. ~Failing
  BY <1>2, Methods
<1>6. Held' => (Flushes \/ (EndsLoad /\ Left >= 6)) /\ Held
  BY <1>1, <1>3, <1>5 DEF Held, Flushes
<1>7. ~(Begins /\ EndsLoad) /\ ~(Begins /\ Aborts) /\ ~(EndsLoad /\ Aborts)
  BY DEF Begins, EndsLoad, Aborts
<1> QED BY <1>1, <1>3, <1>4, <1>6, <1>7

\* A step that fails leaves a method that owes nothing, a failed flush apart.
LEMMA Stopped ==
    ASSUME IInv, Now \in Working, Step(Now), todo' = <<"FAIL">>
    PROVE  /\ BeginState' /\ EndState' /\ AbortState'
           /\ op # "flush" => HeldState'
<1>1. Failing' /\ op' = op
  BY DEF Failing, Step
<1>2. op # "none"
  BY Methods DEF IInv
<1> QED BY <1>1, <1>2 DEF Begins, EndsLoad, Aborts, BeginState, EndState, AbortState, HeldState, Held

\* A statement outside the control session is one a step can be at.
LEMMA StatementsWork ==
    /\ ControlStatements \subseteq Working
    /\ "OPEN" \in Working /\ "CHANNELS" \in Working /\ "FLUSH" \in Working /\ "CLEARED" \in Working
BY DEF Working, Statements, ControlStatements

\* Putting the parts of the invariant together again.
LEMMA Together ==
    ASSUME IInv, Now \in Working, Step(Now),
           \/ todo' = Tail(todo)
           \/ todo' = <<"FAIL">>
           \/ todo' = StatementsAfterLock /\ Now = "PROBE",
           err' \in BOOLEAN, loading' \in BOOLEAN, loading' => loading \/ Now = "START",
           ConnectionTypes', ServerTypes', Reached'
    PROVE  IInv'
<1>1. /\ todo' \in Seq(Statements) /\ MethodControl'
      /\ NoChannelLeaks' /\ EndedLoadIsExact' /\ AbortRollsBack'
  BY StepKeeps
<1>2. TypeOK'
  BY <1>1, StepTypes
<1> QED BY <1>1, <1>2 DEF IInv, Reached

\* Opening the sessions.
LEMMA OpenKeeps == IInv /\ Open => IInv'
<1> SUFFICES ASSUME IInv, Open PROVE IInv'
  OBVIOUS
<1>1. Now = "OPEN" /\ Now \in Working /\ Step(Now)
  BY StatementsWork DEF Open, Step
<1>2. loading' = loading /\ channels' = channels /\ UNCHANGED <<locked, errTabs, rejected, report, staged, table, srvTx, ending>>
  BY DEF Open, server
<1>3. TypeOK /\ SessionControl /\ BeginState /\ HeldState /\ EndState /\ AbortState
  BY DEF IInv
<1>4. ServerTypes' /\ loading' \in BOOLEAN /\ channels' \in BOOLEAN
  <2>1. ServerTypes /\ ConnectionTypes /\ loading \in BOOLEAN
    BY <1>3, PartTypes, Flags
  <2> QED BY <1>2, <2>1 DEF ServerTypes, ConnectionTypes, ErrorTables
<1>5. CASE Advance /\ opened' = TRUE /\ control' = "up" /\ inTx' = FALSE
  <2>1. todo' = Tail(todo) /\ err' = err
    BY <1>5 DEF Advance
  <2>2. ConnectionTypes' /\ err' \in BOOLEAN
    BY <1>3, <1>4, <1>5, <2>1, Flags DEF ConnectionTypes
  <2>3. /\ (Begins /\ ~Releasing /\ Left = 11) \/ (Aborts /\ Left = 10)
        /\ Left' = Left - 1
        /\ Begins' => Begins /\ ~Releasing'
        /\ ~EndsLoad' /\ ~Held'
        /\ Aborts' => Aborts
        /\ ~(Begins /\ Aborts)
    BY <1>1, <2>1, Onwards, Methods DEF Places, IInv
  <2>4. SessionControl'
    <3>1. ~opened
      BY <1>3, <2>3 DEF BeginState, AbortState
    <3>2. ~srvTx
      BY <1>3, <3>1 DEF SessionControl
    <3> QED BY <1>2, <1>3, <1>5, <3>2 DEF SessionControl
  <2>5. BeginState'
    BY <1>5, <2>3 DEF BeginState, Dropped
  <2>6. HeldState' /\ EndState'
    BY <2>3 DEF HeldState, EndState
  <2>7. AbortState'
    BY <1>5, <2>3 DEF AbortState, Dropped
  <2>8. Reached'
    BY <2>4, <2>5, <2>6, <2>7 DEF Reached
  <2> QED BY <1>1, <1>2, <1>4, <2>1, <2>2, <2>8, Together, Zenon
<1>6. CASE Fail("OPEN") /\ UNCHANGED <<opened, control, inTx>>
  <2>1. todo' = <<"FAIL">> /\ err' = err
    BY <1>6 DEF Fail, Collected
  <2>2. ConnectionTypes' /\ err' \in BOOLEAN
    <3>1. ConnectionTypes /\ err \in BOOLEAN
      BY <1>3, PartTypes, Flags
    <3> QED BY <1>4, <1>6, <2>1, <3>1 DEF ConnectionTypes
  <2>3. SessionControl'
    BY <1>2, <1>3, <1>6 DEF SessionControl
  <2>4. op # "flush"
    BY <1>1, Methods, StatementPlaces DEF IInv, Places
  <2>5. Reached'
    BY <1>1, <2>1, <2>3, <2>4, Stopped, Zenon DEF Reached
  <2> QED BY <1>1, <1>2, <1>4, <2>1, <2>2, <2>5, Together, Zenon
<1> QED BY <1>5, <1>6 DEF Open

\* A statement that fails, its error collected or not.
LEMMA FailKeeps ==
    ASSUME IInv, Now \in Working, Step(Now), Fail(Now), Now # "FLUSH",
           Collected(Now) => UNCHANGED <<opened, channels, locked, table>>,
           loading' \in BOOLEAN, loading' => loading \/ Now = "START",
           ConnectionTypes', ServerTypes', SessionControl'
    PROVE  IInv'
<1>1. TypeOK /\ MethodControl /\ BeginState /\ HeldState /\ EndState /\ AbortState
  BY DEF IInv
<1>2. op # "flush" /\ Places
  BY <1>1, Methods, StatementPlaces DEF Places
<1>3. CASE ~Collected(Now)
  <2>1. todo' = <<"FAIL">> /\ err' \in BOOLEAN
    BY <1>1, <1>3, Flags, Zenon DEF Fail
  <2>2. Reached'
    BY <1>2, <2>1, Stopped, Zenon DEF Reached
  <2> QED BY <2>1, <2>2, Together, Zenon
<1>4. CASE Collected(Now)
  <2>1. todo' = Tail(todo) /\ err' = TRUE
    BY <1>4, Zenon DEF Fail
  <2>2. /\ Begins => ~Releasing /\ Left \in 6..7
        /\ EndsLoad => Left \in 1..4
        /\ Aborts => Left \in 1..2
        /\ ~Flushes
    <3>1. Now \in {"DROP_err1", "DROP_err2", "READ_err1", "READ_err2"}
      BY <1>4 DEF Collected
    <3>2. ~(Begins /\ EndsLoad) /\ ~(Begins /\ Aborts) /\ ~(EndsLoad /\ Aborts) /\ ~Flushes
      BY <1>1, <1>2, Methods
    <3> QED BY <1>2, <3>1, <3>2 DEF Places
  <2>3. /\ Left' = Left - 1
        /\ Begins' => Begins /\ ~Releasing'
        /\ EndsLoad' => EndsLoad
        /\ Aborts' => Aborts
        /\ ~Held'
        /\ load' = load /\ accepted' = accepted
    BY <2>1, <2>2, Onwards
  <2>4. BeginState'
    BY <1>1, <1>4, <2>1, <2>2, <2>3 DEF BeginState, Dropped
  <2>5. EndState'
    BY <1>1, <1>4, <2>1, <2>2, <2>3 DEF EndState, ReportState, Dropped
  <2>6. AbortState'
    BY <1>1, <1>4, <2>1, <2>2, <2>3 DEF AbortState, Dropped
  <2>7. HeldState'
    BY <2>3 DEF HeldState
  <2>8. Reached'
    BY <2>4, <2>5, <2>6, <2>7 DEF Reached
  <2>9. err' \in BOOLEAN
    BY <2>1
  <2> QED BY <2>1, <2>8, <2>9, Together, Zenon
<1> QED BY <1>3, <1>4

\* Opening the data channels.
LEMMA OpenDataChannelsKeeps == IInv /\ OpenDataChannels => IInv'
<1> SUFFICES ASSUME IInv, OpenDataChannels PROVE IInv'
  OBVIOUS
<1>1. Now = "CHANNELS" /\ Now \in Working /\ Step(Now) /\ ~Collected(Now)
  BY StatementsWork DEF OpenDataChannels, Step, Collected
<1>2. loading' = loading /\ UNCHANGED <<opened, control, inTx, locked, errTabs, rejected, report, staged, table, srvTx, ending>>
  BY DEF OpenDataChannels, server
<1>3. TypeOK /\ SessionControl /\ BeginState /\ HeldState /\ EndState /\ AbortState
  BY DEF IInv
<1>4. ServerTypes' /\ loading' \in BOOLEAN /\ ConnectionTypes /\ err \in BOOLEAN
  <2>1. ServerTypes /\ ConnectionTypes /\ loading \in BOOLEAN /\ err \in BOOLEAN
    BY <1>3, PartTypes, Flags
  <2> QED BY <1>2, <2>1 DEF ServerTypes, ErrorTables
<1>5. SessionControl'
  BY <1>2, <1>3 DEF SessionControl
<1>6. CASE Advance /\ channels' = TRUE
  <2>1. todo' = Tail(todo) /\ err' = err
    BY <1>6 DEF Advance
  <2>2. ConnectionTypes' /\ err' \in BOOLEAN
    BY <1>2, <1>4, <1>6, <2>1 DEF ConnectionTypes
  <2>3. /\ (Begins /\ ~Releasing /\ Left = 9) \/ (Aborts /\ Left = 9)
        /\ Left' = Left - 1
        /\ Begins' => Begins /\ ~Releasing'
        /\ ~EndsLoad' /\ ~Held'
        /\ Aborts' => Aborts
        /\ ~(Begins /\ Aborts)
    BY <1>1, <2>1, Onwards, Methods DEF Places, IInv
  <2>4. BeginState'
    BY <1>2, <1>3, <1>6, <2>3 DEF BeginState, Dropped
  <2>5. HeldState' /\ EndState'
    BY <2>3 DEF HeldState, EndState
  <2>6. AbortState'
    BY <1>2, <1>3, <2>3 DEF AbortState, Dropped
  <2>7. Reached'
    BY <1>5, <2>4, <2>5, <2>6 DEF Reached
  <2> QED BY <1>1, <1>2, <1>4, <2>1, <2>2, <2>7, Together, Zenon
<1>7. CASE Fail("CHANNELS") /\ UNCHANGED channels
  <2>1. ConnectionTypes'
    BY <1>2, <1>4, <1>7 DEF ConnectionTypes
  <2>2. Fail(Now) /\ Now # "FLUSH"
    BY <1>1, <1>7
  <2> QED BY <1>1, <1>2, <1>4, <1>5, <2>1, <2>2, FailKeeps, Zenon
<1> QED BY <1>6, <1>7 DEF OpenDataChannels

\* The rows of a load are rows the table can have.
LEMMA RowsFit == TypeOK /\ load > 0 => RowsOf(load, accepted) \subseteq (1..MaxLoads) \X (1..MaxRows)
<1>1. TypeOK => load \in 0..MaxLoads /\ accepted \in 0..MaxRows
  BY Flags
<1> QED BY <1>1, BoundsAssumption DEF RowsOf

\* Flush delivers the rows of the load, all of them or, when it fails, some.
LEMMA FlushChannelsKeeps == IInv /\ FlushChannels => IInv'
<1> SUFFICES ASSUME IInv, FlushChannels PROVE IInv'
  OBVIOUS
<1>1. Now = "FLUSH" /\ Now \in Working /\ Step(Now) /\ ~Collected(Now)
  BY StatementsWork DEF FlushChannels, Step, Collected
<1>2. loading' = loading /\ UNCHANGED <<opened, control, inTx, channels, locked, errTabs, rejected, report, table, srvTx, ending>>
  BY DEF FlushChannels, sessions
<1>3. TypeOK /\ MethodControl /\ SessionControl /\ BeginState /\ HeldState /\ EndState /\ AbortState
  BY DEF IInv
<1>4. PICK rs \in SUBSET RowsOf(load, accepted) :
          /\ staged' = staged \cup rs
          /\ \/ Advance /\ rs = RowsOf(load, accepted)
             \/ Fail("FLUSH")
  BY DEF FlushChannels
<1>5. loading' \in BOOLEAN /\ ServerTypes /\ ConnectionTypes' /\ err \in BOOLEAN
  <2>1. ServerTypes /\ ConnectionTypes /\ loading \in BOOLEAN /\ err \in BOOLEAN
    BY <1>3, PartTypes, Flags
  <2> QED BY <1>2, <2>1 DEF ConnectionTypes
<1>6. /\ (EndsLoad /\ Left = 10) \/ Flushes
      /\ tx = "open" /\ load > 0
      /\ Flushes <=> op = "flush"
      /\ ~Begins /\ ~Aborts
      /\ ~(EndsLoad /\ Flushes)
  BY <1>1, <1>3, Methods, StatementPlaces DEF Places, MethodControl
<1>7. ServerTypes'
  <2>1. rs \subseteq (1..MaxLoads) \X (1..MaxRows)
    BY <1>3, <1>6, RowsFit
  <2> QED BY <1>2, <1>4, <1>5, <2>1 DEF ServerTypes, ErrorTables
<1>8. Held
  BY <1>6 DEF Held
<1>9. /\ locked' /\ channels' /\ opened' /\ control' = "up" /\ table' = {}
      /\ staged' \subseteq RowsOf(load, accepted)
      /\ ~ending'
  BY <1>2, <1>3, <1>4, <1>6, <1>8 DEF HeldState
<1>10. SessionControl'
  BY <1>2, <1>3, <1>9 DEF SessionControl
<1>11. RowsOf(load, accepted)' = RowsOf(load, accepted)
  BY <1>1 DEF RowsOf, Step, handle
<1>12. HeldState'
  BY <1>9, <1>11 DEF HeldState
<1>13. CASE Advance /\ rs = RowsOf(load, accepted)
  <2>1. todo' = Tail(todo) /\ err' = err
    BY <1>13 DEF Advance
  <2>2. /\ Left' = Left - 1
        /\ ~Begins' /\ ~Aborts'
        /\ EndsLoad' => EndsLoad
    BY <1>1, <1>6, <2>1, Onwards
  <2>3. EndState'
    <3>1. staged' = RowsOf(load, accepted)
      BY <1>4, <1>13, <1>9
    <3> QED BY <1>6, <1>11, <2>2, <3>1 DEF EndState, ReportState, Dropped
  <2>4. BeginState' /\ AbortState'
    BY <2>2 DEF BeginState, AbortState
  <2>5. Reached'
    BY <1>10, <1>12, <2>3, <2>4 DEF Reached
  <2>6. err' \in BOOLEAN
    BY <1>5, <2>1
  <2> QED BY <1>1, <1>2, <1>5, <1>7, <2>1, <2>5, <2>6, Together, Zenon
<1>14. CASE Fail("FLUSH")
  <2>1. todo' = <<"FAIL">> /\ err' = err
    BY <1>14 DEF Fail, Collected
  <2>2. Reached'
    BY <1>1, <1>10, <1>12, <2>1, Stopped, Zenon DEF Reached
  <2>3. err' \in BOOLEAN
    BY <1>5, <2>1
  <2> QED BY <1>1, <1>2, <1>5, <1>7, <2>1, <2>2, <2>3, Together, Zenon
<1> QED BY <1>4, <1>13, <1>14

\* clearStaleLoad ends with the errors it collected.
LEMMA ClearedKeeps == IInv /\ Cleared => IInv'
<1> SUFFICES ASSUME IInv, Cleared PROVE IInv'
  OBVIOUS
<1>1. Now = "CLEARED" /\ Now \in Working /\ Step(Now) /\ ~Collected(Now)
  BY StatementsWork DEF Cleared, Step, Collected
<1>2. /\ loading' = loading
      /\ UNCHANGED <<opened, control, inTx, channels, locked, errTabs, rejected, report, staged, table, srvTx, ending>>
  BY DEF Cleared, sessions, server
<1>3. TypeOK /\ SessionControl /\ BeginState /\ HeldState /\ EndState /\ AbortState
  BY DEF IInv
<1>4. ServerTypes' /\ ConnectionTypes' /\ loading' \in BOOLEAN /\ err \in BOOLEAN
  <2>1. ServerTypes /\ ConnectionTypes /\ loading \in BOOLEAN /\ err \in BOOLEAN
    BY <1>3, PartTypes, Flags
  <2> QED BY <1>2, <2>1 DEF ServerTypes, ErrorTables, ConnectionTypes
<1>5. SessionControl'
  BY <1>2, <1>3 DEF SessionControl
<1>6. CASE ~err /\ Advance
  <2>1. todo' = Tail(todo) /\ err' = err
    BY <1>6 DEF Advance
  <2>2. /\ Begins /\ ~Releasing /\ Left = 5 /\ Left' = Left - 1
        /\ Begins' => ~Releasing'
        /\ ~EndsLoad' /\ ~Held' /\ ~Aborts'
    BY <1>1, <2>1, <1>3, Onwards, Methods DEF Places, IInv
  <2>3. BeginState'
    BY <1>2, <1>3, <1>6, <2>2 DEF BeginState, Dropped
  <2>4. HeldState' /\ EndState' /\ AbortState'
    BY <2>2 DEF HeldState, EndState, AbortState
  <2>5. Reached'
    BY <1>5, <2>3, <2>4 DEF Reached
  <2>6. err' \in BOOLEAN
    BY <1>4, <2>1
  <2> QED BY <1>1, <1>2, <1>4, <2>1, <2>5, <2>6, Together, Zenon
<1>7. CASE Fail("CLEARED")
  <2>1. Fail(Now) /\ Now # "FLUSH"
    BY <1>1, <1>7
  <2> QED BY <1>1, <1>2, <1>4, <1>5, <2>1, FailKeeps, Zenon
<1> QED BY <1>6, <1>7 DEF Cleared

\* A transaction the client sees is not begun twice, and one it does not see is
\* not ended.
LEMMA SkipKeeps == IInv /\ Skip => IInv'
<1> SUFFICES ASSUME IInv, Skip PROVE IInv'
  OBVIOUS
<1>1. Now \in {"BT", "ET"} /\ Now \in Working /\ Step(Now)
  BY StatementsWork DEF Skip, Skipped, Step, ControlStatements
<1>2. /\ loading' = loading /\ todo' = Tail(todo) /\ err' = err
      /\ UNCHANGED <<opened, control, inTx, channels, locked, errTabs, rejected, report, staged, table, srvTx, ending>>
  BY DEF Skip, sessions, server, Advance
<1>3. TypeOK /\ SessionControl /\ BeginState /\ HeldState /\ EndState /\ AbortState
  BY DEF IInv
<1>4. ServerTypes' /\ ConnectionTypes' /\ loading' \in BOOLEAN /\ err' \in BOOLEAN
  <2>1. ServerTypes /\ ConnectionTypes /\ loading \in BOOLEAN /\ err \in BOOLEAN
    BY <1>3, PartTypes, Flags
  <2> QED BY <1>2, <2>1 DEF ServerTypes, ErrorTables, ConnectionTypes
<1>5. SessionControl'
  BY <1>2, <1>3 DEF SessionControl
<1>6. /\ Left \in Nat /\ Left > 0 /\ Left' = Left - 1
      /\ Begins' => Begins /\ (Releasing' <=> Releasing /\ Left > 8)
      /\ EndsLoad' => EndsLoad
      /\ Aborts' => Aborts
      /\ Held' => Held
      /\ op' = op /\ tx' = tx /\ load' = load /\ accepted' = accepted
      /\ ~(Begins /\ EndsLoad) /\ ~(Begins /\ Aborts) /\ ~(EndsLoad /\ Aborts)
  BY <1>1, <1>2, Onwards
<1>7. RowsOf(load, accepted)' = RowsOf(load, accepted)
  BY <1>6 DEF RowsOf
<1>8. /\ Begins => (~Releasing /\ Left = 2) \/ (Releasing /\ Left \in {9, 11, 13})
      /\ EndsLoad => Left \in {5, 7, 8}
      /\ Aborts => Left \in {4, 6, 8}
      /\ ~Flushes
  <2>1. Places
    BY <1>1, <1>2, Onwards
  <2>2. Begins \/ EndsLoad \/ Aborts \/ Flushes
    BY <1>1, <1>3, Methods DEF IInv
  <2> QED BY <1>1, <1>6, <2>1, <2>2 DEF Places
<1>9. EndsLoad => Left = 8 /\ ~srvTx
  <2> SUFFICES ASSUME EndsLoad PROVE Left = 8 /\ ~srvTx
    OBVIOUS
  <2>1. Held /\ control = "up"
    BY <1>3, <1>8 DEF Held, HeldState
  <2>2. inTx <=> srvTx
    BY <1>3, <2>1 DEF SessionControl
  <2>3. Left = 5 => srvTx /\ Now = "ET"
    BY <1>1, <1>2, <1>3, Onwards DEF EndState, Places
  <2>4. Left = 7 => ~srvTx /\ Now = "BT"
    BY <1>1, <1>2, <1>3, Onwards DEF EndState, Places
  <2>5. Left = 8 => Now = "ET"
    BY <1>1, <1>2, Onwards DEF Places
  <2>6. (Now = "BT" /\ inTx) \/ (Now = "ET" /\ ~inTx)
    BY DEF Skip, Skipped
  <2> QED BY <1>8, <2>2, <2>3, <2>4, <2>5, <2>6
<1>10. BeginState'
  BY <1>2, <1>3, <1>6, <1>8 DEF BeginState, Dropped
<1>11. HeldState'
  BY <1>2, <1>3, <1>6, <1>7, <1>9 DEF HeldState
<1>12. EndState'
  BY <1>2, <1>3, <1>6, <1>7, <1>9 DEF EndState, ReportState, Dropped
<1>13. AbortState'
  BY <1>2, <1>3, <1>6, <1>8 DEF AbortState, Dropped
<1>14. Reached'
  BY <1>5, <1>10, <1>11, <1>12, <1>13 DEF Reached
<1> QED BY <1>1, <1>2, <1>4, <1>14, Together, Zenon

\* A statement the client refuses.
LEMMA RefuseByClientKeeps == IInv /\ RefuseByClient => IInv'
<1> SUFFICES ASSUME IInv, RefuseByClient PROVE IInv'
  OBVIOUS
<1>1. Now \in Working /\ Now # "FLUSH" /\ Step(Now) /\ Fail(Now)
  BY StatementsWork DEF RefuseByClient, ControlStatements
<1>2. /\ loading' = loading
      /\ UNCHANGED <<opened, control, inTx, channels, locked, errTabs, rejected, report, staged, table, srvTx, ending>>
  BY DEF RefuseByClient, sessions, server
<1>3. TypeOK /\ SessionControl
  BY DEF IInv
<1>4. ServerTypes' /\ ConnectionTypes' /\ loading' \in BOOLEAN
  <2>1. ServerTypes /\ ConnectionTypes /\ loading \in BOOLEAN
    BY <1>3, PartTypes, Flags
  <2> QED BY <1>2, <2>1 DEF ServerTypes, ErrorTables, ConnectionTypes
<1>5. SessionControl'
  BY <1>2, <1>3 DEF SessionControl
<1> QED BY <1>1, <1>2, <1>4, <1>5, FailKeeps, Zenon

\* What the server does when it executes a statement.
LEMMA Performed ==
    ASSUME TypeOK, Perform(Now)
    PROVE  /\ locked' \in BOOLEAN /\ errTabs' \subseteq ErrorTables
           /\ staged' \subseteq (1..MaxLoads) \X (1..MaxRows)
           /\ table' \subseteq (1..MaxLoads) \X (1..MaxRows)
           /\ rejected' \in RowsByTable
           /\ Ends(Now) => /\ ~locked' /\ staged' = {} /\ errTabs' = errTabs
                           /\ table = {} => SplitOver(staged, table', rejected'["err1"], rejected'["err2"])
           /\ ~Ends(Now) =>
                /\ staged' = staged
                /\ Now # "DELETE" => table' = table
                /\ Now = "DELETE" => table' = {}
                /\ Now \in {"BEGIN_LOADING", "START"} => locked' /\ errTabs' = ErrorTables
                /\ Now \notin {"BEGIN_LOADING", "START"} => (locked' <=> locked)
                /\ Now = "DROP_err1" => errTabs' = errTabs \ {"err1"}
                /\ Now = "DROP_err2" => errTabs' = errTabs \ {"err2"}
                /\ Now \notin {"BEGIN_LOADING", "START", "DROP_err1", "DROP_err2"} => errTabs' = errTabs
                /\ errTabs' = ErrorTables => rejected' = rejected
<1>1. ServerTypes
  BY PartTypes
<1>2. locked' \in BOOLEAN
      /\ (locked' <=> Now \in {"BEGIN_LOADING", "START"} \/ (locked /\ ~Ends(Now)))
  BY Zenon DEF Perform
<1>3. /\ Now \in {"BEGIN_LOADING", "START"} => errTabs' = ErrorTables
      /\ Now = "DROP_err1" => errTabs' = errTabs \ {"err1"}
      /\ Now = "DROP_err2" => errTabs' = errTabs \ {"err2"}
      /\ Now \notin {"BEGIN_LOADING", "START", "DROP_err1", "DROP_err2"} => errTabs' = errTabs
  BY DEF Perform
<1>4. Ends(Now) => Now \in {"ET", "END_LOADING"}
  BY DEF Ends
<1>5. errTabs' \subseteq ErrorTables
  BY <1>1, <1>3 DEF ServerTypes
<1>6. CASE Ends(Now)
  <2>1. PICK good \in SUBSET staged, bad \in SUBSET staged :
            /\ good \cap bad = {}
            /\ table' = table \cup good
            /\ rejected' = [t \in ErrorTables |-> IF t = "err1" THEN bad ELSE (staged \ good) \ bad]
            /\ staged' = {}
    BY <1>6, Zenon DEF Perform
  <2>2. /\ staged' \subseteq (1..MaxLoads) \X (1..MaxRows)
        /\ table' \subseteq (1..MaxLoads) \X (1..MaxRows)
    BY <1>1, <2>1 DEF ServerTypes
  <2>3. rejected' \in RowsByTable
    BY <1>1, <2>1 DEF ServerTypes, RowsByTable
  <2>4. rejected'["err1"] = bad /\ rejected'["err2"] = (staged \ good) \ bad
    BY <2>1 DEF ErrorTables
  <2>5. table = {} => table' = good
    BY <2>1
  <2>6. table = {} => SplitOver(staged, table', rejected'["err1"], rejected'["err2"])
    BY <2>1, <2>4, <2>5 DEF SplitOver
  <2> QED BY <1>2, <1>3, <1>4, <1>5, <1>6, <2>1, <2>2, <2>3, <2>6
<1>7. CASE ~Ends(Now)
  <2>1. /\ staged' = staged /\ table' = IF Now = "DELETE" THEN {} ELSE table
        /\ rejected' = [t \in ErrorTables |-> IF t \in errTabs' THEN rejected[t] ELSE {}]
    BY <1>7, Zenon DEF Perform
  <2>2. /\ staged' \subseteq (1..MaxLoads) \X (1..MaxRows)
        /\ table' \subseteq (1..MaxLoads) \X (1..MaxRows)
    BY <1>1, <2>1 DEF ServerTypes
  <2>3. rejected' \in RowsByTable
    BY <1>1, <2>1 DEF ServerTypes, RowsByTable
  <2>4. errTabs' = ErrorTables => rejected' = rejected
    BY <1>1, <2>1 DEF ServerTypes, RowsByTable
  <2> QED BY <1>2, <1>3, <1>5, <1>7, <2>1, <2>2, <2>3, <2>4
<1> QED BY <1>6, <1>7

\* The control session breaks.
LEMMA BrokenKeeps == IInv /\ Broken => IInv'
<1> SUFFICES ASSUME IInv, Broken PROVE IInv'
  OBVIOUS
<1>1. Now \in Working /\ Now # "FLUSH" /\ Step(Now) /\ Fail(Now) /\ control = "up"
  BY StatementsWork DEF Broken, Sent, ControlStatements
<1>2. /\ control' = "bad" /\ srvTx' = FALSE /\ ending' = FALSE
      /\ loading' = loading /\ report' = report /\ UNCHANGED <<opened, inTx, channels>>
  BY DEF Broken, SessionLost
<1>3. TypeOK /\ SessionControl
  BY DEF IInv
<1>4. ConnectionTypes' /\ loading' \in BOOLEAN
  <2>1. ConnectionTypes /\ loading \in BOOLEAN
    BY <1>3, PartTypes, Flags
  <2> QED BY <1>2, <2>1 DEF ConnectionTypes
<1>5. /\ locked' \in BOOLEAN /\ errTabs' \subseteq ErrorTables
      /\ staged' \subseteq (1..MaxLoads) \X (1..MaxRows)
      /\ table' \subseteq (1..MaxLoads) \X (1..MaxRows)
      /\ rejected' \in RowsByTable
      /\ ~locked' => staged' = {}
      /\ locked' => errTabs' = ErrorTables
      /\ Collected(Now) => (locked' <=> locked) /\ table' = table
  <2>1. CASE UNCHANGED <<locked, errTabs, rejected, staged, table>>
    <3>1. ServerTypes
      BY <1>3, PartTypes
    <3> QED BY <1>3, <2>1, <3>1 DEF ServerTypes, SessionControl
  <2>2. CASE Executable(Now) /\ Perform(Now)
    <3>1. Collected(Now) => ~Ends(Now) /\ Now \notin {"DELETE", "BEGIN_LOADING", "START"}
      BY DEF Collected, Ends
    <3>2. (~locked => staged = {}) /\ (locked => errTabs = ErrorTables)
      BY <1>3 DEF SessionControl
    <3>3. Now \in {"DROP_err1", "DROP_err2"} => ~locked
      BY <2>2 DEF Executable
    <3> QED BY <1>3, <2>2, <3>1, <3>2, <3>3, Performed
  <2> QED BY <2>1, <2>2 DEF Broken
<1>6. ServerTypes'
  <2>1. report' \in RowsByTable
    BY <1>2, <1>3, Flags
  <2> QED BY <1>2, <1>5, <2>1 DEF ServerTypes, ErrorTables, RowsByTable
<1>7. SessionControl'
  BY <1>1, <1>2, <1>3, <1>5 DEF SessionControl
<1>8. Collected(Now) => UNCHANGED <<opened, channels, locked, table>>
  <2>1. locked \in BOOLEAN
    BY <1>3, Flags
  <2>2. Collected(Now) => locked' = locked
    BY <1>5, <2>1
  <2> QED BY <1>2, <1>5, <2>2
<1> QED BY <1>1, <1>2, <1>4, <1>6, <1>7, <1>8, FailKeeps, Zenon

\* A statement the server refuses: when the probe finds a lock the load that
\* holds it is released first.
LEMMA RefusedByServerKeeps == IInv /\ RefusedByServer => IInv'
<1> SUFFICES ASSUME IInv, RefusedByServer PROVE IInv'
  OBVIOUS
<1>1. Now \in Working /\ Now # "FLUSH" /\ Step(Now) /\ control = "up"
  BY StatementsWork DEF RefusedByServer, Sent, ControlStatements
<1>2. /\ inTx' = FALSE /\ srvTx' = FALSE /\ ending' = FALSE
      /\ loading' = loading /\ UNCHANGED <<opened, control, channels, locked, errTabs, rejected, report, staged, table>>
  BY DEF RefusedByServer, SessionLost
<1>3. TypeOK /\ MethodControl /\ SessionControl /\ BeginState
  BY DEF IInv
<1>4. ConnectionTypes' /\ ServerTypes' /\ loading' \in BOOLEAN /\ err \in BOOLEAN
  <2>1. ConnectionTypes /\ ServerTypes /\ loading \in BOOLEAN /\ err \in BOOLEAN
    BY <1>3, PartTypes, Flags
  <2> QED BY <1>2, <2>1 DEF ConnectionTypes, ServerTypes, ErrorTables
<1>5. SessionControl'
  BY <1>1, <1>2, <1>3 DEF SessionControl
<1>6. CASE Now = "PROBE" /\ locked /\ todo' = StatementsAfterLock /\ err' = err
  <2>1. Begins /\ ~Releasing /\ Left = 8 /\ op = "begin" /\ tx = "none" /\ ~aborting
    BY <1>1, <1>3, <1>6, StatementPlaces, Methods DEF Places, Begins
  <2>2. todo \in Seq(Statements) /\ Now = First(todo) /\ EndOf(todo, BeginClosed)
    <3>1. EndOf(todo, BeginClosed) \/ EndOf(todo, BeginLocked)
      BY <1>3, <2>1 DEF MethodControl
    <3>2. EndOf(todo, BeginClosed)
      BY <2>1, <3>1 DEF Releasing
    <3> QED BY <1>3, <3>2, TodoType
  <2>3. EndOf(todo', BeginLocked) /\ Len(todo') = 13
    BY <1>6, <2>2, LockFound, Zenon DEF StatementsAfterLock
  <2>4. Left' = 13
    BY <2>3 DEF Left
  <2>5. EndOf(todo, BeginLocked)'
    BY <2>3 DEF EndOf, BeginLocked, BeginProgram, DropErrorTables, ReleaseLoad
  <2>6. Releasing'
    BY <2>4, <2>5 DEF Releasing
  <2>7. op' = "begin" /\ tx' = "none" /\ aborting' = aborting
    BY <1>1, <2>1 DEF Step, handle
  <2>8. ~EndsLoad' /\ ~Aborts' /\ ~Held'
    BY <2>1, <2>7 DEF EndsLoad, Aborts, Held
  <2>9. BeginState'
    BY <1>2, <1>3, <2>1, <2>4, <2>6 DEF BeginState, Dropped
  <2>10. HeldState' /\ EndState' /\ AbortState'
    BY <2>8 DEF HeldState, EndState, AbortState
  <2>11. Reached'
    BY <1>5, <2>9, <2>10 DEF Reached
  <2>12. err' \in BOOLEAN
    BY <1>4, <1>6
  <2> QED BY <1>1, <1>2, <1>4, <1>6, <2>11, <2>12, Together, Zenon
<1>7. CASE Fail(Now)
  BY <1>1, <1>2, <1>4, <1>5, <1>7, FailKeeps, Zenon
<1> QED BY <1>6, <1>7 DEF RefusedByServer

\* A statement the server executes.
LEMMA ExecutedKeeps == IInv /\ Executed => IInv'
<1> SUFFICES ASSUME IInv, Executed PROVE IInv'
  OBVIOUS
<1>1. /\ Now \in Working /\ Now # "FLUSH" /\ Now \in ControlStatements /\ Step(Now) /\ control = "up"
      /\ ~(Now = "ET" /\ ~inTx)
  BY StatementsWork DEF Executed, Sent, ControlStatements, Skipped
<1>2. /\ todo' = Tail(todo) /\ err' = err
      /\ UNCHANGED <<opened, control, channels>>
  BY DEF Executed, Advance
<1>3. TypeOK /\ MethodControl /\ SessionControl /\ BeginState /\ HeldState /\ EndState /\ AbortState
  BY DEF IInv
<1>4. /\ srvTx' \in BOOLEAN /\ (srvTx' <=> Now = "BT" \/ (srvTx /\ Now # "ET"))
      /\ inTx' \in BOOLEAN /\ (inTx' <=> srvTx')
      /\ loading' \in BOOLEAN /\ (loading' => loading \/ Now = "START")
  BY Zenon DEF Executed
<1>5. ending' \in BOOLEAN /\ (ending' <=> IF Now = "END_LOADING" THEN srvTx ELSE ending /\ Now # "ET")
  <2>1. srvTx \in BOOLEAN
    BY <1>3, Flags
  <2>2. ending' = IF Now = "END_LOADING" THEN srvTx ELSE ending /\ Now # "ET"
    BY DEF Executed
  <2> QED BY <2>1, <2>2, Zenon
<1>6. /\ Now \in {"PROBE", "DELETE", "DROP_err1", "DROP_err2"} => ~locked
      /\ Now = "START" => locked \/ table = {}
  BY DEF Executed, Executable
<1>7. /\ locked' \in BOOLEAN /\ errTabs' \subseteq ErrorTables
      /\ staged' \subseteq (1..MaxLoads) \X (1..MaxRows)
      /\ table' \subseteq (1..MaxLoads) \X (1..MaxRows)
      /\ rejected' \in RowsByTable
      /\ Ends(Now) => /\ ~locked' /\ staged' = {} /\ errTabs' = errTabs
                      /\ table = {} => SplitOver(staged, table', rejected'["err1"], rejected'["err2"])
      /\ ~Ends(Now) =>
            /\ staged' = staged
            /\ errTabs' = ErrorTables => rejected' = rejected
            /\ Now # "DELETE" => table' = table
            /\ Now = "DELETE" => table' = {}
            /\ Now \in {"BEGIN_LOADING", "START"} => locked' /\ errTabs' = ErrorTables
            /\ Now \notin {"BEGIN_LOADING", "START"} => (locked' <=> locked)
            /\ Now = "DROP_err1" => errTabs' = errTabs \ {"err1"}
            /\ Now = "DROP_err2" => errTabs' = errTabs \ {"err2"}
            /\ Now \notin {"BEGIN_LOADING", "START", "DROP_err1", "DROP_err2"} => errTabs' = errTabs
  BY <1>3, Performed DEF Executed
<1>8. Ends(Now) <=> (Now = "ET" /\ ending) \/ (Now = "END_LOADING" /\ ~srvTx)
  BY DEF Ends
<1>9. ConnectionTypes' /\ ServerTypes' /\ err' \in BOOLEAN
  <2>1. ConnectionTypes /\ err \in BOOLEAN
    BY <1>3, PartTypes, Flags
  <2>2. ConnectionTypes'
    BY <1>1, <1>2, <1>4, <2>1 DEF ConnectionTypes
  <2>3. report' \in RowsByTable
    <3>1. rejected \in RowsByTable /\ report \in RowsByTable
      BY <1>3, Flags
    <3>2. rejected["err1"] \in SUBSET ((1..MaxLoads) \X (1..MaxRows))
          /\ rejected["err2"] \in SUBSET ((1..MaxLoads) \X (1..MaxRows))
      BY <3>1 DEF RowsByTable, ErrorTables
    <3>3. \/ report' = [report EXCEPT !["err1"] = rejected["err1"]]
          \/ report' = [report EXCEPT !["err2"] = rejected["err2"]]
          \/ report' = report
      BY DEF Executed, Reads
    <3> QED BY <3>1, <3>2, <3>3 DEF RowsByTable
  <2> QED BY <1>2, <1>4, <1>5, <1>7, <2>1, <2>2, <2>3 DEF ServerTypes, ErrorTables, RowsByTable
<1>10. /\ Left \in Nat /\ Left > 0 /\ Left' = Left - 1 /\ Places
       /\ Begins' => Begins /\ (Releasing' <=> Releasing /\ Left > 8)
       /\ EndsLoad' => EndsLoad
       /\ Aborts' => Aborts
       /\ Held' => EndsLoad /\ Left >= 6
       /\ op' = op /\ tx' = tx /\ load' = load /\ accepted' = accepted
       /\ ~(Begins /\ EndsLoad) /\ ~(Begins /\ Aborts) /\ ~(EndsLoad /\ Aborts)
  BY <1>1, <1>2, Onwards DEF Places
<1>11. RowsOf(load, accepted)' = RowsOf(load, accepted)
  BY <1>10 DEF RowsOf
<1>12. EndsLoad /\ Left >= 5 =>
          /\ locked /\ channels /\ opened /\ table = {} /\ staged \subseteq RowsOf(load, accepted)
          /\ Left >= 6 => ~ending
  BY <1>3 DEF Held, HeldState
<1>13. SessionControl'
  <2>1. Now = "BT" => locked
    BY <1>3, <1>10, <1>12 DEF Places, BeginState, AbortState
  <2>2. srvTx' => locked'
    BY <1>3, <1>4, <1>7, <1>8, <2>1 DEF SessionControl
  <2>3. ~locked' => staged' = {}
    BY <1>3, <1>7, <1>8 DEF SessionControl
  <2>4. ending' => srvTx'
    BY <1>3, <1>4, <1>5 DEF SessionControl
  <2>5. locked' => errTabs' = ErrorTables
    BY <1>3, <1>6, <1>7 DEF SessionControl
  <2> QED BY <1>1, <1>2, <1>3, <1>4, <2>2, <2>3, <2>4, <2>5 DEF SessionControl, ErrorTables
<1>14. BeginState'
  <2> SUFFICES ASSUME Begins' PROVE BeginState'
    BY DEF BeginState
  <2>1. Begins /\ ~EndsLoad /\ ~Aborts /\ (Releasing' <=> Releasing /\ Left > 8) /\ Left' = Left - 1
    BY <1>10
  <2>2. Left' <= 8 \/ Releasing' => channels'
    <3>1. Releasing \/ Left \in 1..8 \/ Left = 10
      BY <1>1, <1>10, <2>1 DEF Places, ControlStatements
    <3>2. Left <= 8 \/ Releasing => channels
      BY <1>3, <2>1 DEF BeginState
    <3> QED BY <1>2, <1>10, <2>1, <3>1, <3>2
  <2>3. Left' <= 10 \/ Releasing' => opened'
    <3>1. Releasing \/ Left \in 1..8 \/ Left = 10
      BY <1>1, <1>10, <2>1 DEF Places, ControlStatements
    <3>2. Left <= 10 \/ Releasing => opened
      BY <1>3, <2>1 DEF BeginState
    <3> QED BY <1>2, <1>10, <2>1, <3>1, <3>2
  <2>4. Releasing' /\ Left' \in {10, 11} => locked'
    <3>1. Releasing' /\ Left' = 11 => Now = "BEGIN_LOADING"
      BY <1>1, <1>10, <2>1 DEF Places, ControlStatements
    <3>2. Releasing' /\ Left' = 10 => Now = "BT" /\ locked
      BY <1>1, <1>3, <1>10, <2>1 DEF Places, ControlStatements, BeginState
    <3> QED BY <1>7, <1>8, <3>1, <3>2
  <2>5. Left' \in 3..7 => ~locked' /\ ~Ends(Now) /\ Now \in {"PROBE", "DELETE", "DROP_err1", "DROP_err2", "DATEFORM"}
    <3>1. Left' \in 3..7 => Now \in {"PROBE", "DELETE", "DROP_err1", "DROP_err2", "DATEFORM"}
      BY <1>1, <1>10, <2>1 DEF Places, ControlStatements
    <3>2. Left' \in 3..7 /\ Now = "DATEFORM" => ~locked
      BY <1>3, <1>10, <2>1 DEF Places, BeginState
    <3> QED BY <1>6, <1>7, <1>8, <3>1, <3>2
  <2>6. Left' = 6 => err' \/ "err1" \notin errTabs'
    <3>1. Left' = 6 => Now = "DROP_err1"
      BY <1>1, <1>10, <2>1 DEF Places, ControlStatements
    <3> QED BY <1>7, <1>8, <3>1
  <2>7. Left' = 5 => err' \/ errTabs' = {}
    <3>1. Left' = 5 => Now = "DROP_err2" /\ Left = 6
      BY <1>1, <1>10, <2>1 DEF Places, ControlStatements
    <3>2. Left = 6 => err \/ "err1" \notin errTabs
      BY <1>3, <2>1 DEF BeginState, Dropped
    <3>3. errTabs \subseteq ErrorTables
      BY <1>3, Flags
    <3> QED BY <1>2, <1>7, <1>8, <3>1, <3>2, <3>3 DEF ErrorTables
  <2>8. Left' \in 3..4 => errTabs' = {}
    <3>1. Left' \in 3..4 => Now = "DATEFORM" /\ Left = 4
      BY <1>1, <1>10, <2>1 DEF Places, ControlStatements
    <3> QED BY <1>3, <1>7, <1>8, <2>1, <3>1 DEF BeginState
  <2>9. Left' <= 2 => locked' /\ table' = {} /\ staged' = {} /\ control' = "up" /\ ~ending'
    <3>1. Left' <= 2 => Now \in {"START", "BT", "USING"} /\ Left \in 1..3
      BY <1>1, <1>10, <2>1 DEF Places, ControlStatements
    <3>2. Left = 3 /\ Now = "START" => ~locked /\ table = {} /\ staged = {} /\ ~ending
      BY <1>3, <1>6, <2>1 DEF BeginState, SessionControl
    <3>3. Left \in 1..2 => locked /\ table = {} /\ staged = {} /\ ~ending
      BY <1>3, <2>1 DEF BeginState
    <3>4. Left \in 1..2 => Now \in {"BT", "USING"}
      BY <1>1, <1>10, <2>1 DEF Places, ControlStatements
    <3>5. CASE Left = 3 /\ Now = "START"
      BY <1>1, <1>2, <1>5, <1>7, <1>8, <3>2, <3>5
    <3>6. CASE Left \in 1..2
      <4>1. ~Ends(Now) /\ Now \in {"BT", "USING"}
        BY <1>8, <3>3, <3>4, <3>6
      <4> QED BY <1>1, <1>2, <1>5, <1>7, <3>3, <3>6, <4>1
    <3>7. Left = 3 => Now = "START"
      BY <1>1, <1>10, <2>1 DEF Places, ControlStatements
    <3> QED BY <3>1, <3>5, <3>6, <3>7
  <2>10. ~(Left' = 11 /\ ~Releasing')
    BY <1>1, <1>10, <2>1 DEF Places, ControlStatements
  <2>11. Left' \in Int
    BY <1>10
  <2> QED BY <2>2, <2>3, <2>4, <2>5, <2>6, <2>7, <2>8, <2>9, <2>10, <2>11 DEF BeginState, Dropped
<1>15. HeldState'
  <2> SUFFICES ASSUME Held' PROVE HeldState'
    BY DEF HeldState
  <2>1. EndsLoad /\ Left >= 6 /\ ~Begins /\ ~Aborts
    BY <1>10
  <2>2. locked /\ channels /\ opened /\ table = {} /\ staged \subseteq RowsOf(load, accepted) /\ ~ending
    BY <1>10, <1>12, <2>1
  <2>3. ~Ends(Now) /\ Now \in {"CHECKPOINT", "ET", "BT", "END_LOADING"}
        /\ (Now = "END_LOADING" => Left = 6)
    <3>1. Now \in {"CHECKPOINT", "ET", "BT", "END_LOADING"} /\ (Now = "END_LOADING" => Left = 6)
      BY <1>1, <1>10, <2>1 DEF Places, ControlStatements
    <3>2. Now = "END_LOADING" => srvTx
      BY <1>3, <2>1, <3>1 DEF EndState
    <3> QED BY <1>8, <2>2, <3>1, <3>2
  <2>4. locked' /\ channels' /\ opened' /\ control' = "up" /\ table' = {} /\ staged' = staged
    BY <1>1, <1>2, <1>7, <2>2, <2>3
  <2>5. op' # "none" /\ op' # "flush"
    BY <1>10, <2>1 DEF EndsLoad
  <2>6. Left' >= 6 => ~ending'
    BY <1>5, <1>10, <2>2, <2>3
  <2> QED BY <1>11, <2>2, <2>4, <2>5, <2>6 DEF HeldState
<1>16. EndState'
  <2> SUFFICES ASSUME EndsLoad' PROVE EndState'
    BY DEF EndState
  <2>1. EndsLoad /\ ~Begins /\ ~Aborts /\ Left' = Left - 1 /\ Left \in Nat
    BY <1>10
  <2>2. (Left = 9 /\ Now = "CHECKPOINT") \/ (Left \in {8, 5} /\ Now = "ET") \/ (Left = 7 /\ Now = "BT")
        \/ (Left = 6 /\ Now = "END_LOADING") \/ (Left = 4 /\ Now = "READ_err1") \/ (Left = 3 /\ Now = "READ_err2")
        \/ (Left = 2 /\ Now = "DROP_err1") \/ (Left = 1 /\ Now = "DROP_err2")
    BY <1>1, <1>10, <2>1 DEF Places, ControlStatements
  <2>3. CASE Left >= 6
    <3>1. staged = RowsOf(load, accepted) /\ ~ending /\ (Left = 6 => srvTx)
      BY <1>3, <1>12, <2>1, <2>2, <2>3 DEF EndState
    <3>2. ~Ends(Now) /\ staged' = staged
      BY <1>7, <1>8, <2>2, <2>3, <3>1
    <3>3. /\ Left' = 7 => ~srvTx'
          /\ Left' \in {5, 6} => srvTx'
          /\ Left' = 5 => ending'
      BY <1>4, <1>5, <2>1, <2>2, <2>3, <3>1
    <3>4. Left' >= 5
      BY <2>1, <2>3
    <3> QED BY <1>11, <2>1, <3>1, <3>2, <3>3, <3>4 DEF EndState, ReportState, Dropped
  <2>4. CASE Left = 5
    <3>1. /\ staged = RowsOf(load, accepted) /\ ending /\ table = {} /\ locked
          /\ errTabs = ErrorTables
      BY <1>3, <1>12, <2>1, <2>4 DEF EndState, SessionControl
    <3>2. Ends(Now) /\ ~locked' /\ errTabs' = errTabs
      BY <1>7, <1>8, <2>2, <2>4, <3>1
    <3>3. SplitOver(RowsOf(load, accepted), table', rejected'["err1"], rejected'["err2"])
      BY <1>7, <3>1, <3>2
    <3> QED BY <1>2, <1>11, <2>1, <2>4, <3>1, <3>2, <3>3 DEF EndState, ReportState, Dropped, ErrorTables
  <2>5. CASE Left \in 1..4
    <3>1. /\ ~locked /\ ReportState
          /\ Left = 1 => err \/ "err1" \notin errTabs
      BY <1>3, <2>1, <2>5 DEF EndState, Dropped
    <3>2. ~Ends(Now) /\ table' = table /\ ~locked'
      BY <1>7, <1>8, <2>2, <2>5, <3>1
    <3>3. Left = 2 => "err1" \notin errTabs'
      BY <1>7, <2>2, <3>2
    <3>4. Left = 1 => err' \/ errTabs' = {}
      <4>1. errTabs \subseteq ErrorTables
        BY <1>3, Flags
      <4> QED BY <1>2, <1>7, <2>2, <3>1, <3>2, <4>1 DEF ErrorTables
    <3>5. Left \in 3..4 => errTabs' = errTabs /\ (errTabs = ErrorTables => rejected' = rejected)
      BY <1>7, <2>2, <3>2
    <3>6. /\ Left = 4 => report'["err1"] = rejected["err1"]
          /\ Left = 3 => report'["err1"] = report["err1"] /\ report'["err2"] = rejected["err2"]
          /\ Left \in 1..2 => report' = report
      <4>1. DOMAIN report = ErrorTables
        BY <1>3, Flags DEF RowsByTable
      <4> QED BY <2>2, <4>1 DEF Executed, Reads, ErrorTables
    <3>7. ReportState'
      <4>1. Left = 4 => /\ err' \/ errTabs' = ErrorTables
                        /\ err' \/ SplitOver(RowsOf(load, accepted)', table', report'["err1"], rejected'["err2"])
        BY <1>2, <1>11, <3>1, <3>2, <3>5, <3>6 DEF ReportState
      <4>2. Left = 3 => err' \/ SplitOver(RowsOf(load, accepted)', table', report'["err1"], report'["err2"])
        BY <1>2, <1>11, <3>1, <3>2, <3>5, <3>6 DEF ReportState
      <4>3. Left \in 1..2 => err' \/ SplitOver(RowsOf(load, accepted)', table', report'["err1"], report'["err2"])
        BY <1>2, <1>11, <3>1, <3>2, <3>6 DEF ReportState
      <4> QED BY <2>1, <2>5, <4>1, <4>2, <4>3 DEF ReportState, ErrorTables
    <3> QED BY <2>1, <2>5, <3>2, <3>3, <3>4, <3>7 DEF EndState, Dropped
  <2> QED BY <2>1, <2>2, <2>3, <2>4, <2>5
<1>17. AbortState'
  <2> SUFFICES ASSUME Aborts' PROVE AbortState'
    BY DEF AbortState
  <2>1. Aborts /\ ~Begins /\ ~EndsLoad /\ Left' = Left - 1 /\ Left \in Nat
    BY <1>10
  <2>2. (Left \in {8, 4} /\ Now = "ET") \/ (Left = 7 /\ Now = "BEGIN_LOADING") \/ (Left = 6 /\ Now = "BT")
        \/ (Left = 5 /\ Now = "END_LOADING") \/ (Left = 3 /\ Now = "DELETE")
        \/ (Left = 2 /\ Now = "DROP_err1") \/ (Left = 1 /\ Now = "DROP_err2")
    BY <1>1, <1>10, <2>1 DEF Places, ControlStatements
  <2>3. opened'
    BY <1>2, <1>3, <2>1, <2>2 DEF AbortState
  <2>4. Left' = 6 => locked'
    BY <1>7, <1>8, <2>1, <2>2
  <2>5. Left' <= 2 => ~locked' /\ table' = {}
    <3>1. Left \in 1..2 => table = {}
      BY <1>3, <2>1 DEF AbortState
    <3>2. Left' <= 2 => Left \in 1..3 /\ ~Ends(Now) /\ Now \in {"DELETE", "DROP_err1", "DROP_err2"}
      BY <1>8, <2>1, <2>2
    <3>3. Left = 3 => Now = "DELETE"
      BY <2>2
    <3> QED BY <1>6, <1>7, <2>2, <3>1, <3>2, <3>3
  <2>6. /\ Left = 2 => "err1" \notin errTabs'
        /\ Left = 1 => err' \/ errTabs' = {}
    <3>1. errTabs \subseteq ErrorTables
      BY <1>3, Flags
    <3>2. Left = 1 => err \/ "err1" \notin errTabs
      BY <1>3, <2>1 DEF AbortState, Dropped
    <3> QED BY <1>2, <1>7, <1>8, <2>2, <3>1, <3>2 DEF ErrorTables
  <2> QED BY <2>1, <2>2, <2>3, <2>4, <2>5, <2>6 DEF AbortState, Dropped
<1>18. Reached'
  BY <1>13, <1>14, <1>15, <1>16, <1>17 DEF Reached
<1> QED BY <1>1, <1>2, <1>4, <1>9, <1>18, Together, Zenon

-----------------------------------------------------------------------------
(* The methods begin and return.                                           *)

\* Empty error tables, and a report of none.
LEMMA NoRowsFit == NoRows \in RowsByTable
BY DEF NoRows, RowsByTable

\* The first state.
LEMMA InitIInv == Init => IInv
<1> SUFFICES ASSUME Init PROVE IInv
  OBVIOUS
<1>1. /\ op = "none" /\ todo = <<>> /\ err = FALSE /\ loading = FALSE /\ aborting = FALSE
      /\ live = TRUE /\ ret = Nothing
      /\ opened = FALSE /\ control = "none" /\ inTx = FALSE /\ channels = FALSE
      /\ tx = "none" /\ load = 0 /\ accepted = 0
      /\ locked = FALSE /\ errTabs = {} /\ rejected = NoRows /\ report = NoRows
      /\ staged = {} /\ table = {} /\ srvTx = FALSE /\ ending = FALSE
  BY DEF Init
<1>2. TypeOK
  <2>1. /\ op \in {"none", "begin", "flush", "end", "abort"}
        /\ todo \in Seq(Statements) /\ (op = "none" => todo = <<>>)
        /\ tx \in {"none", "open", "done"} /\ control \in {"none", "up", "bad"}
        /\ (inTx => control # "none")
        /\ errTabs \subseteq ErrorTables
    BY <1>1
  <2>2. load \in 0..MaxLoads /\ accepted \in 0..MaxRows
    BY <1>1, BoundsAssumption
  <2>3. /\ err \in BOOLEAN /\ loading \in BOOLEAN /\ aborting \in BOOLEAN /\ live \in BOOLEAN
        /\ opened \in BOOLEAN /\ inTx \in BOOLEAN /\ channels \in BOOLEAN /\ locked \in BOOLEAN
        /\ srvTx \in BOOLEAN /\ ending \in BOOLEAN
    BY <1>1
  <2>4. /\ staged \cup table \subseteq (1..MaxLoads) \X (1..MaxRows)
        /\ rejected \in RowsByTable /\ report \in RowsByTable
    BY <1>1, NoRowsFit
  <2>5. ret \in [op : {"none", "begin", "flush", "end", "abort", "close", "closeConnection"},
                 ok : BOOLEAN, rolledBack : BOOLEAN]
    BY <1>1 DEF Nothing
  <2> QED BY <2>1, <2>2, <2>3, <2>4, <2>5, Flags, Zenon
<1>3. MethodControl /\ ~Begins /\ ~EndsLoad /\ ~Aborts /\ ~Held
  BY <1>1 DEF MethodControl, Begins, Flushes, EndsLoad, Aborts, Held
<1>4. SessionControl
  BY <1>1 DEF SessionControl
<1>5. NoChannelLeaks /\ EndedLoadIsExact /\ AbortRollsBack
  BY <1>1 DEF NoChannelLeaks, EndedLoadIsExact, AbortRollsBack, Nothing
<1> QED BY <1>2, <1>3, <1>4, <1>5 DEF IInv, BeginState, HeldState, EndState, AbortState

\* A program is the end of itself, and BeginFastLoad with open sessions the end
\* of BeginFastLoad with closed ones.
LEMMA Beginnings ==
    /\ EndOf(BeginClosed, BeginClosed) /\ EndOf(BeginProgram, BeginClosed)
    /\ EndOf(FlushProgram, FlushProgram) /\ EndOf(EndProgram, EndProgram)
    /\ EndOf(AbortProgram, AbortProgram)
<1>1. \A p \in Seq(Statements) : EndOf(p, p)
  BY DEF EndOf
<1>2. /\ BeginClosed \in Seq(Statements) /\ FlushProgram \in Seq(Statements)
      /\ EndProgram \in Seq(Statements) /\ AbortProgram \in Seq(Statements)
  BY BeginClosedAt, FlushProgramAt, EndAt, AbortAt
<1>3. EndOf(BeginProgram, BeginClosed)
  <2>1. Len(BeginProgram) = 10 /\ Len(BeginClosed) = 11
    BY BeginAt, BeginClosedAt
  <2>2. /\ BeginProgram[1] = BeginClosed[2] /\ BeginProgram[2] = BeginClosed[3]
        /\ BeginProgram[3] = BeginClosed[4] /\ BeginProgram[4] = BeginClosed[5]
        /\ BeginProgram[5] = BeginClosed[6] /\ BeginProgram[6] = BeginClosed[7]
        /\ BeginProgram[7] = BeginClosed[8] /\ BeginProgram[8] = BeginClosed[9]
        /\ BeginProgram[9] = BeginClosed[10] /\ BeginProgram[10] = BeginClosed[11]
    BY BeginAt, BeginClosedAt, Zenon
  <2>3. \A j \in 1..10 : BeginProgram[j] = BeginClosed[j + 1]
    BY <2>2
  <2>4. \A j \in 1..10 : Len(BeginClosed) - Len(BeginProgram) + j = j + 1
    BY <2>1
  <2> QED BY <2>1, <2>3, <2>4 DEF EndOf
<1> QED BY <1>1, <1>2, <1>3, Zenon

\* A method begins: BeginFastLoad, or one of an open transaction.
LEMMA BeginFastLoadKeeps == IInv /\ BeginFastLoad => IInv'
<1> SUFFICES ASSUME IInv, BeginFastLoad PROVE IInv'
  OBVIOUS
<1>1. TypeOK /\ MethodControl /\ SessionControl
  BY DEF IInv
<1>2. /\ op' = "begin" /\ err' = FALSE /\ loading' = FALSE /\ aborting' = FALSE /\ live' \in BOOLEAN
      /\ ret' = Nothing /\ tx' = "none" /\ load' = load + 1 /\ accepted' = 0 /\ load < MaxLoads
      /\ report' = NoRows
      /\ UNCHANGED <<opened, control, inTx, channels, locked, errTabs, rejected, staged, table, srvTx, ending>>
  BY DEF BeginFastLoad, Start, sessions, server
<1>3. todo' = IF opened THEN BeginProgram ELSE BeginClosed
  <2>1. BeginProgram \in Seq(Statements)
    BY BeginAt
  <2>2. <<>> \o BeginProgram = BeginProgram
    BY <2>1, ConcatEmptySeq
  <2>3. todo' = (IF opened THEN <<>> ELSE <<"OPEN">>) \o BeginProgram
    BY DEF BeginFastLoad, Start
  <2> QED BY <2>2, <2>3, Zenon DEF BeginClosed
<1>4. /\ todo' \in Seq(Statements) /\ EndOf(todo', BeginClosed)
      /\ opened => Len(todo') = 10
      /\ ~opened => Len(todo') = 11
  <2>1. CASE opened
    <3>1. todo' = BeginProgram
      BY <1>3, <2>1
    <3> QED BY <2>1, <3>1, BeginAt, Beginnings, Zenon
  <2>2. CASE ~opened
    <3>1. todo' = BeginClosed
      BY <1>3, <2>2
    <3> QED BY <2>2, <3>1, BeginClosedAt, Beginnings, Zenon
  <2> QED BY <2>1, <2>2
<1>5. TypeOK'
  <2>1. ConnectionTypes /\ ServerTypes /\ load \in 0..MaxLoads
    BY <1>1, PartTypes, Flags
  <2>2. ConnectionTypes' /\ ServerTypes'
    BY <1>2, <2>1, NoRowsFit DEF ConnectionTypes, ServerTypes
  <2>3. load' \in 0..MaxLoads /\ accepted' \in 0..MaxRows
    BY <1>2, <2>1, BoundsAssumption
  <2>4. ret' \in [op : {"none", "begin", "flush", "end", "abort", "close", "closeConnection"},
                  ok : BOOLEAN, rolledBack : BOOLEAN]
    BY <1>2 DEF Nothing
  <2>5. /\ err' \in BOOLEAN /\ loading' \in BOOLEAN /\ aborting' \in BOOLEAN
        /\ op' \in {"none", "begin", "flush", "end", "abort"} /\ op' # "none"
        /\ tx' \in {"none", "open", "done"}
    BY <1>2
  <2> QED BY <1>2, <1>4, <2>2, <2>3, <2>4, <2>5, TypeNext, Zenon DEF ConnectionTypes, ServerTypes
<1>6. (opened => Left' = 10) /\ (~opened => Left' = 11) /\ ~Releasing'
  <2>1. Left' = Len(todo')
    BY DEF Left
  <2>2. EndOf(todo', BeginLocked) => Len(todo') \in 0..7
    BY <1>4, NotBoth
  <2>3. EndOf(todo, BeginLocked)' <=> EndOf(todo', BeginLocked)
    BY DEF EndOf, BeginLocked, BeginProgram, DropErrorTables, ReleaseLoad
  <2>4. (opened => Left' = 10) /\ (~opened => Left' = 11)
    BY <1>4, <2>1, Zenon
  <2>5. Left' \notin 0..7
    BY <2>4
  <2> QED BY <2>1, <2>2, <2>3, <2>4, <2>5, Zenon DEF Releasing
<1>7. MethodControl' /\ NoChannelLeaks' /\ EndedLoadIsExact' /\ AbortRollsBack'
  <2>1. EndOf(todo, BeginClosed)' <=> EndOf(todo', BeginClosed)
    BY DEF EndOf, BeginClosed, BeginProgram, DropErrorTables
  <2>2. ~Flushes' /\ ~EndsLoad' /\ ~Aborts'
    BY <1>2 DEF Flushes, EndsLoad, Aborts
  <2>3. load' > 0
    BY <1>1, <1>2, Flags
  <2>4. MethodControl'
    BY <1>2, <1>4, <2>1, <2>2, <2>3 DEF MethodControl
  <2> QED BY <1>2, <2>4 DEF NoChannelLeaks, EndedLoadIsExact, AbortRollsBack, Nothing
<1>8. SessionControl'
  BY <1>1, <1>2 DEF SessionControl
<1>9. BeginState'
  BY <1>2, <1>6 DEF BeginState, Dropped
<1>10. HeldState' /\ EndState' /\ AbortState'
  BY <1>2 DEF HeldState, Held, EndState, EndsLoad, AbortState, Aborts
<1> QED BY <1>5, <1>7, <1>8, <1>9, <1>10 DEF IInv

\* What ret can be.
Returns == [op : {"none", "begin", "flush", "end", "abort", "close", "closeConnection"},
            ok : BOOLEAN, rolledBack : BOOLEAN]

\* A method returns and no load is left in the caller's hands.
LEMMA ReturnKeeps ==
    ASSUME /\ op' = "none" /\ todo' = <<>> /\ err' = FALSE /\ loading' = FALSE /\ aborting' = FALSE
           /\ live' = TRUE /\ ret' \in Returns,
           tx' \in {"none", "done"} /\ load' \in 0..MaxLoads /\ accepted' \in 0..MaxRows,
           channels' = FALSE, ConnectionTypes', ServerTypes', SessionControl',
           EndedLoadIsExact', AbortRollsBack'
    PROVE  IInv'
<1>1. TypeOK'
  <2>1. /\ err' \in BOOLEAN /\ loading' \in BOOLEAN /\ aborting' \in BOOLEAN /\ live' \in BOOLEAN
    OBVIOUS
  <2>2. op' \in {"none", "begin", "flush", "end", "abort"} /\ tx' \in {"none", "open", "done"}
    OBVIOUS
  <2>3. todo' \in Seq(Statements)
    OBVIOUS
  <2> QED BY <2>1, <2>2, <2>3, TypeNext, Zenon DEF ConnectionTypes, ServerTypes, Returns
<1>2. MethodControl' /\ ~Begins' /\ ~EndsLoad' /\ ~Aborts' /\ ~Held'
  BY DEF MethodControl, Begins, Flushes, EndsLoad, Aborts, Held
<1>3. BeginState' /\ HeldState' /\ EndState' /\ AbortState'
  BY <1>2 DEF BeginState, HeldState, EndState, AbortState
<1>4. NoChannelLeaks'
  BY DEF NoChannelLeaks
<1> QED BY <1>1, <1>2, <1>3, <1>4 DEF IInv

\* A load is in the caller's hands.
LEMMA HandedOutKeeps ==
    ASSUME IInv,
           /\ op' = "none" /\ todo' = <<>> /\ err' = FALSE /\ loading' = FALSE /\ aborting' = FALSE
           /\ live' = TRUE /\ ret' \in Returns /\ ret'.op \in {"begin", "flush"} /\ ~ret'.rolledBack,
           tx' = "open" /\ load' = load /\ accepted' = accepted /\ load > 0,
           UNCHANGED <<opened, control, inTx, channels, locked, errTabs, rejected, report, staged, table, srvTx, ending>>,
           /\ locked /\ channels /\ opened /\ control = "up"
           /\ table = {} /\ staged \subseteq RowsOf(load, accepted) /\ ~ending
    PROVE  IInv'
<1>1. TypeOK /\ SessionControl
  BY DEF IInv
<1>2. ConnectionTypes /\ ServerTypes /\ load \in 0..MaxLoads /\ accepted \in 0..MaxRows
  BY <1>1, PartTypes, Flags
<1>3. ConnectionTypes' /\ ServerTypes'
  BY <1>2 DEF ConnectionTypes, ServerTypes, ErrorTables
<1>4. TypeOK'
  <2>1. /\ err' \in BOOLEAN /\ loading' \in BOOLEAN /\ aborting' \in BOOLEAN /\ live' \in BOOLEAN
    OBVIOUS
  <2>2. /\ op' \in {"none", "begin", "flush", "end", "abort"} /\ tx' \in {"none", "open", "done"}
        /\ load' \in 0..MaxLoads /\ accepted' \in 0..MaxRows
    BY <1>2
  <2>3. todo' \in Seq(Statements)
    OBVIOUS
  <2> QED BY <1>3, <2>1, <2>2, <2>3, TypeNext, Zenon DEF ConnectionTypes, ServerTypes, Returns
<1>5. MethodControl' /\ ~Begins' /\ ~EndsLoad' /\ ~Aborts'
  BY DEF MethodControl, Begins, Flushes, EndsLoad, Aborts
<1>6. BeginState' /\ EndState' /\ AbortState'
  BY <1>5 DEF BeginState, EndState, AbortState
<1>7. HeldState'
  BY DEF HeldState, RowsOf
<1>8. SessionControl'
  BY <1>1 DEF SessionControl
<1>9. NoChannelLeaks' /\ EndedLoadIsExact' /\ AbortRollsBack'
  BY DEF NoChannelLeaks, EndedLoadIsExact, AbortRollsBack
<1> QED BY <1>4, <1>5, <1>6, <1>7, <1>8, <1>9 DEF IInv

\* Abort begins with everything closed.
LEMMA BeginAbortKeeps ==
    ASSUME IInv, BeginAbort, ret' = Nothing, live' \in BOOLEAN,
           loading' \in BOOLEAN /\ (loading' => op' = "begin"),
           \/ op' = "begin" /\ op = "begin"
           \/ op' \in {"end", "abort"} /\ tx = "open"
    PROVE  IInv'
<1>1. TypeOK /\ MethodControl /\ SessionControl
  BY DEF IInv
<1>2. /\ todo' = AbortProgram /\ aborting' = TRUE /\ err' = FALSE /\ channels' = FALSE
      /\ opened' = FALSE /\ control' = "none" /\ inTx' = FALSE /\ srvTx' = FALSE /\ ending' = FALSE
      /\ UNCHANGED <<tx, load, accepted, locked, errTabs, rejected, report, staged, table>>
  BY DEF BeginAbort, CloseSessions, SessionLost, handle
<1>3. todo' \in Seq(Statements) /\ Len(todo') = 10 /\ EndOf(todo', AbortProgram)
  BY <1>2, AbortAt, Beginnings, Zenon
<1>4. TypeOK'
  <2>1. ConnectionTypes /\ ServerTypes /\ load \in 0..MaxLoads /\ accepted \in 0..MaxRows
        /\ tx \in {"none", "open", "done"}
    BY <1>1, PartTypes, Flags
  <2>2. ConnectionTypes' /\ ServerTypes'
    BY <1>2, <2>1 DEF ConnectionTypes, ServerTypes, ErrorTables
  <2>3. /\ err' \in BOOLEAN /\ aborting' \in BOOLEAN
        /\ op' \in {"none", "begin", "flush", "end", "abort"} /\ op' # "none"
        /\ load' \in 0..MaxLoads /\ accepted' \in 0..MaxRows /\ tx' \in {"none", "open", "done"}
    BY <1>2, <2>1
  <2>4. ret' \in [op : {"none", "begin", "flush", "end", "abort", "close", "closeConnection"},
                  ok : BOOLEAN, rolledBack : BOOLEAN]
    BY DEF Nothing
  <2> QED BY <1>3, <2>2, <2>3, <2>4, TypeNext, Zenon DEF ConnectionTypes, ServerTypes
<1>5. MethodControl'
  <2>1. EndOf(todo, AbortProgram)' <=> EndOf(todo', AbortProgram)
    BY DEF EndOf, AbortProgram, DropErrorTables, ReleaseLoad
  <2>2. ~Begins' /\ ~Flushes' /\ ~EndsLoad'
    BY <1>2 DEF Begins, Flushes, EndsLoad
  <2> QED BY <1>1, <1>2, <1>3, <2>1, <2>2 DEF MethodControl
<1>6. SessionControl'
  BY <1>1, <1>2 DEF SessionControl
<1>7. BeginState' /\ HeldState' /\ EndState'
  BY <1>2 DEF BeginState, Begins, HeldState, Held, EndState, EndsLoad
<1>8. AbortState'
  <2>1. Left' = 10
    BY <1>3 DEF Left
  <2> QED BY <1>2, <2>1 DEF AbortState, Dropped
<1>9. NoChannelLeaks' /\ EndedLoadIsExact' /\ AbortRollsBack'
  BY DEF NoChannelLeaks, EndedLoadIsExact, AbortRollsBack, Nothing
<1> QED BY <1>4, <1>5, <1>6, <1>7, <1>8, <1>9 DEF IInv

\* Adding a row.
LEMMA AddRowKeeps == IInv /\ AddRow => IInv'
<1> SUFFICES ASSUME IInv, AddRow PROVE IInv'
  OBVIOUS
<1>1. TypeOK /\ MethodControl /\ SessionControl /\ HeldState
  BY DEF IInv
<1>2. /\ op = "none" /\ tx = "open" /\ accepted < MaxRows /\ accepted' = accepted + 1 /\ ret' = Nothing
      /\ UNCHANGED <<op, todo, err, loading, aborting, live, tx, load, locked, errTabs, table, srvTx, ending>>
      /\ UNCHANGED <<opened, control, inTx, channels, rejected, report>>
  BY DEF AddRow, sessions
<1>3. PICK rs \in SUBSET RowsOf(load, accepted') : staged' = staged \cup rs
  BY DEF AddRow
<1>4. load \in 0..MaxLoads /\ accepted \in 0..MaxRows /\ load > 0
  BY <1>1, <1>2, Flags DEF MethodControl
<1>5. accepted' \in 0..MaxRows
  BY <1>2, <1>4, BoundsAssumption
<1>6. /\ RowsOf(load, accepted') \subseteq (1..MaxLoads) \X (1..MaxRows)
      /\ RowsOf(load, accepted) \subseteq RowsOf(load, accepted')
  BY <1>2, <1>4, <1>5, BoundsAssumption DEF RowsOf
<1>7. TypeOK'
  <2>1. ConnectionTypes /\ ServerTypes
    BY <1>1, PartTypes
  <2>2. ConnectionTypes' /\ ServerTypes'
    BY <1>2, <1>3, <1>6, <2>1 DEF ConnectionTypes, ServerTypes, ErrorTables
  <2>3. /\ todo = <<>> /\ todo \in Seq(Statements)
        /\ err \in BOOLEAN /\ loading \in BOOLEAN /\ aborting \in BOOLEAN /\ live \in BOOLEAN
    BY <1>1, <1>2, Flags
  <2>4. /\ todo' = <<>> /\ todo' \in Seq(Statements)
        /\ err' \in BOOLEAN /\ loading' \in BOOLEAN /\ aborting' \in BOOLEAN /\ live' \in BOOLEAN
    BY <1>2, <2>3
  <2>5. /\ op' \in {"none", "begin", "flush", "end", "abort"}
        /\ tx' \in {"none", "open", "done"} /\ load' \in 0..MaxLoads
    BY <1>2, <1>4
  <2>6. ret' \in [op : {"none", "begin", "flush", "end", "abort", "close", "closeConnection"},
                  ok : BOOLEAN, rolledBack : BOOLEAN]
    BY <1>2 DEF Nothing
  <2> QED BY <1>5, <2>2, <2>4, <2>5, <2>6, TypeNext, Zenon DEF ConnectionTypes, ServerTypes
<1>8. ~aborting /\ ~loading
  BY <1>1, <1>2 DEF MethodControl
<1>9. MethodControl' /\ ~Begins' /\ ~EndsLoad' /\ ~Aborts'
  BY <1>2, <1>4, <1>8 DEF MethodControl, Begins, Flushes, EndsLoad, Aborts
<1>10. BeginState' /\ EndState' /\ AbortState'
  BY <1>9 DEF BeginState, EndState, AbortState
<1>11. /\ locked /\ channels /\ opened /\ control = "up" /\ table = {} /\ ~ending
       /\ staged \subseteq RowsOf(load, accepted)
  BY <1>1, <1>2 DEF Held, HeldState
<1>12. HeldState'
  <2>1. RowsOf(load, accepted)' = RowsOf(load, accepted')
    BY <1>2 DEF RowsOf
  <2>2. staged' \subseteq RowsOf(load, accepted)'
    BY <1>3, <1>6, <1>11, <2>1
  <2> QED BY <1>2, <1>11, <2>2 DEF HeldState
<1>13. SessionControl'
  BY <1>1, <1>2, <1>11 DEF SessionControl
<1>14. NoChannelLeaks' /\ EndedLoadIsExact' /\ AbortRollsBack'
  BY <1>2 DEF NoChannelLeaks, EndedLoadIsExact, AbortRollsBack, Nothing
<1> QED BY <1>7, <1>9, <1>10, <1>12, <1>13, <1>14 DEF IInv

\* Flush and End begin.
LEMMA FlushEndKeep == IInv /\ (Flush \/ End) => IInv'
<1> SUFFICES ASSUME IInv, Flush \/ End PROVE IInv'
  OBVIOUS
<1>1. TypeOK /\ MethodControl /\ SessionControl /\ HeldState
  BY DEF IInv
<1>2. /\ tx = "open" /\ op = "none"
      /\ \/ op' = "flush" /\ todo' = FlushProgram
         \/ op' = "end" /\ todo' = EndProgram
      /\ err' = FALSE /\ loading' = FALSE /\ aborting' = FALSE /\ live' \in BOOLEAN /\ ret' = Nothing
      /\ report' = NoRows
      /\ UNCHANGED <<tx, load, accepted, opened, control, inTx, channels>>
      /\ UNCHANGED <<locked, errTabs, rejected, staged, table, srvTx, ending>>
  BY Zenon DEF Flush, End, Start, sessions, handle, server, FlushProgram
<1>3. /\ todo' \in Seq(Statements)
      /\ op' = "flush" => EndOf(todo', FlushProgram)
      /\ op' = "end" => EndOf(todo', EndProgram) /\ Len(todo') = 10
  <2>1. "flush" # "end"
    OBVIOUS
  <2> QED BY <1>2, <2>1, FlushProgramAt, EndAt, Beginnings, Zenon
<1>4. TypeOK'
  <2>1. ConnectionTypes /\ ServerTypes /\ load \in 0..MaxLoads /\ accepted \in 0..MaxRows
    BY <1>1, PartTypes, Flags
  <2>2. ConnectionTypes' /\ ServerTypes'
    BY <1>2, <2>1, NoRowsFit DEF ConnectionTypes, ServerTypes
  <2>3. /\ err' \in BOOLEAN /\ loading' \in BOOLEAN /\ aborting' \in BOOLEAN
        /\ op' \in {"none", "begin", "flush", "end", "abort"} /\ op' # "none"
        /\ load' \in 0..MaxLoads /\ accepted' \in 0..MaxRows /\ tx' \in {"none", "open", "done"}
    BY <1>2, <2>1
  <2>4. ret' \in [op : {"none", "begin", "flush", "end", "abort", "close", "closeConnection"},
                  ok : BOOLEAN, rolledBack : BOOLEAN]
    BY <1>2 DEF Nothing
  <2> QED BY <1>2, <1>3, <2>2, <2>3, <2>4, TypeNext, Zenon DEF ConnectionTypes, ServerTypes
<1>5. MethodControl'
  <2>1. EndOf(todo, EndProgram)' <=> EndOf(todo', EndProgram)
    BY DEF EndOf, EndProgram, DropErrorTables
  <2>2. EndOf(todo, FlushProgram)' <=> EndOf(todo', FlushProgram)
    BY DEF EndOf, FlushProgram
  <2>3. ~Begins' /\ ~Aborts' /\ (Flushes' => op' = "flush") /\ (EndsLoad' => op' = "end")
    BY <1>2 DEF Begins, Flushes, EndsLoad, Aborts
  <2> QED BY <1>1, <1>2, <1>3, <2>1, <2>2, <2>3 DEF MethodControl
<1>6. SessionControl'
  BY <1>1, <1>2 DEF SessionControl
<1>7. BeginState' /\ AbortState'
  BY <1>2 DEF BeginState, Begins, AbortState, Aborts
<1>8. HeldState'
  <2>1. /\ locked /\ channels /\ opened /\ control = "up" /\ table = {} /\ ~ending
        /\ staged \subseteq RowsOf(load, accepted)
    BY <1>1, <1>2 DEF Held, HeldState
  <2>2. RowsOf(load, accepted)' = RowsOf(load, accepted)
    BY <1>2 DEF RowsOf
  <2> QED BY <1>2, <2>1, <2>2 DEF HeldState
<1>9. EndState'
  <2>1. EndsLoad' => Left' = 10
    BY <1>2, <1>3 DEF EndsLoad, Left
  <2> QED BY <1>2, <2>1 DEF EndState, ReportState, Dropped
<1>10. NoChannelLeaks' /\ EndedLoadIsExact' /\ AbortRollsBack'
  BY <1>2 DEF NoChannelLeaks, EndedLoadIsExact, AbortRollsBack, Nothing
<1> QED BY <1>4, <1>5, <1>6, <1>7, <1>8, <1>9, <1>10 DEF IInv

\* Abort begins.
LEMMA AbortKeeps == IInv /\ Abort => IInv'
<1> SUFFICES ASSUME IInv, Abort PROVE IInv'
  OBVIOUS
<1>1. /\ tx = "open" /\ op' = "abort" /\ loading' = FALSE /\ live' \in BOOLEAN /\ ret' = Nothing
      /\ BeginAbort
  BY DEF Abort
<1>2. loading' \in BOOLEAN /\ ~loading'
  BY <1>1
<1>3. op' \in {"end", "abort"}
  BY <1>1
<1> QED BY <1>1, <1>2, <1>3, BeginAbortKeeps, Zenon

\* Closing a transaction that is done, and closing the connection.
LEMMA CloseKeeps == IInv /\ (CloseDone \/ CloseConnection) => IInv'
<1> SUFFICES ASSUME IInv, CloseDone \/ CloseConnection PROVE IInv'
  OBVIOUS
<1>1. TypeOK /\ SessionControl /\ NoChannelLeaks
  BY DEF IInv
<1>2. /\ op = "none" /\ tx # "open"
      /\ op' = "none" /\ todo' = <<>> /\ err' = FALSE /\ loading' = FALSE /\ aborting' = FALSE /\ live' = TRUE
      /\ UNCHANGED <<channels, tx, load, accepted, locked, errTabs, rejected, report, staged, table>>
      /\ \/ UNCHANGED <<opened, control, inTx, srvTx, ending>>
         \/ opened' = FALSE /\ control' = "none" /\ inTx' = FALSE /\ srvTx' = FALSE /\ ending' = FALSE
  <2>1. CASE CloseDone
    BY <2>1 DEF CloseDone, Return, sessions, handle, server
  <2>2. CASE CloseConnection
    BY <2>2 DEF CloseConnection, Return, CloseSessions, SessionLost, handle
  <2> QED BY <2>1, <2>2
<1>3. \/ ret' = [op |-> "close", ok |-> TRUE, rolledBack |-> FALSE]
      \/ ret' = [op |-> "closeConnection", ok |-> TRUE, rolledBack |-> FALSE]
  BY DEF CloseDone, CloseConnection, Return
<1>4. ret' \in Returns /\ EndedLoadIsExact' /\ AbortRollsBack'
  <2>1. ASSUME NEW o \in {"close", "closeConnection"}, ret' = [op |-> o, ok |-> TRUE, rolledBack |-> FALSE]
        PROVE  ret' \in Returns /\ EndedLoadIsExact' /\ AbortRollsBack'
    <3>1. ret' \in Returns
      BY <2>1 DEF Returns
    <3>2. ret'.op # "end" /\ ~ret'.rolledBack
      BY <2>1
    <3> QED BY <3>1, <3>2 DEF EndedLoadIsExact, AbortRollsBack
  <2> QED BY <1>3, <2>1
<1>5. ConnectionTypes' /\ ServerTypes'
  <2>1. ConnectionTypes /\ ServerTypes
    BY <1>1, PartTypes
  <2>2. CASE UNCHANGED <<opened, control, inTx, srvTx, ending>>
    BY <1>2, <2>1, <2>2 DEF ConnectionTypes, ServerTypes, ErrorTables
  <2>3. CASE opened' = FALSE /\ control' = "none" /\ inTx' = FALSE /\ srvTx' = FALSE /\ ending' = FALSE
    BY <1>2, <2>1, <2>3 DEF ConnectionTypes, ServerTypes, ErrorTables
  <2> QED BY <1>2, <2>2, <2>3
<1>6. tx' \in {"none", "done"} /\ load' \in 0..MaxLoads /\ accepted' \in 0..MaxRows
  BY <1>1, <1>2, Flags
<1>7. channels' = FALSE
  <2>1. channels \in BOOLEAN /\ ~channels
    BY <1>1, <1>2, Flags DEF NoChannelLeaks
  <2> QED BY <1>2, <2>1
<1>8. SessionControl'
  BY <1>1, <1>2 DEF SessionControl
<1> QED BY <1>2, <1>4, <1>5, <1>6, <1>7, <1>8, ReturnKeeps, Zenon

\* A method that failed returns, or aborts its load first.
LEMMA FailedKeeps == IInv /\ Failed => IInv'
<1> SUFFICES ASSUME IInv, Failed PROVE IInv'
  OBVIOUS
<1>1. TypeOK /\ MethodControl /\ SessionControl /\ HeldState
  BY DEF IInv
<1>2. Now = "FAIL" /\ op \in {"begin", "flush", "end", "abort"}
  <2>1. Now = "FAIL" /\ todo # <<>>
    BY DEF Failed, Now
  <2> QED BY <1>1, <2>1, Flags
<1>3. ConnectionTypes /\ ServerTypes /\ load \in 0..MaxLoads /\ accepted \in 0..MaxRows
      /\ channels \in BOOLEAN /\ loading \in BOOLEAN /\ ret = Nothing
  BY <1>1, <1>2, PartTypes, Flags DEF MethodControl
<1>4. CASE aborting
  <2>1. Finish /\ Return(op, FALSE, FALSE) /\ UNCHANGED <<opened, control, inTx, load, accepted, server>>
    BY <1>4 DEF Failed
  <2>2. /\ op' = "none" /\ todo' = <<>> /\ err' = FALSE /\ loading' = FALSE /\ aborting' = FALSE /\ live' = TRUE
        /\ ret' = [op |-> op, ok |-> FALSE, rolledBack |-> FALSE]
        /\ channels' = FALSE /\ tx' \in {"none", "done"}
        /\ UNCHANGED <<opened, control, inTx, load, accepted, locked, errTabs, rejected, report, staged, table, srvTx, ending>>
    BY <2>1 DEF Finish, Return, server
  <2>3. ret' \in Returns /\ EndedLoadIsExact' /\ AbortRollsBack'
    BY <1>2, <2>2 DEF Returns, EndedLoadIsExact, AbortRollsBack
  <2>4. ConnectionTypes' /\ ServerTypes' /\ load' \in 0..MaxLoads /\ accepted' \in 0..MaxRows
    BY <1>3, <2>2 DEF ConnectionTypes, ServerTypes, ErrorTables
  <2>5. SessionControl'
    BY <1>1, <2>2 DEF SessionControl
  <2> QED BY <2>2, <2>3, <2>4, <2>5, ReturnKeeps, Zenon
<1>5. CASE ~aborting /\ (op = "end" \/ loading)
  <2>1. BeginAbort /\ live' = TRUE /\ UNCHANGED <<op, loading, ret>>
    BY <1>5 DEF Failed
  <2>2. live' \in BOOLEAN /\ ret' = Nothing /\ loading' \in BOOLEAN /\ (loading' => op' = "begin")
    BY <1>1, <1>3, <2>1 DEF MethodControl
  <2>3. \/ op' = "begin" /\ op = "begin"
        \/ op' \in {"end", "abort"} /\ tx = "open"
    BY <1>1, <1>5, <2>1 DEF MethodControl
  <2> QED BY <2>1, <2>2, <2>3, BeginAbortKeeps, Zenon
<1>6. CASE ~aborting /\ ~(op = "end" \/ loading)
  <2>1. CloseChannels /\ Return(op, FALSE, FALSE) /\ UNCHANGED <<opened, control, inTx, handle, server>>
    BY <1>6 DEF Failed
  <2>2. /\ op' = "none" /\ todo' = <<>> /\ err' = FALSE /\ loading' = FALSE /\ aborting' = FALSE /\ live' = TRUE
        /\ ret' = [op |-> op, ok |-> FALSE, rolledBack |-> FALSE]
        /\ UNCHANGED <<tx, opened, control, inTx, load, accepted, locked, errTabs, rejected, report, staged, table, srvTx, ending>>
    BY <2>1 DEF Return, handle, server
  <2>3. op \in {"begin", "flush"}
    BY <1>1, <1>2, <1>6 DEF MethodControl
  <2>4. ret' \in Returns /\ EndedLoadIsExact' /\ AbortRollsBack' /\ ret'.op \in {"begin", "flush"} /\ ~ret'.rolledBack
    BY <2>2, <2>3 DEF Returns, EndedLoadIsExact, AbortRollsBack
  <2>5. CASE op = "flush"
    <3>1. channels' = channels
      BY <1>3, <2>1, <2>5 DEF CloseChannels
    <3>2. /\ tx = "open" /\ load > 0
          /\ locked /\ channels /\ opened /\ control = "up"
          /\ table = {} /\ staged \subseteq RowsOf(load, accepted) /\ ~ending
      BY <1>1, <2>5 DEF MethodControl, Held, HeldState
    <3> QED BY <2>2, <2>4, <3>1, <3>2, HandedOutKeeps, Zenon
  <2>6. CASE op = "begin"
    <3>1. channels' = FALSE /\ tx' = "none"
      BY <1>1, <1>3, <2>1, <2>2, <2>6 DEF CloseChannels, MethodControl
    <3>2. tx' \in {"none", "done"}
      BY <3>1
    <3>3. ConnectionTypes' /\ ServerTypes' /\ load' \in 0..MaxLoads /\ accepted' \in 0..MaxRows
      BY <1>3, <2>2, <3>1 DEF ConnectionTypes, ServerTypes, ErrorTables
    <3>4. SessionControl'
      BY <1>1, <2>2 DEF SessionControl
    <3> QED BY <2>2, <2>4, <3>1, <3>2, <3>3, <3>4, ReturnKeeps, Zenon
  <2> QED BY <2>3, <2>5, <2>6
<1> QED BY <1>4, <1>5, <1>6

\* A method that did all its statements returns.
LEMMA CompleteKeeps == IInv /\ Complete => IInv'
<1> SUFFICES ASSUME IInv, Complete PROVE IInv'
  OBVIOUS
<1>1. TypeOK /\ MethodControl /\ SessionControl /\ BeginState /\ HeldState /\ EndState /\ AbortState
  BY DEF IInv
<1>2. op \in {"begin", "flush", "end", "abort"} /\ todo = <<>>
  BY <1>1, Flags DEF Complete
<1>3. Left = 0 /\ ~Failing
  BY <1>2 DEF Left, Failing
<1>4. ConnectionTypes /\ ServerTypes /\ load \in 0..MaxLoads /\ accepted \in 0..MaxRows
      /\ channels \in BOOLEAN /\ err \in BOOLEAN
  BY <1>1, PartTypes, Flags
<1>5. /\ op' = "none" /\ todo' = <<>> /\ err' = FALSE /\ loading' = FALSE /\ aborting' = FALSE /\ live' = TRUE
      /\ UNCHANGED <<opened, control, inTx, load, accepted, locked, errTabs, rejected, report, staged, table, srvTx, ending>>
  BY DEF Complete, Return, server
<1>6. RowsOf(load, accepted)' = RowsOf(load, accepted)
  BY <1>5 DEF RowsOf
<1>7. SessionControl'
  BY <1>1, <1>5 DEF SessionControl
<1>8. CASE aborting
  <2>1. /\ channels' = FALSE /\ tx' \in {"none", "done"}
        /\ ret' = [op |-> op, ok |-> op = "abort" /\ ~err, rolledBack |-> ~err]
    BY <1>8 DEF Complete, Finish, Return
  <2>2. ret' \in Returns
    <3>1. (op = "abort" /\ ~err) \in BOOLEAN /\ (~err) \in BOOLEAN
      OBVIOUS
    <3>2. op \in {"none", "begin", "flush", "end", "abort", "close", "closeConnection"}
      BY <1>2
    <3> QED BY <2>1, <3>1, <3>2, Zenon DEF Returns
  <2>3. EndedLoadIsExact'
    <3>1. ret'.op = op /\ (ret'.ok <=> (op = "abort" /\ ~err))
      BY <2>1, Zenon
    <3>2. ~(ret'.op = "end" /\ ret'.ok)
      BY <3>1
    <3> QED BY <3>2 DEF EndedLoadIsExact
  <2>4. AbortRollsBack'
    <3>1. ret'.rolledBack <=> ~err
      BY <2>1, Zenon
    <3>2. Aborts
      BY <1>3, <1>8 DEF Aborts
    <3>3. ~locked /\ table = {} /\ (err \/ errTabs = {})
      BY <1>1, <1>3, <3>2 DEF AbortState, Dropped
    <3>4. staged = {}
      BY <1>1, <3>3 DEF SessionControl
    <3> QED BY <1>5, <3>1, <3>3, <3>4 DEF AbortRollsBack
  <2>5. ConnectionTypes' /\ ServerTypes' /\ load' \in 0..MaxLoads /\ accepted' \in 0..MaxRows
    BY <1>4, <1>5, <2>1 DEF ConnectionTypes, ServerTypes, ErrorTables
  <2> QED BY <1>5, <1>7, <2>1, <2>2, <2>3, <2>4, <2>5, ReturnKeeps, Zenon
<1>9. CASE ~aborting /\ op = "end"
  <2>1. /\ channels' = FALSE /\ tx' \in {"none", "done"}
        /\ ret' = [op |-> op, ok |-> ~err, rolledBack |-> FALSE]
    BY <1>9 DEF Complete, Finish, Return
  <2>2. ret' \in Returns
    <3>1. (~err) \in BOOLEAN /\ FALSE \in BOOLEAN
      OBVIOUS
    <3>2. op \in {"none", "begin", "flush", "end", "abort", "close", "closeConnection"}
      BY <1>2
    <3> QED BY <2>1, <3>1, <3>2, Zenon DEF Returns
  <2>3. EndedLoadIsExact'
    <3>1. ret'.ok <=> ~err
      BY <2>1, Zenon
    <3>2. EndsLoad
      BY <1>3, <1>9 DEF EndsLoad
    <3>3. /\ err \/ SplitOver(RowsOf(load, accepted), table, report["err1"], report["err2"])
          /\ ~locked /\ (err \/ errTabs = {})
      BY <1>1, <1>3, <3>2 DEF EndState, ReportState, Dropped
    <3>4. ~srvTx
      BY <1>1, <3>3 DEF SessionControl
    <3> QED BY <1>5, <1>6, <3>1, <3>3, <3>4 DEF EndedLoadIsExact
  <2>4. AbortRollsBack'
    BY <2>1 DEF AbortRollsBack
  <2>5. ConnectionTypes' /\ ServerTypes' /\ load' \in 0..MaxLoads /\ accepted' \in 0..MaxRows
    BY <1>4, <1>5, <2>1 DEF ConnectionTypes, ServerTypes, ErrorTables
  <2> QED BY <1>5, <1>7, <2>1, <2>2, <2>3, <2>4, <2>5, ReturnKeeps, Zenon
<1>10. CASE ~aborting /\ op # "end"
  <2>1. /\ channels' = channels /\ tx' = "open"
        /\ ret' = [op |-> op, ok |-> TRUE, rolledBack |-> FALSE]
    BY <1>10 DEF Complete, Return
  <2>2. op \in {"begin", "flush"} /\ load > 0
    BY <1>1, <1>2, <1>10 DEF MethodControl
  <2>3. ret' \in Returns /\ ret'.op \in {"begin", "flush"} /\ ~ret'.rolledBack
    BY <2>1, <2>2 DEF Returns
  <2>4. /\ locked /\ channels /\ opened /\ control = "up"
        /\ table = {} /\ staged \subseteq RowsOf(load, accepted) /\ ~ending
    <3>1. CASE op = "begin"
      <4>1. Begins
        BY <1>3, <1>10, <3>1 DEF Begins
      <4> QED BY <1>1, <1>3, <4>1 DEF BeginState
    <3>2. CASE op = "flush"
      BY <1>1, <3>2 DEF MethodControl, Held, HeldState
    <3> QED BY <2>2, <3>1, <3>2
  <2> QED BY <1>5, <2>1, <2>2, <2>3, <2>4, HandedOutKeeps, Zenon
<1> QED BY <1>8, <1>9, <1>10

\* Only the context of a method can change while everything else stays.
LEMMA ContextKeeps ==
    ASSUME IInv, live' \in BOOLEAN,
           UNCHANGED <<op, todo, err, loading, aborting, ret, tx, load, accepted, opened, control, inTx, channels>>,
           UNCHANGED <<locked, errTabs, rejected, report, staged, table, srvTx, ending>>
    PROVE  IInv'
<1>1. TypeOK'
  <2>1. TypeOK
    BY DEF IInv
  <2>2. {err', loading', aborting', live', opened', inTx', channels', locked', srvTx', ending'} \subseteq BOOLEAN
    <3>1. /\ err \in BOOLEAN /\ loading \in BOOLEAN /\ aborting \in BOOLEAN
          /\ opened \in BOOLEAN /\ inTx \in BOOLEAN /\ channels \in BOOLEAN /\ locked \in BOOLEAN
          /\ srvTx \in BOOLEAN /\ ending \in BOOLEAN
      BY <2>1, Flags
    <3>2. /\ err' \in BOOLEAN /\ loading' \in BOOLEAN /\ aborting' \in BOOLEAN
          /\ opened' \in BOOLEAN /\ inTx' \in BOOLEAN /\ channels' \in BOOLEAN /\ locked' \in BOOLEAN
          /\ srvTx' \in BOOLEAN /\ ending' \in BOOLEAN
      BY <3>1
    <3> QED BY <3>2, Zenon
  <2> QED BY <2>1, <2>2, Zenon DEF TypeOK
<1>2. (Begins' <=> Begins) /\ (Flushes' <=> Flushes) /\ (EndsLoad' <=> EndsLoad) /\ (Aborts' <=> Aborts)
  BY Zenon DEF Begins, Flushes, EndsLoad, Aborts, Failing
<1>3. Left' = Left
  BY DEF Left
<1>4. \A p : (EndOf(todo', p) <=> EndOf(todo, p))
  BY Zenon
<1>5. EndOf(todo, BeginClosed)' <=> EndOf(todo', BeginClosed)
  BY DEF EndOf, BeginClosed, BeginProgram, DropErrorTables
<1>6. EndOf(todo, BeginLocked)' <=> EndOf(todo', BeginLocked)
  BY DEF EndOf, BeginLocked, BeginProgram, DropErrorTables, ReleaseLoad
<1>7. EndOf(todo, FlushProgram)' <=> EndOf(todo', FlushProgram)
  BY DEF EndOf, FlushProgram
<1>8. EndOf(todo, EndProgram)' <=> EndOf(todo', EndProgram)
  BY DEF EndOf, EndProgram, DropErrorTables
<1>9. EndOf(todo, AbortProgram)' <=> EndOf(todo', AbortProgram)
  BY DEF EndOf, AbortProgram, DropErrorTables, ReleaseLoad
<1>10. /\ EndOf(todo, BeginClosed)' <=> EndOf(todo, BeginClosed)
       /\ EndOf(todo, BeginLocked)' <=> EndOf(todo, BeginLocked)
       /\ EndOf(todo, FlushProgram)' <=> EndOf(todo, FlushProgram)
       /\ EndOf(todo, EndProgram)' <=> EndOf(todo, EndProgram)
       /\ EndOf(todo, AbortProgram)' <=> EndOf(todo, AbortProgram)
  BY <1>4, <1>5, <1>6, <1>7, <1>8, <1>9, Zenon
<1>11. Releasing' <=> Releasing
  BY <1>3, <1>10, Zenon DEF Releasing
<1>12. (Held' <=> Held) /\ RowsOf(load, accepted)' = RowsOf(load, accepted)
  BY <1>2, <1>3 DEF Held, RowsOf
<1>13. MethodControl'
  <2>1. MethodControl
    BY DEF IInv
  <2>2. /\ op' # "none" => ret' = Nothing
        /\ op' = "begin" => tx' = "none"
        /\ op' \in {"flush", "end", "abort"} => tx' = "open"
        /\ op' = "begin" \/ tx' = "open" => load' > 0
        /\ op' \in {"none", "flush"} => ~aborting'
        /\ op' = "abort" => aborting'
        /\ loading' => op' = "begin"
    BY <2>1 DEF MethodControl
  <2>3. /\ Begins' => EndOf(todo, BeginClosed)' \/ EndOf(todo, BeginLocked)'
        /\ Flushes' => EndOf(todo, FlushProgram)'
        /\ EndsLoad' => EndOf(todo, EndProgram)'
        /\ Aborts' => EndOf(todo, AbortProgram)'
    BY <1>2, <1>10, <2>1, Zenon DEF MethodControl
  <2> QED BY <2>2, <2>3, Zenon DEF MethodControl
<1>14. SessionControl'
  BY DEF IInv, SessionControl
<1>15. BeginState'
  <2>1. BeginState
    BY DEF IInv
  <2> QED BY <1>2, <1>3, <1>11, <2>1 DEF BeginState, Dropped
<1>16. HeldState'
  <2>1. HeldState
    BY DEF IInv
  <2> QED BY <1>3, <1>12, <2>1 DEF HeldState
<1>17. EndState'
  <2>1. EndState
    BY DEF IInv
  <2> QED BY <1>2, <1>3, <1>12, <2>1 DEF EndState, ReportState, Dropped, ErrorTables
<1>18. AbortState'
  <2>1. AbortState
    BY DEF IInv
  <2> QED BY <1>2, <1>3, <2>1 DEF AbortState, Dropped
<1>19. NoChannelLeaks' /\ EndedLoadIsExact' /\ AbortRollsBack'
  BY <1>12 DEF IInv, NoChannelLeaks, EndedLoadIsExact, AbortRollsBack
<1> QED BY <1>1, <1>13, <1>14, <1>15, <1>16, <1>17, <1>18, <1>19 DEF IInv

\* The context of a method ends.
LEMMA ContextEndsKeeps == IInv /\ ContextEnds => IInv'
<1> SUFFICES ASSUME IInv, ContextEnds PROVE IInv'
  OBVIOUS
<1>1. /\ live' \in BOOLEAN
      /\ UNCHANGED <<op, todo, err, loading, aborting, ret, tx, load, accepted, opened, control, inTx, channels>>
      /\ UNCHANGED <<locked, errTabs, rejected, report, staged, table, srvTx, ending>>
  BY DEF ContextEnds, sessions, handle, server
<1> QED BY <1>1, ContextKeeps, Zenon

\* The client's process dies.
LEMMA CrashKeeps == IInv /\ Crash => IInv'
<1> SUFFICES ASSUME IInv, Crash PROVE IInv'
  OBVIOUS
<1>1. TypeOK /\ SessionControl
  BY DEF IInv
<1>2. /\ op' = "none" /\ todo' = <<>> /\ err' = FALSE /\ loading' = FALSE /\ aborting' = FALSE /\ live' = TRUE
      /\ ret' = Nothing /\ opened' = FALSE /\ control' = "none" /\ inTx' = FALSE /\ channels' = FALSE
      /\ tx' = "none" /\ accepted' = 0 /\ srvTx' = FALSE /\ ending' = FALSE
      /\ report' = NoRows /\ UNCHANGED <<load, locked, errTabs, rejected, staged, table>>
  BY DEF Crash, SessionLost
<1>3. ret' \in Returns /\ EndedLoadIsExact' /\ AbortRollsBack'
  BY <1>2 DEF Nothing, Returns, EndedLoadIsExact, AbortRollsBack
<1>4. ConnectionTypes' /\ ServerTypes'
  <2>1. ServerTypes
    BY <1>1, PartTypes
  <2> QED BY <1>2, <2>1, NoRowsFit DEF ConnectionTypes, ServerTypes
<1>5. tx' \in {"none", "done"} /\ load' \in 0..MaxLoads /\ accepted' \in 0..MaxRows
  BY <1>1, <1>2, Flags, BoundsAssumption
<1>6. SessionControl'
  BY <1>1, <1>2 DEF SessionControl
<1> QED BY <1>2, <1>3, <1>4, <1>5, <1>6, ReturnKeeps, Zenon

-----------------------------------------------------------------------------
(* The theorems.                                                           *)

\* Every step keeps the invariant.
LEMMA IInvNext == IInv /\ [Next]_vars => IInv'
<1> SUFFICES ASSUME IInv, [Next]_vars PROVE IInv'
  OBVIOUS
<1>1. CASE Next
  BY <1>1, BeginFastLoadKeeps, AddRowKeeps, FlushEndKeep, AbortKeeps, CloseKeeps, OpenKeeps,
     OpenDataChannelsKeeps, FlushChannelsKeeps, ClearedKeeps, SkipKeeps, RefuseByClientKeeps, ExecutedKeeps,
     RefusedByServerKeeps, BrokenKeeps, FailedKeeps, CompleteKeeps, ContextEndsKeeps, CrashKeeps, Zenon
  DEF Next
<1>2. CASE UNCHANGED vars
  <2>1. /\ UNCHANGED <<op, todo, err, loading, aborting, live, ret, report>>
        /\ UNCHANGED <<tx, load, accepted, opened, control, inTx, channels>>
        /\ UNCHANGED <<locked, errTabs, rejected, report, staged, table, srvTx, ending>>
    BY <1>2 DEF vars, caller, sessions, handle, server
  <2>2. live \in BOOLEAN
    BY Flags DEF IInv
  <2>3. live' \in BOOLEAN
    BY <2>1, <2>2
  <2>4. UNCHANGED <<op, todo, err, loading, aborting, ret, tx, load, accepted, opened, control, inTx, channels>>
    BY <2>1
  <2> QED BY <2>1, <2>3, <2>4, ContextKeeps, Zenon
<1> QED BY <1>1, <1>2

\* The invariant holds in every behaviour.
LEMMA Invariant == Spec => []IInv
BY InitIInv, IInvNext, PTL DEF Spec

\* The variables keep their values and the transaction flag a session.
THEOREM TypeCorrect == Spec => []TypeOK
<1>1. IInv => TypeOK
  BY DEF IInv
<1> QED BY <1>1, Invariant, PTL

\* However an earlier load ended, BeginFastLoad begins its own on a table nobody
\* loads, without error tables, and outside a transaction.
THEOREM LoadsStartClean == Spec => []LoadStartsClean
<1>1. IInv => LoadStartsClean
  <2> SUFFICES ASSUME IInv, Now = "START" PROVE ~locked /\ errTabs = {} /\ ~srvTx
    BY DEF LoadStartsClean
  <2>1. Now \in Working
    BY StatementsWork DEF ControlStatements
  <2>2. Begins /\ ~Releasing /\ Left = 3
    BY <2>1, StatementPlaces DEF IInv, Places
  <2>3. ~locked /\ errTabs = {}
    BY <2>2 DEF IInv, BeginState
  <2> QED BY <2>3 DEF IInv, SessionControl
<1> QED BY <1>1, Invariant, PTL

\* A transaction in the caller's hands has its load, its sessions and its channels.
THEOREM OpenLoadIsHeld == Spec => []OpenTxHoldsTheLoad
<1>1. IInv => OpenTxHoldsTheLoad
  BY DEF IInv, OpenTxHoldsTheLoad, HeldState, Held
<1> QED BY <1>1, Invariant, PTL

\* When End returns without an error each row of the load is in the table or in its result,
\* whatever rows the server rejects, and the table has no other rows.
THEOREM LoadsAreExact == Spec => []EndedLoadIsExact
<1>1. IInv => EndedLoadIsExact
  BY DEF IInv
<1> QED BY <1>1, Invariant, PTL

\* Abort without an error leaves no trace of the load.
THEOREM AbortsRollBack == Spec => []AbortRollsBack
<1>1. IInv => AbortRollsBack
  BY DEF IInv
<1> QED BY <1>1, Invariant, PTL

\* No data session outlives its transaction.
THEOREM ChannelsAreClosed == Spec => []NoChannelLeaks
<1>1. IInv => NoChannelLeaks
  BY DEF IInv
<1> QED BY <1>1, Invariant, PTL

-----------------------------------------------------------------------------
(* What readers of the table see.                                          *)

\* A table being loaded is empty, the transaction a release begins with is not one that
\* ends a load, and a new load has no rows.
TableState ==
    /\ locked => table = {}
    /\ Aborts /\ Left \in 8..9 => ~ending
    /\ Begins /\ Releasing /\ Left = 13 => ~ending
    /\ op = "begin" => accepted = 0


\* Where the statements are that tell how far a load is.
LEMMA TellingPlaces ==
    /\ \A k \in 1..10 : /\ AbortProgram[k] = "DELETE" <=> k = 8
                        /\ AbortProgram[k] = "BEGIN_LOADING" <=> k = 4
    /\ \A k \in 1..13 : /\ BeginLocked[k] = "DELETE" <=> k = 6
                        /\ BeginLocked[k] = "BEGIN_LOADING" <=> k = 2
    /\ \A k \in 1..11 : BeginClosed[k] # "DELETE"
    /\ \A k \in 1..10 : EndProgram[k] # "DELETE" /\ (EndProgram[k] = "ET" <=> k \in {3, 6})
<1>1. \A k \in 1..10 : /\ AbortProgram[k] = "DELETE" <=> k = 8
                       /\ AbortProgram[k] = "BEGIN_LOADING" <=> k = 4
  BY AbortAt
<1>2. \A k \in 1..13 : /\ BeginLocked[k] = "DELETE" <=> k = 6
                       /\ BeginLocked[k] = "BEGIN_LOADING" <=> k = 2
  BY BeginLockedAt
<1>3. \A k \in 1..11 : BeginClosed[k] # "DELETE"
  BY BeginClosedAt
<1>4. \A k \in 1..10 : EndProgram[k] # "DELETE" /\ (EndProgram[k] = "ET" <=> k \in {3, 6})
  BY EndAt
<1> QED BY <1>1, <1>2, <1>3, <1>4

\* A statement that a program has in one place only is ahead as long as so much is left.
LEMMA PlaceTells ==
    ASSUME NEW p, NEW n \in Nat, NEW left \in Nat, left <= n, NEW s, NEW at \in 1..n,
           \A k \in 1..n : p[k] = s <=> k = at
    PROVE  (\E k \in (n + 1 - left)..n : p[k] = s) <=> left >= n + 1 - at
<1>1. ASSUME NEW k \in (n + 1 - left)..n, p[k] = s PROVE left >= n + 1 - at
  <2>1. k \in 1..n
    OBVIOUS
  <2>2. k = at
    BY <1>1, <2>1, Zenon
  <2> QED BY <2>2
<1>2. ASSUME left >= n + 1 - at PROVE \E k \in (n + 1 - left)..n : p[k] = s
  <2>1. at \in (n + 1 - left)..n
    BY <1>2
  <2>2. p[at] = s
    BY Zenon
  <2> QED BY <2>1, <2>2, Zenon
<1> QED BY <1>1, <1>2, Zenon

\* The statements ahead are those of the end of the program.
LEMMA AheadOf ==
    ASSUME NEW p \in Seq(Statements), EndOf(todo, p), todo \in Seq(Statements), NEW n, n = Len(p), NEW s
    PROVE  s \in Ahead <=> \E k \in (n + 1 - Left)..n : p[k] = s
<1>1. Left \in Nat /\ n \in Nat /\ Left <= n /\ \A j \in 1..Left : todo[j] = p[n - Left + j]
  BY DEF EndOf, Left
<1>2. ASSUME s \in Ahead PROVE \E k \in (n + 1 - Left)..n : p[k] = s
  <2>1. PICK j \in 1..Left : todo[j] = s
    BY <1>2 DEF Ahead, Left
  <2>2. n - Left + j \in (n + 1 - Left)..n /\ p[n - Left + j] = s
    BY <1>1, <2>1
  <2> QED BY <2>2
<1>3. ASSUME NEW k \in (n + 1 - Left)..n, p[k] = s PROVE s \in Ahead
  <2>1. PICK j : j = k - (n - Left)
    OBVIOUS
  <2>2. j \in 1..Left /\ n - Left + j = k
    BY <1>1, <2>1
  <2>3. todo[j] = s
    BY <1>1, <1>3, <2>2
  <2> QED BY <2>2, <2>3 DEF Ahead, Left
<1> QED BY <1>2, <1>3

\* A method that is over or has failed has none of them ahead.
LEMMA NothingAhead ==
    /\ todo = <<>> => Ahead = {}
    /\ Failing => Ahead = {"FAIL"}
<1>1. todo = <<>> => Ahead = {}
  BY DEF Ahead
<1>2. Failing => Ahead = {"FAIL"}
  BY DEF Failing, Ahead
<1> QED BY <1>1, <1>2

\* How much of a program is left tells what is ahead.
LEMMA AheadIs ==
    ASSUME TypeOK, MethodControl
    PROVE  /\ Aborts => ("DELETE" \in Ahead <=> Left >= 3) /\ ("BEGIN_LOADING" \in Ahead <=> Left >= 7)
           /\ Begins /\ ~Releasing => "DELETE" \notin Ahead
           /\ Begins /\ Releasing => "DELETE" \in Ahead /\ ("BEGIN_LOADING" \in Ahead <=> Left >= 12)
           /\ EndsLoad => "DELETE" \notin Ahead /\ ("ET" \in Ahead <=> Left >= 5)
           /\ Flushes => "DELETE" \notin Ahead
<1> DEFINE From(p, n, s) == \E k \in (n + 1 - Left)..n : p[k] = s
<1>1. todo \in Seq(Statements) /\ Left \in Nat
  BY TodoType DEF Left
<1>d. ASSUME NEW n \in Nat, NEW at \in 1..n, NEW p, NEW s, Left <= n, \A k \in 1..n : p[k] = s <=> k = at
      PROVE  From(p, n, s) <=> Left >= n + 1 - at
  <2> DEFINE left == Left
  <2>1. left \in Nat /\ left <= n
    BY <1>1, <1>d, Zenon
  <2>2. From(p, n, s) <=> \E k \in (n + 1 - left)..n : p[k] = s
    OBVIOUS
  <2> HIDE DEF left, From
  <2>3. (\E k \in (n + 1 - left)..n : p[k] = s) <=> left >= n + 1 - at
    BY <1>d, <2>1, PlaceTells
  <2> QED BY <2>2, <2>3, Zenon DEF left
<1>n. ASSUME NEW n \in Nat, NEW p, NEW s, Left <= n, \A k \in 1..n : p[k] # s
      PROVE  ~From(p, n, s)
  <2>1. ASSUME NEW k \in (n + 1 - Left)..n, p[k] = s PROVE FALSE
    <3>1. k \in 1..n
      BY <1>1, <1>n, <2>1
    <3> QED BY <1>n, <2>1, <3>1, Zenon
  <2> QED BY <2>1, Zenon
<1> HIDE DEF From
<1>2. ASSUME Aborts
      PROVE  ("DELETE" \in Ahead <=> Left >= 3) /\ ("BEGIN_LOADING" \in Ahead <=> Left >= 7)
  <2>1. EndOf(todo, AbortProgram) /\ AbortProgram \in Seq(Statements) /\ 10 = Len(AbortProgram)
    BY <1>2, AbortAt DEF MethodControl
  <2>2. \A s : s \in Ahead <=> From(AbortProgram, 10, s)
    BY <1>1, <2>1, AheadOf DEF From
  <2>3. Left <= 10
    BY <2>1 DEF EndOf, Left
  <2>4. From(AbortProgram, 10, "DELETE") <=> Left >= 3
    <3>1. 10 \in Nat /\ 8 \in 1..10 /\ 10 + 1 - 8 = 3
      OBVIOUS
    <3>2. \A k \in 1..10 : AbortProgram[k] = "DELETE" <=> k = 8
      BY TellingPlaces, Zenon
    <3>3. From(AbortProgram, 10, "DELETE") <=> Left >= 10 + 1 - 8
      BY <1>d, <2>3, <3>1, <3>2, Zenon
    <3> QED BY <1>1, <3>1, <3>3
  <2>5. From(AbortProgram, 10, "BEGIN_LOADING") <=> Left >= 7
    <3>1. 10 \in Nat /\ 4 \in 1..10 /\ 10 + 1 - 4 = 7
      OBVIOUS
    <3>2. \A k \in 1..10 : AbortProgram[k] = "BEGIN_LOADING" <=> k = 4
      BY TellingPlaces, Zenon
    <3>3. From(AbortProgram, 10, "BEGIN_LOADING") <=> Left >= 10 + 1 - 4
      BY <1>d, <2>3, <3>1, <3>2, Zenon
    <3> QED BY <1>1, <3>1, <3>3
  <2> QED BY <2>2, <2>4, <2>5, Zenon
<1>3. EndOf(todo, BeginClosed) => "DELETE" \notin Ahead
  <2> SUFFICES ASSUME EndOf(todo, BeginClosed) PROVE "DELETE" \notin Ahead
    OBVIOUS
  <2>1. BeginClosed \in Seq(Statements) /\ 11 = Len(BeginClosed)
    BY BeginClosedAt
  <2>2. \A s : s \in Ahead <=> From(BeginClosed, 11, s)
    BY <1>1, <2>1, AheadOf DEF From
  <2>3. Left <= 11
    BY <2>1 DEF EndOf, Left
  <2>4. ~From(BeginClosed, 11, "DELETE")
    <3>1. 11 \in Nat /\ \A k \in 1..11 : BeginClosed[k] # "DELETE"
      BY TellingPlaces
    <3> QED BY <1>n, <2>3, <3>1, Zenon
  <2> QED BY <2>2, <2>4, Zenon
<1>4. EndOf(todo, BeginLocked) => /\ "DELETE" \in Ahead <=> Left >= 8
                                  /\ "BEGIN_LOADING" \in Ahead <=> Left >= 12
  <2> SUFFICES ASSUME EndOf(todo, BeginLocked)
               PROVE  /\ "DELETE" \in Ahead <=> Left >= 8
                      /\ "BEGIN_LOADING" \in Ahead <=> Left >= 12
    OBVIOUS
  <2>1. BeginLocked \in Seq(Statements) /\ 13 = Len(BeginLocked)
    BY BeginLockedAt
  <2>2. \A s : s \in Ahead <=> From(BeginLocked, 13, s)
    BY <1>1, <2>1, AheadOf DEF From
  <2>3. Left <= 13
    BY <2>1 DEF EndOf, Left
  <2>4. From(BeginLocked, 13, "DELETE") <=> Left >= 8
    <3>1. 13 \in Nat /\ 6 \in 1..13 /\ 13 + 1 - 6 = 8
      OBVIOUS
    <3>2. \A k \in 1..13 : BeginLocked[k] = "DELETE" <=> k = 6
      BY TellingPlaces, Zenon
    <3>3. From(BeginLocked, 13, "DELETE") <=> Left >= 13 + 1 - 6
      BY <1>d, <2>3, <3>1, <3>2, Zenon
    <3> QED BY <1>1, <3>1, <3>3
  <2>5. From(BeginLocked, 13, "BEGIN_LOADING") <=> Left >= 12
    <3>1. 13 \in Nat /\ 2 \in 1..13 /\ 13 + 1 - 2 = 12
      OBVIOUS
    <3>2. \A k \in 1..13 : BeginLocked[k] = "BEGIN_LOADING" <=> k = 2
      BY TellingPlaces, Zenon
    <3>3. From(BeginLocked, 13, "BEGIN_LOADING") <=> Left >= 13 + 1 - 2
      BY <1>d, <2>3, <3>1, <3>2, Zenon
    <3> QED BY <1>1, <3>1, <3>3
  <2> QED BY <2>2, <2>4, <2>5, Zenon
<1>5. ASSUME EndsLoad PROVE "DELETE" \notin Ahead /\ ("ET" \in Ahead <=> Left >= 5)
  <2>1. EndOf(todo, EndProgram) /\ EndProgram \in Seq(Statements) /\ 10 = Len(EndProgram)
    BY <1>5, EndAt DEF MethodControl
  <2>2. \A s : s \in Ahead <=> From(EndProgram, 10, s)
    BY <1>1, <2>1, AheadOf DEF From
  <2>3. Left <= 10
    BY <2>1 DEF EndOf, Left
  <2>4. ~From(EndProgram, 10, "DELETE")
    <3>1. 10 \in Nat /\ \A k \in 1..10 : EndProgram[k] # "DELETE"
      BY TellingPlaces
    <3> QED BY <1>n, <2>3, <3>1, Zenon
  <2>5. From(EndProgram, 10, "ET") <=> Left >= 5
    <3>1. \A k \in 1..10 : EndProgram[k] = "ET" <=> k \in {3, 6}
      BY TellingPlaces, Zenon
    <3>2. ASSUME NEW k \in (10 + 1 - Left)..10, EndProgram[k] = "ET" PROVE Left >= 5
      <4>1. k \in 1..10
        BY <1>1, <2>3
      <4>2. k \in {3, 6}
        BY <3>1, <3>2, <4>1, Zenon
      <4> QED BY <1>1, <4>2
    <3>3. Left >= 5 => 6 \in (10 + 1 - Left)..10
      BY <1>1, <2>3
    <3>4. EndProgram[6] = "ET"
      BY <3>1
    <3> QED BY <3>2, <3>3, <3>4, Zenon DEF From
  <2> QED BY <2>2, <2>4, <2>5, Zenon
<1>6. ASSUME Flushes PROVE "DELETE" \notin Ahead
  <2>1. EndOf(todo, FlushProgram) /\ FlushProgram \in Seq(Statements) /\ 1 = Len(FlushProgram)
    BY <1>6, FlushProgramAt DEF MethodControl
  <2>2. \A s : s \in Ahead <=> From(FlushProgram, 1, s)
    BY <1>1, <2>1, AheadOf DEF From
  <2>3. Left <= 1
    BY <2>1 DEF EndOf, Left
  <2>4. ~From(FlushProgram, 1, "DELETE")
    <3>1. 1 \in Nat /\ \A k \in 1..1 : FlushProgram[k] # "DELETE"
      BY FlushProgramAt
    <3> QED BY <1>n, <2>3, <3>1, Zenon
  <2> QED BY <2>2, <2>4, Zenon
<1>7. Begins => EndOf(todo, BeginClosed) \/ (EndOf(todo, BeginLocked) /\ (Releasing <=> Left > 7))
  BY DEF MethodControl, Releasing
<1>8. Releasing => EndOf(todo, BeginLocked) /\ Left > 7
  BY DEF Releasing
<1>9. /\ Begins /\ ~Releasing => "DELETE" \notin Ahead
      /\ Begins /\ Releasing => "DELETE" \in Ahead /\ ("BEGIN_LOADING" \in Ahead <=> Left >= 12)
  BY <1>1, <1>3, <1>4, <1>7, <1>8
<1> QED BY <1>2, <1>5, <1>6, <1>9

\* The abstract state: who has the load, and whether another one is being removed.
LEMMA TableView ==
    ASSUME TypeOK, MethodControl
    PROVE  /\ InHands <=> Held
           /\ Clearing <=> (Aborts /\ Left \in 3..6) \/ (Begins /\ Releasing /\ Left \in 8..11)
           /\ InHands => ~Clearing
<1>1. /\ op \in {"none", "begin", "flush", "end", "abort"} /\ aborting \in BOOLEAN
      /\ (op = "none" => todo = <<>>) /\ todo \in Seq(Statements) /\ Left \in Nat
  BY Flags DEF Left
<1>2. /\ op \in {"none", "flush"} => ~aborting
      /\ op = "abort" => aborting
      /\ op = "begin" => tx = "none"
      /\ op \in {"flush", "end", "abort"} => tx = "open"
  BY DEF MethodControl
<1>3. \/ op = "none" \/ Failing \/ Begins \/ Flushes \/ EndsLoad \/ Aborts
  BY <1>1, <1>2 DEF Begins, Flushes, EndsLoad, Aborts
<1>4. ~(Begins /\ Aborts) /\ ~(EndsLoad /\ Aborts) /\ (Flushes => ~Aborts /\ ~Begins) /\ ~(EndsLoad /\ Begins)
      /\ (op = "none" => ~Aborts /\ ~Begins) /\ (Failing => ~Aborts /\ ~Begins /\ ~EndsLoad)
  BY <1>2 DEF Begins, Flushes, EndsLoad, Aborts
<1>5. Clearing <=> (Aborts /\ Left \in 3..6) \/ (Begins /\ Releasing /\ Left \in 8..11)
  <2>1. CASE op = "none" \/ Failing
    BY <1>1, <1>4, <2>1, NothingAhead DEF Clearing
  <2>2. CASE Aborts
    BY <1>1, <1>4, <2>2, AheadIs DEF Clearing
  <2>3. CASE Begins
    <3>1. Releasing => Left > 7
      BY DEF Releasing
    <3> QED BY <1>1, <1>4, <2>3, <3>1, AheadIs DEF Clearing
  <2>4. CASE EndsLoad \/ Flushes
    BY <1>4, <2>4, AheadIs DEF Clearing
  <2> QED BY <1>3, <2>1, <2>2, <2>3, <2>4
<1>6. InHands <=> Held
  <2>1. CASE op = "end" /\ ~aborting /\ ~Failing
    <3>1. EndsLoad
      BY <2>1 DEF EndsLoad
    <3> QED BY <1>1, <1>2, <2>1, <3>1, AheadIs DEF InHands, Held
  <2>2. CASE op = "end" /\ Failing
    BY <1>4, <2>2, NothingAhead DEF InHands, Held
  <2>3. CASE aborting
    BY <1>2, <2>3 DEF InHands, Held, EndsLoad
  <2>4. CASE op # "end" /\ ~aborting
    BY <1>1, <1>2, <2>4 DEF InHands, Held, EndsLoad
  <2> QED BY <2>1, <2>2, <2>3, <2>4
<1>7. Held => ~Aborts /\ ~Begins
  BY <1>2, <1>4 DEF Held, Begins, Aborts
<1> QED BY <1>5, <1>6, <1>7

\* How the abstract state follows from where a method is.
Views ==
    /\ InHands <=> Held
    /\ Clearing <=> (Aborts /\ Left \in 3..6) \/ (Begins /\ Releasing /\ Left \in 8..11)
    /\ InHands => ~Clearing
    /\ Begins /\ Releasing => BeginLockedIs(Left, Now)

\* It does whenever the invariant holds.
LEMMA ViewsAre == IInv => Views
BY TableView, Whereabouts, Zenon DEF IInv, Views

\* Nothing comes into the table: a load may be given up, or removing one begins or stops.
LEMMA TableStays ==
    ASSUME IInv, IInv', table' = table,
           InHands' => InHands /\ load' = load /\ accepted' = accepted,
           ~InHands => staged' = staged,
           InHands => staged' \subseteq RowsOf(load, accepted),
           Clearing' => Clearing \/ (~InHands /\ table = {})
    PROVE  Table!TNext \/ UNCHANGED Table!tvars
<1>1. /\ InHands \in BOOLEAN /\ InHands' \in BOOLEAN
      /\ Clearing \in BOOLEAN /\ Clearing' \in BOOLEAN
  BY Zenon DEF InHands, Clearing
<1>2. (InHands => ~Clearing) /\ (InHands' => ~Clearing')
  <2>1. Views /\ Views'
    BY ViewsAre, PTL
  <2> QED BY <2>1, Zenon DEF Views
<1>3. CASE InHands /\ InHands'
  <2>1. InHands' = InHands /\ Clearing' = Clearing
    BY <1>1, <1>2, <1>3
  <2>2. RowsOf(load', accepted') = RowsOf(load, accepted)
    BY <1>3
  <2> QED BY <1>3, <2>1, <2>2 DEF Table!tvars, RowsOf
<1>4. CASE InHands /\ ~InHands'
  <2>1. InHands' = FALSE /\ Clearing' = Clearing
    BY <1>1, <1>2, <1>4
  <2> QED BY <1>4, <2>1 DEF Table!TNext, Table!GiveUp
<1>5. CASE ~InHands
  <2>1. ~InHands' /\ InHands' = InHands
    BY <1>1, <1>5
  <2>2. CASE Clearing' = Clearing
    BY <1>5, <2>1, <2>2 DEF Table!tvars
  <2>3. CASE Clearing' # Clearing /\ Clearing
    <3>1. Clearing' = FALSE
      BY <1>1, <2>3
    <3> QED BY <1>5, <2>1, <2>3, <3>1 DEF Table!TNext, Table!StopClearing
  <2>4. CASE Clearing' # Clearing /\ ~Clearing
    <3>1. Clearing' = TRUE /\ table = {}
      BY <1>1, <2>4
    <3> QED BY <1>5, <2>1, <3>1 DEF Table!TNext, Table!BeginClearing
  <2> QED BY <1>1, <2>2, <2>3, <2>4
<1> QED BY <1>3, <1>4, <1>5

\* A step of a method seen from the table.
LEMMA StepView ==
    ASSUME IInv, IInv', Now \in Working, Step(Now),
           \/ todo' = Tail(todo)
           \/ todo' = <<"FAIL">>
           \/ todo' = StatementsAfterLock /\ Now = "PROBE"
    PROVE  /\ Clearing' => Clearing \/ (Now = "BEGIN_LOADING" /\ todo' # <<"FAIL">>)
           /\ InHands' => InHands
           /\ op' = op /\ tx' = tx /\ load' = load /\ accepted' = accepted
           /\ Aborts' /\ Left' \in 8..9 => Aborts /\ Left \in 9..10 /\ Now \in {"OPEN", "CHANNELS"}
           /\ Begins' /\ Releasing' /\ Left' = 13 => Now = "PROBE" /\ todo' \notin {Tail(todo), <<"FAIL">>}
<1>1. op' = op /\ tx' = tx /\ load' = load /\ accepted' = accepted /\ aborting' = aborting
  BY DEF Step, handle
<1>2. TypeOK /\ MethodControl
  BY DEF IInv
<1>3. /\ InHands <=> Held
      /\ Clearing <=> (Aborts /\ Left \in 3..6) \/ (Begins /\ Releasing /\ Left \in 8..11)
  BY <1>2, TableView
<1>4. /\ InHands' <=> Held'
      /\ Clearing' <=> (Aborts' /\ Left' \in 3..6) \/ (Begins' /\ Releasing' /\ Left' \in 8..11)
  <2>1. Views'
    BY ViewsAre, PTL
  <2> QED BY <2>1 DEF Views
<1>5. /\ Begins /\ Releasing => BeginLockedIs(Left, Now)
      /\ Aborts => AbortIs(Left, Now)
  BY <1>2, Whereabouts
<1>6. CASE todo' = Tail(todo) /\ todo' # <<"FAIL">>
  <2>1. /\ Left \in Nat /\ Left > 0 /\ Left' = Left - 1
        /\ Begins' => Begins /\ (Releasing' <=> Releasing /\ Left > 8)
        /\ Aborts' => Aborts
        /\ Held' => Held
    BY <1>6, Onwards
  <2>2. Clearing' => Clearing \/ Now = "BEGIN_LOADING"
    <3>1. Aborts' /\ Left' \in 3..6 => Clearing \/ Now = "BEGIN_LOADING"
      BY <1>3, <1>5, <2>1 DEF AbortIs
    <3>2. Begins' /\ Releasing' /\ Left' \in 8..11 => Clearing \/ Now = "BEGIN_LOADING"
      BY <1>3, <1>5, <2>1 DEF BeginLockedIs
    <3> QED BY <1>4, <3>1, <3>2
  <2>3. Aborts' /\ Left' \in 8..9 => Aborts /\ Left \in 9..10 /\ Now \in {"OPEN", "CHANNELS"}
    BY <1>5, <2>1 DEF AbortIs
  <2>4. ~(Begins' /\ Releasing' /\ Left' = 13)
    BY <1>5, <2>1 DEF BeginLockedIs
  <2> QED BY <1>1, <1>3, <1>4, <1>6, <2>1, <2>2, <2>3, <2>4
<1>7. CASE todo' = <<"FAIL">>
  <2>1. Failing' /\ ~Begins' /\ ~Aborts' /\ ~EndsLoad'
    BY <1>7 DEF Failing, Begins, Aborts, EndsLoad
  <2>2. Held' => Held
    BY <1>1, <2>1 DEF Held
  <2> QED BY <1>1, <1>3, <1>4, <2>1, <2>2
<1>8. CASE todo' = StatementsAfterLock /\ Now = "PROBE" /\ todo' \notin {Tail(todo), <<"FAIL">>}
  <2>1. Begins /\ op = "begin" /\ ~aborting /\ tx = "none" /\ ~Releasing /\ todo \in Seq(Statements) /\ Now = First(todo)
    BY <1>2, <1>8, StatementPlaces, TodoType DEF Places, Begins, MethodControl
  <2>2. ~Aborts' /\ ~Held'
    BY <1>1, <2>1 DEF Aborts, Held, EndsLoad
  <2>3. Left' = 13
    <3>1. Left = 8
      BY <1>2, <1>8, StatementPlaces DEF Places
    <3>2. EndOf(todo, BeginClosed) \/ EndOf(todo, BeginLocked)
      BY <1>2, <2>1 DEF MethodControl
    <3>3. EndOf(todo, BeginClosed)
      BY <2>1, <3>1, <3>2 DEF Releasing
    <3>4. Len(ReleaseLoad \o Tail(todo)) = 13
      BY <1>8, <2>1, <3>3, LockFound
    <3> QED BY <1>8, <3>4 DEF Left, StatementsAfterLock
  <2> QED BY <1>1, <1>4, <1>8, <2>2, <2>3
<1> QED BY <1>6, <1>7, <1>8

\* The parts of the abstract specification's steps.
TableStep == Table!TNext \/ UNCHANGED Table!tvars

\* A step of a method that leaves the table alone.
LEMMA StepStays ==
    ASSUME IInv, IInv', TableState, Now \in Working, Step(Now),
           \/ todo' = Tail(todo)
           \/ todo' = <<"FAIL">>
           \/ todo' = StatementsAfterLock /\ Now = "PROBE",
           table' = table, locked' => table = {},
           ~InHands => staged' = staged,
           InHands => staged' \subseteq RowsOf(load, accepted),
           Now = "BEGIN_LOADING" => table = {} \/ todo' = <<"FAIL">>,
           Now \in {"OPEN", "CHANNELS"} => ending' = ending,
           Now = "PROBE" => ~ending' \/ todo' \in {Tail(todo), <<"FAIL">>}
    PROVE  TableState' /\ TableStep
<1>1. /\ Clearing' => Clearing \/ (Now = "BEGIN_LOADING" /\ todo' # <<"FAIL">>)
      /\ InHands' => InHands
      /\ op' = op /\ tx' = tx /\ load' = load /\ accepted' = accepted
      /\ Aborts' /\ Left' \in 8..9 => Aborts /\ Left \in 9..10 /\ Now \in {"OPEN", "CHANNELS"}
      /\ Begins' /\ Releasing' /\ Left' = 13 => Now = "PROBE" /\ todo' \notin {Tail(todo), <<"FAIL">>}
  BY StepView
<1>2. TypeOK /\ MethodControl /\ SessionControl /\ AbortState
  BY DEF IInv
<1>3. Now = "BEGIN_LOADING" => ~InHands
  <2>1. Now = "BEGIN_LOADING" => Begins \/ Aborts
    BY <1>2, StatementPlaces DEF Places
  <2>2. Begins \/ Aborts => ~InHands
    BY <1>2 DEF Begins, Aborts, InHands, MethodControl
  <2> QED BY <2>1, <2>2
<1>4. TableStep
  <2>1. Clearing' => Clearing \/ (~InHands /\ table = {})
    BY <1>1, <1>3
  <2> QED BY <1>1, <2>1, TableStays DEF TableStep
<1>5. Aborts /\ Left = 10 => ~ending
  BY <1>2 DEF AbortState, SessionControl
<1>6. Aborts' /\ Left' \in 8..9 => ~ending'
  BY <1>1, <1>5 DEF TableState
<1>7. op' = "begin" => accepted' = 0
  BY <1>1 DEF TableState
<1>8. (locked' => table' = {}) /\ (Begins' /\ Releasing' /\ Left' = 13 => ~ending')
  BY <1>1
<1> QED BY <1>4, <1>6, <1>7, <1>8 DEF TableState

\* A load in the caller's hands has delivered no rows but its own.
LEMMA OwnRows == IInv /\ InHands => staged \subseteq RowsOf(load, accepted)
<1> SUFFICES ASSUME IInv, InHands PROVE staged \subseteq RowsOf(load, accepted)
  OBVIOUS
<1>1. Held
  BY ViewsAre DEF Views
<1> QED BY <1>1 DEF IInv, HeldState

\* Steps of a method outside the server's table.
LEMMA QuietSteps ==
    ASSUME IInv, IInv', TableState,
           Open \/ OpenDataChannels \/ Cleared \/ Skip \/ RefuseByClient
    PROVE  TableState' /\ TableStep
<1>1. /\ Now \in Working /\ Step(Now) /\ (todo' = Tail(todo) \/ todo' = <<"FAIL">>)
      /\ Now = "BEGIN_LOADING" => todo' = <<"FAIL">>
  <2>1. CASE Open
    BY <2>1, StatementsWork DEF Open, Step, Advance, Fail, Collected
  <2>2. CASE OpenDataChannels
    BY <2>2, StatementsWork DEF OpenDataChannels, Step, Advance, Fail, Collected
  <2>3. CASE Cleared
    BY <2>3, StatementsWork DEF Cleared, Step, Advance, Fail, Collected
  <2>4. CASE Skip
    BY <2>4, StatementsWork DEF Skip, Skipped, Step, Advance, ControlStatements
  <2>5. CASE RefuseByClient
    BY <2>5, StatementsWork DEF RefuseByClient, Step, Fail, Collected
  <2> QED BY <2>1, <2>2, <2>3, <2>4, <2>5
<1>2. UNCHANGED <<locked, errTabs, rejected, report, staged, table, srvTx, ending>>
  BY DEF Open, OpenDataChannels, Cleared, Skip, RefuseByClient, server
<1>3. table' = table /\ staged' = staged /\ ending' = ending /\ locked' = locked
  BY <1>2
<1>4. InHands => staged' \subseteq RowsOf(load, accepted)
  BY <1>3, OwnRows
<1>5. locked' => table = {}
  BY <1>3 DEF TableState
<1> QED BY <1>1, <1>3, <1>4, <1>5, StepStays

\* A flush delivers rows of the load that is in the caller's hands.
LEMMA FlushStep ==
    ASSUME IInv, IInv', TableState, FlushChannels
    PROVE  TableState' /\ TableStep
<1>1. Now = "FLUSH" /\ Now \in Working /\ Step(Now)
  BY StatementsWork DEF FlushChannels, Step
<1>2. todo' = Tail(todo) \/ todo' = <<"FAIL">>
  BY DEF FlushChannels, Advance, Fail, Collected
<1>3. PICK rs \in SUBSET RowsOf(load, accepted) : staged' = staged \cup rs
  BY DEF FlushChannels
<1>4. table' = table /\ locked' = locked
  BY DEF FlushChannels
<1>5. (EndsLoad /\ Left = 10) \/ Flushes
  BY <1>1, StatementPlaces DEF IInv, Places
<1>6. Held
  BY <1>1, <1>5, Methods DEF Held, IInv
<1>7. InHands /\ staged \subseteq RowsOf(load, accepted)
  BY <1>6, ViewsAre, OwnRows DEF Views
<1>8. staged' \subseteq RowsOf(load, accepted)
  BY <1>3, <1>7
<1>9. locked' => table = {}
  BY <1>4 DEF TableState
<1> QED BY <1>1, <1>2, <1>4, <1>7, <1>8, <1>9, StepStays

\* A statement the server refuses, or does not get.
LEMMA RefusedStep ==
    ASSUME IInv, IInv', TableState,
           \/ RefusedByServer
           \/ Broken /\ UNCHANGED <<locked, errTabs, rejected, staged, table>>
    PROVE  TableState' /\ TableStep
<1>1. /\ Now \in Working /\ Step(Now)
      /\ \/ todo' = Tail(todo)
         \/ todo' = <<"FAIL">>
         \/ todo' = StatementsAfterLock /\ Now = "PROBE"
      /\ Now = "BEGIN_LOADING" => todo' = <<"FAIL">>
      /\ Now \in ControlStatements
  <2>1. CASE RefusedByServer
    BY <2>1, StatementsWork DEF RefusedByServer, Sent, Fail, Collected
  <2>2. CASE Broken
    BY <2>2, StatementsWork DEF Broken, Sent, Fail, Collected
  <2> QED BY <2>1, <2>2
<1>2. table' = table /\ staged' = staged /\ locked' = locked /\ ending' = FALSE
  BY DEF RefusedByServer, Broken, SessionLost
<1>3. InHands => staged' \subseteq RowsOf(load, accepted)
  BY <1>2, OwnRows
<1>4. locked' => table = {}
  BY <1>2 DEF TableState
<1>5. Now \notin {"OPEN", "CHANNELS"}
  BY <1>1 DEF ControlStatements
<1> QED BY <1>1, <1>2, <1>3, <1>4, <1>5, StepStays

\* A statement the server executes, whether the client hears of it or not.
LEMMA PerformedStep ==
    ASSUME IInv, IInv', TableState, Now \in ControlStatements, Step(Now), Executable(Now), Perform(Now),
           todo' = Tail(todo) \/ todo' = <<"FAIL">>
    PROVE  TableState' /\ TableStep
<1>1. Now \in Working /\ Now \notin {"OPEN", "CHANNELS"} /\ Places
  BY StatementsWork, StatementPlaces DEF IInv, ControlStatements
<1>2. TypeOK /\ MethodControl /\ SessionControl /\ HeldState /\ EndState
  BY DEF IInv
<1>3. /\ Ends(Now) => ~locked' /\ staged' = {} /\ (table = {} => table' \in SUBSET staged)
      /\ ~Ends(Now) =>
            /\ staged' = staged
            /\ Now # "DELETE" => table' = table
            /\ Now = "DELETE" => table' = {}
            /\ Now \notin {"BEGIN_LOADING", "START"} => (locked' <=> locked)
  BY <1>2, Performed DEF SplitOver
<1>4. /\ Now = "DELETE" => ~locked
      /\ Now \in {"BEGIN_LOADING", "START"} => locked \/ table = {}
      /\ Now = "END_LOADING" => locked
  BY DEF Executable
<1>5. Ends(Now) <=> (Now = "ET" /\ ending) \/ (Now = "END_LOADING" /\ ~srvTx)
  BY DEF Ends
<1>6. Views /\ Views'
  BY ViewsAre, PTL
<1>7. /\ Clearing' => Clearing \/ (Now = "BEGIN_LOADING" /\ todo' # <<"FAIL">>)
      /\ InHands' => InHands
      /\ op' = op /\ tx' = tx /\ load' = load /\ accepted' = accepted
      /\ Aborts' /\ Left' \in 8..9 => Aborts /\ Left \in 9..10 /\ Now \in {"OPEN", "CHANNELS"}
      /\ Begins' /\ Releasing' /\ Left' = 13 => Now = "PROBE" /\ todo' \notin {Tail(todo), <<"FAIL">>}
  BY <1>1, StepView
<1>8. /\ InHands \in BOOLEAN /\ InHands' \in BOOLEAN
      /\ Clearing \in BOOLEAN /\ Clearing' \in BOOLEAN
  BY Zenon DEF InHands, Clearing
<1>9. Ends(Now) => table = {}
  BY <1>2, <1>4, <1>5 DEF SessionControl, TableState
<1>10. TableState'
  <2>1. locked' => table' = {}
    BY <1>3, <1>4 DEF TableState
  <2>2. op' = "begin" => accepted' = 0
    BY <1>7 DEF TableState
  <2> QED BY <1>1, <1>7, <2>1, <2>2 DEF TableState
<1>11. CASE ~Ends(Now) /\ Now # "DELETE"
  <2>1. InHands => staged' \subseteq RowsOf(load, accepted)
    BY <1>3, <1>11, OwnRows
  <2>2. table' = table /\ staged' = staged
    BY <1>3, <1>11
  <2>3. Now = "BEGIN_LOADING" => table = {}
    BY <1>4 DEF TableState
  <2>4. locked' => table = {}
    BY <1>10, <2>2 DEF TableState
  <2> QED BY <1>1, <1>11, <2>1, <2>2, <2>3, <2>4, StepStays
<1>12. CASE Now = "DELETE"
  <2>1. (Begins /\ Releasing /\ Left = 8) \/ (Aborts /\ Left = 3)
    BY <1>1, <1>12 DEF Places
  <2>2. Clearing /\ ~InHands /\ ~InHands'
    BY <1>6, <1>7, <2>1 DEF Views
  <2>3. table' = {} /\ staged' = staged /\ staged = {}
    BY <1>2, <1>3, <1>4, <1>5, <1>12 DEF SessionControl
  <2>4. ~Clearing'
    <3>1. CASE todo' = Tail(todo)
      <4>1. /\ Left' = Left - 1
            /\ Begins' => Begins
            /\ Aborts' => Aborts
            /\ Begins' => (Releasing' <=> Releasing /\ Left > 8)
            /\ ~(Begins /\ Aborts)
        BY <1>1, <3>1, Onwards
      <4> QED BY <1>6, <2>1, <4>1 DEF Views
    <3>2. CASE todo' = <<"FAIL">>
      <4>1. ~Begins' /\ ~Aborts'
        BY <3>2 DEF Failing, Begins, Aborts
      <4> QED BY <1>6, <4>1 DEF Views
    <3> QED BY <3>1, <3>2
  <2>5. Clearing' = FALSE /\ InHands' = InHands
    BY <1>8, <2>2, <2>4
  <2> QED BY <1>10, <2>2, <2>3, <2>5 DEF TableStep, Table!TNext, Table!Empty
<1>13. CASE Ends(Now)
  <2>1. table = {} /\ table' \in SUBSET staged /\ staged' = {}
    BY <1>3, <1>9, <1>13
  <2>2. \/ EndsLoad /\ Left = 5
        \/ Aborts /\ Left \in 4..5
        \/ Begins /\ Releasing /\ Left \in 9..10
    <3>1. EndsLoad /\ Left = 8 => ~ending
      BY <1>2 DEF HeldState, Held, EndsLoad, MethodControl
    <3>2. EndsLoad /\ Left = 6 => srvTx
      BY <1>2 DEF EndState
    <3> QED BY <1>1, <1>5, <1>13, <3>1, <3>2 DEF Places, TableState
  <2>3. CASE EndsLoad /\ Left = 5
    <3>1. InHands /\ ~Clearing
      <4>1. Held
        BY <1>2, <2>3 DEF Held
      <4> QED BY <1>6, <4>1 DEF Views
    <3>2. staged = RowsOf(load, accepted)
      BY <1>2, <2>3 DEF EndState
    <3>3. ~InHands'
      <4>1. CASE todo' = Tail(todo)
        <5>1. Held' => Flushes \/ (EndsLoad /\ Left >= 6)
          BY <1>1, <4>1, Onwards
        <5>2. ~Flushes
          BY <2>3 DEF EndsLoad, Flushes
        <5> QED BY <1>6, <2>3, <5>1, <5>2 DEF Views
      <4>2. CASE todo' = <<"FAIL">>
        <5>1. ~Held'
          BY <1>7, <2>3, <4>2 DEF Failing, Held, EndsLoad
        <5> QED BY <1>6, <5>1 DEF Views
      <4> QED BY <4>1, <4>2
    <3>4. Clearing' = Clearing /\ InHands' = FALSE
      <4>1. Now # "BEGIN_LOADING"
        BY <1>5, <1>13
      <4> QED BY <1>7, <1>8, <3>1, <3>3, <4>1
    <3> QED BY <1>10, <2>1, <3>1, <3>2, <3>3, <3>4 DEF TableStep, Table!TNext, Table!Commit
  <2>4. CASE ~(EndsLoad /\ Left = 5)
    <3>1. Clearing /\ ~InHands /\ ~InHands'
      BY <1>6, <1>7, <2>2, <2>4 DEF Views
    <3>2. InHands' = InHands
      BY <1>8, <3>1
    <3> QED BY <1>8, <1>10, <2>1, <3>1, <3>2 DEF TableStep, Table!TNext, Table!Release
  <2> QED BY <2>3, <2>4
<1> QED BY <1>11, <1>12, <1>13

\* A step that starts or ends a method.
LEMMA RestStays ==
    ASSUME IInv, IInv', TableState,
           table' = table /\ staged' = staged /\ (locked' => locked),
           InHands' => InHands /\ load' = load /\ accepted' = accepted,
           ~Clearing' /\ ~(Aborts' /\ Left' \in 8..9) /\ ~(Begins' /\ Releasing' /\ Left' = 13),
           op' = "begin" => accepted' = 0
    PROVE  TableState' /\ TableStep
<1>1. TableState'
  BY DEF TableState
<1>2. InHands => staged' \subseteq RowsOf(load, accepted)
  BY OwnRows
<1>3. TableStep
  BY <1>2, TableStays DEF TableStep
<1> QED BY <1>1, <1>3

\* A caller without a method under way has nothing ahead.
LEMMA Returned ==
    ASSUME IInv', op' = "none"
    PROVE  ~Clearing' /\ ~Aborts' /\ ~Begins'
<1>1. ~Aborts' /\ ~Begins'
  BY DEF IInv, MethodControl, Aborts, Begins
<1>2. Views'
  BY ViewsAre, PTL
<1> QED BY <1>1, <1>2 DEF Views

\* BeginFastLoad has not found a lock yet.
LEMMA BeginStep ==
    ASSUME IInv, IInv', TableState, BeginFastLoad
    PROVE  TableState' /\ TableStep
<1>1. /\ op' = "begin" /\ tx' = "none" /\ accepted' = 0 /\ aborting' = FALSE
      /\ table' = table /\ staged' = staged /\ locked' = locked
  BY DEF BeginFastLoad, Start, server
<1>2. Now' \in {"OPEN", "PREPARE"}
  <2>1. BeginProgram \in Seq(Statements) /\ BeginProgram # <<>> /\ Head(BeginProgram) = "PREPARE"
    BY BeginAt
  <2>2. BeginClosed \in Seq(Statements) /\ BeginClosed # <<>> /\ Head(BeginClosed) = "OPEN"
    BY BeginClosedAt
  <2>3. todo' = (IF opened THEN <<>> ELSE <<"OPEN">>) \o BeginProgram
    BY DEF BeginFastLoad, Start
  <2>4. <<>> \o BeginProgram = BeginProgram
    BY <2>1, ConcatEmptySeq
  <2>5. todo' = BeginProgram \/ todo' = BeginClosed
    BY <2>3, <2>4, Zenon DEF BeginClosed
  <2> QED BY <2>1, <2>2, <2>5 DEF Now
<1>3. Views'
  BY ViewsAre, PTL
<1>4. ~(Begins' /\ Releasing')
  <2>1. Releasing' => Left' > 7
    BY DEF Releasing
  <2> QED BY <1>2, <1>3, <2>1 DEF Views, BeginLockedIs
<1>5. ~Aborts' /\ ~InHands'
  BY <1>1 DEF Aborts, InHands
<1>6. ~Clearing'
  BY <1>3, <1>4, <1>5 DEF Views
<1> QED BY <1>1, <1>4, <1>5, <1>6, RestStays

\* The load accepts a row.
LEMMA AddRowStep ==
    ASSUME IInv, IInv', TableState, AddRow
    PROVE  TableState' /\ TableStep
<1>1. /\ op = "none" /\ tx = "open" /\ accepted < MaxRows /\ accepted' = accepted + 1
      /\ op' = op /\ tx' = tx /\ load' = load /\ aborting' = aborting /\ todo' = todo
      /\ table' = table /\ locked' = locked
  BY DEF AddRow
<1>2. aborting = FALSE /\ load \in 1..MaxLoads /\ accepted \in 0..MaxRows
  <2>1. TypeOK /\ MethodControl
    BY DEF IInv
  <2> QED BY <1>1, <2>1, Flags DEF MethodControl
<1>3. InHands /\ InHands'
  BY <1>1, <1>2 DEF InHands
<1>4. ~Clearing' /\ ~Aborts' /\ ~Begins'
  BY <1>1, Returned
<1>5. Views
  BY ViewsAre
<1>6. InHands' = InHands /\ Clearing' = Clearing
  <2>1. /\ InHands \in BOOLEAN /\ InHands' \in BOOLEAN
        /\ Clearing \in BOOLEAN /\ Clearing' \in BOOLEAN
    BY Zenon DEF InHands, Clearing
  <2> QED BY <1>3, <1>4, <1>5, <2>1 DEF Views
<1>7. PICK r : r = <<load, accepted + 1>>
  OBVIOUS
<1>8. /\ r \in ((1..MaxLoads) \X (1..MaxRows)) \ RowsOf(load, accepted)
      /\ RowsOf(load', accepted') = RowsOf(load, accepted) \cup {r}
  BY <1>1, <1>2, <1>7, BoundsAssumption DEF RowsOf
<1>9. TableStep
  BY <1>1, <1>3, <1>6, <1>8 DEF TableStep, Table!TNext, Table!Accept
<1>10. TableState'
  BY <1>1, <1>4 DEF TableState
<1> QED BY <1>9, <1>10

\* Flush and End begin.
LEMMA FlushEndStep ==
    ASSUME IInv, IInv', TableState, Flush \/ End
    PROVE  TableState' /\ TableStep
<1>1. /\ tx = "open" /\ op = "none" /\ op' \in {"flush", "end"} /\ aborting' = FALSE
      /\ load' = load /\ accepted' = accepted
      /\ table' = table /\ staged' = staged /\ locked' = locked
  BY DEF Flush, End, Start, handle, server
<1>2. ~aborting
  BY <1>1 DEF IInv, MethodControl
<1>3. InHands /\ ~Aborts' /\ ~Begins'
  BY <1>1, <1>2 DEF InHands, Aborts, Begins
<1>4. Views'
  BY ViewsAre, PTL
<1>5. ~Clearing'
  BY <1>3, <1>4 DEF Views
<1> QED BY <1>1, <1>3, <1>5, RestStays

\* Abort begins, called by the caller or by a method that failed.
LEMMA BeginAbortStep ==
    ASSUME IInv, IInv', TableState, BeginAbort, op' = "begin" => op = "begin"
    PROVE  TableState' /\ TableStep
<1>1. /\ todo' = AbortProgram /\ aborting' = TRUE
      /\ load' = load /\ accepted' = accepted
      /\ table' = table /\ staged' = staged /\ locked' = locked
  BY DEF BeginAbort, handle
<1>2. ~InHands' /\ ~Begins'
  BY <1>1 DEF InHands, Begins
<1>3. Left' = 10
  BY <1>1, AbortAt DEF Left
<1>4. Views'
  BY ViewsAre, PTL
<1>5. ~Clearing' /\ ~(Aborts' /\ Left' \in 8..9)
  BY <1>2, <1>3, <1>4 DEF Views
<1>6. op' = "begin" => accepted' = 0
  BY <1>1 DEF TableState
<1> QED BY <1>1, <1>2, <1>5, <1>6, RestStays

\* The Close methods, and a crash of the client.
LEMMA CloseStep ==
    ASSUME IInv, IInv', TableState, CloseDone \/ CloseConnection \/ Crash
    PROVE  TableState' /\ TableStep
<1>1. /\ op' = "none" /\ tx' # "open"
      /\ table' = table /\ staged' = staged /\ locked' = locked
  BY DEF CloseDone, CloseConnection, Crash, Return, handle, server
<1>2. ~Clearing' /\ ~Aborts' /\ ~Begins' /\ ~InHands'
  BY <1>1, Returned DEF InHands
<1> QED BY <1>1, <1>2, RestStays

\* A failed method returns or aborts its load.
LEMMA FailedStep ==
    ASSUME IInv, IInv', TableState, Failed
    PROVE  TableState' /\ TableStep
<1>1. CASE aborting
  <2>1. /\ op' = "none" /\ tx' # "open"
        /\ table' = table /\ staged' = staged /\ locked' = locked
    BY <1>1 DEF Failed, Finish, Return, server
  <2>2. ~Clearing' /\ ~Aborts' /\ ~Begins' /\ ~InHands'
    BY <2>1, Returned DEF InHands
  <2> QED BY <2>1, <2>2, RestStays
<1>2. CASE ~aborting /\ (op = "end" \/ loading)
  BY <1>2, BeginAbortStep DEF Failed
<1>3. CASE ~aborting /\ ~(op = "end" \/ loading)
  <2>1. /\ op' = "none" /\ tx' = tx /\ load' = load /\ accepted' = accepted
        /\ table' = table /\ staged' = staged /\ locked' = locked
    BY <1>3 DEF Failed, Return, handle, server
  <2>2. ~Clearing' /\ ~Aborts' /\ ~Begins'
    BY <2>1, Returned
  <2>3. InHands' => InHands
    BY <1>3, <2>1 DEF InHands
  <2> QED BY <2>1, <2>2, <2>3, RestStays
<1> QED BY <1>1, <1>2, <1>3

\* A method that did all its statements returns: BeginFastLoad hands the load out.
LEMMA CompleteStep ==
    ASSUME IInv, IInv', TableState, Complete
    PROVE  TableState' /\ TableStep
<1>1. /\ op # "none" /\ todo = <<>> /\ op' = "none" /\ aborting' = FALSE
      /\ load' = load /\ accepted' = accepted
      /\ table' = table /\ staged' = staged /\ locked' = locked
  BY DEF Complete, Return, server
<1>2. ~Clearing' /\ ~Aborts' /\ ~Begins'
  BY <1>1, Returned
<1>3. CASE aborting \/ op = "end"
  <2>1. ~InHands'
    BY <1>1, <1>3 DEF Complete, Finish, InHands
  <2> QED BY <1>1, <1>2, <2>1, RestStays
<1>4. CASE ~aborting /\ op # "end"
  <2>1. tx' = "open" /\ InHands'
    BY <1>1, <1>4 DEF Complete, InHands
  <2>2. MethodControl /\ BeginState /\ TypeOK
    BY DEF IInv
  <2>3. CASE op = "begin"
    <3>1. Begins /\ Left = 0
      BY <1>1, <1>4, <2>3 DEF Begins, Failing, Left
    <3>2. table = {} /\ staged = {} /\ accepted = 0
      BY <2>2, <2>3, <3>1 DEF BeginState, TableState
    <3>3. ~InHands /\ ~Clearing
      BY <1>1, <2>2, <2>3, NothingAhead DEF InHands, Clearing, MethodControl
    <3>4. InHands' = TRUE /\ Clearing' = Clearing
      <4>1. InHands' \in BOOLEAN /\ Clearing \in BOOLEAN /\ Clearing' \in BOOLEAN
        BY Zenon DEF InHands, Clearing
      <4> QED BY <1>2, <2>1, <3>3, <4>1
    <3>5. RowsOf(load', accepted') = {}
      BY <1>1, <3>2 DEF RowsOf
    <3>6. TableStep
      BY <1>1, <2>1, <3>2, <3>3, <3>4, <3>5 DEF TableStep, Table!TNext, Table!HandOut
    <3>7. TableState'
      BY <1>1, <1>2 DEF TableState
    <3> QED BY <3>6, <3>7
  <2>4. CASE op # "begin"
    <3>1. InHands
      BY <1>1, <1>4, <2>2, <2>4, Flags DEF InHands, MethodControl
    <3> QED BY <1>1, <1>2, <2>1, <3>1, RestStays
  <2> QED BY <2>3, <2>4
<1> QED BY <1>3, <1>4

\* Nothing happens but to the context of a method.
LEMMA SameStep ==
    ASSUME IInv, IInv', TableState, ContextEnds \/ UNCHANGED vars
    PROVE  TableState' /\ TableStep
<1>1. UNCHANGED <<op, todo, aborting, tx, load, accepted, locked, staged, table, ending>>
  BY DEF ContextEnds, vars, caller, handle, server
<1>2. /\ InHands \in BOOLEAN /\ InHands' \in BOOLEAN
      /\ Clearing \in BOOLEAN /\ Clearing' \in BOOLEAN
  BY Zenon DEF InHands, Clearing
<1>3. Ahead' = Ahead
  BY <1>1 DEF Ahead
<1>4. InHands' = InHands /\ Clearing' = Clearing
  BY <1>1, <1>2, <1>3 DEF InHands, Clearing
<1>5. RowsOf(load', accepted') = RowsOf(load, accepted)
  BY <1>1
<1>6. TableStep
  BY <1>1, <1>4, <1>5 DEF TableStep, Table!tvars
<1>7. (Begins' <=> Begins) /\ (Aborts' <=> Aborts) /\ Left' = Left
  BY <1>1 DEF Begins, Aborts, Failing, Left
<1>8. Releasing' <=> Releasing
  <2>1. EndOf(todo, BeginLocked)' <=> EndOf(todo', BeginLocked)
    BY DEF EndOf, BeginLocked, BeginProgram, DropErrorTables, ReleaseLoad
  <2> QED BY <1>1, <1>7, <2>1 DEF Releasing
<1>9. TableState'
  BY <1>1, <1>7, <1>8 DEF TableState
<1> QED BY <1>6, <1>9

\* Every step of the load is a step of the table, and keeps what that rests on.
LEMMA TableNext ==
    ASSUME IInv, IInv', TableState, [Next]_vars
    PROVE  TableState' /\ TableStep
<1>1. CASE BeginFastLoad \/ AddRow \/ Flush \/ End
  BY <1>1, BeginStep, AddRowStep, FlushEndStep
<1>2. CASE Abort
  <2>1. BeginAbort /\ op' = "abort"
    BY <1>2 DEF Abort
  <2> QED BY <2>1, BeginAbortStep
<1>3. CASE CloseDone \/ CloseConnection \/ Crash
  BY <1>3, CloseStep
<1>4. CASE Open \/ OpenDataChannels \/ Cleared \/ Skip \/ RefuseByClient
  BY <1>4, QuietSteps
<1>5. CASE FlushChannels
  BY <1>5, FlushStep
<1>6. CASE Executed
  <2>1. /\ Now \in ControlStatements /\ Step(Now) /\ Executable(Now) /\ Perform(Now)
        /\ todo' = Tail(todo)
    BY <1>6 DEF Executed, Sent, Advance
  <2> QED BY <2>1, PerformedStep
<1>7. CASE RefusedByServer
  BY <1>7, RefusedStep
<1>8. CASE Broken
  <2>1. CASE UNCHANGED <<locked, errTabs, rejected, staged, table>>
    BY <1>8, <2>1, RefusedStep
  <2>2. CASE Executable(Now) /\ Perform(Now)
    <3>1. /\ Now \in ControlStatements /\ Step(Now)
          /\ todo' = Tail(todo) \/ todo' = <<"FAIL">>
      BY <1>8 DEF Broken, Sent, Fail
    <3> QED BY <2>2, <3>1, PerformedStep
  <2> QED BY <1>8, <2>1, <2>2 DEF Broken
<1>9. CASE Failed
  BY <1>9, FailedStep
<1>10. CASE Complete
  BY <1>10, CompleteStep
<1>11. CASE ContextEnds \/ UNCHANGED vars
  BY <1>11, SameStep
<1> QED BY <1>1, <1>2, <1>3, <1>4, <1>5, <1>6, <1>7, <1>8, <1>9, <1>10, <1>11 DEF Next

\* The rows of a load that the server does not reject come into the table all at once, for
\* any number of loads and rows: what End committed stays whatever Abort and BeginFastLoad do
\* later, and only rows of a load that was given up are ever removed.
THEOREM TableIsKept == Spec => ImplementsTable
<1>1. Init => Table!TInit
  BY DEF Init, Table!TInit, InHands, Clearing, Ahead
<1>2. Init => TableState
  BY DEF Init, TableState, Aborts, Begins
<1>3. IInv /\ IInv' /\ TableState /\ [Next]_vars => TableState' /\ [Table!TNext]_(Table!tvars)
  BY TableNext DEF TableStep
<1> QED BY <1>1, <1>2, <1>3, Invariant, PTL DEF Spec, ImplementsTable, Table!TSpec
=============================================================================
