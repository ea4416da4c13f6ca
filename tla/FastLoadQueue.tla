---------------------------- MODULE FastLoadQueue ----------------------------
(***************************************************************************)
(* What one FastLoad data session promises its caller, whatever buffers    *)
(* and goroutines implement it (fastload.go: "Add row to queue", "Send all *)
(* queued rows to server, blocks until ackd").  The rows of the session    *)
(* are numbered in the order AddRow accepts them.  The server stores them  *)
(* in blocks: each block starts where the previous one ended, so no row is *)
(* skipped and no row is stored twice.  A Flush that reports success       *)
(* leaves nothing queued.                                                  *)
(***************************************************************************)
EXTENDS Integers

CONSTANT MaxRows   \* the most rows a load of the model accepts

VARIABLES accepted,  \* how many rows AddRow has accepted
          stored,    \* how many times the server has stored each row
          flushed    \* TRUE when the last call was a Flush that returned nil

qvars == <<accepted, stored, flushed>>

QInit == /\ accepted = 0
         /\ stored = [r \in 1..MaxRows |-> 0]
         /\ flushed = FALSE

\* A row is queued.
Accept == /\ accepted' = accepted + 1
          /\ flushed' = FALSE
          /\ UNCHANGED stored

\* The server stores the next block of queued rows.
Store == \E S \in SUBSET (1..accepted) :
            /\ \A r \in S : stored[r] = 0
            /\ \A r \in S, q \in 1..accepted : q < r => stored[q] = 1 \/ q \in S
            /\ stored' = [r \in 1..MaxRows |-> IF r \in S THEN 1 ELSE stored[r]]
            /\ UNCHANGED <<accepted, flushed>>

\* A Flush returns nil: everything queued is stored.
FlushOk == /\ \A r \in 1..accepted : stored[r] = 1
           /\ flushed' = TRUE
           /\ UNCHANGED <<accepted, stored>>

\* Another call starts, or a call fails.
OtherCall == /\ flushed' = FALSE
             /\ UNCHANGED <<accepted, stored>>

QNext == Accept \/ Store \/ FlushOk \/ OtherCall

QSpec == QInit /\ [][QNext]_qvars
=============================================================================
