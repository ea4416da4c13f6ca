---------------------------- MODULE FastLoadTable ----------------------------
(***************************************************************************)
(* What a FastLoad promises to whoever reads the table it loads, whatever  *)
(* statements, sessions and retries it takes (fastload.go: "Commit load",  *)
(* "Abort load and rollback").  A load is handed out over an empty table.  *)
(* Those of its rows that the server does not reject (FastLoadResult)      *)
(* appear in the table all at once, and once they did nothing the driver   *)
(* does takes them away again or adds to them, not even the abort that     *)
(* follows a commit whose answer was lost.  Only the rows of a load that   *)
(* was given up are ever removed, and for that they pass through the table.*)
(***************************************************************************)
CONSTANT Rows      \* the rows a load may accept

VARIABLES held,      \* a load is in the caller's hands
          rows,      \* its rows, or those a load given up left with the server
          clearing,  \* such rows are being removed
          table      \* the rows of the table

tvars == <<held, rows, clearing, table>>

TInit == held = FALSE /\ rows = {} /\ clearing = FALSE /\ table = {}

\* A load is handed out.
HandOut == /\ ~held /\ ~clearing /\ table = {} /\ rows = {}
           /\ held' = TRUE
           /\ UNCHANGED <<rows, clearing, table>>

\* The load takes a row.
Accept == /\ held
          /\ \E r \in Rows \ rows : rows' = rows \cup {r}
          /\ UNCHANGED <<held, clearing, table>>

\* Its rows come into the table, but for the rejected ones.
Commit == /\ held
          /\ held' = FALSE /\ table' \in SUBSET rows /\ rows' = {}
          /\ UNCHANGED clearing

\* The load is given up, or its client dies.  Some rows never reached the server.
GiveUp == /\ held
          /\ held' = FALSE /\ rows' \in SUBSET rows
          /\ UNCHANGED <<clearing, table>>

\* Removing what it left begins, on an empty table, ...
BeginClearing == /\ ~held /\ table = {}
                 /\ clearing' = TRUE
                 /\ UNCHANGED <<held, rows, table>>

\* ... brings it into the table, ...
Release == /\ clearing /\ table = {}
           /\ table' \in SUBSET rows /\ rows' = {} /\ clearing' \in BOOLEAN
           /\ UNCHANGED held

\* ... and empties the table, ...
Empty == /\ clearing /\ rows = {}
         /\ table' = {} /\ clearing' = FALSE
         /\ UNCHANGED <<held, rows>>

\* ... unless it fails before that.
StopClearing == /\ clearing
                /\ clearing' = FALSE
                /\ UNCHANGED <<held, rows, table>>

TNext == HandOut \/ Accept \/ Commit \/ GiveUp
           \/ BeginClearing \/ Release \/ Empty \/ StopClearing

TSpec == TInit /\ [][TNext]_tvars
=============================================================================
