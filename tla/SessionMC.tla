------------------------------ MODULE SessionMC ------------------------------
(* Session on a small instance.  Statements are interchangeable.           *)
EXTENDS Session, TLC

Symmetry == Permutations(Stmts)
=============================================================================
