-------------------------- MODULE MCTableBuffering --------------------------
(* TableBuffering on small instances for TLC: a query of any function next *)
(* to one that appends to the same log and has it cleared.                 *)
EXTENDS TableBuffering, TLC

CONSTANTS q1, q2, t1, t2, t3

MCThreads == (q1 :> {t1, t2}) @@ (q2 :> {t3})
MCInputs == (q1 :> 2) @@ (q2 :> 1)
MCKinds == (q1 :> Functions) @@ (q2 :> {"buffer_input"})

=============================================================================
