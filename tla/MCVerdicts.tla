----------------------------- MODULE MCVerdicts -----------------------------
(* An instance of Verdicts: two kinds of failure of a running program.     *)
EXTENDS Verdicts
=============================================================================
