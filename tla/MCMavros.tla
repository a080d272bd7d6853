----------------------------- MODULE MCMavros -----------------------------
(***************************************************************************)
(* Two workers and two programs: one worker may take both, or each takes   *)
(* one, and the last fetch_add of each finds none.                         *)
(***************************************************************************)
EXTENDS MavrosRefine

CONSTANTS w1, w2

TwoWorkers == {w1, w2}
=============================================================================
