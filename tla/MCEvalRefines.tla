---------------------------- MODULE MCEvalRefines ----------------------------
(***************************************************************************)
(* An unconstrained entry point with two levels of nesting, a constrained  *)
(* helper with one, and two globals whose initializers are a leaf, a call  *)
(* or a reference to a global.                                             *)
(***************************************************************************)
EXTENDS EvalRefines

MCFunction == {"main", "helper"}
MCUnconstrained == {"main"}

MCNest == [b \in MCFunction \cup Global |->
             IF b = "main" THEN 2 ELSE IF b = "helper" THEN 1 ELSE 0]
=============================================================================
