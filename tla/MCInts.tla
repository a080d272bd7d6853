------------------------------ MODULE MCInts ------------------------------
(***************************************************************************)
(* Both signednesses at each width up to MaxBits, with the bitwise         *)
(* operators of the Bitwise community module on non-negative integers.     *)
(***************************************************************************)
EXTENDS IntRefine, Bitwise

BigAnd(p, q) == p & q
BigOr(p, q)  == p | q
BigXor(p, q) == p ^^ q
=============================================================================
