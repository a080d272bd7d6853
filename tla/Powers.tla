------------------------------- MODULE Powers -------------------------------
(***************************************************************************)
(* Powers by repeated multiplication, and the bits of an integer.          *)
(***************************************************************************)
EXTENDS Integers

powers(b) == LET p[n \in Nat] == IF n = 0 THEN 1 ELSE b * p[n - 1] IN p

power(b, n) == powers(b)[n]
pow2(n) == power(2, n)

\* Bit i of the two's-complement notation of v, the least significant first:
\* the parity of v / 2^(i - 1), rounded down.
bit(v, i) == (v \div pow2(i - 1)) % 2
=============================================================================
