----------------------------- MODULE IntRefine -----------------------------
(***************************************************************************)
(* IntMachine's unbounded integers implement operations on words of bits.  *)
(***************************************************************************)
EXTENDS IntMachine, Sequences

\* The two's-complement digits of v.
WordOf(ty, v) == [signed |-> ty.signed, digits |-> [i \in 1 .. ty.bits |-> bit(v, i)]]

WordOfInt(x) == WordOf(x.type, x.value)

todoOfWords == IF "rhs" \in DOMAIN todo THEN [todo EXCEPT !.rhs = WordOfInt(@)] ELSE todo

\* The words the index still has to take.
indices == [k \in 1 .. (loop.end - loop.i) |-> WordOf(acc.type, loop.i + k - 1)]

Reference == INSTANCE Words WITH acc <- WordOfInt(acc), todo <- todoOfWords, loop <- indices

\* Arithmetic, logic, shifts, comparisons, casts and loops on canonical
\* integers are the two's-complement operations on their bits, errors
\* included: i_MIN / -1 and i_MIN % -1, shifts by a negative or too large
\* amount, a negation that overflows, an inclusive range up to the maximum.
ImplementsWords == Reference!Spec
=============================================================================
