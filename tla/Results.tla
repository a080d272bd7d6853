------------------------------ MODULE Results ------------------------------
(***************************************************************************)
(* What an evaluation returns: a value with the memory it leaves, or, when *)
(* an error ends the run, nothing.  An error ends every evaluation that    *)
(* calls the one it happens in (the ? of the Rust code).                   *)
(***************************************************************************)
EXTENDS Sequences, SequencesExt

Yield(v, m) == {[val |-> v, mem |-> m]}

Fail == {}

\* F goes on with what r returns.
Then(r, F(_, _)) == UNION {F(s.val, s.mem) : s \in r}

\* F evaluated on each of xs from left to right.
Threaded(F(_, _), xs, m) ==
  FoldLeft(LAMBDA acc, x : Then(acc, LAMBDA vs, n :
                             Then(F(x, n), LAMBDA v, o : Yield(Append(vs, v), o))),
           Yield(<<>>, m), xs)
=============================================================================
