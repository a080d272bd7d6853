------------------------------ MODULE MCCells ------------------------------
(***************************************************************************)
(* Functions whose frames hold an integer, a nested tuple, an array of     *)
(* tuples, references of both shapes, an immutable struct that holds a     *)
(* reference, and a vector with what was taken from it.                    *)
(***************************************************************************)
EXTENDS CellsRefine

L(x)       == [op |-> "local", name |-> x]
Int1(i)    == [op |-> "lit", int |-> i]
Pair(a, b) == [op |-> "tuple", parts |-> <<a, b>>]
Array(u, v) == [op |-> "array", parts |-> <<u, v>>]
F(e, i)    == [op |-> "field", of |-> e, field |-> i]
D(e)       == [op |-> "deref", of |-> e]
R(e)       == [op |-> "ref", of |-> e]
E(e, i)    == [op |-> "index", of |-> e, ix |-> [first |-> <<>>, at |-> i]]
EA(e, i, s) == [op |-> "index", of |-> e, ix |-> [first |-> <<s>>, at |-> i]]

One(e)      == [op |-> "tuple", parts |-> <<e>>]
Call(f, es) == [op |-> "call", name |-> f, args |-> es]

Set(l, e)     == [to |-> l, from |-> e]
LetMut(x, e)  == [name |-> x, mutable |-> TRUE, from |-> e]
LetConst(x, e) == [name |-> x, mutable |-> FALSE, from |-> e]

x == L("x")
t == L("t")
a == L("a")
r == L("r")
q == L("q")
s == L("s")
h == L("h")
w == L("w")
v == L("v")
b == L("b")
f == L("f")

\* References into a local, a nested tuple and a struct that holds another
\* reference; w keeps a reference in a field.
RefDeclared == <<
  LetMut("x", Int1(0)),
  LetMut("t", Pair(Int1(0), Pair(Int1(0), Int1(1)))),
  LetMut("r", R(x)),
  LetMut("q", R(F(t, 2))),
  LetMut("w", Pair(R(x), Int1(0))),
  LetConst("h", Pair(R(F(t, 2)), Int1(1))) >>

RefStatement == {
  Set(x, Int1(1)), Set(x, F(t, 1)), Set(x, D(r)), Set(x, F(w, 2)),
  Set(F(t, 1), Int1(0)), Set(t, Pair(x, D(q))), Set(F(t, 2), Pair(F(F(t, 2), 2), F(F(t, 2), 1))),
  Set(r, R(x)), Set(r, R(F(D(q), 2))), Set(r, F(R(t), 1)), Set(r, R(F(F(h, 1), 1))), Set(r, F(w, 1)),
  Set(D(r), x), Set(D(q), Pair(x, D(r))), Set(F(D(q), 1), x), Set(F(F(h, 1), 2), x),
  Set(w, Pair(r, D(r))), Set(D(F(w, 1)), Int1(1)), Set(F(w, 1), R(F(F(t, 2), 2))) }

\* Arrays of tuples; s is an immutable reference to an element or a field.
ArrayDeclared == <<
  LetMut("x", Int1(0)),
  LetMut("t", Pair(Int1(0), Pair(Int1(0), Int1(1)))),
  LetMut("a", Array(Pair(Int1(0), Int1(0)), Pair(Int1(1), Int1(0)))),
  LetMut("s", R(E(a, 1))) >>

ArrayStatement == {
  Set(x, F(E(a, 2), 1)), Set(x, F(D(s), 1)), Set(F(t, 2), E(a, 2)), Set(F(F(t, 2), 1), x),
  Set(s, R(E(a, 2))), Set(s, R(F(t, 2))),
  Set(E(a, 1), F(t, 2)), Set(E(a, 2), E(a, 1)), Set(F(E(a, 1), 2), x),
  Set(a, Array(F(t, 2), E(a, 1))) }

\* Assignments whose index is a block that assigns to the indexed array.
Replacing == Set(E(a, 1), F(t, 2))
Swapping  == Set(a, Array(E(a, 2), E(a, 1)))

EffectStatement == ArrayStatement \cup {
  Set(x, F(EA(a, 1, Replacing), 2)), Set(EA(a, 2, Swapping), Pair(x, x)),
  Set(EA(a, 1, Replacing), Pair(x, Int1(0))) }

\* The same with a field of the element as the target.
FieldStatement == ArrayStatement \cup { Set(F(EA(a, 1, Replacing), 1), x) }

\* A vector of 1-tuples, what was taken off its back and off its front, and
\* a reference to an element taken.
VectorDeclared == <<
  LetMut("t", One(Int1(0))),
  LetMut("x", Int1(0)),
  LetMut("v", Array(t, One(Int1(1)))),
  LetMut("b", Call("vector_pop_back", <<v>>)),
  LetMut("f", Call("vector_pop_front", <<v>>)),
  LetMut("r", R(F(b, 2))) >>

VectorStatement == {
  Set(v, Call("vector_push_back", <<v, t>>)), Set(v, Call("vector_push_front", <<v, F(b, 2)>>)),
  Set(v, Call("vector_insert", <<v, Int1(1), F(f, 1)>>)), Set(v, Call("vector_insert", <<F(b, 1), Int1(0), D(r)>>)),
  Set(b, Call("vector_pop_back", <<v>>)), Set(b, Call("vector_remove", <<v, Int1(1)>>)),
  Set(f, Call("vector_pop_front", <<v>>)),
  Set(v, F(b, 1)), Set(v, F(f, 2)), Set(t, F(b, 2)), Set(t, E(v, 2)), Set(E(v, 2), t), Set(D(r), F(f, 1)),
  Set(F(t, 1), Int1(0)), Set(F(F(f, 1), 1), Int1(1)), Set(x, Call("array_len", <<v>>)),
  Set(F(E(v, 2), 1), Int1(0)), Set(t, One(F(E(v, 2), 1))),
  Set(t, EA(v, 1, Set(E(v, 2), t))), Set(EA(v, 1, Set(F(E(v, 2), 1), Int1(1))), t) }

AllFunctions == { [declared |-> RefDeclared, statement |-> RefStatement],
                  [declared |-> ArrayDeclared, statement |-> EffectStatement],
                  [declared |-> VectorDeclared, statement |-> VectorStatement] }

FieldFunction == { [declared |-> ArrayDeclared, statement |-> FieldStatement] }

\* States that differ in the last assignment only have the same future.
MemoryView == <<function.declared, memory, failed>>
=============================================================================
