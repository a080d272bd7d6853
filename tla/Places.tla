------------------------------- MODULE Places -------------------------------
(***************************************************************************)
(* What assignments and references mean, with no cells: a local holds a    *)
(* tree, a reference names a place (a local and a path into its tree), a   *)
(* read copies the tree, a store replaces the subtree at a place, and a    *)
(* place is fixed when its last step has been evaluated.  A reference to   *)
(* a value that has no place holds the value itself.                       *)
(***************************************************************************)
EXTENDS Integers, Results

CONSTANT Function

VARIABLES function,   \* the function whose frame it is
          memory,     \* the tree of each local
          last,       \* the assignment executed last
          failed      \* whether it ended the run

vars == <<function, memory, last, failed>>

-----------------------------------------------------------------------------
Leaf(i)        == [kind |-> "int", int |-> i]
Node(k, ts)    == [kind |-> k, parts |-> ts]
RefTo(p)       == [kind |-> "ref", to |-> p]
BoxOf(t)       == [kind |-> "box", of |-> t]

At(x, path)    == [name |-> x, path |-> path]
Below(p, i)    == [p EXCEPT !.path = Append(@, i)]

Subtree(p, m) == FoldLeft(LAMBDA t, i : t.parts[i], m[p.name], p.path)

Load(r, m) == IF r.kind = "box" THEN r.of ELSE Subtree(r.to, m)

\* A path may lead outside a vector.
Exists(p, m) ==
  \A k \in DOMAIN p.path :
    p.path[k] \in DOMAIN Subtree([p EXCEPT !.path = SubSeq(@, 1, k - 1)], m).parts

Existing(r) == {s \in r : Exists(s.val, s.mem)}

RECURSIVE Replace(_, _, _)
Replace(t, path, u) ==
  IF path = <<>> THEN u ELSE [t EXCEPT !.parts[Head(path)] = Replace(@, Tail(path), u)]

\* Member access sees through references.
RECURSIVE Through(_, _)
Through(p, m) == LET t == Subtree(p, m) IN IF t.kind = "ref" THEN Through(t.to, m) ELSE p

\* An element of an array has no place a reference could name.
RECURSIVE InElement(_)
InElement(e) == e.op = "index" \/ (e.op = "field" /\ InElement(e.of))

HasPlace(e) == e.op \in {"local", "field", "deref"} /\ ~InElement(e)

\* The evaluators call each other, here through Evaluate.
RECURSIVE Evaluate(_, _, _)

Value(e, m)     == Evaluate("value", e, m)
Place(e, m)     == Evaluate("place", e, m)
Assign(s, m)    == Evaluate("assign", s, m)
Let(d, m)       == Evaluate("let", d, m)

RunIndex(ix, m) == Then(Threaded(Assign, ix.first, m), LAMBDA us, n : Yield(ix.at, n))

Part(t, i, m) == IF i \in DOMAIN t.parts THEN Yield(t.parts[i], m) ELSE Fail

Field(of, i, m) ==
  IF of.kind = "ref" THEN RefTo(Below(Through(of.to, m), i)) ELSE of.parts[i]

\* A vector after an element is put at, or taken from, position k.
With(ts, k, t) == [j \in 1 .. Len(ts) + 1 |-> IF j < k THEN ts[j] ELSE IF j = k THEN t ELSE ts[j - 1]]
Without(ts, k) == [j \in 1 .. Len(ts) - 1 |-> IF j < k THEN ts[j] ELSE ts[j + 1]]

Put(ts, k, t, m) ==
  IF k \in 1 .. Len(ts) + 1 THEN Yield(Node("array", With(ts, k, t)), m) ELSE Fail

Take(ts, k, m) ==
  IF k \in DOMAIN ts THEN Yield(<<Node("array", Without(ts, k)), ts[k]>>, m) ELSE Fail

Tuple(ts, m) == Yield(Node("tuple", ts), m)

Intrinsic(name, args, m) ==
  LET ts == args[1].parts
  IN  CASE name = "array_len"         -> Yield(Leaf(Len(ts)), m)
        [] name = "vector_push_back"  -> Put(ts, Len(ts) + 1, args[2], m)
        [] name = "vector_push_front" -> Put(ts, 1, args[2], m)
        [] name = "vector_insert"     -> Put(ts, args[2].int + 1, args[3], m)
        [] name = "vector_pop_back"   -> Then(Take(ts, Len(ts), m), Tuple)
        [] name = "vector_remove"     -> Then(Take(ts, args[2].int + 1, m), Tuple)
        [] name = "vector_pop_front"  -> Then(Take(ts, 1, m), LAMBDA us, n : Tuple(Reverse(us), n))

ValueOf(e, m) ==
  CASE e.op = "lit"   -> Yield(Leaf(e.int), m)
    [] e.op = "local" -> Yield(m[e.name], m)
    [] e.op \in {"tuple", "array"} ->
         Then(Threaded(Value, e.parts, m), LAMBDA ts, n : Yield(Node(e.op, ts), n))
    [] e.op = "field" -> Then(Value(e.of, m), LAMBDA t, n : Yield(Field(t, e.field, n), n))
    [] e.op = "index" -> Then(RunIndex(e.ix, m), LAMBDA i, n :
                           Then(Value(e.of, n), LAMBDA t, o : Part(t, i, o)))
    [] e.op = "call"  -> Then(Threaded(Value, e.args, m), LAMBDA ts, n : Intrinsic(e.name, ts, n))
    [] e.op = "deref" -> Then(Value(e.of, m), LAMBDA t, n : Yield(Load(t, n), n))
    [] e.op = "ref"   -> IF HasPlace(e.of)
                         THEN Then(Place(e.of, m), LAMBDA p, n : Yield(RefTo(p), n))
                         ELSE Then(Value(e.of, m), LAMBDA t, n : Yield(BoxOf(t), n))

PlaceOf(e, m) ==
  CASE e.op = "local" -> Yield(At(e.name, <<>>), m)
    [] e.op = "field" -> Then(Existing(Place(e.of, m)), LAMBDA p, n :
                           Yield(Below(Through(p, n), e.field), n))
    [] e.op = "deref" -> Then(Existing(Place(e.of, m)), LAMBDA p, n : Yield(Subtree(p, n).to, n))
    [] e.op = "index" -> Then(Place(e.of, m), LAMBDA p, n :
                           Then(RunIndex(e.ix, n), LAMBDA i, o : Yield(Below(p, i), o)))

AssignOf(s, m) ==
  Then(Value(s.from, m), LAMBDA t, n :
    Then(Existing(Place(s.to, n)), LAMBDA p, o :
      Yield(t, [o EXCEPT ![p.name] = Replace(@, p.path, t)])))

LetOf(d, m) ==
  Then(Value(d.from, m), LAMBDA t, n :
    Yield(t, (d.name :> t) @@ n))

Evaluate(how, e, m) == CASE how = "value"  -> ValueOf(e, m)
                         [] how = "place"  -> PlaceOf(e, m)
                         [] how = "assign" -> AssignOf(e, m)
                         [] how = "let"    -> LetOf(e, m)

Init == /\ function \in Function
        /\ \E r \in Threaded(Let, function.declared, <<>>) : memory = r.mem
        /\ last = <<>>
        /\ failed = FALSE

Execute(s) ==
  /\ \/ \E r \in Assign(s, memory) : memory' = r.mem /\ UNCHANGED failed
     \/ Assign(s, memory) = Fail /\ failed' = TRUE /\ UNCHANGED memory
  /\ last' = s
  /\ UNCHANGED function

Next == ~failed /\ \E s \in function.statement : Execute(s)

Spec == Init /\ [][Next]_vars
=============================================================================
