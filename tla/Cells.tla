------------------------------- MODULE Cells -------------------------------
(***************************************************************************)
(* The interpreter's memory: values whose tuple fields and mutable slots   *)
(* are shared cells (Rc<RefCell<Value>>), the expressions that read them,  *)
(* the places references are taken of, and the stores of assignments.      *)
(*                                                                         *)
(* Evaluators take and return the whole memory, in the order in which the  *)
(* code evaluates, because an index is a block that may assign before it   *)
(* yields.  Programs are well typed; an index out of bounds, or taking from *)
(* an empty vector, is the error that ends the run.                        *)
(***************************************************************************)
EXTENDS Integers, FiniteSets, Results

CONSTANT Function     \* of each function, [declared |-> its locals, a sequence
                      \* of let bindings, statement |-> the assignments it may execute]
CONSTANT MaxLength    \* of a vector that still grows

VARIABLES function,   \* the function whose frame it is
          memory,     \* [env |-> the frame's locals, heap |-> cell contents]
          last,       \* the assignment executed last
          failed      \* whether it ended the run

vars == <<function, memory, last, failed>>

-----------------------------------------------------------------------------
\* Values.  A reference with `slot` is a mutable local, loaded by a bare read.
IntVal(i)      == [kind |-> "int", int |-> i]
TupleVal(cs)   == [kind |-> "tuple", cells |-> cs]
ArrayVal(vs)   == [kind |-> "array", elems |-> vs]
RefVal(c)      == [kind |-> "ref", cell |-> c, slot |-> FALSE]
SlotVal(c)     == [kind |-> "ref", cell |-> c, slot |-> TRUE]

IsSlot(v) == v.kind = "ref" /\ v.slot

Unit(m) == Yield(TupleVal(<<>>), m)

\* Rc::new(RefCell::new(v)); the name of a cell is immaterial.
Fresh(m) == CHOOSE c \in 1 .. Cardinality(DOMAIN m.heap) + 1 : c \notin DOMAIN m.heap

Alloc(v, m) ==
  LET c == Fresh(m)
  IN  Yield(c, [m EXCEPT !.heap = (c :> v) @@ @])

NewTuple(vs, m) == Then(Threaded(Alloc, vs, m), LAMBDA cs, n : Yield(TupleVal(cs), n))

\* Slip: the cells of tuples inside an array are shared with the copy.
ShallowCopy(v, m) ==
  IF v.kind # "tuple" THEN Yield(v, m)
  ELSE NewTuple([i \in DOMAIN v.cells |-> m.heap[v.cells[i]]], m)

\* Value::deep_copy: every cell but those behind references is replaced.
RECURSIVE DeepCopy(_, _)
DeepCopy(v, m) ==
  CASE v.kind = "tuple" ->
         Then(Threaded(LAMBDA c, n : DeepCopy(n.heap[c], n), v.cells, m), NewTuple)
    [] v.kind = "array" ->
         Then(Threaded(DeepCopy, v.elems, m), LAMBDA vs, n : Yield(ArrayVal(vs), n))
    [] OTHER -> Yield(v, m)

\* tuple_cells_of peels references of any depth.
RECURSIVE TupleCells(_, _)
TupleCells(v, m) == IF v.kind = "tuple" THEN v.cells ELSE TupleCells(m.heap[v.cell], m)

\* project_reference keeps the depth of the reference.
RECURSIVE ProjectReference(_, _, _)
ProjectReference(c, i, m) ==
  LET v == m.heap[c]
  IN  IF v.kind = "tuple" THEN Yield(RefVal(v.cells[i]), m)
      ELSE Then(Then(ProjectReference(v.cell, i, m), Alloc), LAMBDA d, n : Yield(RefVal(d), n))

-----------------------------------------------------------------------------
(* Expressions.  The evaluators call each other, here through Evaluate.    *)
RECURSIVE Evaluate(_, _, _)

Value(e, m)       == Evaluate("value", e, m)
Place(e, m)       == Evaluate("place", e, m)
LvalueValue(l, m) == Evaluate("lvalue", l, m)
TargetCell(l, m)  == Evaluate("cell", l, m)
Assign(s, m)      == Evaluate("assign", s, m)
Let(d, m)         == Evaluate("let", d, m)

\* An index expression: a block that runs its statements, then yields `at`.
RunIndex(ix, m) == Then(Threaded(Assign, ix.first, m), LAMBDA us, n : Yield(ix.at, n))

\* index_out_of_bounds
Element(vs, i, m) == IF i \in DOMAIN vs THEN Yield(vs[i], m) ELSE Fail

IndexValue(e, m) ==
  Then(RunIndex(e.ix, m), LAMBDA i, n :
    Then(Value(e.of, n), LAMBDA v, o : Element(v.elems, i, o)))

FieldValue(e, m) ==
  Then(Value(e.of, m), LAMBDA v, n :
    IF v.kind = "ref" THEN ProjectReference(v.cell, e.field, n)
    ELSE DeepCopy(n.heap[v.cells[e.field]], n))

Box(v, m) == Then(Alloc(v, m), LAMBDA c, n : Yield(RefVal(c), n))

\* Slip: a reference to a slot keeps the mark that makes reads load it.
ReferenceMarked(e, m) ==
  Then(Place(e.of, m), LAMBDA p, n : IF IsSlot(p) THEN Yield(p, n) ELSE Box(p, n))

Reference(e, m) ==
  Then(Place(e.of, m), LAMBDA p, n : IF IsSlot(p) THEN Yield(RefVal(p.cell), n) ELSE Box(p, n))

Dereference(e, m) == Then(Value(e.of, m), LAMBDA v, n : DeepCopy(n.heap[v.cell], n))

LocalValue(e, m) ==
  LET v == m.env[e.name] IN DeepCopy(IF IsSlot(v) THEN m.heap[v.cell] ELSE v, m)

(* The vector builtins.  Their arguments were copied when they were read   *)
(* and are moved into the result; i counts from 0.                         *)
vector_push(vs, v, back, m) == Yield(ArrayVal(IF back THEN Append(vs, v) ELSE <<v>> \o vs), m)

vector_pop_back(vs, m) ==
  IF vs = <<>> THEN Fail ELSE NewTuple(<<ArrayVal(Front(vs)), Last(vs)>>, m)

vector_pop_front(vs, m) ==
  IF vs = <<>> THEN Fail ELSE NewTuple(<<Head(vs), ArrayVal(Tail(vs))>>, m)

vector_insert(vs, i, v, m) ==
  IF i > Len(vs) THEN Fail ELSE Yield(ArrayVal(InsertAt(vs, i + 1, v)), m)

vector_remove(vs, i, m) ==
  IF i >= Len(vs) THEN Fail
  ELSE NewTuple(<<ArrayVal(RemoveAt(vs, i + 1)), vs[i + 1]>>, m)

Intrinsic(name, args, m) ==
  LET vs == args[1].elems
  IN  CASE name = "array_len"         -> Yield(IntVal(Len(vs)), m)
        [] name = "vector_push_back"  -> vector_push(vs, args[2], TRUE, m)
        [] name = "vector_push_front" -> vector_push(vs, args[2], FALSE, m)
        [] name = "vector_pop_back"   -> vector_pop_back(vs, m)
        [] name = "vector_pop_front"  -> vector_pop_front(vs, m)
        [] name = "vector_insert"     -> vector_insert(vs, args[2].int, args[3], m)
        [] name = "vector_remove"     -> vector_remove(vs, args[2].int, m)

CallIntrinsic(e, m) ==
  Then(Threaded(Value, e.args, m), LAMBDA args, n : Intrinsic(e.name, args, n))

\* eval in value position
ValueOf(e, m) ==
  CASE e.op = "lit"   -> Yield(IntVal(e.int), m)
    [] e.op = "local" -> LocalValue(e, m)
    [] e.op = "tuple" -> Then(Threaded(Value, e.parts, m), NewTuple)
    [] e.op = "array" -> Then(Threaded(Value, e.parts, m), LAMBDA vs, n : Yield(ArrayVal(vs), n))
    [] e.op = "field" -> FieldValue(e, m)
    [] e.op = "index" -> IndexValue(e, m)
    [] e.op = "ref"   -> Reference(e, m)
    [] e.op = "deref" -> Dereference(e, m)
    [] e.op = "call"  -> CallIntrinsic(e, m)

\* eval_place: a slot when the expression denotes a cell.
PlaceOf(e, m) ==
  CASE e.op = "local" -> Yield(m.env[e.name], m)
    [] e.op = "field" -> Then(Place(e.of, m), LAMBDA v, n : Yield(SlotVal(TupleCells(v, n)[e.field]), n))
    [] e.op = "deref" -> Then(Value(e.of, m), LAMBDA v, n : Yield(SlotVal(v.cell), n))
    [] OTHER          -> Value(e, m)

-----------------------------------------------------------------------------
\* Stores.  An lvalue is a local, a member, a dereference or an element.

\* lvalue_value: shares the cells of the binding, but an array's elements
\* are cloned before its index is evaluated, and its bounds are theirs.
LvalueValueOf(l, m) ==
  CASE l.op = "local" -> LET v == m.env[l.name]
                         IN  Yield(IF IsSlot(v) THEN m.heap[v.cell] ELSE v, m)
    [] l.op = "field" -> Then(LvalueValue(l.of, m), LAMBDA v, n :
                           Yield(n.heap[TupleCells(v, n)[l.field]], n))
    [] l.op = "deref" -> Then(LvalueValue(l.of, m), LAMBDA v, n : Yield(n.heap[v.cell], n))
    [] l.op = "index" -> Then(LvalueValue(l.of, m), LAMBDA v, n :
                           Then(RunIndex(l.ix, n), LAMBDA i, o : Element(v.elems, i, o)))

\* lvalue_target_cell
TargetCellOf(l, m) ==
  CASE l.op = "local" -> Yield(m.env[l.name].cell, m)
    [] l.op = "field" -> Then(LvalueValue(l.of, m), LAMBDA v, n : Yield(TupleCells(v, n)[l.field], n))
    [] l.op = "deref" -> Then(LvalueValue(l.of, m), LAMBDA v, n : Yield(v.cell, n))

\* resolve_array_target: the cell of the outermost array and the indices.
RECURSIVE ArrayTarget(_, _)
ArrayTarget(l, m) ==
  IF l.op # "index"
  THEN Then(TargetCell(l, m), LAMBDA c, n : Yield([cell |-> c, at |-> <<>>], n))
  ELSE Then(ArrayTarget(l.of, m), LAMBDA t, n :
         Then(RunIndex(l.ix, n), LAMBDA i, o : Yield([t EXCEPT !.at = Append(@, i)], o)))

RECURSIVE SetElement(_, _, _)
SetElement(v, at, rhs) ==
  IF at = <<>> THEN rhs ELSE [v EXCEPT !.elems[Head(at)] = SetElement(@, Tail(at), rhs)]

\* Slip: the value replaces a tuple's cells, which references still hold.
StoreReplacing(c, v, m) == [m EXCEPT !.heap[c] = v]

\* store_flattened writes through the cells a tuple already has.
RECURSIVE StoreFlattened(_, _, _)
StoreFlattened(c, v, m) ==
  LET old == m.heap[c]
  IN  IF old.kind = "tuple" /\ v.kind = "tuple" /\ Len(old.cells) = Len(v.cells)
      THEN FoldLeft(LAMBDA n, i : StoreFlattened(old.cells[i], n.heap[v.cells[i]], n),
                    m, [i \in DOMAIN v.cells |-> i])
      ELSE [m EXCEPT !.heap[c] = v]

RECURSIVE InBounds(_, _)
InBounds(v, at) == at = <<>> \/ (Head(at) \in DOMAIN v.elems /\ InBounds(v.elems[Head(at)], Tail(at)))

Store(l, v, m) ==
  IF l.op = "index"
  THEN Then(ArrayTarget(l, m), LAMBDA t, n :
         IF InBounds(n.heap[t.cell], t.at)
         THEN Unit([n EXCEPT !.heap[t.cell] = SetElement(@, t.at, v)]) ELSE Fail)
  ELSE Then(TargetCell(l, m), LAMBDA c, n : Unit(StoreFlattened(c, v, n)))

-----------------------------------------------------------------------------
(* Statements.                                                             *)
\* The right-hand side is evaluated before any part of the lvalue.
AssignOf(s, m) == Then(Value(s.from, m), LAMBDA v, n : Store(s.to, v, n))

Bind(x, v, m) == Unit([m EXCEPT !.env = (x :> v) @@ @])

LetOf(d, m) ==
  Then(Value(d.from, m), LAMBDA v, n :
    IF d.mutable THEN Then(Alloc(v, n), LAMBDA c, o : Bind(d.name, SlotVal(c), o))
    ELSE Bind(d.name, v, n))

Evaluate(how, e, m) == CASE how = "value"  -> ValueOf(e, m)
                         [] how = "place"  -> PlaceOf(e, m)
                         [] how = "lvalue" -> LvalueValueOf(e, m)
                         [] how = "cell"   -> TargetCellOf(e, m)
                         [] how = "assign" -> AssignOf(e, m)
                         [] how = "let"    -> LetOf(e, m)

-----------------------------------------------------------------------------
\* The cells a value holds itself; a reference holds the cell it points to.
RECURSIVE Held(_)
Held(v) ==
  CASE v.kind = "tuple" -> v.cells
    [] v.kind = "ref"   -> <<v.cell>>
    [] v.kind = "array" -> FlattenSeq([i \in DOMAIN v.elems |-> Held(v.elems[i])])
    [] OTHER            -> <<>>

\* Cells in the order a walk from `todo` meets them.
RECURSIVE Walk(_, _, _)
Walk(todo, seen, heap) ==
  IF todo = <<>> THEN seen
  ELSE IF Head(todo) \in Range(seen) THEN Walk(Tail(todo), seen, heap)
  ELSE Walk(Held(heap[Head(todo)]) \o Tail(todo), Append(seen, Head(todo)), heap)

RECURSIVE Renamed(_, _)
Renamed(v, name) ==
  CASE v.kind = "tuple" -> [v EXCEPT !.cells = [i \in DOMAIN @ |-> name[@[i]]]]
    [] v.kind = "array" -> [v EXCEPT !.elems = [i \in DOMAIN @ |-> Renamed(@[i], name)]]
    [] v.kind = "ref"   -> [v EXCEPT !.cell = name[@]]
    [] OTHER            -> v

\* The cells somebody holds.
Live(m) == Walk(FlattenSeq([i \in DOMAIN function.declared |-> Held(m.env[function.declared[i].name])]),
                <<>>, m.heap)

\* Dropping an Rc frees a cell nobody holds.  The cells that live on are
\* numbered by the walk, so that memories differ only in shape.
Collect(m) ==
  LET live == Live(m)
      name == [c \in Range(live) |-> CHOOSE i \in DOMAIN live : live[i] = c]
  IN  [env  |-> [x \in DOMAIN m.env |-> Renamed(m.env[x], name)],
       heap |-> [i \in DOMAIN live |-> Renamed(m.heap[live[i]], name)]]

Init == /\ function \in Function
        /\ \E r \in Threaded(Let, function.declared, [env |-> <<>>, heap |-> <<>>]) :
             memory = Collect(r.mem)
        /\ last = <<>>
        /\ failed = FALSE

Execute(s) ==
  /\ \/ \E r \in Assign(s, memory) : memory' = Collect(r.mem) /\ UNCHANGED failed
     \/ Assign(s, memory) = Fail /\ failed' = TRUE /\ UNCHANGED memory
  /\ last' = s
  /\ UNCHANGED function

\* Bound: a vector of MaxLength elements grows no further.
Grows(s) == s.from.op = "call" /\ s.from.name \in {"vector_push_back", "vector_push_front", "vector_insert"}

Bounded(s) == Grows(s) => \A r \in Value(s.from.args[1], memory) : Len(r.val.elems) < MaxLength

Next == ~failed /\ \E s \in function.statement : Bounded(s) /\ Execute(s)

Spec == Init /\ [][Next]_vars
=============================================================================
