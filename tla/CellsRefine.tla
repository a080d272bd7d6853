---------------------------- MODULE CellsRefine ----------------------------
(***************************************************************************)
(* Cells implement places: a cell stands for the place of the binding that *)
(* owns it, and reading the cells as trees gives the memory of Places.     *)
(***************************************************************************)
EXTENDS Cells

Owner(c, x, path) == [cell |-> c, name |-> x, path |-> path]

\* The cells below a value, with the place of each; references own nothing.
RECURSIVE OwnersIn(_, _, _)
OwnersIn(v, x, path) ==
  CASE v.kind = "tuple" ->
         UNION {{Owner(v.cells[i], x, Append(path, i))}
                  \cup OwnersIn(memory.heap[v.cells[i]], x, Append(path, i)) : i \in DOMAIN v.cells}
    [] v.kind = "array" ->
         UNION {OwnersIn(v.elems[i], x, Append(path, i)) : i \in DOMAIN v.elems}
    [] OTHER -> {}

Binding(x) == memory.env[x]

OwnersOf(x) ==
  IF IsSlot(Binding(x))
  THEN {Owner(Binding(x).cell, x, <<>>)} \cup OwnersIn(memory.heap[Binding(x).cell], x, <<>>)
  ELSE OwnersIn(Binding(x), x, <<>>)

Owners == UNION {OwnersOf(x) : x \in DOMAIN memory.env}

\* No two bindings, fields or array elements share a cell: reads copy, and a
\* write-through store copies the contents of cells, never the cells.
OwnedOnce == \A o, p \in Owners : o.cell = p.cell => o = p

RECURSIVE HasSlot(_)
HasSlot(v) == CASE v.kind = "array" -> \E i \in DOMAIN v.elems : HasSlot(v.elems[i])
                [] OTHER            -> IsSlot(v)

\* Only a frame binds slots: a slot mark stored in a cell would make a read
\* of the reference load what it points to.
SlotsStayInFrame == \A c \in DOMAIN memory.heap : ~HasSlot(memory.heap[c])

\* The cell an assignment resolves its target to is one the frame still
\* holds when the value is stored: "so the caller can reach a live
\* field/element cell", as the comment on lvalue_value has it.
StoresToLiveCell ==
  \A s \in function.statement : s.to.op # "index" =>
    \A t \in Then(Value(s.from, memory), LAMBDA u, n : TargetCell(s.to, n)) :
      t.val \in Range(Live(t.mem))

RECURSIVE Tree(_)
Tree(v) ==
  CASE v.kind = "int"   -> v
    [] v.kind = "tuple" -> [kind |-> "tuple", parts |-> [i \in DOMAIN v.cells |-> Tree(memory.heap[v.cells[i]])]]
    [] v.kind = "array" -> [kind |-> "array", parts |-> [i \in DOMAIN v.elems |-> Tree(v.elems[i])]]
    [] v.kind = "ref"   ->
         LET owners == {o \in Owners : o.cell = v.cell}
         IN  IF owners = {} THEN [kind |-> "box", of |-> Tree(memory.heap[v.cell])]
             ELSE LET o == CHOOSE o \in owners : TRUE
                  IN  [kind |-> "ref", to |-> [name |-> o.name, path |-> o.path]]

TreeOf(x) == Tree(IF IsSlot(Binding(x)) THEN memory.heap[Binding(x).cell] ELSE Binding(x))

Abstract == INSTANCE Places WITH memory <- [x \in DOMAIN memory.env |-> TreeOf(x)]

\* Every read gives the tree at the place it names, and every store changes
\* that place and nothing else, whatever references are held and whatever an
\* index expression assigned in between.
ImplementsPlaces == Abstract!Spec
=============================================================================
