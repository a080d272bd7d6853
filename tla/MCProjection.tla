---------------------------- MODULE MCProjection ----------------------------
(* An instance of Recompile: main and two more functions, two globals, and *)
(* bodies that use them in every order, shadow locals, recurse, and name a *)
(* function the program does not have.                                     *)
EXTENDS Recompile

Node(form, kind, id, parts) ==
  [form |-> form, name |-> Id(kind, id), parts |-> parts, location |-> 0]
F(id)      == Node("ident", "function", id, <<>>)
G(id)      == Node("ident", "global", id, <<>>)
L(id)      == Node("ident", "local", id, <<>>)
Literal    == Node("literal", "named", 7, <<>>)
Let(id, e) == Node("let", "local", id, <<e>>)
Block(es)  == Node("block", "none", 0, es)

Calls == {Block(<<F(1), F(2)>>), Block(<<F(2), G(1)>>), Block(<<G(1), G(0)>>)}
Scopes == {Literal, Let(1, L(0)), Block(<<Let(0, F(1)), L(1), L(0)>>)}
Values == {Literal, G(1), Let(1, F(2)), Block(<<L(0), L(1), F(3)>>)}

Bodies == Calls \cup Scopes \cup Values
          \cup {F(id) : id \in 0 .. 3} \cup {G(id) : id \in 0 .. 1}
          \cup {L(id) : id \in 0 .. 1} \cup {Let(0, F(1))}

Function(id, body) == [id |-> id, parameters |-> <<L(id % 2)>>, body |-> body]
MCProgram ==
  {[functions |-> <<Function(0, a), Function(1, b), Function(2, c)>>,
    keys |-> <<0, 1>>, globals |-> [id \in {0, 1} |-> IF id = 0 THEN d ELSE e]] :
      a \in Calls \cup Scopes, b \in Calls \cup Scopes, c \in Calls \cup Scopes,
      d \in Values, e \in Values}

Swap(a, b) == [i \in 0 .. 3 |-> IF i = a THEN b ELSE IF i = b THEN a ELSE i]
Ids == {[function |-> f, global |-> g, local |-> l] :
          f \in {Swap(0, 0), Swap(1, 2)}, g \in {[i \in 0 .. 1 |-> i], [i \in 0 .. 1 |-> 1 - i]},
          l \in {Swap(0, 0), Swap(0, 1)}}

RECURSIVE RenamedExpr(_, _)
RenamedExpr(r, e) ==
  [e EXCEPT !.name = RenamedName(r, @),
            !.parts = [i \in DOMAIN @ |-> RenamedExpr(r, @[i])],
            !.location = 1 - @]

\* The renamings of a renaming are renamings, so renaming twice gives them all.
Again(es) == {RenamedExpr(r, e) : r \in Ids, e \in es}
MCExpr == Again(Bodies) \cup Again(Again(Bodies))
MCRenaming ==
  {[function |-> r.function, global |-> r.global, local |-> r.local,
    expr |-> [e \in MCExpr |-> RenamedExpr(r, e)]] : r \in Ids}

RECURSIVE Height(_)
Height(e) == IF e.parts = <<>> THEN 0 ELSE 1 + Max({Height(e.parts[i]) : i \in DOMAIN e.parts})
MCDepth == [e \in MCExpr |-> Height(e)]
=============================================================================
