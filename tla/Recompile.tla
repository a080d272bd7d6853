----------------------------- MODULE Recompile ------------------------------
(***************************************************************************)
(* The projection of one program compiled twice.  Another compilation may  *)
(* give functions, globals and locals other ids and expressions other      *)
(* locations; the text of the second is compared with that of the first,   *)
(* and each text is read against its program.                              *)
(***************************************************************************)
EXTENDS Projection, SequencesExt

CONSTANTS Renaming, \* [function, global, local, expr]: what another compilation does
                    \* to ids, and to the expressions that use them
          Depth     \* the height of an expression

VARIABLE earlier    \* the text of the first compilation, <<>> before there is one

-----------------------------------------------------------------------------
\* Expressions are trees.
ASSUME DepthAssumption ==
  /\ Depth \in [Expr -> Nat]
  /\ \A e \in Expr : \A i \in DOMAIN e.parts : Depth[e.parts[i]] < Depth[e]

\* Different ids become different ids, and main stays main.  An expression
\* keeps its form, and its location does not matter.
RenamedName(r, name) ==
  [name EXCEPT !.id = CASE name.kind = "function" -> r.function[@]
                        [] name.kind = "global"   -> r.global[@]
                        [] name.kind = "local"    -> r.local[@]
                        [] OTHER                  -> @]
OneToOne(f) == /\ DOMAIN f \subseteq Nat
               /\ f \in [DOMAIN f -> Nat]
               /\ \A a, b \in DOMAIN f : f[a] = f[b] => a = b
ASSUME RenamingAssumption ==
  \A r \in Renaming :
    /\ OneToOne(r.function) /\ OneToOne(r.global) /\ OneToOne(r.local)
    /\ Main \in DOMAIN r.function /\ r.function[Main] = Main
    /\ r.expr \in [Expr -> Expr]
    /\ \A e \in Expr :
         /\ e.name.kind = "function" => e.name.id \in DOMAIN r.function
         /\ e.name.kind = "global" => e.name.id \in DOMAIN r.global
         /\ e.name.kind = "local" => e.name.id \in DOMAIN r.local
         /\ r.expr[e].form = e.form
         /\ r.expr[e].name = RenamedName(r, e.name)
         /\ r.expr[e].parts = [i \in DOMAIN e.parts |-> r.expr[e.parts[i]]]

RenamedFunction(r, f) ==
  [id |-> r.function[f.id],
   parameters |-> [i \in DOMAIN f.parameters |-> r.expr[f.parameters[i]]],
   body |-> r.expr[f.body]]

Origin(renaming, id) == CHOOSE i \in DOMAIN renaming : renaming[i] = id

\* The vector holds each function at its new id, the map its globals under
\* their new keys.
Renamed(r, p) ==
  [functions |-> [i \in DOMAIN p.functions |->
                    RenamedFunction(r, p.functions[Origin(r.function, i - 1) + 1])],
   keys      |-> p.keys,
   globals   |-> [k \in DOMAIN p.globals |-> r.expr[p.globals[Origin(r.global, k)]]]]

\* A renaming of a program permutes the places of its functions, which are
\* where their ids say, and the keys of its globals.
Fits(r, p) ==
  /\ \A i \in DOMAIN p.functions : p.functions[i].id = i - 1
  /\ {r.function[p.functions[i].id] : i \in DOMAIN p.functions}
       = {p.functions[i].id : i \in DOMAIN p.functions}
  /\ {p.functions[i].id : i \in DOMAIN p.functions} \subseteq DOMAIN r.function
  /\ DOMAIN p.globals \subseteq DOMAIN r.global
  /\ {r.global[k] : k \in DOMAIN p.globals} = DOMAIN p.globals

\* Unreachable items are numbered in emission order: a renaming keeps it.
Keeps(renaming, numbers, kind) ==
  LET Unreached == {id \in DOMAIN renaming :
                      \E i \in DOMAIN out : /\ out[i].kind = kind /\ ~out[i].reached
                                            /\ id \in DOMAIN numbers /\ out[i].n = numbers[id]}
  IN  \A a, b \in Unreached : a < b => renaming[a] < renaming[b]

CompileAgain ==
  /\ phase = "done"
  /\ earlier = <<>>
  /\ earlier' = out
  /\ \E r \in Renaming :
       /\ Fits(r, program)
       /\ Keeps(r.function, functions, "function")
       /\ Keeps(r.global, globals, "global")
       /\ program' = Renamed(r, program)
  /\ functions' = [id \in {Main} |-> 0]
  /\ function_queue' = <<Main>>
  /\ globals' = [id \in {} |-> 0]
  /\ global_queue' = <<>>
  /\ locals' = [id \in {} |-> 0]
  /\ out' = <<>>
  /\ phase' = "reached"
  /\ UNCHANGED <<todo, leftover>>

RecompileInit == Init /\ earlier = <<>>
RecompileNext == (Next /\ UNCHANGED earlier) \/ CompileAgain
RecompileSpec == RecompileInit /\ [][RecompileNext]_<<vars, earlier>>

-----------------------------------------------------------------------------
\* An expression and those below it, each before its subexpressions.
Preorder[e \in Expr] == <<e>> \o FlattenSeq([i \in DOMAIN e.parts |-> Preorder[e.parts[i]]])
Preorders(es) == FlattenSeq([i \in DOMAIN es |-> Preorder[es[i]]])

\* What the entries are about: the item a kind and a number stand for.
ItemOf(entry) ==
  CHOOSE item \in {Id("function", id) : id \in DOMAIN functions}
                  \cup {Id("global", id) : id \in DOMAIN globals} :
    item.kind = entry.kind /\ ItemNumber(item) = entry.n

\* The expressions of an item in the order of its text.
Parts(item) ==
  IF item.kind = "global" THEN IF HasGlobal(item.id) THEN <<program.globals[item.id]>> ELSE <<>>
  ELSE IF HasFunction(item.id)
         THEN Append(FunctionById(item.id).parameters, FunctionById(item.id).body) ELSE <<>>
Source(item) == Preorders(Parts(item))

\* A local's number: how many other locals the item names before it.
LocalNumber(source, id) ==
  LET At == {i \in DOMAIN source : source[i].name.kind = "local"}
      First == CHOOSE i \in At : source[i].name.id = id
                 /\ \A j \in At : source[j].name.id = id => i <= j
  IN  Cardinality({source[j].name.id : j \in {k \in At : k < First}})

Reads(source, i) ==
  LET e == source[i] IN
    [form |-> e.form, kind |-> e.name.kind, parts |-> Len(e.parts),
     n |-> CASE e.name.kind \in {"function", "global"} -> ItemNumber(e.name)
             [] e.name.kind = "local" -> LocalNumber(source, e.name.id)
             [] OTHER -> e.name.id]

\* The text reads back as the program: each entry is its item with functions
\* and globals replaced by their numbers and locals by the order in which the
\* item itself first names them, whatever was written before it.  Two programs
\* with one text are then the same program up to ids and locations.
TextReadsBack ==
  phase = "done" =>
    \A i \in DOMAIN out :
      LET source == Source(ItemOf(out[i])) IN
        out[i].text = [k \in DOMAIN source |-> Reads(source, k)]

\* Another compilation of the same program has the same text, as the tests
\* renumbered_functions_and_locals_project_identically and
\* locations_do_not_affect_the_projection show for one program.
RenumberingInvisible == phase = "done" /\ earlier # <<>> => out = earlier

Uses(item) == {e.name : e \in {x \in Range(Source(item)) :
                                    x.name.kind \in {"function", "global"}}}

\* An entry stands before the mark of the unreachable items exactly when its
\* item can be reached from main through the items that are used.
MarkedAsReached ==
  phase = "done" =>
    LET All == {Id("function", id) : id \in DOMAIN functions}
               \cup {Id("global", id) : id \in DOMAIN globals}
        Closed == {S \in SUBSET All : /\ Id("function", Main) \in S
                                      /\ \A item \in S : Uses(item) \subseteq S}
    IN  \A i \in DOMAIN out : out[i].reached <=> \A S \in Closed : ItemOf(out[i]) \in S
=============================================================================
