----------------------------- MODULE Projection -----------------------------
(***************************************************************************)
(* The canonical text of a monomorphized program (src/projection.rs).      *)
(* Functions, globals and the locals of each item are numbered in the      *)
(* order the text first meets them from main; two work queues say which    *)
(* items are still to be written.  The text is a sequence of entries, one  *)
(* for each function and global, and an entry's body a sequence of tokens, *)
(* one for each expression in the order expr() writes them.                *)
(***************************************************************************)
EXTENDS Naturals, Sequences, FiniteSets

CONSTANTS Expr,     \* expressions: [form, name, parts, location]
          Program   \* programs: [functions, globals, keys]

VARIABLES program, functions, function_queue, globals, global_queue, locals,
          out, todo, leftover, phase

work == <<function_queue, global_queue, todo, leftover, phase>>
vars == <<program, functions, globals, locals, out, work>>

-----------------------------------------------------------------------------
\* What an identifier stands for (Definition); a builtin, a low-level function
\* or an oracle is "named", and an expression that names nothing is "none".
NameKind == {"function", "global", "local", "named", "none"}
Name     == [kind : NameKind, id : Nat]

\* An expression: its kind with everything that is written as it stands, the
\* identifier or local it names, and its subexpressions as they are written.
\* Parameters, and the arguments of a match case, are expressions of a form of
\* their own.  A function is an entry of the vector of functions, under the id
\* it believes it has; the globals are a map with its keys in order.
FunctionEntry == [id : Nat, parameters : Seq(Expr), body : Expr]
ASSUME ExprAssumption ==
  \A e \in Expr : e.name \in Name /\ e.parts \in Seq(Expr)
IsProgram(p) ==
  /\ p.functions \in Seq(FunctionEntry)
  /\ p.keys \in Seq(Nat)
  /\ \A i, j \in DOMAIN p.keys : i < j => p.keys[i] < p.keys[j]
  /\ p.globals \in [{p.keys[i] : i \in DOMAIN p.keys} -> Expr]
ASSUME ProgramAssumption == \A p \in Program : IsProgram(p)

Main == 0
Id(kind, id) == [kind |-> kind, id |-> id]

\* function_by_id: the id must be where the function is and what it says.
HasFunction(id) ==
  id + 1 \in DOMAIN program.functions /\ program.functions[id + 1].id = id
FunctionById(id) == program.functions[id + 1]
HasGlobal(id) == id \in DOMAIN program.globals

\* Mutant: the number is one short, so main's is given twice.
NumberedShort(numbers, id) ==
  [i \in DOMAIN numbers \cup {id} |->
     IF i \in DOMAIN numbers THEN numbers[i]
     ELSE IF numbers = <<>> THEN 0 ELSE Cardinality(DOMAIN numbers) - 1]

\* A map of numbers with one id more, unless it is there: the next number is
\* the size of the map.
Numbered(numbers, id) ==
  [i \in DOMAIN numbers \cup {id} |->
     IF i \in DOMAIN numbers THEN numbers[i] ELSE Cardinality(DOMAIN numbers)]

\* Mutant: an item is queued every time it is met.
QueuedAgain(queue, numbers, id) == Append(queue, id)

Queued(queue, numbers, id) == IF id \in DOMAIN numbers THEN queue ELSE Append(queue, id)

-----------------------------------------------------------------------------
\* function_id and global_id: an item met for the first time is queued.
function_id(id) ==
  /\ functions' = Numbered(functions, id)
  /\ function_queue' = Queued(function_queue, functions, id)
  /\ UNCHANGED <<globals, global_queue>>
global_id(id) ==
  /\ globals' = Numbered(globals, id)
  /\ global_queue' = Queued(global_queue, globals, id)
  /\ UNCHANGED <<functions, function_queue>>
local_id(id) == locals' = Numbered(locals, id)

\* The number an identifier has once it is met; other names stay as they are.
NumberOf(name) ==
  CASE name.kind = "function" -> Numbered(functions, name.id)[name.id]
    [] name.kind = "global"   -> Numbered(globals, name.id)[name.id]
    [] name.kind = "local"    -> Numbered(locals, name.id)[name.id]
    [] OTHER                  -> name.id

\* definition: the identifier an expression names is numbered.
definition(name) ==
  \/ name.kind = "function" /\ function_id(name.id) /\ UNCHANGED locals
  \/ name.kind = "global" /\ global_id(name.id) /\ UNCHANGED locals
  \/ /\ name.kind = "local"
     /\ local_id(name.id)
     /\ UNCHANGED <<functions, function_queue, globals, global_queue>>
  \/ /\ name.kind \in {"named", "none"}
     /\ UNCHANGED <<functions, function_queue, globals, global_queue, locals>>

Token(e) == [form |-> e.form, kind |-> e.name.kind, n |-> NumberOf(e.name),
             parts |-> Len(e.parts)]

\* The text of the entry being written, one token longer.
Written(token) == [out EXCEPT ![Len(out)].text = Append(@, token)]

Entry(kind, n, missing) ==
  [kind |-> kind, n |-> n, missing |-> missing, reached |-> phase = "reached", text |-> <<>>]

-----------------------------------------------------------------------------
\* canonical_text: nothing is numbered but main, which run() queues first.
Init ==
  /\ program \in Program
  /\ functions = [id \in {Main} |-> 0]
  /\ function_queue = <<Main>>
  /\ globals = [id \in {} |-> 0]
  /\ global_queue = <<>>
  /\ locals = [id \in {} |-> 0]
  /\ out = <<>>
  /\ todo = <<>>
  /\ leftover = <<>>
  /\ phase = "reached"

\* expr, literal, lvalue and constructor: an expression's own identifier is
\* numbered and written before its subexpressions.
WriteExpr ==
  /\ todo # <<>>
  /\ LET e == Head(todo) IN
       /\ definition(e.name)
       /\ out' = Written(Token(e))
       /\ todo' = e.parts \o Tail(todo)
  /\ UNCHANGED <<program, leftover, phase>>

\* drain takes the next item when the one before it is written.
Draining == todo = <<>> /\ leftover = <<>> /\ phase # "done"

emit_function ==
  /\ Draining
  /\ function_queue # <<>>
  /\ function_queue' = Tail(function_queue)
  /\ LET id == Head(function_queue) IN
       /\ out' = Append(out, Entry("function", functions[id], ~HasFunction(id)))
       /\ \/ ~HasFunction(id) /\ UNCHANGED <<locals, todo>>
          \/ /\ HasFunction(id)
             /\ locals' = [l \in {} |-> 0]
             /\ todo' = Append(FunctionById(id).parameters, FunctionById(id).body)
  /\ UNCHANGED <<program, functions, globals, global_queue, leftover, phase>>

\* Mutants.  The locals of the item before stay numbered; the waiting globals
\* are an ordered set.
emit_global_with_locals ==
  /\ Draining /\ function_queue = <<>> /\ global_queue # <<>>
  /\ global_queue' = Tail(global_queue)
  /\ LET id == Head(global_queue) IN
       /\ out' = Append(out, Entry("global", globals[id], ~HasGlobal(id)))
       /\ todo' = IF HasGlobal(id) THEN <<program.globals[id]>> ELSE todo
  /\ UNCHANGED <<program, functions, function_queue, globals, locals, leftover, phase>>
emit_global_by_id ==
  /\ Draining /\ function_queue = <<>> /\ global_queue # <<>>
  /\ \E i \in DOMAIN global_queue :
       LET id == global_queue[i] IN
       /\ \A j \in DOMAIN global_queue : id <= global_queue[j]
       /\ global_queue' = SelectSeq(global_queue, LAMBDA other : other # id)
       /\ out' = Append(out, Entry("global", globals[id], ~HasGlobal(id)))
       /\ todo' = IF HasGlobal(id) THEN <<program.globals[id]>> ELSE todo
       /\ locals' = IF HasGlobal(id) THEN [l \in {} |-> 0] ELSE locals
  /\ UNCHANGED <<program, functions, function_queue, globals, leftover, phase>>

\* Globals wait until no function does.
emit_global ==
  /\ Draining
  /\ function_queue = <<>>
  /\ global_queue # <<>>
  /\ global_queue' = Tail(global_queue)
  /\ LET id == Head(global_queue) IN
       /\ out' = Append(out, Entry("global", globals[id], ~HasGlobal(id)))
       /\ \/ ~HasGlobal(id) /\ UNCHANGED <<locals, todo>>
          \/ /\ HasGlobal(id)
             /\ locals' = [l \in {} |-> 0]
             /\ todo' = <<program.globals[id]>>
  /\ UNCHANGED <<program, functions, function_queue, globals, leftover, phase>>

\* run, after main's part is drained: what is still unnumbered follows in the
\* order of the program.  Numbering an item a second time changes nothing, so
\* the list holds every item and the filter only decides whether there is any.
FunctionIds == [i \in DOMAIN program.functions |-> Id("function", program.functions[i].id)]
GlobalIds   == [i \in DOMAIN program.keys |-> Id("global", program.keys[i])]
Items       == FunctionIds \o GlobalIds
HasNumber(item) ==
  item.id \in DOMAIN (IF item.kind = "function" THEN functions ELSE globals)
Unnumbered  == \E i \in DOMAIN Items : ~HasNumber(Items[i])

\* Mutant: the waiting globals count as unreachable.
FunctionsDrained == Draining /\ function_queue = <<>>

Drained == Draining /\ function_queue = <<>> /\ global_queue = <<>>

StartUnreachable ==
  /\ Drained
  /\ phase = "reached"
  /\ Unnumbered
  /\ phase' = "unreachable"
  /\ leftover' = Items
  /\ UNCHANGED <<program, functions, function_queue, globals, global_queue, locals, out, todo>>

NumberLeftover ==
  /\ leftover # <<>>
  /\ LET item == Head(leftover) IN
       \/ item.kind = "function" /\ function_id(item.id)
       \/ item.kind = "global" /\ global_id(item.id)
  /\ leftover' = Tail(leftover)
  /\ UNCHANGED <<program, locals, out, todo, phase>>

Finish ==
  /\ Drained
  /\ phase = "reached" => ~Unnumbered
  /\ phase' = "done"
  /\ UNCHANGED <<program, functions, function_queue, globals, global_queue, locals, out, todo,
                 leftover>>

Next == \/ WriteExpr \/ emit_function \/ emit_global
        \/ StartUnreachable \/ NumberLeftover \/ Finish

Spec == Init /\ [][Next]_vars

-----------------------------------------------------------------------------
\* Which number an item has.
ItemNumber(item) == IF item.kind = "function" THEN functions[item.id] ELSE globals[item.id]

IsEntryOf(i, item) == out[i].kind = item.kind /\ out[i].n = ItemNumber(item)

\* Every function and every global of the program is written exactly once,
\* reached or not, and nothing is written twice: what the test
\* unreachable_items_do_not_repeat_reachable_items counts for one program.
EachItemOnce ==
  /\ \A i, j \in DOMAIN out : out[i].kind = out[j].kind /\ out[i].n = out[j].n => i = j
  /\ phase = "done" =>
       \A k \in DOMAIN Items : /\ HasNumber(Items[k])
                               /\ \E i \in DOMAIN out : IsEntryOf(i, Items[k])

\* Different identifiers have different numbers, so the text tells them apart.
NumbersDiffer ==
  \A numbers \in {functions, globals, locals} :
    \A a, b \in DOMAIN numbers : numbers[a] = numbers[b] => a = b
=============================================================================
