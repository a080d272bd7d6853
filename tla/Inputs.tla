------------------------------- MODULE Inputs -------------------------------
(***************************************************************************)
(* The check of the inputs a caller hands to interpret_with_inputs         *)
(* (src/lib.rs, src/input.rs: validate_inputs).  A caller builds the       *)
(* values itself, so cells may be shared, form cycles, or be mutably       *)
(* borrowed while the check runs.  An input is a graph: arrays and format  *)
(* strings hold their values inline, tuples and references hold cells, and *)
(* a cell holds one value.  The recursion of `check` is the stack `todo`:  *)
(* what it still has to look at, the next first.                           *)
(***************************************************************************)
EXTENDS Integers, Sequences

CONSTANTS Value,   \* the occurrences of values in an input
          Cell,    \* the cells they share
          Field,   \* the field the program was compiled under
          Arity,   \* how many parameters main has
          Input    \* the inputs a caller may build

VARIABLES input, todo, seen, verdict

vars == <<input, todo, seen, verdict>>

-----------------------------------------------------------------------------
Kind == {"Field", "Int", "Array", "FmtStr", "Tuple", "Ref", "Other"}

\* An input: the arguments in order, what each value is, what each cell
\* holds, and the cells that are mutably borrowed.
ASSUME InputAssumption ==
  /\ Value \cap Cell = {}
  /\ \A in \in Input :
       /\ in.args \in Seq(Value)
       /\ \A v \in Value : /\ in.node[v].parts \in Seq(Value)
                           /\ in.node[v].cells \in Seq(Cell)
       /\ in.content \in [Cell -> Value]
       /\ in.borrowed \subseteq Cell

Node(v)  == input.node[v]
IsA(v, kinds) == Node(v).kind \in kinds
Parts(v) == IF IsA(v, {"Array", "FmtStr"}) THEN Node(v).parts ELSE <<>>
Cells(v) == IF IsA(v, {"Tuple", "Ref"}) THEN Node(v).cells ELSE <<>>

\* The inclusive range of an integer type that has values.
IntMin(int) == IF int.signed THEN -(2 ^ (int.bits - 1)) ELSE 0
IntMax(int) == IF int.signed THEN 2 ^ (int.bits - 1) - 1 ELSE 2 ^ int.bits - 1

check_int(int) ==
  IF int.bits = 0 THEN "empty type"
  ELSE IF int.value < IntMin(int) \/ int.value > IntMax(int) THEN "not a value"
  ELSE "none"

\* What is wrong with a value itself, whatever it holds.
Fault(v) ==
  IF IsA(v, {"Field"}) /\ Node(v).field # Field THEN "other field"
  ELSE IF IsA(v, {"Int"}) THEN check_int(Node(v).int)
  ELSE "none"

Verdict == {"running", "accepted", "arity", "borrowed",
            "other field", "empty type", "not a value"}

-----------------------------------------------------------------------------
\* interpret_with_inputs counts the arguments before it looks at them.
Init ==
  /\ input \in Input
  /\ seen = {}
  /\ IF Len(input.args) = Arity
       THEN todo = input.args /\ verdict = "running"
       ELSE todo = <<>> /\ verdict = "arity"

Reject(why) == verdict' = why /\ todo' = <<>> /\ UNCHANGED input

\* Mutants.  A value's cells count as seen before they are entered; a cell is
\* never noted; a borrow anywhere refuses the input.
CheckValueMarking ==
  /\ verdict = "running" /\ todo # <<>> /\ Head(todo) \in Value
  /\ LET v == Head(todo) IN
       \/ Fault(v) # "none" /\ Reject(Fault(v)) /\ UNCHANGED seen
       \/ /\ Fault(v) = "none"
          /\ todo' = Parts(v) \o Cells(v) \o Tail(todo)
          /\ seen' = seen \cup {Cells(v)[i] : i \in DOMAIN Cells(v)}
          /\ UNCHANGED <<input, verdict>>
CheckCellUnnoted ==
  /\ verdict = "running" /\ todo # <<>> /\ Head(todo) \in Cell
  /\ UNCHANGED seen
  /\ IF Head(todo) \in input.borrowed THEN Reject("borrowed")
     ELSE /\ todo' = <<input.content[Head(todo)]>> \o Tail(todo)
          /\ UNCHANGED <<input, verdict>>
CheckCellAnyBorrow ==
  /\ verdict = "running" /\ todo # <<>> /\ Head(todo) \in Cell
  /\ seen' = seen \cup {Head(todo)}
  /\ IF input.borrowed # {} THEN Reject("borrowed")
     ELSE /\ todo' = IF Head(todo) \in seen THEN Tail(todo)
                     ELSE <<input.content[Head(todo)]>> \o Tail(todo)
          /\ UNCHANGED <<input, verdict>>

\* `check` of a value: it is refused, or its parts or its cells come next.
CheckValue ==
  /\ verdict = "running"
  /\ todo # <<>>
  /\ Head(todo) \in Value
  /\ UNCHANGED seen
  /\ LET v == Head(todo) IN
       \/ Fault(v) # "none" /\ Reject(Fault(v))
       \/ /\ Fault(v) = "none"
          /\ todo' = Parts(v) \o Cells(v) \o Tail(todo)
          /\ UNCHANGED <<input, verdict>>

\* `check` of a tuple's or reference's cell: each cell is entered once.
CheckCell ==
  /\ verdict = "running"
  /\ todo # <<>>
  /\ Head(todo) \in Cell
  /\ seen' = seen \cup {Head(todo)}
  /\ LET c == Head(todo) IN
       \/ /\ c \in seen
          /\ todo' = Tail(todo)
          /\ UNCHANGED <<input, verdict>>
       \/ c \notin seen /\ c \in input.borrowed /\ Reject("borrowed")
       \/ /\ c \notin seen
          /\ c \notin input.borrowed
          /\ todo' = <<input.content[c]>> \o Tail(todo)
          /\ UNCHANGED <<input, verdict>>

\* Every argument passed: main is called with the inputs.
Accept ==
  /\ verdict = "running"
  /\ todo = <<>>
  /\ verdict' = "accepted"
  /\ UNCHANGED <<input, todo, seen>>

Next == CheckValue \/ CheckCell \/ Accept

Spec == Init /\ [][Next]_vars /\ WF_vars(Next)

-----------------------------------------------------------------------------
Elements(s) == {s[i] : i \in DOMAIN s}

\* V and C hold the arguments and everything that hangs off what they hold.
Closed(V, C) ==
  /\ Elements(input.args) \subseteq V
  /\ \A v \in V : Elements(Parts(v)) \subseteq V /\ Elements(Cells(v)) \subseteq C
  /\ \A c \in C : input.content[c] \in V

\* Inputs the program may run on: nothing reachable from the arguments is
\* wrong or borrowed.
Clean == \E V \in SUBSET Value, C \in SUBSET Cell :
           /\ Closed(V, C)
           /\ \A v \in V : Fault(v) = "none"
           /\ C \cap input.borrowed = {}

\* main only ever runs on inputs whose every reachable field element is of
\* the program's field and whose every reachable integer is a value of its
\* type, however the cells are shared: what the doc comment of
\* validate_inputs says the interpreter relies on.
AcceptedIsClean == verdict = "accepted" => Clean

\* A refusal names something the arguments really reach: no input is refused
\* for a value or a cell that main could not have got at.
RejectedHasCause ==
  verdict \in Verdict \ {"running", "accepted", "arity"} =>
    \A V \in SUBSET Value, C \in SUBSET Cell :
      Closed(V, C) => \/ verdict = "borrowed" /\ C \cap input.borrowed # {}
                      \/ \E v \in V : Fault(v) = verdict

\* The check ends on every input, cyclic ones included.
CheckEnds == <>(verdict # "running")
=============================================================================
