---------------------------- MODULE InputsProofs ----------------------------
(***************************************************************************)
(* Proofs about Inputs, for every set of inputs: main only runs on clean   *)
(* inputs, and a refusal names something the arguments reach.              *)
(***************************************************************************)
EXTENDS Inputs, TLAPS

Item == Value \cup Cell

TypeOK ==
  /\ input \in Input
  /\ todo \in Seq(Item)
  /\ seen \subseteq Cell
  /\ verdict \in Verdict

\* V is a set of values that were checked: what they hold was checked too,
\* or is still to be.
Visited(V) ==
  /\ Elements(input.args) \subseteq V \cup Elements(todo)
  /\ \A v \in V : /\ Fault(v) = "none"
                  /\ Elements(Parts(v)) \subseteq V \cup Elements(todo)
                  /\ Elements(Cells(v)) \subseteq seen \cup Elements(todo)
  /\ \A c \in seen : c \notin input.borrowed /\ input.content[c] \in V \cup Elements(todo)

NothingSkipped ==
  verdict \in {"running", "accepted"} => \E V \in SUBSET Value : Visited(V)

NothingInvented ==
  verdict = "running" =>
    \A V \in SUBSET Value, C \in SUBSET Cell :
      Closed(V, C) => Elements(todo) \subseteq V \cup C

IInv ==
  /\ TypeOK
  /\ NothingSkipped
  /\ NothingInvented
  /\ verdict = "accepted" => todo = <<>>
  /\ RejectedHasCause

-----------------------------------------------------------------------------
\* The elements of a sequence are those of its head and of its tail.
LEMMA ElementsTail ==
  ASSUME NEW S, NEW s \in Seq(S), s # <<>>
  PROVE  /\ Head(s) \in S /\ Tail(s) \in Seq(S)
         /\ Elements(s) = {Head(s)} \cup Elements(Tail(s))
<1>1. Head(s) \in S /\ Tail(s) \in Seq(S)
  OBVIOUS
<1>2. ASSUME NEW x \in Elements(s) PROVE x \in {Head(s)} \cup Elements(Tail(s))
  <2>1. PICK i \in 1 .. Len(s) : x = s[i]
    BY DEF Elements
  <2>2. CASE i = 1
    BY <2>1, <2>2
  <2>3. CASE i # 1
    <3>1. i - 1 \in DOMAIN Tail(s) /\ Tail(s)[i - 1] = s[i]
      BY <2>1, <2>3
    <3> QED BY <3>1, <2>1 DEF Elements
  <2> QED BY <2>2, <2>3
<1>3. Head(s) \in Elements(s)
  BY DEF Elements
<1>4. ASSUME NEW x \in Elements(Tail(s)) PROVE x \in Elements(s)
  <2>1. PICK i \in 1 .. Len(Tail(s)) : x = Tail(s)[i]
    BY DEF Elements
  <2>2. i + 1 \in 1 .. Len(s) /\ s[i + 1] = Tail(s)[i]
    BY <2>1
  <2> QED BY <2>1, <2>2 DEF Elements
<1> QED BY <1>1, <1>2, <1>3, <1>4

\* The elements of two sequences, one after the other.
LEMMA ElementsConcat ==
  ASSUME NEW S, NEW s \in Seq(S), NEW t \in Seq(S)
  PROVE  /\ s \o t \in Seq(S)
         /\ Elements(s \o t) = Elements(s) \cup Elements(t)
<1>1. s \o t \in Seq(S)
  OBVIOUS
<1>2. ASSUME NEW x \in Elements(s \o t) PROVE x \in Elements(s) \cup Elements(t)
  <2>1. PICK i \in 1 .. Len(s) + Len(t) : x = (s \o t)[i]
    BY DEF Elements
  <2>2. CASE i <= Len(s)
    BY <2>1, <2>2 DEF Elements
  <2>3. CASE i > Len(s)
    <3>1. i - Len(s) \in 1 .. Len(t) /\ x = t[i - Len(s)]
      BY <2>1, <2>3
    <3> QED BY <3>1 DEF Elements
  <2> QED BY <2>1, <2>2, <2>3
<1>3. ASSUME NEW x \in Elements(s) PROVE x \in Elements(s \o t)
  <2>1. PICK i \in 1 .. Len(s) : x = s[i]
    BY DEF Elements
  <2>2. i \in 1 .. Len(s \o t) /\ (s \o t)[i] = x
    BY <2>1
  <2> QED BY <2>2 DEF Elements
<1>4. ASSUME NEW x \in Elements(t) PROVE x \in Elements(s \o t)
  <2>1. PICK i \in 1 .. Len(t) : x = t[i]
    BY DEF Elements
  <2>2. Len(s) + i \in 1 .. Len(s \o t) /\ (s \o t)[Len(s) + i] = x
    BY <2>1
  <2> QED BY <2>2 DEF Elements
<1> QED BY <1>1, <1>2, <1>3, <1>4

\* Sequences of values and sequences of cells are sequences of items.
LEMMA ItemSeqs ==
  /\ \A s \in Seq(Value) : s \in Seq(Item)
  /\ \A s \in Seq(Cell) : s \in Seq(Item)
  /\ \A s, t \in Seq(Item) : /\ s \o t \in Seq(Item)
                              /\ Elements(s \o t) = Elements(s) \cup Elements(t)
<1>1. ASSUME NEW s \in Seq(Value) PROVE s \in Seq(Item)
  BY DEF Item
<1>2. ASSUME NEW s \in Seq(Cell) PROVE s \in Seq(Item)
  BY DEF Item
<1>3. ASSUME NEW s \in Seq(Item), NEW t \in Seq(Item)
      PROVE  s \o t \in Seq(Item) /\ Elements(s \o t) = Elements(s) \cup Elements(t)
  BY ElementsConcat
<1> QED BY <1>1, <1>2, <1>3

\* What a value holds, inline and in cells.
LEMMA HeldTypes ==
  ASSUME input \in Input, NEW v \in Value
  PROVE  /\ Parts(v) \in Seq(Value) /\ Cells(v) \in Seq(Cell)
         /\ Fault(v) \in {"none", "other field", "empty type", "not a value"}
<1>1. Node(v).parts \in Seq(Value) /\ Node(v).cells \in Seq(Cell)
  BY InputAssumption DEF Node
<1>2. Parts(v) \in Seq(Value) /\ Cells(v) \in Seq(Cell)
  BY <1>1 DEF Parts, Cells
<1>3. check_int(Node(v).int) \in {"none", "empty type", "not a value"}
  BY DEF check_int
<1>4. Fault(v) \in {"none", "other field", "empty type", "not a value"}
  BY <1>3 DEF Fault
<1> QED BY <1>2, <1>4

-----------------------------------------------------------------------------
LEMMA InitInv == Init => IInv
<1> SUFFICES ASSUME Init PROVE IInv
  OBVIOUS
<1>1. input \in Input /\ input.args \in Seq(Value) /\ seen = {}
  BY InputAssumption DEF Init
<1>2. \/ verdict = "running" /\ todo = input.args
      \/ verdict = "arity" /\ todo = <<>>
  BY DEF Init
<1>3. TypeOK
  <2>1. input.args \in Seq(Item)
    BY <1>1, ItemSeqs
  <2>2. todo \in Seq(Item)
    <3>1. <<>> \in Seq(Item)
      OBVIOUS
    <3> QED BY <1>2, <2>1, <3>1
  <2> QED BY <1>1, <1>2, <2>2 DEF TypeOK, Verdict
<1>4. verdict = "running" => Visited({})
  BY <1>1, <1>2 DEF Visited
<1>5. NothingSkipped
  <2>1. {} \in SUBSET Value
    OBVIOUS
  <2> QED BY <1>2, <1>4, <2>1 DEF NothingSkipped
<1>6. NothingInvented
  BY <1>2 DEF NothingInvented, Closed
<1> QED BY <1>2, <1>3, <1>5, <1>6 DEF IInv, RejectedHasCause, Verdict

LEMMA CheckValueInv == IInv /\ CheckValue => IInv'
<1> SUFFICES ASSUME IInv, CheckValue PROVE IInv'
  OBVIOUS
<1> DEFINE v == Head(todo)
<1>1. /\ verdict = "running" /\ todo # <<>> /\ v \in Value
      /\ input' = input /\ seen' = seen
  BY DEF CheckValue, Reject
<1>2. input \in Input /\ todo \in Seq(Item) /\ seen \subseteq Cell
  BY DEF IInv, TypeOK
<1>3. /\ Tail(todo) \in Seq(Item)
      /\ Elements(todo) = {v} \cup Elements(Tail(todo))
  BY <1>1, <1>2, ElementsTail
<1>4. /\ Parts(v) \in Seq(Value) /\ Cells(v) \in Seq(Cell)
      /\ Fault(v) \in {"none", "other field", "empty type", "not a value"}
  BY <1>1, <1>2, HeldTypes
<1>5. \A w : Parts(w)' = Parts(w) /\ Cells(w)' = Cells(w) /\ Fault(w)' = Fault(w)
  BY <1>1 DEF Parts, Cells, Fault, Node, IsA
<1>6. \A V, C : Closed(V, C)' = Closed(V, C)
  BY <1>1, <1>5 DEF Closed
<1>7. CASE Fault(v) # "none"
  <2>1. verdict' = Fault(v) /\ todo' = <<>>
    BY <1>7 DEF CheckValue, Reject
  <2>2. TypeOK'
    <3>1. todo' \in Seq(Item)
      BY <2>1
    <3> QED BY <2>1, <3>1, <1>1, <1>2, <1>4, <1>7 DEF TypeOK, Verdict
  <2>3. \A V \in SUBSET Value, C \in SUBSET Cell :
          Closed(V, C) => \E w \in V : Fault(w) = Fault(v)
    <3> SUFFICES ASSUME NEW V \in SUBSET Value, NEW C \in SUBSET Cell, Closed(V, C)
                 PROVE  \E w \in V : Fault(w) = Fault(v)
      OBVIOUS
    <3>1. v \in V \cup C
      BY <1>1, <1>3 DEF IInv, NothingInvented
    <3>2. v \in V
      BY <3>1, <1>1, InputAssumption
    <3> QED BY <3>2
  <2>4. RejectedHasCause'
    BY <2>1, <2>3, <1>5, <1>6 DEF RejectedHasCause
  <2> QED BY <2>1, <2>2, <2>4, <1>4, <1>7 DEF IInv, NothingSkipped, NothingInvented
<1>8. CASE Fault(v) = "none"
  <2>1. todo' = (Parts(v) \o Cells(v)) \o Tail(todo) /\ verdict' = verdict
    BY <1>8 DEF CheckValue
  <2>2. Parts(v) \in Seq(Item) /\ Cells(v) \in Seq(Item)
    BY <1>4, ItemSeqs
  <2>3. /\ Parts(v) \o Cells(v) \in Seq(Item)
        /\ Elements(Parts(v) \o Cells(v)) = Elements(Parts(v)) \cup Elements(Cells(v))
    BY <2>2, ItemSeqs
  <2>4. /\ todo' \in Seq(Item)
        /\ Elements(todo') = Elements(Parts(v)) \cup Elements(Cells(v))
                               \cup Elements(Tail(todo))
    BY <2>1, <2>3, <1>3, ItemSeqs
  <2>5. TypeOK'
    BY <2>1, <2>4, <1>1, <1>2 DEF TypeOK, IInv
  <2>6. NothingSkipped'
    <3>1. PICK V \in SUBSET Value : Visited(V)
      BY <1>1 DEF IInv, NothingSkipped
    <3>2. V \cup {v} \in SUBSET Value
      BY <1>1
    <3>a. Elements(todo)' = Elements(todo')
      BY DEF Elements
    <3>b. Elements(todo) \subseteq {v} \cup Elements(todo')
      BY <2>4, <1>3
    <3>3. Elements(input.args)' \subseteq (V \cup {v}) \cup Elements(todo')
      BY <3>1, <3>b, <1>1 DEF Visited, Elements
    <3>4. ASSUME NEW w \in V \cup {v}
          PROVE  /\ Fault(w) = "none"
                 /\ Elements(Parts(w)) \subseteq (V \cup {v}) \cup Elements(todo')
                 /\ Elements(Cells(w)) \subseteq seen \cup Elements(todo')
      <4>1. CASE w = v
        BY <4>1, <1>8, <2>4
      <4>2. CASE w # v
        <5>1. /\ Fault(w) = "none"
              /\ Elements(Parts(w)) \subseteq V \cup Elements(todo)
              /\ Elements(Cells(w)) \subseteq seen \cup Elements(todo)
          BY <4>2, <3>1, <3>4 DEF Visited
        <5>2. v \notin Elements(Cells(w))
          <6>1. w \in Value
            BY <3>4, <3>2
          <6>2. Cells(w) \in Seq(Cell)
            BY <6>1, <1>2, HeldTypes
          <6>3. Elements(Cells(w)) \subseteq Cell
            BY <6>2 DEF Elements
          <6> QED BY <6>3, <1>1, InputAssumption
        <5> QED BY <5>1, <5>2, <3>b
      <4> QED BY <4>1, <4>2
    <3>5. ASSUME NEW c \in seen
          PROVE  c \notin input.borrowed /\ input.content[c] \in (V \cup {v}) \cup Elements(todo')
      BY <3>1, <3>b DEF Visited
    <3>w. PICK W \in SUBSET Value : W = V \cup {v}
      BY <3>2
    <3>6. Visited(W)'
      <4>1. \A w \in W :
              /\ Fault(w)' = "none"
              /\ Elements(Parts(w))' \subseteq W \cup Elements(todo)'
              /\ Elements(Cells(w))' \subseteq seen' \cup Elements(todo)'
        BY <3>w, <3>4, <3>a, <1>1, <1>5 DEF Elements
      <4>2. Elements(input.args)' \subseteq W \cup Elements(todo)'
        BY <3>w, <3>3, <3>a
      <4>3. \A c \in seen' : /\ c \notin input'.borrowed
                             /\ input'.content[c] \in W \cup Elements(todo)'
        BY <3>w, <3>5, <3>a, <1>1
      <4> QED BY <4>1, <4>2, <4>3 DEF Visited
    <3> QED BY <3>6 DEF NothingSkipped
  <2>7. NothingInvented'
    <3> SUFFICES ASSUME NEW V \in SUBSET Value, NEW C \in SUBSET Cell, Closed(V, C)
                 PROVE  Elements(todo') \subseteq V \cup C
      BY <1>6 DEF NothingInvented, Elements
    <3>1. Elements(todo) \subseteq V \cup C
      BY <1>1 DEF IInv, NothingInvented
    <3>2. v \in V
      BY <3>1, <1>1, <1>3, InputAssumption
    <3>3. Elements(Parts(v)) \subseteq V /\ Elements(Cells(v)) \subseteq C
      BY <3>2 DEF Closed
    <3> QED BY <3>1, <3>3, <2>4, <1>3
  <2> QED BY <2>1, <2>5, <2>6, <2>7, <1>1 DEF IInv, RejectedHasCause
<1> QED BY <1>7, <1>8

LEMMA CheckCellInv == IInv /\ CheckCell => IInv'
<1> SUFFICES ASSUME IInv, CheckCell PROVE IInv'
  OBVIOUS
<1> DEFINE c == Head(todo)
<1>1. /\ verdict = "running" /\ todo # <<>> /\ c \in Cell
      /\ input' = input /\ seen' = seen \cup {c}
  BY DEF CheckCell, Reject
<1>2. input \in Input /\ todo \in Seq(Item) /\ seen \subseteq Cell
  BY DEF IInv, TypeOK
<1>3. /\ Tail(todo) \in Seq(Item)
      /\ Elements(todo) = {c} \cup Elements(Tail(todo))
  BY <1>1, <1>2, ElementsTail
<1>4. input.content[c] \in Value
  BY <1>1, <1>2, InputAssumption
<1>5. \A w : Parts(w)' = Parts(w) /\ Cells(w)' = Cells(w) /\ Fault(w)' = Fault(w)
  BY <1>1 DEF Parts, Cells, Fault, Node, IsA
<1>6. \A V, C : Closed(V, C)' = Closed(V, C)
  BY <1>1, <1>5 DEF Closed
<1>c. \A V \in SUBSET Value, C \in SUBSET Cell : Closed(V, C) => c \in C
  <2> SUFFICES ASSUME NEW V \in SUBSET Value, NEW C \in SUBSET Cell, Closed(V, C)
               PROVE  c \in C
    OBVIOUS
  <2>1. c \in V \cup C
    BY <1>1, <1>3 DEF IInv, NothingInvented
  <2> QED BY <2>1, <1>1, InputAssumption
<1>7. CASE verdict' = "borrowed"
  <2>1. todo' = <<>> /\ c \in input.borrowed
    BY <1>7, <1>1 DEF CheckCell, Reject
  <2>2. TypeOK'
    <3>1. todo' \in Seq(Item)
      BY <2>1
    <3> QED BY <3>1, <1>7, <1>1, <1>2 DEF TypeOK, Verdict
  <2>3. \A V \in SUBSET Value, C \in SUBSET Cell : Closed(V, C) => C \cap input.borrowed # {}
    BY <1>c, <2>1
  <2>4. RejectedHasCause'
    BY <2>3, <1>1, <1>6, <1>7 DEF RejectedHasCause
  <2> QED BY <2>1, <2>2, <2>4, <1>7 DEF IInv, NothingSkipped, NothingInvented
<1>8. CASE verdict' # "borrowed"
  <2>1. /\ verdict' = verdict
        /\ \/ c \in seen /\ todo' = Tail(todo)
           \/ c \notin input.borrowed /\ todo' = <<input.content[c]>> \o Tail(todo)
    BY <1>8 DEF CheckCell, Reject
  <2>2. /\ <<input.content[c]>> \in Seq(Item)
        /\ Elements(<<input.content[c]>>) = {input.content[c]}
    BY <1>4 DEF Elements, Item
  <2>3. /\ <<input.content[c]>> \o Tail(todo) \in Seq(Item)
        /\ Elements(<<input.content[c]>> \o Tail(todo))
             = {input.content[c]} \cup Elements(Tail(todo))
    BY <2>2, <1>3, ItemSeqs
  <2>4. /\ todo' \in Seq(Item)
        /\ Elements(Tail(todo)) \subseteq Elements(todo')
        /\ Elements(todo') \subseteq Elements(Tail(todo)) \cup {input.content[c]}
        /\ c \notin seen => input.content[c] \in Elements(todo')
    BY <2>1, <2>3, <1>3
  <2>5. TypeOK'
    BY <2>1, <2>4, <1>1, <1>2 DEF TypeOK, IInv
  <2>6. NothingSkipped'
    <3>1. PICK V \in SUBSET Value : Visited(V)
      BY <1>1 DEF IInv, NothingSkipped
    <3>2. c \notin Value
      BY <1>1, InputAssumption
    <3>3. Elements(todo) \subseteq {c} \cup Elements(todo')
      BY <2>4, <1>3
    <3>4. Elements(todo)' = Elements(todo')
      BY DEF Elements
    <3>5. Elements(input.args)' \subseteq V \cup Elements(todo')
      <4>1. input.args \in Seq(Value)
        BY <1>2, InputAssumption
      <4>2. Elements(input.args) \subseteq Value
        BY <4>1 DEF Elements
      <4>3. Elements(input.args) \subseteq V \cup Elements(todo)
        BY <3>1 DEF Visited
      <4>4. Elements(input.args) \subseteq V \cup Elements(todo')
        BY <4>2, <4>3, <3>2, <3>3
      <4>5. Elements(input.args)' = Elements(input.args)
        BY <1>1 DEF Elements
      <4> QED BY <4>4, <4>5
    <3>6. ASSUME NEW w \in V
          PROVE  /\ Fault(w) = "none"
                 /\ Elements(Parts(w)) \subseteq V \cup Elements(todo')
                 /\ Elements(Cells(w)) \subseteq seen' \cup Elements(todo')
      <4>1. /\ Fault(w) = "none"
            /\ Elements(Parts(w)) \subseteq V \cup Elements(todo)
            /\ Elements(Cells(w)) \subseteq seen \cup Elements(todo)
        BY <3>1 DEF Visited
      <4>2. Parts(w) \in Seq(Value)
        BY <1>2, HeldTypes
      <4>3. Elements(Parts(w)) \subseteq Value
        BY <4>2 DEF Elements
      <4> QED BY <4>1, <4>3, <3>2, <3>3, <1>1
    <3>7. ASSUME NEW d \in seen'
          PROVE  d \notin input.borrowed /\ input.content[d] \in V \cup Elements(todo')
      <4>1. CASE d \in seen
        <5>1. d \notin input.borrowed /\ input.content[d] \in V \cup Elements(todo)
          BY <4>1, <3>1 DEF Visited
        <5>2. input.content[d] \in Value
          BY <4>1, <1>2, InputAssumption
        <5> QED BY <5>1, <5>2, <3>2, <3>3
      <4>2. CASE d \notin seen
        BY <4>2, <3>7, <1>1, <2>1, <2>4
      <4> QED BY <4>1, <4>2
    <3>8. \A w \in V :
            /\ Fault(w)' = "none"
            /\ Elements(Parts(w))' \subseteq V \cup Elements(todo)'
            /\ Elements(Cells(w))' \subseteq seen' \cup Elements(todo)'
      BY <3>6, <3>4, <1>5 DEF Elements
    <3>9. Visited(V)'
      BY <3>5, <3>7, <3>8, <3>4, <1>1 DEF Visited
    <3> QED BY <3>9 DEF NothingSkipped
  <2>7. NothingInvented'
    <3> SUFFICES ASSUME NEW V \in SUBSET Value, NEW C \in SUBSET Cell, Closed(V, C)
                 PROVE  Elements(todo') \subseteq V \cup C
      BY <1>6 DEF NothingInvented, Elements
    <3>1. Elements(todo) \subseteq V \cup C
      BY <1>1 DEF IInv, NothingInvented
    <3>2. input.content[c] \in V
      BY <1>c DEF Closed
    <3> QED BY <3>1, <3>2, <2>4, <1>3
  <2> QED BY <2>1, <2>5, <2>6, <2>7, <1>1 DEF IInv, RejectedHasCause
<1> QED BY <1>7, <1>8

LEMMA AcceptInv == IInv /\ Accept => IInv'
<1> SUFFICES ASSUME IInv, Accept PROVE IInv'
  OBVIOUS
<1>1. /\ verdict = "running" /\ todo = <<>> /\ verdict' = "accepted"
      /\ input' = input /\ todo' = todo /\ seen' = seen
  BY DEF Accept
<1>2. TypeOK'
  BY <1>1 DEF IInv, TypeOK, Verdict
<1>3. NothingSkipped'
  <2>1. PICK V \in SUBSET Value : Visited(V)
    BY <1>1 DEF IInv, NothingSkipped
  <2>2. Visited(V)'
    BY <2>1, <1>1 DEF Visited, Elements, Parts, Cells, Fault, Node, IsA
  <2> QED BY <2>2 DEF NothingSkipped
<1> QED BY <1>1, <1>2, <1>3 DEF IInv, NothingInvented, RejectedHasCause

LEMMA Induction == Spec => []IInv
<1>1. IInv /\ [Next]_vars => IInv'
  <2> SUFFICES ASSUME IInv, [Next]_vars PROVE IInv'
    OBVIOUS
  <2>1. CASE Next
    BY <2>1, CheckValueInv, CheckCellInv, AcceptInv DEF Next
  <2>2. CASE UNCHANGED vars
    <3>1. input' = input /\ todo' = todo /\ seen' = seen /\ verdict' = verdict
      BY <2>2 DEF vars
    <3>2. \A w : Parts(w)' = Parts(w) /\ Cells(w)' = Cells(w) /\ Fault(w)' = Fault(w)
      BY <3>1 DEF Parts, Cells, Fault, Node, IsA
    <3>3. \A V, C : Closed(V, C)' = Closed(V, C)
      BY <3>1, <3>2 DEF Closed
    <3>4. \A V : Visited(V)' = Visited(V)
      BY <3>1, <3>2 DEF Visited, Elements
    <3> QED BY <3>1, <3>2, <3>3, <3>4
            DEF IInv, TypeOK, NothingSkipped, NothingInvented, RejectedHasCause, Elements
  <2> QED BY <2>1, <2>2
<1> QED BY <1>1, InitInv, PTL DEF Spec

\* main only ever runs on inputs whose every reachable element is of the
\* program's field and whose every reachable integer is a value of its type.
THEOREM OnlyCleanInputsRun == Spec => []AcceptedIsClean
<1>1. IInv => AcceptedIsClean
  <2> SUFFICES ASSUME IInv, verdict = "accepted" PROVE Clean
    BY DEF AcceptedIsClean
  <2>1. todo = <<>> /\ input \in Input /\ seen \subseteq Cell
    BY DEF IInv, TypeOK
  <2>2. Elements(todo) = {}
    BY <2>1 DEF Elements
  <2>3. PICK V \in SUBSET Value : Visited(V)
    BY DEF IInv, NothingSkipped
  <2>4. Closed(V, seen) /\ seen \cap input.borrowed = {} /\ \A v \in V : Fault(v) = "none"
    BY <2>2, <2>3 DEF Closed, Visited
  <2> QED BY <2>1, <2>4 DEF Clean
<1> QED BY <1>1, Induction, PTL

\* An input is only refused for a value or a cell its arguments reach.
THEOREM RefusalsHaveACause == Spec => []RejectedHasCause
<1>1. IInv => RejectedHasCause
  BY DEF IInv
<1> QED BY <1>1, Induction, PTL
=============================================================================
