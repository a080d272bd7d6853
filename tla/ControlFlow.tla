---------------------------- MODULE ControlFlow ----------------------------
(***************************************************************************)
(* What the evaluator promises about control: jumps, failures and returns  *)
(* are atomic.  A break or continue goes straight to the innermost loop    *)
(* of the function that executes it; an error ends the whole run, and is   *)
(* reported as a failed assertion if a message was being rendered; calls   *)
(* nest to a limit and run under their own function's runtime; a global's  *)
(* initializer completes once and never runs inside itself.                *)
(***************************************************************************)
EXTENDS Integers, Sequences, FiniteSets

CONSTANTS Function, Main, Unconstrained, Global, MaxCallDepth

VARIABLES scopes,         \* open frames, innermost last
          outcome,        \* "Idle", "Running", "Normal" or the error reported
          unconstrained,  \* what is_unconstrained() answers
          completed       \* globals whose value is known

vars == <<scopes, outcome, unconstrained, completed>>

Error == {"AssertionFailed", "Internal", "Unsupported", "InvalidInput", "Fault"}

IsCall(s)    == s.kind = "call"
IsLoop(s)    == s.kind \in {"for", "loop", "body"}
Catches(s)   == s.kind \notin {"stmt", "cond"}
IsMessage(s) == s.kind = "message"

Call(f)        == [kind |-> "call", fn |-> f]
Initializer(g) == [kind |-> "global", global |-> g]
Expr(k)        == [kind |-> k]

Last(s)    == s[Len(s)]
Dropped(s) == SubSeq(s, 1, Len(s) - 1)

CallsIn(s) == {i \in 1 .. Len(s) : IsCall(s[i])}

\* The runtime of the innermost call; constrained outside any.
RuntimeOf(s) == \E i \in CallsIn(s) : /\ s[i].fn \in Unconstrained
                                      /\ \A j \in CallsIn(s) : j <= i

\* The innermost frame that stops a jump is number i.
JumpsTo(i) == /\ i \in 1 .. Len(scopes) /\ Catches(scopes[i])
              /\ \A j \in (i + 1) .. Len(scopes) : ~Catches(scopes[j])

Move(s) == /\ scopes' = s
           /\ unconstrained' = RuntimeOf(s)
           /\ outcome' = IF s = <<>> THEN "Normal" ELSE "Running"

Raise(e) == /\ scopes' = <<>>
            /\ unconstrained' = FALSE
            /\ outcome' = IF \E i \in 1 .. Len(scopes) : IsMessage(scopes[i])
                          THEN "AssertionFailed" ELSE e
            /\ UNCHANGED completed

Init == /\ scopes = <<>>
        /\ outcome = "Idle"
        /\ unconstrained = FALSE
        /\ completed = {}

\* A call replaces the operand whose value completed its argument list.
Invoke(f, base) == /\ Cardinality(CallsIn(base)) < MaxCallDepth
                   /\ Move(Append(base, Call(f))) /\ UNCHANGED completed

Start == /\ outcome = "Idle"
         /\ Invoke(Main, <<>>) \/ \E e \in {"InvalidInput", "Internal"} : Raise(e)

Bases == {scopes} \cup (IF Last(scopes).kind = "value" THEN {Dropped(scopes)} ELSE {})

CallStep == \E f \in Function, base \in Bases : Invoke(f, base)

Reference(g) == /\ g \notin completed
                /\ \A i \in 1 .. Len(scopes) : scopes[i] # Initializer(g)
                /\ Move(Append(scopes, Initializer(g))) /\ UNCHANGED completed

OpenStep == \E k \in {"value", "stmt", "loop", "cond"} :
              Move(Append(scopes, Expr(k))) /\ UNCHANGED completed

Return == /\ Last(scopes).kind \in {"value", "stmt", "for", "cond", "call", "global"}
          /\ Move(Dropped(scopes))
          /\ completed' = completed \cup {g \in Global : Last(scopes) = Initializer(g)}

Continuation == { <<"value", "stmt">>, <<"value", "for">>, <<"value", "message">>,
                  <<"cond", "body">>, <<"body", "cond">> }

Proceed == /\ \E c \in Continuation :
                /\ Last(scopes).kind = c[1]
                /\ Move(Append(Dropped(scopes), Expr(c[2])))
           /\ UNCHANGED completed

Break == \E i \in 1 .. Len(scopes) :
           /\ JumpsTo(i) /\ IsLoop(scopes[i])
           /\ Move(SubSeq(scopes, 1, i - 1)) /\ UNCHANGED completed

Continue == \E i \in 1 .. Len(scopes) :
              /\ JumpsTo(i) /\ IsLoop(scopes[i])
              /\ Move(SubSeq(scopes, 1, i)) /\ UNCHANGED completed

Fail == \E e \in Error : Raise(e)

Next == \/ Start
        \/ /\ outcome = "Running"
           /\ \/ CallStep \/ OpenStep \/ Return \/ Proceed \/ Break \/ Continue \/ Fail
              \/ \E g \in Global : Reference(g)

Spec == Init /\ [][Next]_vars
=============================================================================
