---------------------------- MODULE EvalRefines ----------------------------
(***************************************************************************)
(* The evaluator unwinds its host stack one frame at a time, restoring as  *)
(* it goes; seen through this mapping every unwinding has already reached  *)
(* its target, and Eval implements ControlFlow.                            *)
(***************************************************************************)
EXTENDS Eval

\* The saved flag is an implementation detail of a call frame.
Scope(f) == IF f.kind = "call" THEN [kind |-> "call", fn |-> f.fn] ELSE f

ScopesTo(n) == [i \in 1 .. n |-> Scope(stack[i])]

\* The innermost frame that looks at a jump.
Catcher == CHOOSE i \in 1 .. Height :
             /\ stack[i].kind \notin TransparentKind
             /\ \A j \in (i + 1) .. Height : stack[j].kind \in TransparentKind

Jumping == flow \in {"Break", "Continue"} /\ stack # <<>>

JumpsToLoop == Jumping /\ stack[Catcher].kind \in LoopKind

\* The error this state is going to report, before any message hides it.
Raised == IF flow \in Error THEN flow
          ELSE IF stack[Catcher].kind = "call" THEN "Internal" ELSE "Unsupported"

Doomed == flow \in Error \/ (Jumping /\ ~JumpsToLoop)

Rendering == \E i \in 1 .. Height : stack[i].kind = "message"

absScopes == IF Doomed THEN <<>>
             ELSE IF JumpsToLoop
                  THEN ScopesTo(IF flow = "Break" THEN Catcher - 1 ELSE Catcher)
                  ELSE ScopesTo(Height)

absOutcome == IF flow = "Idle" THEN "Idle"
              ELSE IF Doomed THEN IF Rendering THEN "AssertionFailed" ELSE Raised
              ELSE IF stack = <<>> THEN "Normal" ELSE "Running"

absUnconstrained == IF Doomed THEN FALSE ELSE unconstrained

CF == INSTANCE ControlFlow WITH
        scopes <- absScopes,
        outcome <- absOutcome,
        unconstrained <- absUnconstrained,
        completed <- {g \in Global : globals[g] = "Done"}

\* The evaluator implements the atomic view: where a jump or an error ends
\* up, what is reported, which runtime the code that runs next sees and
\* which globals have a value do not depend on the frames it unwinds through.
ImplementsControlFlow == CF!Spec
=============================================================================
