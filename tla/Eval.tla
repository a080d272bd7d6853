-------------------------------- MODULE Eval --------------------------------
(***************************************************************************)
(* The control state of the tree-walking interpreter: the Rust host stack  *)
(* of eval / call_function / eval_global activations, the two counters     *)
(* call_function saves and restores, and the lazily evaluated globals.     *)
(*                                                                         *)
(* A frame stands for one Rust activation that is waiting for the result   *)
(* of a sub-evaluation, and is named for what it does with that result.    *)
(* The shape of an expression is chosen nondeterministically when eval is  *)
(* entered on it; values are left to other modules, so as_bool, the        *)
(* operators and the stores succeed or fail nondeterministically.          *)
(***************************************************************************)
EXTENDS Integers, Sequences, FiniteSets

CONSTANTS Function,       \* the functions of the program
          Main,           \* its entry point
          Unconstrained,  \* the functions whose `unconstrained` flag is set
          Global,         \* its globals
          MaxCallDepth,   \* MAX_CALL_DEPTH
          MaxNest,        \* expression nesting of the deepest body or initializer
          Nest            \* that of each function's body and each initializer

ASSUME ProgramAssumption == /\ Main \in Function
                            /\ Unconstrained \subseteq Function
                            /\ IsFiniteSet(Global)
ASSUME LimitAssumption == /\ MaxCallDepth \in Nat \ {0}
                          /\ MaxNest \in Nat
                          /\ Nest \in [Function \cup Global -> 0 .. MaxNest]

VARIABLES stack,          \* host frames, innermost last
          flow,           \* what the innermost evaluation is doing or returned
          unconstrained,  \* Interpreter::unconstrained
          call_depth,     \* Interpreter::call_depth
          globals         \* Interpreter::globals

vars == <<stack, flow, unconstrained, call_depth, globals>>

-----------------------------------------------------------------------------
(* What a waiting frame is:                                                *)
(*   value    an operand, read by eval_expr_value                          *)
(*   stmt     a block element, let/assign/semi right-hand side or branch,  *)
(*            whose Break/Continue is handed on unchanged                  *)
(*   for      the body of a `for`        loop   the body of a `loop`       *)
(*   cond     the condition of a `while` body   the body of a `while`      *)
(*   message  the message expression of a failed constraint                *)
ExprKind == {"value", "stmt", "for", "loop", "cond", "body", "message"}

LoopKind == {"for", "loop", "body"}

\* The frames an unwinding break or continue leaves without being looked at.
TransparentKind == {"stmt", "cond"}

ExprFrame(k)   == [kind |-> k]
CallFrame(f)   == [kind |-> "call", fn |-> f, outer |-> unconstrained]
GlobalFrame(g) == [kind |-> "global", global |-> g]

Frame == [kind : ExprKind]
           \cup [kind : {"call"}, fn : Function, outer : BOOLEAN]
           \cup [kind : {"global"}, global : Global]

\* InterpretError, with the errors operators raise on their operands
\* (Type, Overflow, DivisionByZero, IndexOutOfBounds, ...) taken together.
Error == {"AssertionFailed", "Internal", "Unsupported", "InvalidInput", "Fault"}

Result == {"Normal", "Break", "Continue"} \cup Error

TypeOK == /\ stack \in Seq(Frame)
          /\ flow \in {"Idle", "Eval"} \cup Result
          /\ unconstrained \in BOOLEAN
          /\ call_depth \in 0 .. MaxCallDepth
          /\ globals \in [Global -> {"None", "InProgress", "Done"}]

-----------------------------------------------------------------------------
Height == Len(stack)
Top    == stack[Height]
Popped == SubSeq(stack, 1, Height - 1)

OnTop(kinds) == stack # <<>> /\ Top.kind \in kinds

\* eval on a sub-expression of the innermost frame; a result handed to it.
Evaluating(kinds)  == flow = "Eval" /\ OnTop(kinds)
Returned(r, kinds) == flow = r /\ OnTop(kinds)

Anywhere == ExprKind \cup {"call", "global"}

IsActivation(i) == stack[i].kind \in {"call", "global"}

\* What an activation executes.
Body(i) == IF stack[i].kind = "call" THEN stack[i].fn ELSE stack[i].global

\* A body has finite nesting: fewer expression frames of the innermost
\* activation are open than its body has levels.
CanNest == \E i \in 1 .. Height :
             /\ IsActivation(i) /\ \A j \in (i + 1) .. Height : ~IsActivation(j)
             /\ Height - i < Nest[Body(i)]

Resume(frames, r) == stack' = frames /\ flow' = r

\* A handler that leaves the interpreter's own fields alone.
Pure == UNCHANGED <<unconstrained, call_depth, globals>>

Init == /\ stack = <<>>
        /\ flow = "Idle"
        /\ unconstrained = FALSE
        /\ call_depth = 0
        /\ globals = [g \in Global |-> "None"]

-----------------------------------------------------------------------------
(* call_function, entered from `base`; an unknown function or a wrong      *)
(* number of arguments is an internal error.                               *)
TooDeep(base) == /\ call_depth >= MaxCallDepth
                 /\ Resume(base, "Unsupported") /\ Pure

Malformed(base) == /\ call_depth < MaxCallDepth
                   /\ Resume(base, "Internal") /\ Pure

\* Slips: one call too many; a callee that inherits its caller's runtime.
EnterBodyAtLimit(f, base) == /\ call_depth <= MaxCallDepth
                             /\ Resume(Append(base, CallFrame(f)), "Eval")
                             /\ unconstrained' = (f \in Unconstrained)
                             /\ call_depth' = call_depth + 1
                             /\ UNCHANGED globals

EnterBodyInheriting(f, base) == /\ call_depth < MaxCallDepth
                                /\ Resume(Append(base, CallFrame(f)), "Eval")
                                /\ unconstrained' = (unconstrained \/ f \in Unconstrained)
                                /\ call_depth' = call_depth + 1
                                /\ UNCHANGED globals

EnterBody(f, base) == /\ call_depth < MaxCallDepth
                      /\ Resume(Append(base, CallFrame(f)), "Eval")
                      /\ unconstrained' = (f \in Unconstrained)
                      /\ call_depth' = call_depth + 1
                      /\ UNCHANGED globals

CallFunction(f, base) == TooDeep(base) \/ Malformed(base) \/ EnterBody(f, base)

\* Slip: `?` on the body's result before the counters are restored.
LeaveBodyEarly == /\ flow \in Result /\ OnTop({"call"})
                  /\ Resume(Popped, IF flow \in {"Break", "Continue"} THEN "Internal" ELSE flow)
                  /\ IF flow \in Error
                     THEN UNCHANGED <<unconstrained, call_depth>>
                     ELSE /\ unconstrained' = Top.outer
                          /\ call_depth' = call_depth - 1
                  /\ UNCHANGED globals

(* Both counters are restored before the body's result is looked at.       *)
LeaveBody == /\ flow \in Result /\ OnTop({"call"})
             /\ Resume(Popped, IF flow \in {"Break", "Continue"} THEN "Internal" ELSE flow)
             /\ unconstrained' = Top.outer
             /\ call_depth' = call_depth - 1
             /\ UNCHANGED globals

(* interpret_with_inputs: arity and inputs are checked before main runs.   *)
RejectInput == /\ flow = "Idle"
               /\ flow' \in {"InvalidInput", "Internal"}
               /\ UNCHANGED stack /\ Pure

RunMain == flow = "Idle" /\ CallFunction(Main, stack)

-----------------------------------------------------------------------------
(* Entering eval on an expression of the innermost frame.                  *)
EvalLeaf  == /\ Evaluating(Anywhere)
             /\ flow' \in {"Normal", "Internal", "Unsupported", "Fault"}
             /\ UNCHANGED stack /\ Pure

EvalJump  == /\ Evaluating(Anywhere)
             /\ flow' \in {"Break", "Continue"}
             /\ UNCHANGED stack /\ Pure

\* A for starts with its bounds, which are operands.
EvalInner == /\ Evaluating(Anywhere) /\ CanNest
             /\ \E k \in {"value", "stmt", "loop", "cond"} :
                  Resume(Append(stack, ExprFrame(k)), "Eval")
             /\ Pure

\* A call without arguments of a function named by its identifier.
EvalCall(f) == Evaluating(Anywhere) /\ CallFunction(f, stack)

(* eval_global                                                             *)
CachedGlobal(g) == /\ Evaluating(Anywhere) /\ globals[g] = "Done"
                   /\ Resume(stack, "Normal") /\ Pure

\* Slip: only a cached value ends the recursion.
ReenterGlobal(g) == /\ Evaluating(Anywhere) /\ globals[g] = "InProgress"
                    /\ Resume(Append(stack, GlobalFrame(g)), "Eval") /\ Pure

CyclicGlobal(g) == /\ Evaluating(Anywhere) /\ globals[g] = "InProgress"
                   /\ Resume(stack, "Internal") /\ Pure

FirstReference(g) == /\ Evaluating(Anywhere) /\ globals[g] = "None"
                     /\ Resume(Append(stack, GlobalFrame(g)), "Eval")
                     /\ globals' = [globals EXCEPT ![g] = "InProgress"]
                     /\ UNCHANGED <<unconstrained, call_depth>>

GlobalDone == /\ Returned("Normal", {"global"})
              /\ Resume(Popped, "Normal")
              /\ globals' = [globals EXCEPT ![Top.global] = "Done"]
              /\ UNCHANGED <<unconstrained, call_depth>>

\* Slips: a failed initializer leaves its marker, or is cached.
GlobalFailsMarked == /\ flow \in Result \ {"Normal"} /\ OnTop({"global"})
                     /\ Resume(Popped, IF flow \in Error THEN flow ELSE "Unsupported")
                     /\ Pure

GlobalFailsCached == /\ flow \in Result \ {"Normal"} /\ OnTop({"global"})
                     /\ Resume(Popped, IF flow \in Error THEN flow ELSE "Unsupported")
                     /\ globals' = [globals EXCEPT ![Top.global] = "Done"]
                     /\ UNCHANGED <<unconstrained, call_depth>>

GlobalFails == /\ flow \in Result \ {"Normal"} /\ OnTop({"global"})
               /\ Resume(Popped, IF flow \in Error THEN flow ELSE "Unsupported")
               /\ globals' = [globals EXCEPT ![Top.global] = "None"]
               /\ UNCHANGED <<unconstrained, call_depth>>

-----------------------------------------------------------------------------
(* An operand's value reaches its expression.                              *)
NextOperand == /\ Returned("Normal", {"value"})
               /\ Resume(stack, "Eval") /\ Pure

OperatorReturns == /\ Returned("Normal", {"value"})
                   /\ Resume(Popped, "Normal") /\ Pure

OperatorFails == /\ Returned("Normal", {"value"})
                 /\ \E e \in {"Internal", "Unsupported", "Fault", "AssertionFailed"} :
                      Resume(Popped, e)
                 /\ Pure

\* The branch of an if is evaluated in tail position, a for body repeatedly.
TakeBranch == /\ Returned("Normal", {"value"})
              /\ \E k \in {"stmt", "for"} : Resume(Append(Popped, ExprFrame(k)), "Eval")
              /\ Pure

CallWithArguments(f) == Returned("Normal", {"value"}) /\ CallFunction(f, Popped)

\* A constraint that is false and has a message.
RenderMessage == /\ Returned("Normal", {"value"})
                 /\ Resume(Append(Popped, ExprFrame("message")), "Eval") /\ Pure

\* Slip: a constraint whose message fails to render is passed over.
MessageSwallows == /\ flow \in Result /\ OnTop({"message"})
                   /\ Resume(Popped, IF flow \in Error THEN "Normal" ELSE "AssertionFailed")
                   /\ Pure

\* render_assert_message drops any error: the assertion is what is reported.
MessageDone == /\ flow \in Result /\ OnTop({"message"})
               /\ Resume(Popped, "AssertionFailed") /\ Pure

StrayJump == /\ flow \in {"Break", "Continue"} /\ OnTop({"value"})
             /\ Resume(Popped, "Unsupported") /\ Pure

-----------------------------------------------------------------------------
(* Statements and loops.                                                   *)
NextStatement == /\ Returned("Normal", {"stmt"})
                 /\ Resume(stack, "Eval") /\ Pure

StatementDone == /\ Returned("Normal", {"stmt"})
                 /\ flow' \in {"Normal", "Internal", "Unsupported", "Fault"}
                 /\ stack' = Popped /\ Pure

\* Slip: a jump in the condition is taken by the while it controls.
CatchInCondition == /\ flow \in {"Break", "Continue"} /\ OnTop(TransparentKind)
                    /\ Resume(Popped, IF Top.kind = "cond" THEN "Normal" ELSE flow) /\ Pure

PassJump == /\ flow \in {"Break", "Continue"} /\ OnTop(TransparentKind)
            /\ Resume(Popped, flow) /\ Pure

BreakLoop == /\ Returned("Break", LoopKind)
             /\ Resume(Popped, "Normal") /\ Pure

NextIteration == /\ flow \in {"Normal", "Continue"} /\ OnTop({"for", "loop"})
                 /\ Resume(stack, "Eval") /\ Pure

RangeExhausted == /\ flow \in {"Normal", "Continue"} /\ OnTop({"for"})
                  /\ Resume(Popped, "Normal") /\ Pure

WhileTrue == /\ Returned("Normal", {"cond"})
             /\ Resume(Append(Popped, ExprFrame("body")), "Eval") /\ Pure

\* The condition is false, or not a boolean.
WhileEnds == /\ Returned("Normal", {"cond"})
             /\ flow' \in {"Normal", "Fault"}
             /\ stack' = Popped /\ Pure

WhileAgain == /\ flow \in {"Normal", "Continue"} /\ OnTop({"body"})
              /\ Resume(Append(Popped, ExprFrame("cond")), "Eval") /\ Pure

\* `?` in every frame that neither restores nor replaces.
PassError == /\ flow \in Error /\ OnTop(ExprKind \ {"message"})
             /\ Resume(Popped, flow) /\ Pure

-----------------------------------------------------------------------------
Enter == \/ EvalLeaf \/ EvalJump \/ EvalInner
         \/ \E f \in Function : EvalCall(f)
         \/ \E g \in Global : CachedGlobal(g) \/ CyclicGlobal(g) \/ FirstReference(g)

Operand == \/ NextOperand \/ OperatorReturns \/ OperatorFails
           \/ TakeBranch \/ RenderMessage \/ StrayJump
           \/ \E f \in Function : CallWithArguments(f)

Statement == \/ NextStatement \/ StatementDone \/ PassJump
             \/ BreakLoop \/ NextIteration \/ RangeExhausted
             \/ WhileTrue \/ WhileEnds \/ WhileAgain

Leave == LeaveBody \/ GlobalDone \/ GlobalFails \/ MessageDone \/ PassError

Next == RejectInput \/ RunMain \/ Enter \/ Operand \/ Statement \/ Leave

Spec == Init /\ [][Next]_vars

\* Nothing suspends the interpreter's thread: it keeps running while it can.
FairSpec == Spec /\ WF_vars(Next)

Finished == stack = <<>> /\ flow \in Result

-----------------------------------------------------------------------------
CallFrames == {i \in 1 .. Height : stack[i].kind = "call"}

\* call_depth counts exactly the calls in progress, on every path out of a
\* body (value, error, stray break) and whatever globals and loops are open
\* in between: no leak that would trip MAX_CALL_DEPTH early, no underflow.
DepthCountsCalls == call_depth = Cardinality(CallFrames)

\* b is the runtime of the innermost call among the first n frames; before
\* main it is constrained.
RuntimeAt(n, b) ==
  \/ \E i \in 1 .. n : /\ stack[i].kind = "call"
                       /\ b = (stack[i].fn \in Unconstrained)
                       /\ \A j \in (i + 1) .. n : stack[j].kind # "call"
  \/ b = FALSE /\ \A j \in 1 .. n : stack[j].kind # "call"

\* is_unconstrained() answers for the function being executed: the flag is
\* that of the innermost open call, also after an error was caught, and what
\* each open call is going to restore is the runtime of its caller.
FlagOfCurrentFunction ==
  /\ RuntimeAt(Height, unconstrained)
  /\ \A i \in CallFrames : RuntimeAt(i - 1, stack[i].outer)

InitializerFrames(g) == {i \in 1 .. Height : stack[i] = GlobalFrame(g)}

\* A global is in progress exactly while one activation of eval_global is
\* evaluating its initializer: a failed initializer leaves no marker behind
\* (which would make a later reference report a false cycle), and a cycle
\* never re-enters one.
InProgressIsOnStack ==
  \A g \in Global : /\ globals[g] = "InProgress" <=> InitializerFrames(g) # {}
                    /\ \A i, j \in InitializerFrames(g) : i = j

\* The host stack is bounded by the program's nesting alone, as the comment
\* on MAX_CALL_DEPTH wants: neither recursion through calls nor through
\* globals grows it further.
HostStackBounded ==
  Height <= (MaxCallDepth + Cardinality(Global)) * (MaxNest + 1)

\* An error always surfaces: unwinding reaches the caller of interpret.
FailureSurfaces == flow \in Error ~> (Finished /\ flow \in Error)
=============================================================================
