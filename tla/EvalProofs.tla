----------------------------- MODULE EvalProofs -----------------------------
(***************************************************************************)
(* Proofs about Eval for every program, call limit and nesting depth.      *)
(*                                                                         *)
(* Every step changes the top of the stack only: it keeps a base (the      *)
(* whole stack, or the stack without its innermost expression frame) and   *)
(* appends at most one frame to it, or it drops an activation.  The        *)
(* lemmas establish these shapes once; each invariant is then proved for   *)
(* the shapes, and so is that Eval implements ControlFlow.                 *)
(***************************************************************************)
EXTENDS EvalRefines, FiniteSetTheorems, SequenceTheorems,
        FunctionTheorems, TLAPS

TopIsExpr == stack # <<>> /\ Top.kind \in ExprKind

Base(b) == b = stack \/ (TopIsExpr /\ b = Popped)

\* A step that enters and leaves no activation.
PureShape ==
  /\ Pure
  /\ \/ stack' = stack
     \/ TopIsExpr /\ stack' = Popped
     \/ TopIsExpr /\ \E k \in ExprKind : stack' = Append(Popped, ExprFrame(k))
     \/ CanNest /\ \E k \in ExprKind : stack' = Append(stack, ExprFrame(k))

EnterShape == \E f \in Function : \E b : Base(b) /\ EnterBody(f, b)

-----------------------------------------------------------------------------
\* What a frame is, by its kind.
LEMMA FrameKinds ==
  ASSUME NEW x \in Frame
  PROVE  /\ x.kind \in ExprKind \cup {"call", "global"}
         /\ x.kind = "call" => x.fn \in Function /\ x.outer \in BOOLEAN
         /\ x.kind = "global" => x.global \in Global
BY DEF Frame, ExprKind

\* Every frame the evaluator builds is a frame.
LEMMA FramesBuilt ==
  ASSUME unconstrained \in BOOLEAN
  PROVE  /\ \A k \in ExprKind : ExprFrame(k) \in Frame
         /\ \A f \in Function : CallFrame(f) \in Frame
         /\ \A g \in Global : GlobalFrame(g) \in Frame
BY DEF Frame, ExprFrame, CallFrame, GlobalFrame

\* The stack without its innermost frame agrees with the stack below it.
LEMMA PoppedFacts ==
  ASSUME stack \in Seq(Frame), stack # <<>>
  PROVE  /\ Popped \in Seq(Frame)
         /\ Len(Popped) = Height - 1
         /\ Height \in Nat \ {0}
         /\ \A i \in 1 .. (Height - 1) : Popped[i] = stack[i]
         /\ Top \in Frame
<1>1. Height \in Nat \ {0} /\ \A i \in 1 .. Height : stack[i] \in Frame
  BY EmptySeq, ElementOfSeq DEF Height
<1>2. /\ Popped \in Seq(Frame)
      /\ Len(Popped) = Height - 1
      /\ \A i \in 1 .. (Height - 1) : Popped[i] = stack[i]
  BY <1>1, SubSeqProperties, 1 \in Int, Height - 1 \in Int DEF Popped
<1> QED
  BY <1>1, <1>2 DEF Top

\* A base agrees with the stack, and only expression frames lie above it.
LEMMA BaseFacts ==
  ASSUME stack \in Seq(Frame), NEW b, Base(b)
  PROVE  /\ b \in Seq(Frame)
         /\ Len(b) \in Nat /\ Height \in Nat
         /\ Len(b) <= Height
         /\ \A i \in 1 .. Len(b) : b[i] = stack[i]
         /\ \A i \in (Len(b) + 1) .. Height : stack[i].kind \in ExprKind
<1>1. CASE b = stack
  BY <1>1 DEF Height
<1>2. CASE TopIsExpr /\ b = Popped
  BY <1>2, PoppedFacts DEF Height, Top, TopIsExpr
<1> QED
  BY <1>1, <1>2 DEF Base

\* Every step has one of the shapes.
LEMMA StepShapes ==
  ASSUME Next
  PROVE  PureShape \/ EnterShape \/ LeaveBody
           \/ (\E g \in Global : FirstReference(g)) \/ GlobalDone \/ GlobalFails
<1> USE DEF PureShape, Base, TopIsExpr, Resume
<1>1. ASSUME NEW f \in Function, NEW b, Base(b), CallFunction(f, b)
      PROVE  PureShape \/ EnterShape
  BY <1>1 DEF CallFunction, TooDeep, Malformed, EnterShape
<1>2. ASSUME RejectInput PROVE PureShape
  BY <1>2 DEF RejectInput
<1>3. ASSUME RunMain PROVE PureShape \/ EnterShape
  BY <1>3, <1>1, ProgramAssumption DEF RunMain
<1>4. ASSUME Enter
      PROVE  PureShape \/ EnterShape \/ \E g \in Global : FirstReference(g)
  <2>1. ASSUME EvalLeaf \/ EvalJump PROVE PureShape
    BY <2>1 DEF EvalLeaf, EvalJump
  <2>2. ASSUME EvalInner PROVE PureShape
    BY <2>2 DEF EvalInner, ExprKind
  <2>3. ASSUME NEW f \in Function, EvalCall(f) PROVE PureShape \/ EnterShape
    BY <2>3, <1>1 DEF EvalCall
  <2>4. ASSUME NEW g \in Global, CachedGlobal(g) \/ CyclicGlobal(g) PROVE PureShape
    BY <2>4 DEF CachedGlobal, CyclicGlobal
  <2> QED
    BY <1>4, <2>1, <2>2, <2>3, <2>4 DEF Enter
<1>5. ASSUME Operand PROVE PureShape \/ EnterShape
  <2> USE DEF Returned, OnTop, ExprKind
  <2>1. ASSUME NextOperand \/ OperatorReturns \/ OperatorFails PROVE PureShape
    BY <2>1 DEF NextOperand, OperatorReturns, OperatorFails
  <2>2. ASSUME TakeBranch PROVE PureShape
    BY <2>2 DEF TakeBranch
  <2>3. ASSUME RenderMessage \/ StrayJump PROVE PureShape
    BY <2>3 DEF RenderMessage, StrayJump
  <2>4. ASSUME NEW f \in Function, CallWithArguments(f) PROVE PureShape \/ EnterShape
    BY <2>4, <1>1 DEF CallWithArguments
  <2> QED
    BY <1>5, <2>1, <2>2, <2>3, <2>4 DEF Operand
<1>6. ASSUME Statement PROVE PureShape
  <2> USE DEF Returned, OnTop, ExprKind
  <2>1. ASSUME NextStatement \/ StatementDone \/ PassJump PROVE PureShape
    BY <2>1 DEF NextStatement, StatementDone, PassJump, TransparentKind
  <2>2. ASSUME BreakLoop \/ NextIteration \/ RangeExhausted PROVE PureShape
    BY <2>2 DEF BreakLoop, NextIteration, RangeExhausted, LoopKind
  <2>3. ASSUME WhileTrue \/ WhileEnds \/ WhileAgain PROVE PureShape
    BY <2>3 DEF WhileTrue, WhileEnds, WhileAgain
  <2> QED
    BY <1>6, <2>1, <2>2, <2>3 DEF Statement
<1>7. ASSUME MessageDone \/ PassError PROVE PureShape
  BY <1>7 DEF MessageDone, PassError, OnTop, ExprKind
<1> QED
  BY <1>2, <1>3, <1>4, <1>5, <1>6, <1>7 DEF Next, Leave
-----------------------------------------------------------------------------
(* How the frames of a step's successor relate to those before it.         *)

\* A frame appended to a base.
LEMMA AppendFacts ==
  ASSUME stack \in Seq(Frame), NEW b, Base(b), NEW x \in Frame,
         stack' = Append(b, x)
  PROVE  /\ stack' \in Seq(Frame)
         /\ Len(b) \in Nat /\ Height \in Nat
         /\ Height' = Len(b) + 1
         /\ Len(b) <= Height
         /\ stack'[Height'] = x
         /\ \A i \in 1 .. Len(b) : stack'[i] = stack[i]
         /\ \A i \in (Len(b) + 1) .. Height : stack[i].kind \in ExprKind
<1>1. b \in Seq(Frame)
  BY BaseFacts
<1>2. /\ stack' \in Seq(Frame) /\ Len(stack') = Len(b) + 1
      /\ stack'[Len(b) + 1] = x
      /\ \A i \in 1 .. Len(b) : stack'[i] = b[i]
  BY <1>1
<1> QED
  BY <1>2, BaseFacts DEF Height

\* A step without activations keeps every call and global frame in place.
LEMMA PureFacts ==
  ASSUME stack \in Seq(Frame), unconstrained \in BOOLEAN, PureShape
  PROVE  /\ stack' \in Seq(Frame)
         /\ Height \in Nat /\ Height' \in Nat
         /\ \A i \in 1 .. Height' : stack'[i].kind \in {"call", "global"} =>
               i \in 1 .. Height /\ stack'[i] = stack[i]
         /\ \A i \in 1 .. Height : stack[i].kind \in {"call", "global"} =>
               i \in 1 .. Height' /\ stack'[i] = stack[i]
         /\ Height' <= Height \/ (CanNest /\ Height' = Height + 1)
<1> USE DEF ExprKind
<1>1. CASE stack' = stack
  BY <1>1 DEF Height
<1>2. CASE TopIsExpr /\ stack' = Popped
  <2>1. Base(Popped)
    BY <1>2 DEF Base
  <2>2. Height' = Len(Popped)
    BY <1>2 DEF Height
  <2> QED
    BY <1>2, <2>1, <2>2, BaseFacts
<1>3. ASSUME NEW k \in ExprKind,
             \/ TopIsExpr /\ stack' = Append(Popped, ExprFrame(k))
             \/ CanNest /\ stack' = Append(stack, ExprFrame(k))
      PROVE  /\ stack' \in Seq(Frame)
             /\ Height \in Nat /\ Height' \in Nat
             /\ \A i \in 1 .. Height' : stack'[i].kind \in {"call", "global"} =>
                   i \in 1 .. Height /\ stack'[i] = stack[i]
             /\ \A i \in 1 .. Height : stack[i].kind \in {"call", "global"} =>
                   i \in 1 .. Height' /\ stack'[i] = stack[i]
             /\ Height' <= Height \/ (CanNest /\ Height' = Height + 1)
  <2> DEFINE x == ExprFrame(k)
  <2>1. x \in Frame /\ x.kind \in ExprKind
    BY FramesBuilt DEF ExprFrame
  <2>2. PICK b : /\ Base(b) /\ stack' = Append(b, x)
                 /\ b = stack => CanNest
                 /\ b # stack => TopIsExpr /\ b = Popped
    BY <1>3, PoppedFacts DEF Base, Height, TopIsExpr
  <2> HIDE DEF x
  <2>3. b # stack => Len(b) = Height - 1
    BY <2>2, PoppedFacts DEF TopIsExpr
  <2> QED
    BY <2>1, <2>2, <2>3, AppendFacts DEF Height
<1> QED
  BY <1>1, <1>2, <1>3 DEF PureShape

\* Dropping an activation.
LEMMA DropFacts ==
  ASSUME stack \in Seq(Frame), stack # <<>>, stack' = Popped
  PROVE  /\ stack' \in Seq(Frame)
         /\ Height \in Nat \ {0} /\ Height' = Height - 1
         /\ \A i \in 1 .. Height' : stack'[i] = stack[i]
         /\ Top = stack[Height] /\ Top \in Frame
BY PoppedFacts DEF Height, Top

-----------------------------------------------------------------------------
(* The inductive invariant.  TypeOK alone is not inductive: that           *)
(* call_depth stays non-negative needs it to count the frames, and that    *)
(* the restored flag is right needs what every open call has saved.        *)
IInv == /\ TypeOK
        /\ DepthCountsCalls
        /\ FlagOfCurrentFunction
        /\ InProgressIsOnStack

\* Before main nothing is open and nothing is in progress.
LEMMA InitIInv == Init => IInv
<1> SUFFICES ASSUME Init PROVE IInv
  OBVIOUS
<1> USE DEF Init
<1>1. TypeOK
  <2>1. /\ stack \in Seq(Frame)
        /\ unconstrained \in BOOLEAN
        /\ flow \in {"Idle", "Eval"} \cup Result
    BY EmptySeq
  <2>2. call_depth \in 0 .. MaxCallDepth
    BY LimitAssumption
  <2>3. globals \in [Global -> {"None", "InProgress", "Done"}]
    OBVIOUS
  <2> QED
    BY <2>1, <2>2, <2>3 DEF TypeOK
<1>2. Height = 0
  BY DEF Height
<1>3. CallFrames = {} /\ \A g \in Global : InitializerFrames(g) = {}
  BY <1>2 DEF CallFrames, InitializerFrames
<1>4. DepthCountsCalls
  BY <1>3, FS_EmptySet DEF DepthCountsCalls
<1>5. FlagOfCurrentFunction
  BY <1>2, <1>3 DEF FlagOfCurrentFunction, RuntimeAt
<1>6. InProgressIsOnStack
  BY <1>3 DEF InProgressIsOnStack
<1> QED
  BY <1>1, <1>4, <1>5, <1>6 DEF IInv

\* The set of call frames is finite, whatever the stack.
LEMMA CallFramesFinite ==
  ASSUME stack \in Seq(Frame)
  PROVE  IsFiniteSet(CallFrames)
<1>1. Height \in Int
  BY DEF Height
<1>2. IsFiniteSet(1 .. Height)
  BY <1>1, FS_Interval
<1>3. CallFrames \in SUBSET (1 .. Height)
  BY DEF CallFrames
<1> QED
  BY <1>2, <1>3, FS_Subset

\* The innermost call, and so the runtime, depends on the call frames only.
LEMMA RuntimeTransfer ==
  ASSUME NEW m \in Nat, NEW n \in Nat, NEW b \in BOOLEAN,
         \A i \in 1 .. m : stack[i].kind = "call" => i \in 1 .. n /\ stack'[i] = stack[i],
         \A i \in 1 .. n : stack'[i].kind = "call" => i \in 1 .. m /\ stack'[i] = stack[i],
         RuntimeAt(m, b)
  PROVE  RuntimeAt(n, b)'
<1>1. CASE b = FALSE /\ \A j \in 1 .. m : stack[j].kind # "call"
  <2>1. \A j \in 1 .. n : stack'[j].kind # "call"
    BY <1>1
  <2> QED
    BY <1>1, <2>1 DEF RuntimeAt
<1>2. ASSUME NEW i \in 1 .. m,
             stack[i].kind = "call", b = (stack[i].fn \in Unconstrained),
             \A j \in (i + 1) .. m : stack[j].kind # "call"
      PROVE  RuntimeAt(n, b)'
  <2>1. i \in 1 .. n /\ stack'[i] = stack[i]
    BY <1>2
  <2>2. \A j \in (i + 1) .. n : stack'[j].kind # "call"
    BY <1>2
  <2> QED
    BY <1>2, <2>1, <2>2, Zenon DEF RuntimeAt
<1> QED
  BY <1>1, <1>2 DEF RuntimeAt

\* A step that leaves activations and counters alone keeps the invariant.
LEMMA PureKeepsIInv ==
  ASSUME IInv, PureShape, flow' \in {"Idle", "Eval"} \cup Result
  PROVE  IInv'
<1>1. TypeOK /\ DepthCountsCalls /\ FlagOfCurrentFunction /\ InProgressIsOnStack
  BY DEF IInv
<1>2. UNCHANGED <<unconstrained, call_depth, globals>>
  BY DEF PureShape, Pure
<1>3. stack \in Seq(Frame) /\ unconstrained \in BOOLEAN
  BY <1>1 DEF TypeOK
<1>4. TypeOK'
  BY <1>1, <1>2, <1>3, PureFacts DEF TypeOK
<1>5. CallFrames' = CallFrames
  BY <1>3, PureFacts DEF CallFrames
<1>6. DepthCountsCalls'
  BY <1>1, <1>2, <1>5 DEF DepthCountsCalls
<1>7. ASSUME NEW g \in Global PROVE InitializerFrames(g)' = InitializerFrames(g)
  <2>1. GlobalFrame(g).kind \in {"call", "global"}
    BY DEF GlobalFrame
  <2> QED
    BY <1>3, <2>1, PureFacts DEF InitializerFrames
<1>8. InProgressIsOnStack'
  BY <1>1, <1>2, <1>7 DEF InProgressIsOnStack
<1>9. FlagOfCurrentFunction'
  <2>1. RuntimeAt(Height, unconstrained)'
    <3>1. RuntimeAt(Height, unconstrained)
      BY <1>1 DEF FlagOfCurrentFunction
    <3> QED
      BY <1>2, <1>3, <3>1, PureFacts, RuntimeTransfer
  <2>2. ASSUME NEW i \in CallFrames' PROVE RuntimeAt(i - 1, stack[i].outer)'
    <3>1. i \in CallFrames /\ stack'[i] = stack[i]
      BY <1>3, <1>5, PureFacts DEF CallFrames
    <3>2. RuntimeAt(i - 1, stack[i].outer)
      BY <1>1, <3>1 DEF FlagOfCurrentFunction
    <3>3. i \in 1 .. Height /\ i \in 1 .. Height' /\ Height \in Nat /\ Height' \in Nat
      BY <1>3, <1>5, <3>1, PureFacts DEF CallFrames
    <3>4. \A j \in 1 .. (i - 1) : stack'[j].kind = "call" \/ stack[j].kind = "call" =>
              stack'[j] = stack[j]
      BY <1>3, <3>3, PureFacts
    <3>5. stack[i].outer \in BOOLEAN /\ i - 1 \in Nat
      BY <1>3, <3>1, <3>3, FrameKinds, ElementOfSeq DEF CallFrames, Height
    <3> QED
      BY <3>1, <3>2, <3>4, <3>5, RuntimeTransfer
  <2> QED
    BY <2>1, <2>2 DEF FlagOfCurrentFunction
<1> QED
  BY <1>4, <1>6, <1>8, <1>9 DEF IInv

\* A body is entered: one more call frame, whose saved flag is the caller's.
LEMMA EnterKeepsIInv ==
  ASSUME IInv, NEW f \in Function, NEW b, Base(b), EnterBody(f, b)
  PROVE  IInv'
<1>1. TypeOK /\ DepthCountsCalls /\ FlagOfCurrentFunction /\ InProgressIsOnStack
  BY DEF IInv
<1>2. stack \in Seq(Frame) /\ unconstrained \in BOOLEAN /\ Height \in Nat
  BY <1>1 DEF TypeOK, Height
<1> DEFINE x == CallFrame(f)
           n == Len(b) + 1
<1>3. x \in Frame /\ x.kind = "call" /\ x.fn = f /\ x.outer = unconstrained
  BY <1>2, FramesBuilt DEF CallFrame
<1>4. /\ stack' = Append(b, x) /\ flow' = "Eval"
      /\ unconstrained' = (f \in Unconstrained)
      /\ call_depth < MaxCallDepth /\ call_depth' = call_depth + 1
      /\ globals' = globals
  BY DEF EnterBody, Resume
<1> HIDE DEF x
<1>5. /\ stack' \in Seq(Frame) /\ Height' = n /\ n \in Nat /\ n - 1 <= Height
      /\ stack'[n] = x
      /\ \A i \in 1 .. (n - 1) : stack'[i] = stack[i]
      /\ \A i \in n .. Height : stack[i].kind \notin {"call", "global"}
  <2>1. /\ stack' \in Seq(Frame) /\ Len(b) \in Nat /\ Height' = Len(b) + 1
        /\ Len(b) <= Height /\ stack'[Height'] = x
        /\ \A i \in 1 .. Len(b) : stack'[i] = stack[i]
        /\ \A i \in (Len(b) + 1) .. Height : stack[i].kind \in ExprKind
    BY <1>2, <1>3, <1>4, AppendFacts, Zenon
  <2>2. n - 1 = Len(b) /\ n \in Nat
    BY <2>1
  <2>3. \A i \in n .. Height : stack[i].kind \notin {"call", "global"}
    BY <2>1 DEF ExprKind
  <2> QED
    BY <1>2, <2>1, <2>2, <2>3
<1> HIDE DEF n
<1>6. TypeOK'
  <2>1. call_depth' \in 0 .. MaxCallDepth
    BY <1>1, <1>4, LimitAssumption DEF TypeOK
  <2>2. unconstrained' \in BOOLEAN /\ flow' \in {"Idle", "Eval"} \cup Result
    BY <1>4
  <2> QED
    BY <1>1, <1>4, <1>5, <2>1, <2>2 DEF TypeOK
<1>7. CallFrames' = CallFrames \cup {n} /\ n \notin CallFrames
  <2>1. ASSUME NEW i PROVE i \in CallFrames' <=> i \in CallFrames \/ i = n
    <3>1. CASE i \in 1 .. (n - 1)
      BY <1>2, <1>5, <3>1 DEF CallFrames
    <3>2. CASE i = n
      BY <1>2, <1>3, <1>5, <3>2, BaseFacts DEF CallFrames, n
    <3>3. CASE i \notin 1 .. n
      <4>1. i \notin CallFrames'
        BY <1>5, <3>3 DEF CallFrames
      <4>2. ASSUME i \in CallFrames PROVE FALSE
        <5>1. i \in n .. Height /\ stack[i].kind = "call"
          BY <1>2, <1>5, <3>3, <4>2 DEF CallFrames
        <5> QED
          BY <1>5, <5>1
      <4>3. i # n
        BY <1>2, <1>5, <3>3, BaseFacts DEF n
      <4> QED
        BY <4>1, <4>2, <4>3
    <3> QED
      BY <1>5, <3>1, <3>2, <3>3
  <2>2. n \notin CallFrames
    BY <1>2, <1>5 DEF CallFrames
  <2> QED
    BY <2>1, <2>2
<1>8. DepthCountsCalls'
  <2>1. Cardinality(CallFrames \cup {n}) = Cardinality(CallFrames) + 1
    BY <1>2, <1>7, CallFramesFinite, FS_AddElement
  <2> QED
    BY <1>1, <1>4, <1>7, <2>1 DEF DepthCountsCalls
<1>9. ASSUME NEW g \in Global PROVE InitializerFrames(g)' = InitializerFrames(g)
  <2>1. GlobalFrame(g).kind = "global" /\ x # GlobalFrame(g)
    BY <1>3 DEF GlobalFrame
  <2> QED
    BY <1>2, <1>5, <2>1 DEF InitializerFrames
<1>10. InProgressIsOnStack'
  BY <1>1, <1>4, <1>9 DEF InProgressIsOnStack
<1>11. RuntimeAt(Height, unconstrained)'
  <2>1. n \in 1 .. n
    BY <1>5, BaseFacts, <1>2 DEF n
  <2>2. stack'[n].kind = "call" /\ unconstrained' = (stack'[n].fn \in Unconstrained)
    BY <1>3, <1>4, <1>5
  <2>3. \A j \in (n + 1) .. n : stack'[j].kind # "call"
    BY <1>5
  <2> QED
    BY <1>5, <2>1, <2>2, <2>3, Zenon DEF RuntimeAt
<1>12. ASSUME NEW i \in CallFrames' PROVE RuntimeAt(i - 1, stack[i].outer)'
  <2>1. CASE i = n
    <3>1. RuntimeAt(Height, unconstrained)
      BY <1>1 DEF FlagOfCurrentFunction
    <3>2. stack'[i].outer = unconstrained /\ i - 1 \in Nat
      BY <1>3, <1>5, <2>1, BaseFacts DEF n
    <3>3. \A j \in 1 .. Height : stack[j].kind = "call" =>
             j \in 1 .. (i - 1) /\ stack'[j] = stack[j]
      BY <1>2, <1>5, <2>1
    <3>4. \A j \in 1 .. (i - 1) : stack'[j].kind = "call" =>
             j \in 1 .. Height /\ stack'[j] = stack[j]
      BY <1>2, <1>5, <2>1
    <3>5. PICK u \in BOOLEAN : u = unconstrained
      BY <1>2
    <3>6. RuntimeAt(i - 1, u)'
      BY <1>2, <3>1, <3>2, <3>3, <3>4, <3>5, RuntimeTransfer
    <3> QED
      BY <3>2, <3>5, <3>6
  <2>2. CASE i # n
    <3>1. i \in CallFrames /\ i \in 1 .. (n - 1) /\ stack'[i] = stack[i]
      BY <1>5, <1>7, <2>2 DEF CallFrames
    <3>2. RuntimeAt(i - 1, stack[i].outer)
      BY <1>1, <3>1 DEF FlagOfCurrentFunction
    <3>3. stack[i].outer \in BOOLEAN /\ i - 1 \in Nat
      BY <1>2, <1>5, <3>1, FrameKinds, ElementOfSeq DEF CallFrames, Height
    <3> QED
      BY <1>5, <3>1, <3>2, <3>3, RuntimeTransfer
  <2> QED
    BY <2>1, <2>2
<1> QED
  BY <1>6, <1>8, <1>10, <1>11, <1>12 DEF IInv, FlagOfCurrentFunction

\* A global's initializer is entered.
LEMMA ReferenceKeepsIInv ==
  ASSUME IInv, NEW g \in Global, FirstReference(g)
  PROVE  IInv'
<1>1. TypeOK /\ DepthCountsCalls /\ FlagOfCurrentFunction /\ InProgressIsOnStack
  BY DEF IInv
<1>2. stack \in Seq(Frame) /\ unconstrained \in BOOLEAN /\ Height \in Nat
  BY <1>1 DEF TypeOK, Height
<1> DEFINE x == GlobalFrame(g)
           n == Height + 1
<1>3. x \in Frame /\ x.kind = "global"
  BY <1>2, FramesBuilt DEF GlobalFrame
<1>4. /\ stack' = Append(stack, x) /\ flow' = "Eval"
      /\ UNCHANGED <<unconstrained, call_depth>>
      /\ globals[g] = "None" /\ globals' = [globals EXCEPT ![g] = "InProgress"]
  BY DEF FirstReference, Resume
<1>5. \A h \in Global : GlobalFrame(h) = x => h = g
  BY DEF GlobalFrame
<1> HIDE DEF x
<1>6. /\ stack' \in Seq(Frame) /\ Height' = n /\ n \in Nat
      /\ stack'[n] = x
      /\ \A i \in 1 .. Height : stack'[i] = stack[i]
  BY <1>2, <1>3, <1>4, AppendFacts DEF Base, Height
<1>7. TypeOK'
  <2>1. globals' \in [Global -> {"None", "InProgress", "Done"}]
    BY <1>1, <1>4 DEF TypeOK
  <2> QED
    BY <1>1, <1>4, <1>6, <2>1 DEF TypeOK
<1>8. CallFrames' = CallFrames
  BY <1>2, <1>3, <1>6 DEF CallFrames
<1>9. DepthCountsCalls'
  BY <1>1, <1>4, <1>8 DEF DepthCountsCalls
<1>10. InitializerFrames(g)' = {n}
  <2>1. InitializerFrames(g) = {}
    BY <1>1, <1>4 DEF InProgressIsOnStack
  <2> QED
    BY <1>2, <1>6, <2>1 DEF InitializerFrames, x
<1>11. ASSUME NEW h \in Global, h # g PROVE InitializerFrames(h)' = InitializerFrames(h)
  <2>1. GlobalFrame(h) # x
    BY <1>5, <1>11
  <2> QED
    BY <1>2, <1>6, <2>1 DEF InitializerFrames, GlobalFrame
<1>12. InProgressIsOnStack'
  <2> SUFFICES ASSUME NEW h \in Global
               PROVE  /\ globals'[h] = "InProgress" <=> InitializerFrames(h)' # {}
                      /\ \A i, j \in InitializerFrames(h)' : i = j
    BY DEF InProgressIsOnStack
  <2>1. CASE h = g
    BY <1>1, <1>4, <1>10, <2>1 DEF TypeOK
  <2>2. CASE h # g
    BY <1>1, <1>4, <1>11, <2>2 DEF TypeOK, InProgressIsOnStack
  <2> QED
    BY <2>1, <2>2
<1>13. RuntimeAt(Height, unconstrained)'
  <2>1. RuntimeAt(Height, unconstrained)
    BY <1>1 DEF FlagOfCurrentFunction
  <2>2. \A i \in 1 .. Height : i \in 1 .. n /\ stack'[i] = stack[i]
    BY <1>2, <1>6 DEF n
  <2>3. \A i \in 1 .. n : stack'[i].kind = "call" => i \in 1 .. Height /\ stack'[i] = stack[i]
    BY <1>2, <1>3, <1>6 DEF n
  <2> HIDE DEF n
  <2> QED
    BY <1>2, <1>4, <1>6, <2>1, <2>2, <2>3, RuntimeTransfer
<1>14. ASSUME NEW i \in CallFrames' PROVE RuntimeAt(i - 1, stack[i].outer)'
  <2>1. i \in CallFrames /\ i \in 1 .. Height /\ stack'[i] = stack[i]
    BY <1>6, <1>8 DEF CallFrames
  <2>2. RuntimeAt(i - 1, stack[i].outer)
    BY <1>1, <2>1 DEF FlagOfCurrentFunction
  <2>3. stack[i].outer \in BOOLEAN /\ i - 1 \in Nat
    BY <1>2, <2>1, FrameKinds, ElementOfSeq DEF CallFrames, Height
  <2>4. \A j \in 1 .. (i - 1) : stack'[j] = stack[j]
    BY <1>2, <1>6, <2>1
  <2> QED
    BY <2>1, <2>2, <2>3, <2>4, RuntimeTransfer
<1> QED
  BY <1>7, <1>9, <1>12, <1>13, <1>14 DEF IInv, FlagOfCurrentFunction

\* An activation is dropped and, if it is a call, its saved flag restored.
LEMMA DropKeepsFlag ==
  ASSUME IInv, stack # <<>>, stack' = Popped,
         unconstrained' = IF Top.kind = "call" THEN Top.outer ELSE unconstrained
  PROVE  FlagOfCurrentFunction'
<1>1. TypeOK /\ FlagOfCurrentFunction /\ stack \in Seq(Frame) /\ unconstrained \in BOOLEAN
  BY DEF IInv, TypeOK
<1>2. /\ stack' \in Seq(Frame)
      /\ Height \in Nat \ {0} /\ Height' = Height - 1 /\ Height' \in Nat
      /\ \A i \in 1 .. Height' : stack'[i] = stack[i]
      /\ Top = stack[Height] /\ Top \in Frame
  BY <1>1, DropFacts
<1>3. ASSUME NEW m \in Nat, m <= Height', NEW b \in BOOLEAN, RuntimeAt(m, b)
      PROVE  RuntimeAt(m, b)'
  <2>1. \A i \in 1 .. m : i \in 1 .. m /\ stack'[i] = stack[i]
    BY <1>2, <1>3
  <2> QED
    BY <1>3, <2>1, RuntimeTransfer
<1>4. ASSUME NEW i \in CallFrames'
      PROVE  RuntimeAt(i - 1, stack[i].outer)'
  <2>1. i \in CallFrames /\ i \in 1 .. Height' /\ stack'[i] = stack[i]
    BY <1>2 DEF CallFrames
  <2>2. RuntimeAt(i - 1, stack[i].outer)
    BY <1>1, <2>1 DEF FlagOfCurrentFunction
  <2>3. stack[i].outer \in BOOLEAN /\ i - 1 \in Nat /\ i - 1 <= Height'
    BY <1>1, <1>2, <2>1, FrameKinds, ElementOfSeq DEF CallFrames, Height
  <2> QED
    BY <1>3, <2>1, <2>2, <2>3
<1>5. RuntimeAt(Height', unconstrained') /\ unconstrained' \in BOOLEAN
  <2>1. CASE Top.kind = "call"
    <3>1. Height \in CallFrames
      BY <1>2, <2>1 DEF CallFrames
    <3> QED
      BY <1>1, <1>2, <2>1, <3>1, FrameKinds DEF FlagOfCurrentFunction
  <2>2. CASE Top.kind # "call"
    <3>1. RuntimeAt(Height, unconstrained) /\ stack[Height].kind # "call"
      BY <1>1, <1>2, <2>2 DEF FlagOfCurrentFunction
    <3>2. RuntimeAt(Height - 1, unconstrained)
      BY <1>2, <3>1 DEF RuntimeAt
    <3> QED
      BY <1>1, <1>2, <2>2, <3>2
  <2> QED
    BY <2>1, <2>2
<1>6. RuntimeAt(Height, unconstrained)'
  BY <1>2, <1>3, <1>5
<1> QED
  BY <1>4, <1>6 DEF FlagOfCurrentFunction

\* Returning from a body, whatever it returned, keeps the invariant.
LEMMA LeaveKeepsIInv ==
  ASSUME IInv, LeaveBody
  PROVE  IInv'
<1>1. TypeOK /\ DepthCountsCalls /\ FlagOfCurrentFunction /\ InProgressIsOnStack
  BY DEF IInv
<1>2. /\ stack # <<>> /\ Top.kind = "call"
      /\ stack' = Popped /\ flow' \in Result
      /\ unconstrained' = Top.outer
      /\ call_depth' = call_depth - 1
      /\ globals' = globals
  BY DEF LeaveBody, OnTop, Resume, Result, Error
<1>3. /\ stack \in Seq(Frame) /\ stack' \in Seq(Frame)
      /\ Height \in Nat \ {0} /\ Height' = Height - 1
      /\ \A i \in 1 .. Height' : stack'[i] = stack[i]
      /\ Top = stack[Height] /\ Top \in Frame
  BY <1>1, <1>2, DropFacts DEF TypeOK
<1>4. CallFrames' = CallFrames \ {Height} /\ Height \in CallFrames
  BY <1>2, <1>3 DEF CallFrames
<1>5. DepthCountsCalls' /\ call_depth' \in Nat
  <2>1. /\ IsFiniteSet(CallFrames) /\ IsFiniteSet(CallFrames')
        /\ Cardinality(CallFrames') = Cardinality(CallFrames) - 1
    BY <1>3, <1>4, CallFramesFinite, FS_RemoveElement
  <2>2. Cardinality(CallFrames') \in Nat
    BY <2>1, FS_CardinalityType
  <2> QED
    BY <1>1, <1>2, <2>1, <2>2 DEF DepthCountsCalls
<1>6. TypeOK'
  <2>1. call_depth' \in 0 .. MaxCallDepth
    BY <1>1, <1>2, <1>5, LimitAssumption DEF TypeOK
  <2>2. unconstrained' \in BOOLEAN
    BY <1>2, <1>3, FrameKinds
  <2> QED
    BY <1>1, <1>2, <1>3, <2>1, <2>2 DEF TypeOK
<1>7. ASSUME NEW g \in Global PROVE InitializerFrames(g)' = InitializerFrames(g)
  <2>1. Top # GlobalFrame(g)
    BY <1>2 DEF GlobalFrame
  <2> QED
    BY <1>3, <2>1 DEF InitializerFrames
<1>8. InProgressIsOnStack'
  BY <1>1, <1>2, <1>7 DEF InProgressIsOnStack
<1>9. FlagOfCurrentFunction'
  BY <1>2, DropKeepsFlag
<1> QED
  BY <1>5, <1>6, <1>8, <1>9 DEF IInv

\* The initializer of g is left, its marker replaced or removed.
LEMMA GlobalKeepsIInv ==
  ASSUME IInv, GlobalDone \/ GlobalFails
  PROVE  IInv'
<1>1. TypeOK /\ DepthCountsCalls /\ FlagOfCurrentFunction /\ InProgressIsOnStack
  BY DEF IInv
<1> DEFINE g == Top.global
<1>2. /\ stack # <<>> /\ Top.kind = "global"
      /\ stack' = Popped /\ flow' \in Result
      /\ UNCHANGED <<unconstrained, call_depth>>
      /\ \E s \in {"None", "Done"} : globals' = [globals EXCEPT ![g] = s]
  BY DEF GlobalDone, GlobalFails, Returned, OnTop, Resume, Result, Error
<1>3. /\ stack \in Seq(Frame) /\ stack' \in Seq(Frame)
      /\ Height \in Nat \ {0} /\ Height' = Height - 1
      /\ \A i \in 1 .. Height' : stack'[i] = stack[i]
      /\ Top = stack[Height] /\ Top \in Frame
  BY <1>1, <1>2, DropFacts DEF TypeOK
<1>4. g \in Global /\ Top = GlobalFrame(g)
  BY <1>2, <1>3 DEF Frame, ExprKind, GlobalFrame
<1> HIDE DEF g
<1>5. TypeOK'
  <2>1. globals' \in [Global -> {"None", "InProgress", "Done"}]
    BY <1>1, <1>2, <1>4 DEF TypeOK
  <2> QED
    BY <1>1, <1>2, <1>3, <2>1 DEF TypeOK
<1>6. CallFrames' = CallFrames
  BY <1>2, <1>3 DEF CallFrames
<1>7. DepthCountsCalls'
  BY <1>1, <1>2, <1>6 DEF DepthCountsCalls
<1>8. ASSUME NEW h \in Global
      PROVE  InitializerFrames(h)' = InitializerFrames(h) \ {Height}
  <2>1. GlobalFrame(h)' = GlobalFrame(h)
    BY DEF GlobalFrame
  <2> QED
    BY <1>3, <2>1 DEF InitializerFrames
<1>9. Height \in InitializerFrames(g)
  <2>1. stack[Height] = GlobalFrame(g) /\ Height \in 1 .. Height
    BY <1>3, <1>4
  <2> QED
    BY <2>1 DEF InitializerFrames
<1>10. ASSUME NEW h \in Global, h # g PROVE Height \notin InitializerFrames(h)
  <2>1. stack[Height] = GlobalFrame(g)
    BY <1>3, <1>4
  <2>2. GlobalFrame(g) # GlobalFrame(h)
    BY <1>10 DEF GlobalFrame
  <2> QED
    BY <2>1, <2>2 DEF InitializerFrames
<1>11. InProgressIsOnStack'
  <2> SUFFICES ASSUME NEW h \in Global
               PROVE  /\ globals'[h] = "InProgress" <=> InitializerFrames(h)' # {}
                      /\ \A i, j \in InitializerFrames(h)' : i = j
    BY DEF InProgressIsOnStack
  <2>1. CASE h = g
    <3>1. InitializerFrames(h)' = {}
      BY <1>1, <1>4, <1>8, <1>9, <2>1 DEF InProgressIsOnStack
    <3> QED
      BY <1>1, <1>2, <1>4, <2>1, <3>1 DEF TypeOK
  <2>2. CASE h # g
    <3>1. InitializerFrames(h)' = InitializerFrames(h)
      BY <1>8, <1>10, <2>2
    <3> QED
      BY <1>1, <1>2, <1>4, <2>2, <3>1 DEF TypeOK, InProgressIsOnStack
  <2> QED
    BY <2>1, <2>2
<1>12. FlagOfCurrentFunction'
  BY <1>2, DropKeepsFlag
<1> QED
  BY <1>5, <1>7, <1>11, <1>12 DEF IInv

\* Every step leaves a state or a result in flow.
LEMMA FlowType ==
  ASSUME TypeOK, Next
  PROVE  flow' \in {"Idle", "Eval"} \cup Result
<1> USE DEF Resume, Result, Error
<1>1. ASSUME NEW f, NEW b, CallFunction(f, b) PROVE flow' \in {"Eval"} \cup Result
  BY <1>1 DEF CallFunction, TooDeep, Malformed, EnterBody
<1>2. CASE RejectInput \/ RunMain
  BY <1>1, <1>2 DEF RejectInput, RunMain
<1>3. CASE Enter
  BY <1>1, <1>3 DEF Enter, EvalLeaf, EvalJump, EvalInner, EvalCall,
                    CachedGlobal, CyclicGlobal, FirstReference
<1>4. CASE Operand
  BY <1>1, <1>4 DEF Operand, NextOperand, OperatorReturns, OperatorFails, TakeBranch,
                    RenderMessage, StrayJump, CallWithArguments
<1>5. CASE Statement
  BY <1>5 DEF Statement, NextStatement, StatementDone, PassJump, BreakLoop,
              NextIteration, RangeExhausted, WhileTrue, WhileEnds, WhileAgain
<1>6. CASE Leave
  BY <1>6 DEF Leave, LeaveBody, GlobalDone, GlobalFails, MessageDone, PassError
<1> QED
  BY <1>2, <1>3, <1>4, <1>5, <1>6 DEF Next

\* The invariant is inductive.
LEMMA NextIInv == IInv /\ [Next]_vars => IInv'
<1>1. ASSUME IInv, Next PROVE IInv'
  <2>1. flow' \in {"Idle", "Eval"} \cup Result
    BY <1>1, FlowType DEF IInv
  <2>2. CASE PureShape
    BY <1>1, <2>1, <2>2, PureKeepsIInv
  <2>3. CASE EnterShape
    BY <1>1, <2>3, EnterKeepsIInv DEF EnterShape
  <2>4. CASE LeaveBody
    BY <1>1, <2>4, LeaveKeepsIInv
  <2>5. ASSUME NEW g \in Global, FirstReference(g) PROVE IInv'
    BY <1>1, <2>5, ReferenceKeepsIInv
  <2>6. CASE GlobalDone \/ GlobalFails
    BY <1>1, <2>6, GlobalKeepsIInv
  <2> QED
    BY <1>1, <2>2, <2>3, <2>4, <2>5, <2>6, StepShapes
<1>2. ASSUME IInv, UNCHANGED vars PROVE IInv'
  BY <1>2 DEF vars, IInv, TypeOK, DepthCountsCalls, FlagOfCurrentFunction, RuntimeAt,
              InProgressIsOnStack, CallFrames, InitializerFrames, GlobalFrame, Height
<1> QED
  BY <1>1, <1>2

\* The parts of the invariant need each other, so it is proved as a whole.
LEMMA Bookkeeping == Spec => []IInv
  BY InitIInv, NextIInv, PTL DEF Spec

\* Type correctness: call_depth is a natural number within MAX_CALL_DEPTH on
\* every path, so its decrement in call_function never underflows.
THEOREM TypeCorrect == Spec => []TypeOK
<1>1. IInv => TypeOK
  BY DEF IInv
<1> QED
  BY <1>1, Bookkeeping, PTL

\* call_depth is the number of calls on the host stack, whatever ended the
\* bodies that call_function has returned from.
THEOREM CallsCounted == Spec => []DepthCountsCalls
<1>1. IInv => DepthCountsCalls
  BY DEF IInv
<1> QED
  BY <1>1, Bookkeeping, PTL

\* The runtime flag, and the one each open call will restore, is that of the
\* innermost call at its point of the stack.
THEOREM RuntimeRestored == Spec => []FlagOfCurrentFunction
<1>1. IInv => FlagOfCurrentFunction
  BY DEF IInv
<1> QED
  BY <1>1, Bookkeeping, PTL

\* eval_global's marker is there exactly while one activation evaluates the
\* global's initializer.
THEOREM MarkersOnStack == Spec => []InProgressIsOnStack
<1>1. IInv => InProgressIsOnStack
  BY DEF IInv
<1> QED
  BY <1>1, Bookkeeping, PTL

-----------------------------------------------------------------------------
(* The height of the host stack.                                           *)

ActivationsTo(n) == {i \in 1 .. n : IsActivation(i)}

\* Every activation accounts for itself and the MaxNest frames above it.
PrefixBounded ==
  \A n \in 1 .. Height : n <= Cardinality(ActivationsTo(n)) * (MaxNest + 1)

\* One more activation at a carries the bound to everything within MaxNest.
LEMMA NestArithmetic ==
  ASSUME NEW a \in Nat, NEW n \in Nat, NEW c \in Nat, NEW d \in Nat,
         a <= c * (MaxNest + 1), n - a <= MaxNest + 1, c + 1 <= d
  PROVE  n <= d * (MaxNest + 1)
<1> DEFINE w == MaxNest + 1
<1>1. w \in Nat
  BY LimitAssumption
<1>2. n <= c * w + w
  BY LimitAssumption
<1> HIDE DEF w
<1>3. (c + 1) * w = c * w + w
  BY <1>1
<1>4. PICK e \in Nat : d = c + 1 + e
  <2>1. d - (c + 1) \in Nat /\ d = c + 1 + (d - (c + 1))
    OBVIOUS
  <2> QED
    BY <2>1
<1>5. d * w = (c + 1) * w + e * w
  BY <1>1, <1>4
<1>6. e * w \in Nat /\ c * w \in Nat
  BY <1>1
<1> QED
  BY <1>1, <1>2, <1>3, <1>5, <1>6 DEF w

\* The activations on the stack can be counted.
LEMMA ActivationsFinite ==
  ASSUME NEW n \in Nat
  PROVE  IsFiniteSet(ActivationsTo(n)) /\ Cardinality(ActivationsTo(n)) \in Nat
<1>1. IsFiniteSet(1 .. n) /\ ActivationsTo(n) \in SUBSET (1 .. n)
  BY FS_Interval DEF ActivationsTo
<1> QED
  BY <1>1, FS_Subset, FS_CardinalityType

\* An activation at a, with a frame at most MaxNest above it, bounds n.
LEMMA WithinNest ==
  ASSUME stack \in Seq(Frame), PrefixBounded,
         NEW a \in 1 .. Height, IsActivation(a), NEW n \in Nat, n - a <= MaxNest
  PROVE  n <= Cardinality(ActivationsTo(Height)) * (MaxNest + 1)
<1>1. Height \in Nat /\ a \in Nat
  BY DEF Height
<1> DEFINE below == ActivationsTo(a - 1)
           c == Cardinality(below)
           d == Cardinality(ActivationsTo(Height))
<1>2. IsFiniteSet(below) /\ c \in Nat /\ IsFiniteSet(ActivationsTo(Height)) /\ d \in Nat
  <2>1. a - 1 \in Nat
    BY ONLY <1>1, a \in 1 .. Height
  <2> QED BY ONLY <1>1, <2>1, ActivationsFinite
<1>3. c + 1 <= d
  <2>1. below \cup {a} \in SUBSET ActivationsTo(Height) /\ a \notin below
    BY <1>1 DEF ActivationsTo
  <2>2. Cardinality(below \cup {a}) = c + 1
    BY <1>2, <2>1, FS_AddElement
  <2> QED
    BY <1>2, <2>1, <2>2, FS_Subset
<1>4. a - 1 <= c * (MaxNest + 1)
  <2>1. CASE a = 1
    BY <1>2, <2>1, LimitAssumption
  <2>2. CASE a # 1
    <3>1. a - 1 \in 1 .. Height
      BY <1>1, <2>2
    <3> QED BY ONLY <3>1, PrefixBounded DEF PrefixBounded
  <2> QED
    BY <2>1, <2>2
<1>5. a - 1 \in Nat /\ n - (a - 1) <= MaxNest + 1
  BY <1>1, LimitAssumption
<1>6. n <= d * (MaxNest + 1)
  <2> DEFINE b == a - 1
  <2> HIDE DEF b, c, d
  <2> QED BY ONLY <1>2, <1>3, <1>4, <1>5, n \in Nat, NestArithmetic DEF b
<1> QED BY <1>6

\* Below a step's base the activations, and so the bounds, are unchanged.
LEMMA KeptBound ==
  ASSUME PrefixBounded, NEW n \in 1 .. Height, Height \in Nat,
         \A i \in 1 .. n : IsActivation(i)' <=> IsActivation(i)
  PROVE  n <= Cardinality(ActivationsTo(n)') * (MaxNest + 1)
<1>1. ActivationsTo(n)' = ActivationsTo(n)
  BY DEF ActivationsTo
<1> QED
  BY <1>1 DEF PrefixBounded

\* A step without activations pushes no frame past the nesting bound.
LEMMA PureKeepsBound ==
  ASSUME TypeOK, PrefixBounded, PureShape
  PROVE  PrefixBounded'
<1> SUFFICES ASSUME NEW n \in 1 .. Height'
             PROVE  n <= Cardinality(ActivationsTo(n)') * (MaxNest + 1)
  BY DEF PrefixBounded
<1>1. stack \in Seq(Frame) /\ unconstrained \in BOOLEAN
  BY DEF TypeOK
<1>2. /\ Height \in Nat /\ Height' \in Nat
      /\ Height' <= Height \/ (CanNest /\ Height' = Height + 1)
  BY <1>1, PureFacts
<1>3. \A i \in 1 .. Height' : i \in 1 .. Height => (IsActivation(i)' <=> IsActivation(i))
  BY <1>1, PureFacts DEF IsActivation
<1>4. \A i \in 1 .. Height' : IsActivation(i)' => i \in 1 .. Height
  BY <1>1, PureFacts DEF IsActivation
<1>5. CASE n <= Height
  BY <1>2, <1>3, <1>5, KeptBound
<1>6. CASE n = Height + 1 /\ CanNest
  <2>1. PICK a \in 1 .. Height : IsActivation(a) /\ Height - a < Nest[Body(a)]
    BY <1>6 DEF CanNest
  <2>1a. Nest[Body(a)] \in 0 .. MaxNest
    <3>1. stack[a] \in Frame
      BY DEF TypeOK, Height
    <3> QED
      BY <2>1, <3>1, LimitAssumption DEF Body, IsActivation, Frame, ExprKind
  <2>2. n - a <= MaxNest /\ n \in Nat
    BY <1>2, <1>6, <2>1, <2>1a, LimitAssumption
  <2>3. ActivationsTo(n)' = ActivationsTo(Height)
    BY <1>2, <1>3, <1>4, <1>6 DEF ActivationsTo
  <2> QED
    BY <1>1, <2>1, <2>2, <2>3, WithinNest
<1> QED
  BY <1>2, <1>5, <1>6

\* A new activation starts a segment of its own.
LEMMA ActivationKeepsBound ==
  ASSUME TypeOK, PrefixBounded, NEW b, Base(b), NEW x \in Frame,
         x.kind \in {"call", "global"}, stack' = Append(b, x)
  PROVE  PrefixBounded'
<1> SUFFICES ASSUME NEW n \in 1 .. Height'
             PROVE  n <= Cardinality(ActivationsTo(n)') * (MaxNest + 1)
  BY DEF PrefixBounded
<1> DEFINE m == Len(b)
<1>1. stack \in Seq(Frame)
  BY DEF TypeOK
<1>2. /\ m \in Nat /\ Height \in Nat /\ Height' = m + 1 /\ m <= Height
      /\ stack'[m + 1] = x /\ \A i \in 1 .. m : stack'[i] = stack[i]
  BY <1>1, AppendFacts
<1> HIDE DEF m
<1>3. \A i \in 1 .. m : IsActivation(i)' <=> IsActivation(i)
  BY <1>2 DEF IsActivation
<1>4. CASE n <= m
  BY <1>2, <1>3, <1>4, KeptBound
<1>5. CASE n = m + 1
  <2> DEFINE c == Cardinality(ActivationsTo(m))
             d == Cardinality(ActivationsTo(m) \cup {n})
  <2>1. ActivationsTo(n)' = ActivationsTo(m) \cup {n}
    <3>1. IsActivation(n)'
      BY <1>2, <1>5 DEF IsActivation
    <3>2. \A i : i \in 1 .. n <=> i \in 1 .. m \/ i = n
      BY <1>2, <1>5
    <3> QED
      BY <1>3, <3>1, <3>2, Zenon DEF ActivationsTo
  <2>2. c \in Nat /\ d = c + 1
    <3>1. n \notin ActivationsTo(m)
      BY <1>2, <1>5 DEF ActivationsTo
    <3> QED
      BY <1>2, <3>1, ActivationsFinite, FS_AddElement
  <2>3. m <= c * (MaxNest + 1)
    <3>1. CASE m = 0
      BY <2>2, <3>1, LimitAssumption
    <3>2. CASE m # 0
      BY <1>2, <3>2 DEF PrefixBounded
    <3> QED
      BY <3>1, <3>2
  <2> HIDE DEF c, d
  <2>4. n - m <= MaxNest + 1 /\ n \in Nat /\ d \in Nat /\ c + 1 <= d
    BY <1>2, <1>5, <2>2, LimitAssumption
  <2>5. n <= d * (MaxNest + 1)
    BY <1>2, <2>2, <2>3, <2>4, NestArithmetic
  <2> QED
    BY <2>1, <2>5 DEF d
<1> QED
  BY <1>2, <1>4, <1>5

\* Dropping a frame keeps the nesting bound.
LEMMA DropKeepsBound ==
  ASSUME TypeOK, PrefixBounded, stack # <<>>, stack' = Popped
  PROVE  PrefixBounded'
<1> SUFFICES ASSUME NEW n \in 1 .. Height'
             PROVE  n <= Cardinality(ActivationsTo(n)') * (MaxNest + 1)
  BY DEF PrefixBounded
<1>1. /\ Height \in Nat \ {0} /\ Height' = Height - 1
      /\ \A i \in 1 .. Height' : stack'[i] = stack[i]
  BY DropFacts DEF TypeOK
<1>2. \A i \in 1 .. n : IsActivation(i)' <=> IsActivation(i)
  BY <1>1 DEF IsActivation
<1> QED
  BY <1>1, <1>2, KeptBound

\* The nesting bound is inductive, given the invariant.
LEMMA NextBound == IInv /\ PrefixBounded /\ [Next]_vars => PrefixBounded'
<1> SUFFICES ASSUME IInv, PrefixBounded, [Next]_vars PROVE PrefixBounded'
  OBVIOUS
<1>1. TypeOK /\ unconstrained \in BOOLEAN
  BY DEF IInv, TypeOK
<1>2. CASE PureShape
  BY <1>1, <1>2, PureKeepsBound
<1>3. ASSUME NEW f \in Function, NEW b, Base(b), EnterBody(f, b) PROVE PrefixBounded'
  BY <1>1, <1>3, FramesBuilt, ActivationKeepsBound DEF EnterBody, Resume, CallFrame
<1>4. ASSUME NEW g \in Global, FirstReference(g) PROVE PrefixBounded'
  BY <1>1, <1>4, FramesBuilt, ActivationKeepsBound
     DEF FirstReference, Resume, GlobalFrame, Base
<1>5. CASE LeaveBody \/ GlobalDone \/ GlobalFails
  BY <1>1, <1>5, DropKeepsBound
     DEF LeaveBody, GlobalDone, GlobalFails, Returned, OnTop, Resume
<1>6. CASE UNCHANGED vars
  BY <1>6 DEF vars, PrefixBounded, ActivationsTo, IsActivation, Height
<1> QED
  BY <1>2, <1>3, <1>4, <1>5, <1>6, StepShapes DEF EnterShape

\* Calls are limited by call_depth, global initializers by their markers.
LEMMA FewActivations ==
  ASSUME IInv
  PROVE  /\ Cardinality(ActivationsTo(Height)) <= MaxCallDepth + Cardinality(Global)
         /\ Cardinality(ActivationsTo(Height)) \in Nat
         /\ Cardinality(Global) \in Nat
<1>1. TypeOK /\ DepthCountsCalls /\ InProgressIsOnStack
  BY DEF IInv
<1>2. stack \in Seq(Frame) /\ Height \in Nat
  BY <1>1 DEF TypeOK, Height
<1> DEFINE initializers == {i \in 1 .. Height : stack[i].kind = "global"}
           globalOf == [i \in initializers |-> stack[i].global]
<1>3. globalOf \in Injection(initializers, Global)
  <2>1. ASSUME NEW i \in initializers
        PROVE  stack[i].global \in Global /\ stack[i] = GlobalFrame(stack[i].global)
    <3>1. stack[i] \in Frame /\ stack[i].kind = "global"
      BY <1>2, ElementOfSeq DEF Height
    <3> QED
      BY <3>1 DEF Frame, ExprKind, GlobalFrame
  <2>2. ASSUME NEW i \in initializers, NEW j \in initializers,
               stack[i].global = stack[j].global
        PROVE  i = j
    <3>1. i \in InitializerFrames(stack[i].global) /\ j \in InitializerFrames(stack[i].global)
      BY <2>1, <2>2 DEF InitializerFrames
    <3> QED
      BY <1>1, <2>1, <3>1 DEF InProgressIsOnStack
  <2> HIDE DEF initializers
  <2>3. globalOf \in [initializers -> Global]
    BY <2>1
  <2>4. \A i, j \in initializers : globalOf[i] = globalOf[j] => i = j
    BY <2>2
  <2> HIDE DEF globalOf
  <2> QED
    BY <2>3, <2>4, Fun_IsInj
<1>4. IsFiniteSet(initializers) /\ Cardinality(initializers) <= Cardinality(Global)
  BY <1>3, ProgramAssumption, FS_Injection
<1>5. Cardinality(CallFrames) <= MaxCallDepth /\ IsFiniteSet(CallFrames)
  BY <1>1, <1>2, CallFramesFinite, LimitAssumption DEF DepthCountsCalls, TypeOK
<1>6. ActivationsTo(Height) = CallFrames \cup initializers
  BY DEF ActivationsTo, CallFrames, IsActivation
<1>7. Cardinality(CallFrames \cup initializers)
        <= Cardinality(CallFrames) + Cardinality(initializers)
  <2> HIDE DEF initializers
  <2> DEFINE common == CallFrames \cap initializers
  <2>1. Cardinality(common) \in Nat
    BY <1>5, FS_Intersection, FS_CardinalityType
  <2>2. Cardinality(CallFrames \cup initializers)
          = Cardinality(CallFrames) + Cardinality(initializers) - Cardinality(common)
    BY <1>4, <1>5, FS_Union
  <2>3. Cardinality(CallFrames) \in Nat /\ Cardinality(initializers) \in Nat
    BY <1>4, <1>5, FS_CardinalityType
  <2> QED
    BY <2>1, <2>2, <2>3
<1>8. /\ Cardinality(ActivationsTo(Height)) \in Nat
      /\ Cardinality(Global) \in Nat /\ MaxCallDepth \in Nat
      /\ Cardinality(CallFrames) \in Nat /\ Cardinality(initializers) \in Nat
  BY <1>2, <1>4, <1>5, ActivationsFinite, FS_CardinalityType, ProgramAssumption, LimitAssumption
<1> HIDE DEF initializers
<1> QED
  BY <1>4, <1>5, <1>6, <1>7, <1>8

\* MAX_CALL_DEPTH bounds the host stack: together with the program's own
\* nesting and its number of globals it bounds the frames ever open, since
\* neither calls nor references to globals recurse past their guards.
THEOREM HostStack == Spec => []HostStackBounded
<1>1. Init => PrefixBounded
  BY DEF Init, PrefixBounded, Height
<1>2. IInv /\ PrefixBounded => HostStackBounded
  <2> SUFFICES ASSUME IInv, PrefixBounded PROVE HostStackBounded
    OBVIOUS
  <2> DEFINE d == Cardinality(ActivationsTo(Height))
             k == MaxCallDepth + Cardinality(Global)
  <2>1. d \in Nat /\ k \in Nat /\ d <= k
    BY FewActivations, LimitAssumption
  <2>2. Height \in Nat /\ (Height # 0 => Height <= d * (MaxNest + 1))
    <3>1. Height \in Nat
      BY DEF IInv, TypeOK, Height
    <3> QED
      BY <3>1 DEF PrefixBounded
  <2>3. k * (MaxNest + 1) = d * (MaxNest + 1) + (k - d) * (MaxNest + 1)
    <3> HIDE DEF d, k
    <3> QED
      BY <2>1, LimitAssumption
  <2>4. (k - d) * (MaxNest + 1) >= 0 /\ d * (MaxNest + 1) >= 0
    <3> HIDE DEF d, k
    <3> QED
      BY <2>1, LimitAssumption
  <2>5. Height <= k * (MaxNest + 1)
    <3> HIDE DEF d, k
    <3> QED
      BY <2>1, <2>2, <2>3, <2>4, LimitAssumption
  <2> QED
    BY <2>5 DEF HostStackBounded
<1> QED
  BY <1>1, <1>2, InitIInv, NextIInv, NextBound, PTL DEF Spec

-----------------------------------------------------------------------------
(* The refinement.  The scopes a part of a stack stands for, and the       *)
(* innermost frame of a part that looks at a jump.                         *)

Path(s, n) == [i \in 1 .. n |-> Scope(s[i])]
ScopeOf    == {Scope(x) : x \in Frame}

CatchesAt(s, n, c) == /\ c \in 1 .. n
                      /\ s[c].kind \notin TransparentKind
                      /\ \A j \in (c + 1) .. n : s[j].kind \in TransparentKind

\* A scope is of its frame's kind, and names the same function or global.
LEMMA ScopeFacts ==
  ASSUME NEW x \in Frame
  PROVE  /\ Scope(x).kind = x.kind
         /\ x.kind = "call" => Scope(x) = [kind |-> "call", fn |-> x.fn]
         /\ x.kind = "global" => Scope(x) = [kind |-> "global", global |-> x.global]
         /\ x.kind \in ExprKind => Scope(x) = [kind |-> x.kind]
<1>1. CASE x \in [kind : ExprKind]
  BY <1>1 DEF Scope, ExprKind
<1>2. CASE x \in [kind : {"call"}, fn : Function, outer : BOOLEAN]
  BY <1>2 DEF Scope, ExprKind
<1>3. CASE x \in [kind : {"global"}, global : Global]
  BY <1>3 DEF Scope, ExprKind
<1> QED
  BY <1>1, <1>2, <1>3 DEF Frame

LEMMA PathFacts ==
  ASSUME NEW s \in Seq(Frame), NEW n \in 0 .. Len(s)
  PROVE  /\ Path(s, n) \in Seq(ScopeOf)
         /\ Len(Path(s, n)) = n
         /\ \A i \in 1 .. n : /\ Path(s, n)[i] = Scope(s[i])
                              /\ s[i] \in Frame
                              /\ Path(s, n)[i].kind = s[i].kind
<1>1. n \in Nat /\ \A i \in 1 .. n : s[i] \in Frame
  OBVIOUS
<1>2. \A i \in 1 .. n : Path(s, n)[i] = Scope(s[i]) /\ Scope(s[i]) \in ScopeOf
  BY <1>1 DEF Path, ScopeOf
<1>3. Path(s, n) \in [1 .. n -> ScopeOf]
  BY <1>2 DEF Path
<1>4. Path(s, n) \in Seq(ScopeOf) /\ Len(Path(s, n)) = n
  BY <1>1, <1>3
<1> QED
  BY <1>1, <1>2, <1>4, ScopeFacts

\* Stacks that agree on a part stand for the same scopes there.
LEMMA PathAgrees ==
  ASSUME NEW s, NEW t, NEW n \in Nat, \A i \in 1 .. n : s[i] = t[i]
  PROVE  Path(s, n) = Path(t, n)
  BY DEF Path

LEMMA PathAppend ==
  ASSUME NEW s \in Seq(Frame), NEW x \in Frame
  PROVE  /\ Append(s, x) \in Seq(Frame) /\ Len(Append(s, x)) = Len(s) + 1
         /\ Path(Append(s, x), Len(s) + 1) = Append(Path(s, Len(s)), Scope(x))
<1> DEFINE n == Len(s)
           t == Append(s, x)
<1>1. n \in Nat /\ t \in Seq(Frame) /\ Len(t) = n + 1 /\ t[n + 1] = x
      /\ \A i \in 1 .. n : t[i] = s[i]
  OBVIOUS
<1>2. Path(s, n) \in Seq(ScopeOf) /\ Len(Path(s, n)) = n
      /\ \A i \in 1 .. n : Path(s, n)[i] = Scope(s[i])
  BY <1>1, PathFacts
<1> HIDE DEF t, n
<1>3. Path(t, n + 1) \in Seq(ScopeOf) /\ Len(Path(t, n + 1)) = n + 1
      /\ \A i \in 1 .. (n + 1) : Path(t, n + 1)[i] = Scope(t[i])
  BY <1>1, PathFacts
<1>4. Scope(x) \in ScopeOf
  BY DEF ScopeOf
<1> DEFINE u == Append(Path(s, n), Scope(x))
<1>5. n \in Nat
  BY <1>1
<1>6. u \in Seq(ScopeOf) /\ Len(u) = n + 1 /\ u[n + 1] = Scope(x)
      /\ \A i \in 1 .. n : u[i] = Scope(s[i])
  BY <1>2, <1>4, AppendProperties
<1> HIDE DEF u
<1>7. \A i \in 1 .. (n + 1) : u[i] = Path(t, n + 1)[i]
  BY <1>1, <1>3, <1>6
<1>8. u = Path(t, n + 1)
  BY <1>1, <1>3, <1>6, <1>7, SeqEqual
<1> QED
  BY <1>1, <1>8 DEF u, t, n

LEMMA PathSub ==
  ASSUME NEW s \in Seq(Frame), NEW n \in 0 .. Len(s), NEW m \in 0 .. n
  PROVE  SubSeq(Path(s, n), 1, m) = Path(s, m)
<1>1. Path(s, n) \in Seq(ScopeOf) /\ Len(Path(s, n)) = n
      /\ \A i \in 1 .. n : Path(s, n)[i] = Scope(s[i])
  BY PathFacts
<1>2. Path(s, m) \in Seq(ScopeOf) /\ Len(Path(s, m)) = m
      /\ \A i \in 1 .. m : Path(s, m)[i] = Scope(s[i])
  BY PathFacts
<1> DEFINE u == SubSeq(Path(s, n), 1, m)
<1>3. u \in Seq(ScopeOf) /\ Len(u) = m /\ \A i \in 1 .. m : u[i] = Path(s, n)[i]
  BY <1>1, SubSeqProperties
<1> HIDE DEF u
<1>4. u = Path(s, m)
  BY <1>1, <1>2, <1>3, SeqEqual
<1> QED
  BY <1>4 DEF u

\* There is one innermost frame that looks at a jump.
LEMMA OneCatches ==
  ASSUME NEW s, NEW n \in Nat, NEW c, CatchesAt(s, n, c), NEW d, CatchesAt(s, n, d)
  PROVE  c = d
  BY DEF CatchesAt

LEMMA CatcherIs ==
  ASSUME NEW c, CatchesAt(stack, Height, c), Height \in Nat
  PROVE  Catcher = c
<1>1. Catcher = CHOOSE i \in 1 .. Height : CatchesAt(stack, Height, i)
  BY DEF Catcher, CatchesAt
<1>2. c \in 1 .. Height
  BY DEF CatchesAt
<1>3. CatchesAt(stack, Height, Catcher)
  BY <1>1, <1>2
<1> QED
  BY <1>3, OneCatches

LEMMA CatcherIsThen ==
  ASSUME NEW c, CatchesAt(stack', Height', c), Height' \in Nat
  PROVE  Catcher' = c
<1>1. Catcher' = CHOOSE i \in 1 .. Height' : CatchesAt(stack', Height', i)
  BY DEF Catcher, CatchesAt
<1>2. c \in 1 .. Height'
  BY DEF CatchesAt
<1>3. CatchesAt(stack', Height', Catcher')
  BY <1>1, <1>2
<1> QED
  BY <1>3, OneCatches

-----------------------------------------------------------------------------
(* What else the refinement needs of a state: main's frame is at the       *)
(* bottom of the stack while anything runs, so that a jump is always       *)
(* looked at by some frame.                                                *)
RInv == /\ flow = "Idle" => stack = <<>>
        /\ flow \in {"Eval", "Break", "Continue"} => stack # <<>>
        /\ stack # <<>> => stack[1].kind = "call"
        /\ \A n \in 1 .. Height : \E c \in 1 .. n : CatchesAt(stack, n, c)

AppendShape == \E b, x : /\ Base(b) /\ x \in Frame /\ stack' = Append(b, x)
                         /\ x.kind = "call" \/ b # <<>>

\* The shapes of a step, as far as the stack is concerned.
LEMMA StackShapes ==
  ASSUME TypeOK, RInv, Next
  PROVE  stack' = stack \/ (stack # <<>> /\ stack' = Popped) \/ AppendShape
<1>1. stack \in Seq(Frame) /\ unconstrained \in BOOLEAN
  BY DEF TypeOK
<1>2. ASSUME NEW k \in ExprKind, NEW b, Base(b), b # <<>>, stack' = Append(b, ExprFrame(k))
      PROVE  AppendShape
  BY <1>1, <1>2, FramesBuilt DEF AppendShape
<1>3. TopIsExpr => Popped # <<>>
  <2> SUFFICES ASSUME TopIsExpr, Popped = <<>> PROVE FALSE
    OBVIOUS
  <2>1. Height = 1 /\ Top = stack[1]
    BY <1>1, PoppedFacts DEF TopIsExpr, Top
  <2> QED
    BY <2>1 DEF TopIsExpr, RInv, ExprKind
<1>4. CanNest => stack # <<>>
  BY DEF CanNest, Height
<1>5. CASE PureShape
  <2>1. Base(stack) /\ (TopIsExpr => Base(Popped) /\ stack # <<>>)
    BY DEF Base, TopIsExpr
  <2>2. CASE \E k \in ExprKind : TopIsExpr /\ stack' = Append(Popped, ExprFrame(k))
    BY <1>2, <1>3, <2>1, <2>2
  <2>3. CASE \E k \in ExprKind : CanNest /\ stack' = Append(stack, ExprFrame(k))
    BY <1>2, <1>4, <2>1, <2>3
  <2> QED
    BY <1>5, <2>1, <2>2, <2>3 DEF PureShape
<1>6. CASE EnterShape
  <2>0. PICK f \in Function : \E b : Base(b) /\ EnterBody(f, b)
    BY <1>6 DEF EnterShape
  <2>1. PICK b : Base(b) /\ stack' = Append(b, CallFrame(f))
    BY <2>0 DEF EnterBody, Resume
  <2>2. CallFrame(f) \in Frame /\ CallFrame(f).kind = "call"
    BY <1>1, FramesBuilt DEF CallFrame
  <2> QED
    BY <2>1, <2>2 DEF AppendShape
<1>7. ASSUME NEW g \in Global, FirstReference(g) PROVE AppendShape
  <2>1. stack # <<>> /\ stack' = Append(stack, GlobalFrame(g)) /\ Base(stack)
    BY <1>7 DEF FirstReference, Evaluating, OnTop, Resume, Base
  <2> QED
    BY <1>1, <2>1, FramesBuilt DEF AppendShape
<1>8. CASE LeaveBody \/ GlobalDone \/ GlobalFails
  BY <1>8 DEF LeaveBody, GlobalDone, GlobalFails, Returned, OnTop, Resume
<1> QED
  BY <1>5, <1>6, <1>7, <1>8, StepShapes

\* A part of the stack that a step leaves alone has the same catcher.
LEMMA KeptCatcher ==
  ASSUME NEW s, NEW t, NEW n \in Nat, \A i \in 1 .. n : s[i] = t[i],
         \E c \in 1 .. n : CatchesAt(s, n, c)
  PROVE  \E c \in 1 .. n : CatchesAt(t, n, c)
<1>1. PICK c \in 1 .. n : CatchesAt(s, n, c)
  OBVIOUS
<1>2. CatchesAt(t, n, c)
  BY <1>1 DEF CatchesAt
<1> QED
  BY <1>2

\* What a step leaves in flow, and that it never hands a jump or an
\* expression to an empty stack.
LEMMA FlowShape ==
  ASSUME TypeOK, RInv, Next
  PROVE  /\ flow' # "Idle"
         /\ flow' \in {"Eval", "Break", "Continue"} => stack' # <<>>
<1> USE DEF Resume, Result, Error
<1>1. stack \in Seq(Frame) /\ unconstrained \in BOOLEAN
  BY DEF TypeOK
<1>2. ASSUME NEW b, Base(b), NEW x \in Frame, stack' = Append(b, x) PROVE stack' # <<>>
  <2>1. b \in Seq(Frame)
    BY <1>1, <1>2, BaseFacts
  <2> QED
    BY <1>2, <2>1, AppendProperties
<1>3. /\ \A k \in ExprKind : ExprFrame(k) \in Frame
      /\ \A f \in Function : CallFrame(f) \in Frame
      /\ \A g \in Global : GlobalFrame(g) \in Frame
  BY <1>1, FramesBuilt
<1>4. ASSUME NEW f \in Function, NEW b, Base(b), CallFunction(f, b)
      PROVE  flow' # "Idle" /\ (flow' \in {"Eval", "Break", "Continue"} => stack' # <<>>)
  BY <1>2, <1>3, <1>4 DEF CallFunction, TooDeep, Malformed, EnterBody
<1>5. Base(stack) /\ (OnTop({"value"}) => Base(Popped)) /\ (OnTop({"cond"}) => Base(Popped))
      /\ (OnTop({"body"}) => Base(Popped))
  BY DEF Base, TopIsExpr, OnTop, ExprKind
<1>6. CASE RejectInput \/ RunMain
  BY <1>4, <1>5, <1>6, ProgramAssumption DEF RejectInput, RunMain
<1>7. CASE Enter
  <2> USE DEF Evaluating, OnTop
  <2>1. CASE EvalLeaf \/ EvalJump
    BY <2>1 DEF EvalLeaf, EvalJump
  <2>2. CASE EvalInner
    BY <1>2, <1>3, <1>5, <2>2 DEF EvalInner, ExprKind
  <2>3. ASSUME NEW f \in Function, EvalCall(f)
        PROVE  flow' # "Idle" /\ (flow' \in {"Eval", "Break", "Continue"} => stack' # <<>>)
    BY <1>4, <1>5, <2>3 DEF EvalCall
  <2>4. ASSUME NEW g \in Global, CachedGlobal(g) \/ CyclicGlobal(g) \/ FirstReference(g)
        PROVE  flow' # "Idle" /\ (flow' \in {"Eval", "Break", "Continue"} => stack' # <<>>)
    BY <1>2, <1>3, <1>5, <2>4 DEF CachedGlobal, CyclicGlobal, FirstReference
  <2> QED
    BY <1>7, <2>1, <2>2, <2>3, <2>4 DEF Enter
<1>8. CASE Operand
  <2> USE DEF Returned
  <2>1. CASE NextOperand \/ OperatorReturns \/ OperatorFails \/ StrayJump
    BY <2>1 DEF NextOperand, OperatorReturns, OperatorFails, StrayJump, OnTop
  <2>2. CASE TakeBranch \/ RenderMessage
    BY <1>2, <1>3, <1>5, <2>2 DEF TakeBranch, RenderMessage, ExprKind
  <2>3. ASSUME NEW f \in Function, CallWithArguments(f)
        PROVE  flow' # "Idle" /\ (flow' \in {"Eval", "Break", "Continue"} => stack' # <<>>)
    BY <1>4, <1>5, <2>3 DEF CallWithArguments
  <2> QED
    BY <1>8, <2>1, <2>2, <2>3 DEF Operand
<1>9. CASE Statement
  <2> USE DEF Returned
  <2>1. CASE NextStatement \/ StatementDone \/ BreakLoop \/ NextIteration
             \/ RangeExhausted \/ WhileEnds
    BY <2>1 DEF NextStatement, StatementDone, BreakLoop, NextIteration, RangeExhausted,
                WhileEnds, OnTop
  <2>2. CASE WhileTrue \/ WhileAgain
    BY <1>2, <1>3, <1>5, <2>2 DEF WhileTrue, WhileAgain, ExprKind
  <2>3. CASE PassJump
    <3>1. stack # <<>> /\ stack' = Popped /\ Top.kind \in TransparentKind /\ flow' = flow
          /\ flow # "Idle"
      BY <2>3 DEF PassJump, OnTop
    <3>2. Height # 1
      BY <3>1 DEF RInv, Top, TransparentKind
    <3>3. Len(stack') # 0
      BY <1>1, <3>1, <3>2, PoppedFacts
    <3> QED
      BY <3>1, <3>3
  <2> QED
    BY <1>9, <2>1, <2>2, <2>3 DEF Statement
<1>10. CASE Leave
  BY <1>10 DEF Leave, LeaveBody, GlobalDone, GlobalFails, MessageDone, PassError, Returned, OnTop
<1> QED
  BY <1>6, <1>7, <1>8, <1>9, <1>10 DEF Next

LEMMA InitRInv == Init => RInv
<1> SUFFICES ASSUME Init PROVE RInv
  OBVIOUS
<1>1. Height = 0
  BY DEF Init, Height
<1> QED
  BY <1>1 DEF Init, RInv

\* A frame that looks at jumps is its own catcher; one that does not has
\* that of the frame below it.
LEMMA NextRInv == IInv /\ RInv /\ [Next]_vars => RInv'
<1> SUFFICES ASSUME IInv, RInv, [Next]_vars PROVE RInv'
  OBVIOUS
<1>1. TypeOK /\ stack \in Seq(Frame) /\ Height \in Nat
  BY DEF IInv, TypeOK, Height
<1> DEFINE Below(s, n) == \E c \in 1 .. n : CatchesAt(s, n, c)
           Main1(s) == s # <<>> => s[1].kind = "call"
<1>2. CASE UNCHANGED vars
  BY <1>2 DEF vars, RInv, Height
<1>3. CASE Next
  <2>1. /\ flow' # "Idle"
        /\ flow' \in {"Eval", "Break", "Continue"} => stack' # <<>>
    BY <1>1, <1>3, FlowShape
  <2>2. ASSUME NEW n \in 1 .. Height, NEW t, \A i \in 1 .. n : t[i] = stack[i]
        PROVE  Below(t, n)
    <3>1. Below(stack, n) /\ n \in Nat
      BY DEF RInv
    <3> QED
      BY <2>2, <3>1, KeptCatcher
  <2>3. Main1(stack') /\ \A n \in 1 .. Height' : Below(stack', n)
    <3>1. CASE stack' = stack
      BY <3>1 DEF RInv, Height
    <3>2. CASE stack # <<>> /\ stack' = Popped
      <4>1. /\ Height' = Height - 1 /\ Height \in Nat \ {0}
            /\ \A i \in 1 .. Height' : stack'[i] = stack[i]
        BY <1>1, <3>2, DropFacts
      <4>2. Main1(stack')
        <5> SUFFICES ASSUME stack' # <<>> PROVE stack'[1].kind = "call"
          OBVIOUS
        <5>1. Height' # 0
          <6>1. stack' \in Seq(Frame) /\ Height' = Len(stack')
            BY <1>1, <3>2, PoppedFacts DEF Height
          <6> QED
            BY <6>1, EmptySeq
        <5> QED
          BY <3>2, <4>1, <5>1 DEF RInv
      <4>3. ASSUME NEW n \in 1 .. Height' PROVE Below(stack', n)
        BY <2>2, <4>1, <4>3
      <4> QED
        BY <4>2, <4>3
    <3>3. CASE AppendShape
      <4>1. PICK b, x : /\ Base(b) /\ x \in Frame /\ stack' = Append(b, x)
                        /\ x.kind = "call" \/ b # <<>>
        BY <3>3 DEF AppendShape
      <4>2. /\ Height' = Len(b) + 1 /\ Len(b) \in Nat /\ Len(b) <= Height
            /\ \A i \in 1 .. Len(b) : stack'[i] = stack[i]
            /\ stack'[Height'] = x /\ b \in Seq(Frame)
        BY <1>1, <4>1, AppendFacts, BaseFacts
      <4>3. b # <<>> => Len(b) # 0
        BY <4>2
      <4>4. Main1(stack')
        <5>1. CASE Len(b) = 0
          BY <4>1, <4>2, <4>3, <5>1
        <5>2. CASE Len(b) # 0
          <6>1. stack'[1] = stack[1] /\ stack # <<>>
            BY <4>2, <5>2 DEF Height
          <6> QED
            BY <6>1 DEF RInv
        <5> QED
          BY <5>1, <5>2
      <4>5. ASSUME NEW n \in 1 .. Len(b) PROVE Below(stack', n)
        <5>1. n \in 1 .. Height /\ \A i \in 1 .. n : stack'[i] = stack[i]
          BY <1>1, <4>2, <4>5
        <5> HIDE DEF Below
        <5> QED
          BY <2>2, <5>1
      <4>6. Below(stack', Height')
        <5>1. CASE x.kind \notin TransparentKind
          <6>1. CatchesAt(stack', Height', Height') /\ Height' \in 1 .. Height'
            BY <4>2, <5>1 DEF CatchesAt
          <6> QED
            BY <6>1
        <5>2. CASE x.kind \in TransparentKind
          <6>1. Len(b) \in 1 .. Len(b)
            BY <4>1, <4>2, <4>3, <5>2 DEF TransparentKind
          <6>2. PICK c \in 1 .. Len(b) : CatchesAt(stack', Len(b), c)
            BY <4>5, <6>1
          <6>3. CatchesAt(stack', Height', c) /\ c \in 1 .. Height'
            BY <4>2, <5>2, <6>2 DEF CatchesAt
          <6> QED
            BY <6>3
        <5> QED
          BY <5>1, <5>2
      <4>7. \A n \in 1 .. Height' : n \in 1 .. Len(b) \/ n = Height'
        BY <4>2
      <4> QED
        BY <4>4, <4>5, <4>6, <4>7
    <3> QED
      BY <1>1, <1>3, <3>1, <3>2, <3>3, StackShapes
  <2> QED
    BY <2>1, <2>3 DEF RInv
<1> QED
  BY <1>2, <1>3

LEMMA AlwaysRInv == Spec => [](IInv /\ RInv)
  BY InitIInv, NextIInv, InitRInv, NextRInv, PTL DEF Spec

-----------------------------------------------------------------------------
(* The mapped state.                                                       *)

\* The first n frames include every open call.
Keeps(n) == n \in 0 .. Height /\ \A i \in (n + 1) .. Height : stack[i].kind # "call"

\* The calls among the scopes are those on the stack.
LEMMA PathCalls ==
  ASSUME stack \in Seq(Frame), NEW n, Keeps(n)
  PROVE  CF!CallsIn(Path(stack, n)) = CallFrames
<1>1. Height \in Nat /\ n \in 0 .. Len(stack)
  BY DEF Keeps, Height
<1>2. /\ Len(Path(stack, n)) = n
      /\ \A i \in 1 .. n : Path(stack, n)[i].kind = stack[i].kind
  BY <1>1, PathFacts
<1>3. CF!CallsIn(Path(stack, n)) = {i \in 1 .. n : stack[i].kind = "call"}
  BY <1>2 DEF CF!CallsIn, CF!IsCall
<1>4. \A i : i \in 1 .. n /\ stack[i].kind = "call"
               <=> i \in 1 .. Height /\ stack[i].kind = "call"
  BY <1>1 DEF Keeps
<1> QED
  BY <1>3, <1>4 DEF CallFrames

\* The runtime of the innermost open call is that of the scopes.
LEMMA PathRuntime ==
  ASSUME IInv, NEW n, Keeps(n)
  PROVE  unconstrained = CF!RuntimeOf(Path(stack, n))
<1>1. stack \in Seq(Frame) /\ Height \in Nat /\ RuntimeAt(Height, unconstrained)
      /\ unconstrained \in BOOLEAN
  BY DEF IInv, TypeOK, Height, FlagOfCurrentFunction
<1> DEFINE P == Path(stack, n)
<1>2. CF!CallsIn(P) = CallFrames /\ \A i \in CallFrames : i \in 1 .. n
  BY <1>1, PathCalls DEF Keeps, CallFrames
<1>3. \A i \in CallFrames : P[i].fn = stack[i].fn
  <2> SUFFICES ASSUME NEW i \in CallFrames PROVE P[i].fn = stack[i].fn
    OBVIOUS
  <2>1. n \in 0 .. Len(stack) /\ i \in 1 .. n /\ stack[i].kind = "call"
    BY <1>2 DEF Keeps, CallFrames, Height
  <2>2. P[i] = Scope(stack[i]) /\ stack[i] \in Frame
    BY <1>1, <2>1, PathFacts
  <2> QED
    BY <2>1, <2>2, ScopeFacts
<1> HIDE DEF P
<1>4. CF!RuntimeOf(P) <=> \E i \in CallFrames : stack[i].fn \in Unconstrained
                                             /\ \A j \in CallFrames : j <= i
  BY <1>2, <1>3 DEF CF!RuntimeOf
<1>5. CASE unconstrained = FALSE /\ \A j \in 1 .. Height : stack[j].kind # "call"
  <2>1. CallFrames = {}
    BY <1>5 DEF CallFrames
  <2>2. CF!RuntimeOf(P) = FALSE
    BY <1>4, <2>1 DEF CF!RuntimeOf
  <2> QED
    BY <1>5, <2>2 DEF P
<1>6. ASSUME NEW i \in 1 .. Height, stack[i].kind = "call",
             unconstrained = (stack[i].fn \in Unconstrained),
             \A j \in (i + 1) .. Height : stack[j].kind # "call"
      PROVE  unconstrained = CF!RuntimeOf(P)
  <2>1. i \in CallFrames /\ \A j \in CallFrames : j <= i /\ j \in Nat
    BY <1>1, <1>6 DEF CallFrames
  <2>2. CF!RuntimeOf(P) <=> stack[i].fn \in Unconstrained
    BY <1>4, <2>1
  <2>3. CF!RuntimeOf(P) \in BOOLEAN
    BY DEF CF!RuntimeOf
  <2> QED
    BY <1>6, <2>2, <2>3
<1> QED
  BY <1>1, <1>5, <1>6 DEF RuntimeAt, P

\* A jump that is not doomed has a loop to go to.
LEMMA LoopCatches ==
  ASSUME IInv, RInv, JumpsToLoop
  PROVE  /\ CatchesAt(stack, Height, Catcher) /\ stack[Catcher].kind \in LoopKind
         /\ Catcher \in 2 .. Height /\ flow \in {"Break", "Continue"}
<1>1. stack \in Seq(Frame) /\ stack # <<>> /\ Height \in Nat
  BY DEF IInv, TypeOK, Height, JumpsToLoop, Jumping
<1>2. Height \in 1 .. Height
  BY <1>1, PoppedFacts
<1>3. PICK c \in 1 .. Height : CatchesAt(stack, Height, c)
  BY <1>2 DEF RInv
<1>4. Catcher = c
  BY <1>1, <1>3, CatcherIs
<1>5. stack[c].kind \in LoopKind /\ flow \in {"Break", "Continue"}
  BY <1>4 DEF JumpsToLoop, Jumping
<1>6. c # 1
  BY <1>1, <1>5 DEF RInv, LoopKind
<1> QED
  BY <1>1, <1>3, <1>4, <1>5, <1>6

\* The scopes are a part of the stack with every call in it.
LEMMA ScopesAre ==
  ASSUME IInv, RInv, ~Doomed
  PROVE  \E n : Keeps(n) /\ absScopes = Path(stack, n) /\ (stack # <<>> => n # 0)
<1>1. stack \in Seq(Frame) /\ Height \in Nat /\ (stack # <<>> => Height # 0)
  BY PoppedFacts DEF IInv, TypeOK, Height
<1>2. CASE ~JumpsToLoop
  <2>1. Keeps(Height) /\ absScopes = Path(stack, Height)
    BY <1>1, <1>2 DEF Keeps, absScopes, ScopesTo, Path
  <2> QED
    BY <1>1, <2>1
<1>3. CASE JumpsToLoop
  <2>1. /\ CatchesAt(stack, Height, Catcher) /\ stack[Catcher].kind \in LoopKind
        /\ Catcher \in 2 .. Height /\ flow \in {"Break", "Continue"}
    BY <1>3, LoopCatches
  <2> DEFINE n == IF flow = "Break" THEN Catcher - 1 ELSE Catcher
  <2>2. absScopes = Path(stack, n)
    BY <1>3 DEF absScopes, ScopesTo, Path
  <2>3. /\ n \in 1 .. Height
        /\ \A i \in (n + 1) .. Height : i = Catcher \/ i \in (Catcher + 1) .. Height
    BY <1>1, <2>1
  <2>4. Keeps(n) /\ n # 0
    BY <1>1, <2>1, <2>3 DEF Keeps, CatchesAt, LoopKind, TransparentKind
  <2> QED
    BY <2>2, <2>4
<1> QED
  BY <1>2, <1>3

\* What runs next runs under its own function's runtime, and the run is over
\* when nothing is open.
Coherent ==
  ~Doomed => /\ absUnconstrained = CF!RuntimeOf(absScopes)
             /\ flow # "Idle" => absOutcome = IF absScopes = <<>> THEN "Normal" ELSE "Running"

LEMMA StateCoherent == IInv /\ RInv => Coherent
<1> SUFFICES ASSUME IInv, RInv, ~Doomed
             PROVE  /\ absUnconstrained = CF!RuntimeOf(absScopes)
                    /\ flow # "Idle" => absOutcome = IF absScopes = <<>> THEN "Normal"
                                                     ELSE "Running"
  BY DEF Coherent
<1>1. PICK n : Keeps(n) /\ absScopes = Path(stack, n) /\ (stack # <<>> => n # 0)
  BY ScopesAre
<1>2. absUnconstrained = unconstrained
  BY DEF absUnconstrained
<1>3. absUnconstrained = CF!RuntimeOf(absScopes)
  BY <1>1, <1>2, PathRuntime
<1>4. absScopes = <<>> <=> stack = <<>>
  <2>1. stack \in Seq(Frame) /\ n \in 0 .. Len(stack) /\ (stack = <<>> => n = 0)
    BY <1>1 DEF IInv, TypeOK, Keeps, Height
  <2>2. absScopes \in Seq(ScopeOf) /\ Len(absScopes) = n
    BY <1>1, <2>1, PathFacts
  <2> QED
    BY <1>1, <2>1, <2>2, EmptySeq
<1>5. flow # "Idle" => absOutcome = IF stack = <<>> THEN "Normal" ELSE "Running"
  BY DEF absOutcome
<1> QED
  BY <1>3, <1>4, <1>5

-----------------------------------------------------------------------------
(* How the steps that matter look through the mapping.                     *)

Completed == {g \in Global : globals[g] = "Done"}

\* While nothing unwinds, the scopes are the stack.
LEMMA Running ==
  ASSUME flow \in {"Eval", "Normal"}, stack # <<>>
  PROVE  /\ ~Doomed /\ absScopes = Path(stack, Height)
         /\ absOutcome = "Running" /\ absUnconstrained = unconstrained
  BY DEF Doomed, Jumping, JumpsToLoop, absScopes, absOutcome, absUnconstrained, Error,
         ScopesTo, Path

LEMMA RunsOn ==
  ASSUME flow' \in {"Eval", "Normal"}
  PROVE  ~Doomed' /\ absScopes' = Path(stack', Height') /\ flow' # "Idle"
  BY DEF Doomed, Jumping, JumpsToLoop, absScopes, Error, ScopesTo, Path

\* A step that leaves the evaluator running shows as a move.
LEMMA Moves ==
  ASSUME Coherent', flow' \in {"Eval", "Normal"}
  PROVE  CF!Move(Path(stack', Height'))
  BY RunsOn DEF Coherent, CF!Move

\* An error is what is left once it is on its way.
LEMMA Ends ==
  ASSUME flow' \in Error
  PROVE  /\ absScopes' = <<>> /\ absUnconstrained' = FALSE
         /\ absOutcome' = IF Rendering' THEN "AssertionFailed" ELSE flow'
  BY DEF Doomed, absScopes, absOutcome, absUnconstrained, Raised, Error

\* The innermost scope, and the scopes without it.
LEMMA TopScope ==
  ASSUME stack \in Seq(Frame), stack # <<>>
  PROVE  /\ CF!Last(Path(stack, Height)) = Scope(Top)
         /\ CF!Last(Path(stack, Height)).kind = Top.kind
         /\ CF!Dropped(Path(stack, Height)) = Path(stack, Height - 1)
         /\ Path(Popped, Height - 1) = Path(stack, Height - 1)
<1>1. /\ Height \in Nat \ {0} /\ Height = Len(stack)
      /\ \A i \in 1 .. (Height - 1) : Popped[i] = stack[i]
  BY PoppedFacts DEF Height
<1>2. /\ Len(Path(stack, Height)) = Height
      /\ Path(stack, Height)[Height] = Scope(stack[Height])
      /\ Path(stack, Height)[Height].kind = stack[Height].kind
  BY <1>1, PathFacts
<1>3. SubSeq(Path(stack, Height), 1, Height - 1) = Path(stack, Height - 1)
  <2>1. Height \in 0 .. Len(stack) /\ Height - 1 \in 0 .. Height
    BY <1>1
  <2> QED
    BY <2>1, PathSub
<1>4. Path(Popped, Height - 1) = Path(stack, Height - 1)
  BY <1>1, PathAgrees
<1> QED
  BY <1>2, <1>3, <1>4 DEF CF!Last, CF!Dropped, Top

\* A frame appended to a base is a scope appended to the base's scopes.
LEMMA Grows ==
  ASSUME stack \in Seq(Frame), NEW b, Base(b), NEW x \in Frame, stack' = Append(b, x)
  PROVE  /\ Path(stack', Height') = Append(Path(stack, Len(b)), Scope(x))
         /\ Keeps(Len(b))
         /\ b = stack => Len(b) = Height
         /\ b # stack => TopIsExpr /\ Path(stack, Len(b)) = CF!Dropped(Path(stack, Height))
<1>1. /\ b \in Seq(Frame) /\ Len(b) \in Nat /\ Height \in Nat /\ Len(b) <= Height
      /\ \A i \in 1 .. Len(b) : b[i] = stack[i]
      /\ \A i \in (Len(b) + 1) .. Height : stack[i].kind \in ExprKind
      /\ Height' = Len(b) + 1
  BY BaseFacts, AppendFacts
<1>2. Path(stack', Height') = Append(Path(b, Len(b)), Scope(x))
  BY <1>1, PathAppend
<1>3. Path(b, Len(b)) = Path(stack, Len(b))
  BY <1>1, PathAgrees
<1>4. Keeps(Len(b))
  BY <1>1 DEF Keeps, ExprKind
<1>5. b # stack => TopIsExpr /\ Path(stack, Len(b)) = CF!Dropped(Path(stack, Height))
  BY TopScope, PoppedFacts DEF Base, TopIsExpr
<1> QED
  BY <1>2, <1>3, <1>4, <1>5 DEF Height

\* A message is being rendered as long as its frame is on the stack.
LEMMA SameRendering ==
  ASSUME stack \in Seq(Frame), stack # <<>>,
         stack' = stack \/ (stack' = Popped /\ Top.kind # "message")
  PROVE  Rendering' <=> Rendering
<1>1. CASE stack' = stack
  BY <1>1 DEF Rendering, Height
<1>2. CASE stack' = Popped /\ Top.kind # "message"
  <2>1. /\ Height \in Nat \ {0} /\ Height' = Height - 1
        /\ \A i \in 1 .. Height' : stack'[i] = stack[i]
    BY <1>2, DropFacts
  <2>2. \A i \in 1 .. Height : i \in 1 .. Height' \/ i = Height
    BY <2>1
  <2>3. \A i \in 1 .. Height' : i \in 1 .. Height
    BY <2>1
  <2>4. stack[Height].kind # "message"
    BY <1>2 DEF Top
  <2> QED
    BY <2>1, <2>2, <2>3, <2>4 DEF Rendering
<1> QED
  BY <1>1, <1>2

LEMMA RenderingScopes ==
  ASSUME stack \in Seq(Frame)
  PROVE  Rendering <=> \E i \in 1 .. Len(Path(stack, Height)) :
                          CF!IsMessage(Path(stack, Height)[i])
<1>1. Height \in 0 .. Len(stack)
  BY DEF Height
<1>2. /\ Len(Path(stack, Height)) = Height
      /\ \A i \in 1 .. Height : Path(stack, Height)[i].kind = stack[i].kind
  BY <1>1, PathFacts
<1> QED
  BY <1>2 DEF Rendering, CF!IsMessage

\* An error that arises while the evaluator runs ends the run at once.
LEMMA Fails ==
  ASSUME IInv, flow \in {"Eval", "Normal"}, stack # <<>>, flow' \in Error, globals' = globals,
         stack' = stack \/ (stack' = Popped /\ Top.kind # "message")
  PROVE  CF!Next
<1>1. stack \in Seq(Frame)
  BY DEF IInv, TypeOK
<1>2. absScopes = Path(stack, Height) /\ absOutcome = "Running"
  BY Running
<1>3. Rendering' <=> \E i \in 1 .. Len(absScopes) : CF!IsMessage(absScopes[i])
  BY <1>1, <1>2, SameRendering, RenderingScopes
<1>4. CF!Raise(flow')
  BY <1>3, Ends DEF CF!Raise
<1>5. flow' \in CF!Error
  BY DEF Error, CF!Error
<1> QED
  BY <1>2, <1>4, <1>5 DEF CF!Next, CF!Fail

\* While a run that is going to fail unwinds, nothing more is seen of it.
LEMMA Unwinds ==
  ASSUME Doomed, Doomed', absOutcome' = absOutcome, Completed' = Completed
  PROVE  UNCHANGED CF!vars
  BY DEF CF!vars, Completed, absScopes, absUnconstrained

\* A step from one expression to the next within the same frame.
LEMMA Stays ==
  ASSUME flow \in {"Eval", "Normal"}, flow' \in {"Eval", "Normal"}, stack # <<>>,
         stack' = stack, Pure
  PROVE  UNCHANGED CF!vars
<1>1. /\ ~Doomed /\ absScopes = Path(stack, Height)
      /\ absOutcome = "Running" /\ absUnconstrained = unconstrained
  BY Running
<1>2. ~Doomed' /\ absScopes' = Path(stack', Height') /\ flow' # "Idle"
  BY RunsOn
<1>3. absScopes' = absScopes /\ absUnconstrained' = absUnconstrained
  BY <1>1, <1>2 DEF Height, absUnconstrained, Pure
<1>4. absOutcome' = "Running"
  BY <1>2 DEF absOutcome
<1> QED
  BY <1>1, <1>3, <1>4 DEF CF!vars, Pure

-----------------------------------------------------------------------------
(* Each step of the evaluator is a step of ControlFlow or none.            *)

\* The number of elements is the same operator on both sides.
LEMMA SameCardinality == ASSUME NEW S PROVE CF!Cardinality(S) = Cardinality(S)
  BY DEF CF!Cardinality, Cardinality

LEMMA Invokes ==
  ASSUME IInv, NEW f, NEW base, CF!CallsIn(base) = CallFrames, call_depth < MaxCallDepth,
         CF!Move(Append(base, CF!Call(f))), Completed' = Completed
  PROVE  CF!Invoke(f, base)
<1>1. call_depth = Cardinality(CallFrames)
  BY DEF IInv, DepthCountsCalls
<1>2. CF!Cardinality(CF!CallsIn(base)) < MaxCallDepth
  BY <1>1, SameCardinality
<1> QED
  BY <1>2 DEF CF!Invoke, Completed

\* A run starts with main or is refused; main is never one call too many.
LEMMA Starts ==
  ASSUME IInv, RInv, Coherent', RejectInput \/ RunMain
  PROVE  CF!Next
<1>1. flow = "Idle" /\ stack = <<>> /\ Height = 0 /\ Base(stack) /\ stack \in Seq(Frame)
      /\ unconstrained \in BOOLEAN
  BY DEF RejectInput, RunMain, RInv, Height, Base, IInv, TypeOK
<1>2. absOutcome = "Idle" /\ absScopes = <<>>
  BY <1>1 DEF absOutcome, absScopes, Doomed, Jumping, JumpsToLoop, ScopesTo, Error
<1>3. call_depth = 0
  <2>1. CallFrames = {}
    BY <1>1 DEF CallFrames
  <2> QED
    BY <2>1, FS_EmptySet DEF IInv, DepthCountsCalls
<1>4. CASE flow' \in {"InvalidInput", "Internal"} /\ stack' = stack /\ globals' = globals
  <2>1. flow' \in Error /\ ~Rendering'
    BY <1>1, <1>4 DEF Error, Rendering, Height
  <2>2. CF!Raise(flow')
    BY <1>2, <1>4, <2>1, Ends DEF CF!Raise
  <2> QED
    BY <1>2, <1>4, <2>2 DEF CF!Next, CF!Start
<1>5. CASE EnterBody(Main, stack)
  <2>1. /\ stack' = Append(stack, CallFrame(Main)) /\ flow' = "Eval" /\ globals' = globals
        /\ CallFrame(Main) \in Frame
    BY <1>1, <1>5, FramesBuilt, ProgramAssumption DEF EnterBody, Resume
  <2>2. Path(stack', Height') = Append(Path(stack, Len(stack)), Scope(CallFrame(Main)))
        /\ Keeps(Len(stack))
    BY <1>1, <2>1, Grows
  <2>3. Path(stack, Len(stack)) = <<>>
    BY <1>1 DEF Path, Height
  <2>4. Scope(CallFrame(Main)) = CF!Call(Main)
    BY DEF Scope, CallFrame, CF!Call
  <2>5. CF!Move(Append(<<>>, CF!Call(Main)))
    BY <2>1, <2>2, <2>3, <2>4, Moves
  <2>6. CF!CallsIn(<<>>) = CallFrames
    BY <1>1, <2>2, <2>3, PathCalls
  <2>7. call_depth < MaxCallDepth /\ Completed' = Completed
    BY <1>3, <2>1, LimitAssumption DEF Completed
  <2>8. CF!Invoke(Main, <<>>)
    BY <2>5, <2>6, <2>7, Invokes
  <2> QED
    BY <1>2, <2>8 DEF CF!Next, CF!Start
<1>6. ~TooDeep(stack)
  BY <1>3, LimitAssumption DEF TooDeep
<1> QED
  BY <1>4, <1>5, <1>6 DEF RejectInput, RunMain, CallFunction, Malformed, Resume, Pure

\* A call runs below the limit or ends the run.
LEMMA Calls ==
  ASSUME IInv, Coherent', flow \in {"Eval", "Normal"}, stack # <<>>,
         NEW f \in Function, NEW b, b = stack \/ (b = Popped /\ Top.kind = "value"),
         CallFunction(f, b)
  PROVE  CF!Next
<1>1. stack \in Seq(Frame) /\ unconstrained \in BOOLEAN
  BY DEF IInv, TypeOK
<1>2. absScopes = Path(stack, Height) /\ absOutcome = "Running"
  BY Running
<1>3. CASE TooDeep(b) \/ Malformed(b)
  <2>1. flow' \in Error /\ globals' = globals /\ stack' = b
    BY <1>3 DEF TooDeep, Malformed, Resume, Pure, Error
  <2> QED
    BY <2>1, Fails
<1>4. CASE EnterBody(f, b)
  <2>1. /\ Base(b) /\ CallFrame(f) \in Frame /\ stack' = Append(b, CallFrame(f))
        /\ flow' = "Eval" /\ globals' = globals /\ call_depth < MaxCallDepth
    BY <1>1, <1>4, FramesBuilt DEF EnterBody, Resume, Base, TopIsExpr, ExprKind
  <2> DEFINE base == Path(stack, Len(b))
  <2>2. /\ Path(stack', Height') = Append(base, Scope(CallFrame(f)))
        /\ Keeps(Len(b))
        /\ b = stack => Len(b) = Height
        /\ b # stack => TopIsExpr /\ base = CF!Dropped(Path(stack, Height))
    BY <1>1, <2>1, Grows
  <2>3. Scope(CallFrame(f)) = CF!Call(f)
    BY DEF Scope, CallFrame, CF!Call
  <2>4. CF!Move(Append(base, CF!Call(f)))
    BY <2>1, <2>2, <2>3, Moves
  <2>5. CF!CallsIn(base) = CallFrames /\ Completed' = Completed
    BY <1>1, <2>1, <2>2, PathCalls DEF Completed
  <2>6. base \in CF!Bases
    <3>1. b # stack => CF!Last(absScopes).kind = "value"
      BY <1>1, <1>2, TopScope
    <3> QED
      BY <1>2, <2>2, <3>1 DEF CF!Bases
  <2> HIDE DEF base
  <2> QED
    BY <1>2, <2>1, <2>4, <2>5, <2>6, Invokes DEF CF!Next, CF!CallStep
<1> QED
  BY <1>3, <1>4 DEF CallFunction

\* The innermost frame is done and hands its result on.
LEMMA Returns ==
  ASSUME IInv, Coherent', stack # <<>>, stack' = Popped, flow' = "Normal",
         absScopes = Path(stack, Height), absOutcome = "Running",
         Top.kind \in {"value", "stmt", "for", "cond", "call", "global"},
         Completed' = Completed \cup {g \in Global : Top = GlobalFrame(g)}
  PROVE  CF!Next
<1>1. stack \in Seq(Frame)
  BY DEF IInv, TypeOK
<1>2. /\ CF!Last(absScopes) = Scope(Top) /\ CF!Last(absScopes).kind = Top.kind
      /\ CF!Dropped(absScopes) = Path(stack, Height - 1)
      /\ Path(Popped, Height - 1) = Path(stack, Height - 1)
  BY <1>1, TopScope
<1>3. Height' = Height - 1 /\ Top \in Frame
  BY <1>1, DropFacts
<1>4. CF!Move(CF!Dropped(absScopes))
  BY <1>2, <1>3, Moves
<1>5. \A g \in Global : CF!Last(absScopes) = CF!Initializer(g) <=> Top = GlobalFrame(g)
  <2> SUFFICES ASSUME NEW g \in Global
               PROVE  Scope(Top) = CF!Initializer(g) <=> Top = GlobalFrame(g)
    BY <1>2
  <2>1. CF!Initializer(g) = GlobalFrame(g) /\ GlobalFrame(g).kind = "global"
    BY DEF CF!Initializer, GlobalFrame
  <2>2. Top.kind # "call" => Scope(Top) = Top
    BY DEF Scope
  <2>3. Scope(Top).kind = Top.kind
    BY <1>3, ScopeFacts
  <2> QED
    BY <2>1, <2>2, <2>3
<1>6. CF!Return
  BY <1>2, <1>4, <1>5 DEF CF!Return, Completed
<1> QED
  BY <1>6 DEF CF!Next

\* The innermost frame is replaced by the one for what is evaluated next.
LEMMA Proceeds ==
  ASSUME IInv, Coherent', TopIsExpr, NEW k \in ExprKind, stack' = Append(Popped, ExprFrame(k)),
         flow' = "Eval", absScopes = Path(stack, Height), absOutcome = "Running",
         <<Top.kind, k>> \in CF!Continuation, Completed' = Completed
  PROVE  CF!Next
<1>1. stack \in Seq(Frame) /\ unconstrained \in BOOLEAN /\ stack # <<>> /\ Base(Popped)
      /\ Popped # stack
  BY PoppedFacts DEF IInv, TypeOK, TopIsExpr, Base, Height
<1>2. Scope(ExprFrame(k)) = CF!Expr(k)
  BY DEF Scope, ExprFrame, CF!Expr, ExprKind
<1>3. Path(stack', Height') = Append(CF!Dropped(absScopes), CF!Expr(k))
  BY <1>1, <1>2, Grows, FramesBuilt
<1>4. CF!Last(absScopes).kind = Top.kind
  BY <1>1, TopScope
<1>5. CF!Move(Append(CF!Dropped(absScopes), CF!Expr(k)))
  BY <1>3, Moves
<1>6. \E c \in CF!Continuation : /\ CF!Last(absScopes).kind = c[1]
                                 /\ CF!Move(Append(CF!Dropped(absScopes), CF!Expr(c[2])))
  BY <1>4, <1>5
<1> QED
  BY <1>6 DEF CF!Next, CF!Proceed, Completed

-----------------------------------------------------------------------------
(* Jumps.                                                                  *)

\* The frame that is handed a jump and looks at it is the catcher.
LEMMA TopCatches ==
  ASSUME IInv, stack # <<>>, Top.kind \notin TransparentKind
  PROVE  Catcher = Height
<1>1. Height \in Nat /\ Height \in 1 .. Height
  BY PoppedFacts DEF IInv, TypeOK
<1>2. CatchesAt(stack, Height, Height)
  BY <1>1 DEF CatchesAt, Top
<1> QED
  BY <1>1, <1>2, CatcherIs

\* At the loop a jump has arrived where the mapping has put it all along.
LEMMA AtLoop ==
  ASSUME IInv, flow \in {"Break", "Continue"}, OnTop(LoopKind)
  PROVE  /\ ~Doomed /\ absOutcome = "Running" /\ absUnconstrained = unconstrained
         /\ absScopes = Path(stack, IF flow = "Break" THEN Height - 1 ELSE Height)
<1>1. Catcher = Height
  BY TopCatches DEF OnTop, LoopKind, TransparentKind
<1>2. JumpsToLoop /\ ~Doomed
  BY <1>1 DEF JumpsToLoop, Jumping, Doomed, OnTop, Top, Error
<1> QED
  BY <1>1, <1>2 DEF absOutcome, absUnconstrained, absScopes, ScopesTo, Path, OnTop

\* A loop that is handed a value or a continue has the whole stack in view.
LEMMA LoopRuns ==
  ASSUME IInv, flow \in {"Normal", "Continue"}, OnTop(LoopKind)
  PROVE  /\ ~Doomed /\ absOutcome = "Running" /\ absUnconstrained = unconstrained
         /\ absScopes = Path(stack, Height)
  BY Running, AtLoop DEF OnTop

\* `continue` evaluates the body again; that was decided when it jumped.
LEMMA Iterates ==
  ASSUME IInv, NextIteration
  PROVE  UNCHANGED CF!vars
<1>1. /\ flow \in {"Normal", "Continue"} /\ OnTop(LoopKind) /\ stack # <<>>
      /\ stack' = stack /\ flow' = "Eval" /\ Pure
  BY DEF NextIteration, OnTop, LoopKind, Resume
<1>2. /\ ~Doomed /\ absOutcome = "Running" /\ absUnconstrained = unconstrained
      /\ absScopes = Path(stack, Height)
  BY <1>1, LoopRuns
<1>3. ~Doomed' /\ absScopes' = Path(stack', Height') /\ flow' # "Idle"
  BY <1>1, RunsOn
<1>4. absScopes' = absScopes /\ absUnconstrained' = absUnconstrained /\ absOutcome' = absOutcome
  BY <1>1, <1>2, <1>3 DEF Height, absUnconstrained, absOutcome, Pure
<1> QED
  BY <1>1, <1>4 DEF CF!vars, Pure

\* `break` leaves the loop it has been outside of since it jumped.
LEMMA Breaks ==
  ASSUME IInv, RInv, Coherent', BreakLoop
  PROVE  UNCHANGED CF!vars
<1>1. /\ flow = "Break" /\ OnTop(LoopKind) /\ stack # <<>> /\ stack \in Seq(Frame)
      /\ stack' = Popped /\ flow' = "Normal" /\ Pure
  BY DEF BreakLoop, Returned, OnTop, Resume, IInv, TypeOK
<1>2. /\ ~Doomed /\ absOutcome = "Running" /\ absUnconstrained = unconstrained
      /\ absScopes = Path(stack, Height - 1)
  BY <1>1, AtLoop
<1>3. ~Doomed' /\ absScopes' = Path(stack', Height') /\ flow' # "Idle"
  BY <1>1, RunsOn
<1>4. absScopes' = absScopes
  BY <1>1, <1>2, <1>3, TopScope, DropFacts
<1>5. stack' # <<>>
  <2>1. Height # 1
    BY <1>1 DEF RInv, OnTop, Top, LoopKind
  <2>2. stack' \in Seq(Frame) /\ Len(stack') = Height - 1 /\ Height \in Nat
    BY <1>1, PoppedFacts
  <2> QED
    BY <2>1, <2>2, EmptySeq
<1>6. absUnconstrained' = absUnconstrained /\ absOutcome' = absOutcome
  BY <1>1, <1>2, <1>3, <1>5 DEF absUnconstrained, absOutcome, Pure
<1> QED
  BY <1>1, <1>4, <1>6 DEF CF!vars, Pure

\* A jump goes to its loop, or ends the run, when it is evaluated.
LEMMA Jumps ==
  ASSUME IInv, RInv, RInv', Coherent', EvalJump
  PROVE  CF!Next
<1>1. /\ flow = "Eval" /\ stack # <<>> /\ stack \in Seq(Frame) /\ Height \in Nat \ {0}
      /\ stack' = stack /\ flow' \in {"Break", "Continue"} /\ globals' = globals
      /\ Height' = Height
  BY PoppedFacts DEF EvalJump, Evaluating, OnTop, Pure, IInv, TypeOK, Height
<1>2. absScopes = Path(stack, Height) /\ absOutcome = "Running"
  BY <1>1, Running
<1>3. PICK c \in 1 .. Height : CatchesAt(stack, Height, c)
  <2>1. Height \in 1 .. Height
    BY <1>1
  <2> QED
    BY <2>1 DEF RInv
<1>4. Catcher' = c
  BY <1>1, <1>3, CatcherIsThen
<1>5. CASE stack[c].kind \notin LoopKind
  <2>1. Doomed'
    BY <1>1, <1>4, <1>5 DEF Doomed, Jumping, JumpsToLoop
  <2>2. /\ absScopes' = <<>> /\ absUnconstrained' = FALSE
        /\ absOutcome' = IF Rendering' THEN "AssertionFailed" ELSE Raised'
    BY <1>1, <2>1 DEF absScopes, absUnconstrained, absOutcome
  <2>3. Raised' \in CF!Error
    BY DEF Raised, Error, CF!Error
  <2>4. Rendering' <=> \E i \in 1 .. Len(absScopes) : CF!IsMessage(absScopes[i])
    BY <1>1, <1>2, SameRendering, RenderingScopes
  <2>5. CF!Raise(Raised')
    BY <1>1, <2>2, <2>4 DEF CF!Raise
  <2> QED
    BY <1>2, <2>3, <2>5 DEF CF!Next, CF!Fail
<1>6. CASE stack[c].kind \in LoopKind
  <2>1. JumpsToLoop' /\ ~Doomed' /\ flow' # "Idle"
    BY <1>1, <1>4, <1>6 DEF Doomed, Jumping, JumpsToLoop, Error
  <2>2. absScopes' = Path(stack, IF flow' = "Break" THEN c - 1 ELSE c)
    BY <1>1, <1>4, <2>1 DEF absScopes, ScopesTo, Path
  <2>3. Path(stack, c - 1) = SubSeq(absScopes, 1, c - 1) /\ Path(stack, c) = SubSeq(absScopes, 1, c)
    <3>1. Height \in 0 .. Len(stack) /\ c - 1 \in 0 .. Height /\ c \in 0 .. Height
      BY <1>1, <1>3 DEF Height
    <3>2. SubSeq(Path(stack, Height), 1, c - 1) = Path(stack, c - 1)
      BY <1>1, <3>1, PathSub
    <3>3. SubSeq(Path(stack, Height), 1, c) = Path(stack, c)
      BY <1>1, <3>1, PathSub
    <3> QED
      BY <1>2, <3>2, <3>3
  <2>4. CF!Move(absScopes')
    BY <2>1 DEF Coherent, CF!Move
  <2>5. c \in 1 .. Len(absScopes) /\ CF!JumpsTo(c) /\ CF!IsLoop(absScopes[c])
    <3>1. Height \in 0 .. Len(stack)
      BY <1>1 DEF Height
    <3>2. /\ Len(absScopes) = Height
          /\ \A i \in 1 .. Height : absScopes[i].kind = stack[i].kind
      BY <1>1, <1>2, <3>1, PathFacts
    <3>3. /\ stack[c].kind \notin TransparentKind
          /\ \A j \in (c + 1) .. Height : stack[j].kind \in TransparentKind /\ j \in 1 .. Height
      BY <1>1, <1>3 DEF CatchesAt
    <3> QED
      BY <1>3, <1>6, <3>2, <3>3 DEF CF!JumpsTo, CF!Catches, CF!IsLoop, LoopKind, TransparentKind
  <2>6. CASE flow' = "Break"
    <3>1. CF!Move(SubSeq(absScopes, 1, c - 1))
      BY <2>2, <2>3, <2>4, <2>6
    <3> QED
      BY <1>1, <1>2, <2>5, <3>1 DEF CF!Next, CF!Break
  <2>7. CASE flow' = "Continue"
    <3>1. CF!Move(SubSeq(absScopes, 1, c))
      BY <2>2, <2>3, <2>4, <2>7
    <3> QED
      BY <1>1, <1>2, <2>5, <3>1 DEF CF!Next, CF!Continue
  <2> QED
    BY <1>1, <2>6, <2>7
<1> QED
  BY <1>5, <1>6

\* A frame that hands a jump on does not change where it goes.
LEMMA HandsOn ==
  ASSUME IInv, RInv, RInv', PassJump
  PROVE  UNCHANGED CF!vars
<1>1. /\ flow \in {"Break", "Continue"} /\ flow' = flow /\ stack # <<>> /\ stack' = Popped
      /\ Top.kind \in TransparentKind /\ Pure /\ stack \in Seq(Frame) /\ stack' # <<>>
  BY DEF PassJump, OnTop, Resume, IInv, TypeOK, RInv
<1>2. /\ Height \in Nat \ {0} /\ Height' = Height - 1 /\ Height' \in Nat
      /\ \A i \in 1 .. Height' : stack'[i] = stack[i]
  BY <1>1, DropFacts
<1>3. Height \in 1 .. Height
  BY <1>2
<1>4. PICK c \in 1 .. Height : CatchesAt(stack, Height, c)
  BY <1>3 DEF RInv
<1>5. Catcher = c
  BY <1>2, <1>4, CatcherIs
<1>6. c # Height /\ c \in 1 .. Height'
  BY <1>1, <1>2, <1>4 DEF CatchesAt, Top
<1>7. CatchesAt(stack', Height', c)
  BY <1>2, <1>4, <1>6 DEF CatchesAt
<1>8. Catcher' = c /\ stack'[c] = stack[c]
  BY <1>2, <1>6, <1>7, CatcherIsThen
<1>9. /\ JumpsToLoop <=> stack[c].kind \in LoopKind
      /\ JumpsToLoop' <=> stack[c].kind \in LoopKind
      /\ Jumping /\ Jumping' /\ flow \notin Error
  BY <1>1, <1>5, <1>8 DEF JumpsToLoop, Jumping, Error
<1>10. Doomed' <=> Doomed
  BY <1>1, <1>9 DEF Doomed
<1>11. Completed' = Completed
  BY <1>1 DEF Pure, Completed
<1>12. CASE Doomed
  <2>1. Raised' = Raised
    BY <1>1, <1>5, <1>8, <1>9 DEF Raised
  <2>2. Rendering' <=> Rendering
    BY <1>1, SameRendering DEF TransparentKind
  <2>3. absOutcome' = absOutcome
    BY <1>1, <1>10, <1>12, <2>1, <2>2 DEF absOutcome
  <2> QED
    BY <1>10, <1>11, <1>12, <2>3, Unwinds
<1>13. CASE ~Doomed
  <2>1. JumpsToLoop /\ JumpsToLoop' /\ ~Doomed'
    BY <1>9, <1>10, <1>13 DEF Doomed
  <2> DEFINE n == IF flow = "Break" THEN c - 1 ELSE c
  <2>2. absScopes = Path(stack, n) /\ absScopes' = Path(stack', n)
    BY <1>1, <1>5, <1>8, <1>13, <2>1 DEF absScopes, ScopesTo, Path
  <2>3. n \in Nat /\ \A i \in 1 .. n : stack'[i] = stack[i]
    BY <1>2, <1>6
  <2> HIDE DEF n
  <2>4. absScopes' = absScopes
    BY <2>2, <2>3, PathAgrees
  <2>5. absOutcome = "Running" /\ absOutcome' = "Running"
    BY <1>1, <1>13, <2>1 DEF absOutcome
  <2>6. absUnconstrained' = absUnconstrained
    BY <1>1, <1>13, <2>1 DEF absUnconstrained, Pure
  <2> QED
    BY <1>11, <2>4, <2>5, <2>6 DEF CF!vars, Completed
<1> QED
  BY <1>12, <1>13

\* A jump that finds no loop turns into the error it was known to be.
LEMMA GoesAstray ==
  ASSUME IInv, flow \in {"Break", "Continue"}, stack # <<>>, stack' = Popped,
         Top.kind \notin TransparentKind \cup LoopKind \cup {"message"},
         flow' = IF Top.kind = "call" THEN "Internal" ELSE "Unsupported",
         Completed' = Completed
  PROVE  UNCHANGED CF!vars
<1>1. Catcher = Height
  BY TopCatches
<1>2. Doomed /\ Raised = flow' /\ flow \notin Error /\ flow' \in Error
  BY <1>1 DEF Doomed, Jumping, JumpsToLoop, Raised, Top, Error
<1>3. Rendering' <=> Rendering
  BY SameRendering DEF IInv, TypeOK
<1>4. Doomed' /\ absOutcome' = absOutcome
  BY <1>2, <1>3, Ends DEF Doomed, absOutcome, Error
<1> QED
  BY <1>2, <1>4, Unwinds

\* An error that frames hand on is still the one reported.
LEMMA Surfaces ==
  ASSUME IInv, flow \in Error, flow' = flow, stack # <<>>, stack' = Popped,
         Top.kind # "message", Completed' = Completed
  PROVE  UNCHANGED CF!vars
<1>1. Doomed /\ Doomed' /\ Raised = flow
  BY DEF Doomed, Raised
<1>2. Rendering' <=> Rendering
  BY SameRendering DEF IInv, TypeOK
<1>3. absOutcome' = absOutcome
  BY <1>1, <1>2, Ends DEF absOutcome, Error
<1> QED
  BY <1>1, <1>3, Unwinds

\* Whatever became of the message, the failed assertion is what is reported.
LEMMA MessageShows ==
  ASSUME IInv, MessageDone
  PROVE  CF!Next \/ UNCHANGED CF!vars
<1>1. /\ flow \in Result /\ stack # <<>> /\ Top.kind = "message" /\ stack' = Popped
      /\ flow' = "AssertionFailed" /\ Completed' = Completed /\ stack \in Seq(Frame)
  BY DEF MessageDone, OnTop, Resume, Pure, Completed, IInv, TypeOK
<1>2. Rendering
  <2>1. Height \in 1 .. Height
    BY <1>1, PoppedFacts
  <2> QED
    BY <1>1, <2>1 DEF Rendering, Top
<1>3. flow' \in Error /\ Doomed'
  BY <1>1 DEF Doomed, Error
<1>4. /\ absScopes' = <<>> /\ absUnconstrained' = FALSE
      /\ absOutcome' = "AssertionFailed"
  BY <1>1, <1>3, Ends
<1>5. CASE flow = "Normal"
  <2>1. absScopes = Path(stack, Height) /\ absOutcome = "Running"
    BY <1>1, <1>5, Running
  <2>2. CF!Raise("AssertionFailed")
    BY <1>1, <1>4 DEF CF!Raise, Completed
  <2> QED
    BY <2>1, <2>2 DEF CF!Next, CF!Fail, CF!Error
<1>6. CASE flow # "Normal"
  <2>1. Doomed
    <3>1. CASE flow \in Error
      BY <3>1 DEF Doomed
    <3>2. CASE flow \notin Error
      <4>1. Catcher = Height
        BY <1>1, TopCatches DEF TransparentKind
      <4> QED
        BY <1>1, <1>6, <3>2, <4>1 DEF Doomed, Jumping, JumpsToLoop, LoopKind, Top, Result
    <3> QED
      BY <3>1, <3>2
  <2>2. absOutcome = "AssertionFailed"
    BY <1>1, <1>2, <2>1 DEF absOutcome, Result, Error
  <2> QED
    BY <1>1, <1>3, <1>4, <2>1, <2>2, Unwinds
<1> QED
  BY <1>5, <1>6

-----------------------------------------------------------------------------
LEMMA EnterImplements ==
  ASSUME IInv, RInv, RInv', Coherent', Enter
  PROVE  CF!Next \/ UNCHANGED CF!vars
<1>1. /\ flow = "Eval" /\ stack # <<>> /\ stack \in Seq(Frame) /\ unconstrained \in BOOLEAN
      /\ globals \in [Global -> {"None", "InProgress", "Done"}]
  BY DEF Enter, EvalLeaf, EvalJump, EvalInner, EvalCall, CachedGlobal, CyclicGlobal,
         FirstReference, Evaluating, OnTop, IInv, TypeOK
<1>2. absScopes = Path(stack, Height) /\ absOutcome = "Running"
  BY <1>1, Running
<1>3. CASE EvalLeaf
  <2>1. CASE flow' = "Normal"
    BY <1>1, <1>3, <2>1, Stays DEF EvalLeaf
  <2>2. CASE flow' # "Normal"
    BY <1>1, <1>3, <2>2, Fails DEF EvalLeaf, Pure, Error
  <2> QED
    BY <2>1, <2>2
<1>4. CASE EvalJump
  BY <1>4, Jumps
<1>5. CASE EvalInner
  <2>1. PICK k \in {"value", "stmt", "loop", "cond"} :
               stack' = Append(stack, ExprFrame(k)) /\ flow' = "Eval" /\ globals' = globals
    BY <1>5 DEF EvalInner, Resume, Pure
  <2>2. ExprFrame(k) \in Frame /\ Base(stack) /\ Scope(ExprFrame(k)) = CF!Expr(k)
    BY <1>1, FramesBuilt DEF ExprKind, Base, Scope, ExprFrame, CF!Expr
  <2>3. Path(stack', Height') = Append(absScopes, CF!Expr(k))
    BY <1>1, <1>2, <2>1, <2>2, Grows
  <2>4. CF!Move(Append(absScopes, CF!Expr(k)))
    BY <2>1, <2>3, Moves
  <2> QED
    BY <1>2, <2>1, <2>4 DEF CF!Next, CF!OpenStep
<1>6. ASSUME NEW f \in Function, EvalCall(f) PROVE CF!Next
  BY <1>1, <1>6, Calls DEF EvalCall
<1>7. ASSUME NEW g \in Global, CachedGlobal(g) PROVE UNCHANGED CF!vars
  BY <1>1, <1>7, Stays DEF CachedGlobal, Resume
<1>8. ASSUME NEW g \in Global, CyclicGlobal(g) PROVE CF!Next
  BY <1>1, <1>8, Fails DEF CyclicGlobal, Resume, Pure, Error
<1>9. ASSUME NEW g \in Global, FirstReference(g) PROVE CF!Next
  <2>1. /\ globals[g] = "None" /\ stack' = Append(stack, GlobalFrame(g)) /\ flow' = "Eval"
        /\ globals' = [globals EXCEPT ![g] = "InProgress"]
    BY <1>9 DEF FirstReference, Resume
  <2>2. /\ GlobalFrame(g) \in Frame /\ Base(stack)
        /\ Scope(GlobalFrame(g)) = CF!Initializer(g)
    BY <1>1, FramesBuilt DEF Base, Scope, GlobalFrame, CF!Initializer
  <2>3. Path(stack', Height') = Append(absScopes, CF!Initializer(g))
    BY <1>1, <1>2, <2>1, <2>2, Grows
  <2>4. CF!Move(Append(absScopes, CF!Initializer(g)))
    BY <2>1, <2>3, Moves
  <2>5. Completed' = Completed /\ g \notin Completed
    BY <1>1, <2>1 DEF Completed
  <2>6. \A i \in 1 .. Len(absScopes) : absScopes[i] # CF!Initializer(g)
    <3>1. Height \in 0 .. Len(stack)
      BY <1>1 DEF Height
    <3>2. /\ Len(absScopes) = Height
          /\ \A i \in 1 .. Height : absScopes[i] = Scope(stack[i]) /\ stack[i] \in Frame
      BY <1>1, <1>2, <3>1, PathFacts
    <3>3. \A i \in 1 .. Height : stack[i] # GlobalFrame(g)
      BY <2>1 DEF IInv, InProgressIsOnStack, InitializerFrames
    <3>4. ASSUME NEW i \in 1 .. Height, Scope(stack[i]) = CF!Initializer(g) PROVE FALSE
      <4>1. Scope(stack[i]).kind = "global"
        BY <3>4 DEF CF!Initializer
      <4>2. stack[i].kind = "global"
        BY <3>2, <4>1, ScopeFacts
      <4>3. Scope(stack[i]) = stack[i]
        BY <4>2 DEF Scope
      <4> QED
        BY <3>3, <3>4, <4>3 DEF CF!Initializer, GlobalFrame
    <3> QED
      BY <3>2, <3>4
  <2>7. CF!Reference(g)
    BY <2>4, <2>5, <2>6 DEF CF!Reference, Completed
  <2> QED
    BY <1>2, <2>7 DEF CF!Next
<1> QED
  BY <1>3, <1>4, <1>5, <1>6, <1>7, <1>8, <1>9 DEF Enter

\* A frame other than an initializer's completes no global.
LEMMA CompletesNone ==
  ASSUME Top.kind # "global", globals' = globals
  PROVE  Completed' = Completed \cup {g \in Global : Top = GlobalFrame(g)}
<1>1. {g \in Global : Top = GlobalFrame(g)} = {}
  BY DEF GlobalFrame
<1> QED
  BY <1>1 DEF Completed

LEMMA OperandImplements ==
  ASSUME IInv, RInv, Coherent', Operand
  PROVE  CF!Next \/ UNCHANGED CF!vars
<1>1. /\ stack # <<>> /\ Top.kind = "value" /\ TopIsExpr
      /\ StrayJump \/ flow = "Normal"
  BY DEF Operand, NextOperand, OperatorReturns, OperatorFails, TakeBranch, RenderMessage,
         StrayJump, CallWithArguments, Returned, OnTop, TopIsExpr, ExprKind
<1>2. flow = "Normal" => absScopes = Path(stack, Height) /\ absOutcome = "Running"
  BY <1>1, Running
<1>3. CASE NextOperand
  BY <1>1, <1>3, Stays DEF NextOperand, Returned, Resume
<1>4. CASE OperatorReturns
  <2>1. stack' = Popped /\ flow' = "Normal" /\ globals' = globals /\ flow = "Normal"
    BY <1>4 DEF OperatorReturns, Returned, Resume, Pure
  <2> QED
    BY <1>1, <1>2, <2>1, CompletesNone, Returns
<1>5. CASE OperatorFails
  <2>1. stack' = Popped /\ flow' \in Error /\ globals' = globals /\ flow = "Normal"
    BY <1>5 DEF OperatorFails, Returned, Resume, Pure, Error
  <2> QED
    BY <1>1, <2>1, Fails
<1>6. CASE TakeBranch \/ RenderMessage
  <2>1. /\ flow' = "Eval" /\ globals' = globals /\ flow = "Normal"
        /\ \E k \in {"stmt", "for", "message"} : stack' = Append(Popped, ExprFrame(k))
    BY <1>6 DEF TakeBranch, RenderMessage, Returned, Resume, Pure
  <2>2. PICK k \in {"stmt", "for", "message"} : stack' = Append(Popped, ExprFrame(k))
    BY <2>1
  <2>3. k \in ExprKind /\ <<Top.kind, k>> \in CF!Continuation /\ Completed' = Completed
    BY <1>1, <2>1 DEF ExprKind, CF!Continuation, Completed
  <2> QED
    BY <1>1, <1>2, <2>1, <2>2, <2>3, Proceeds
<1>7. CASE StrayJump
  <2>1. /\ flow \in {"Break", "Continue"} /\ stack' = Popped /\ flow' = "Unsupported"
        /\ Completed' = Completed
    BY <1>7 DEF StrayJump, Resume, Pure, Completed
  <2> QED
    BY <1>1, <2>1, GoesAstray DEF TransparentKind, LoopKind
<1>8. ASSUME NEW f \in Function, CallWithArguments(f) PROVE CF!Next
  BY <1>1, <1>8, Calls DEF CallWithArguments, Returned
<1> QED
  BY <1>3, <1>4, <1>5, <1>6, <1>7, <1>8 DEF Operand

LEMMA StatementImplements ==
  ASSUME IInv, RInv, RInv', Coherent', Statement
  PROVE  CF!Next \/ UNCHANGED CF!vars
<1>1. ASSUME OnTop({"stmt", "cond"}), flow = "Normal", stack' = Popped,
             flow' \in {"Normal"} \cup Error, globals' = globals
      PROVE  CF!Next
  <2>1. absScopes = Path(stack, Height) /\ absOutcome = "Running"
    BY <1>1, Running DEF OnTop
  <2>2. CASE flow' = "Normal"
    BY <1>1, <2>1, <2>2, CompletesNone, Returns DEF OnTop
  <2>3. CASE flow' \in Error
    BY <1>1, <2>3, Fails DEF OnTop
  <2> QED
    BY <1>1, <2>2, <2>3
<1>2. CASE NextStatement
  BY <1>2, Stays DEF NextStatement, Returned, OnTop, Resume
<1>3. CASE StatementDone \/ WhileEnds
  BY <1>1, <1>3 DEF StatementDone, WhileEnds, Returned, OnTop, Pure, Error
<1>4. CASE PassJump
  BY <1>4, HandsOn
<1>5. CASE BreakLoop
  BY <1>5, Breaks
<1>6. CASE NextIteration
  BY <1>6, Iterates
<1>7. CASE RangeExhausted
  <2>1. /\ flow \in {"Normal", "Continue"} /\ OnTop(LoopKind) /\ stack # <<>>
        /\ Top.kind = "for" /\ stack' = Popped /\ flow' = "Normal" /\ globals' = globals
    BY <1>7 DEF RangeExhausted, OnTop, Resume, Pure, LoopKind
  <2>2. absScopes = Path(stack, Height) /\ absOutcome = "Running"
    BY <2>1, LoopRuns
  <2> QED
    BY <2>1, <2>2, CompletesNone, Returns
<1>8. CASE WhileTrue \/ WhileAgain
  <2>1. /\ stack # <<>> /\ TopIsExpr /\ flow' = "Eval" /\ Completed' = Completed
        /\ \/ /\ flow = "Normal" /\ Top.kind = "cond"
              /\ stack' = Append(Popped, ExprFrame("body"))
           \/ /\ flow \in {"Normal", "Continue"} /\ OnTop(LoopKind) /\ Top.kind = "body"
              /\ stack' = Append(Popped, ExprFrame("cond"))
    BY <1>8 DEF WhileTrue, WhileAgain, Returned, OnTop, TopIsExpr, ExprKind, LoopKind, Resume,
                Pure, Completed
  <2>2. absScopes = Path(stack, Height) /\ absOutcome = "Running"
    BY <2>1, Running, LoopRuns
  <2>3. "body" \in ExprKind /\ "cond" \in ExprKind
        /\ <<"cond", "body">> \in CF!Continuation /\ <<"body", "cond">> \in CF!Continuation
    BY DEF ExprKind, CF!Continuation
  <2> QED
    BY <2>1, <2>2, <2>3, Proceeds
<1> QED
  BY <1>2, <1>3, <1>4, <1>5, <1>6, <1>7, <1>8 DEF Statement

LEMMA LeaveImplements ==
  ASSUME IInv, RInv, Coherent', Leave
  PROVE  CF!Next \/ UNCHANGED CF!vars
<1>1. stack # <<>> /\ stack \in Seq(Frame) /\ Top \in Frame /\ Height \in 1 .. Height
      /\ globals \in [Global -> {"None", "InProgress", "Done"}]
  <2>1. stack # <<>> /\ stack \in Seq(Frame)
        /\ globals \in [Global -> {"None", "InProgress", "Done"}]
    BY DEF Leave, LeaveBody, GlobalDone, GlobalFails, MessageDone, PassError, Returned, OnTop,
           IInv, TypeOK
  <2> QED
    BY <2>1, PoppedFacts
<1>2. Top.kind = "global" => /\ Top.global \in Global /\ globals[Top.global] = "InProgress"
                            /\ \A g \in Global : Top = GlobalFrame(g) <=> g = Top.global
  <2> SUFFICES ASSUME Top.kind = "global"
               PROVE  /\ Top.global \in Global /\ globals[Top.global] = "InProgress"
                      /\ \A g \in Global : Top = GlobalFrame(g) <=> g = Top.global
    OBVIOUS
  <2>1. Top.global \in Global /\ Top = GlobalFrame(Top.global)
    BY <1>1 DEF Frame, ExprKind, GlobalFrame
  <2>2. Height \in InitializerFrames(Top.global)
    BY <1>1, <2>1 DEF InitializerFrames, Top
  <2>3. globals[Top.global] = "InProgress"
    BY <2>1, <2>2 DEF IInv, InProgressIsOnStack
  <2>4. \A g \in Global : Top = GlobalFrame(g) => g = Top.global
    BY DEF GlobalFrame
  <2> QED
    BY <2>1, <2>3, <2>4
<1>3. CASE LeaveBody
  <2>1. /\ flow \in Result /\ Top.kind = "call" /\ stack' = Popped /\ globals' = globals
        /\ flow' = IF flow \in {"Break", "Continue"} THEN "Internal" ELSE flow
        /\ Completed' = Completed
    BY <1>3 DEF LeaveBody, OnTop, Resume, Completed
  <2>2. CASE flow = "Normal"
    <3>1. absScopes = Path(stack, Height) /\ absOutcome = "Running"
      BY <1>1, <2>2, Running
    <3> QED
      BY <1>1, <2>1, <2>2, <3>1, CompletesNone, Returns
  <2>3. CASE flow \in {"Break", "Continue"}
    BY <1>1, <2>1, <2>3, GoesAstray DEF TransparentKind, LoopKind
  <2>4. CASE flow \in Error
    BY <1>1, <2>1, <2>4, Surfaces DEF Error
  <2> QED
    BY <2>1, <2>2, <2>3, <2>4 DEF Result
<1>4. CASE GlobalDone
  <2>1. /\ flow = "Normal" /\ Top.kind = "global" /\ stack' = Popped /\ flow' = "Normal"
        /\ globals' = [globals EXCEPT ![Top.global] = "Done"]
    BY <1>4 DEF GlobalDone, Returned, OnTop, Resume
  <2>2. absScopes = Path(stack, Height) /\ absOutcome = "Running"
    BY <1>1, <2>1, Running
  <2>3. Completed' = Completed \cup {g \in Global : Top = GlobalFrame(g)}
    BY <1>1, <1>2, <2>1 DEF Completed
  <2> QED
    BY <1>1, <2>1, <2>2, <2>3, Returns
<1>5. CASE GlobalFails
  <2>1. /\ flow \in Result \ {"Normal"} /\ Top.kind = "global" /\ stack' = Popped
        /\ flow' = IF flow \in Error THEN flow ELSE "Unsupported"
        /\ globals' = [globals EXCEPT ![Top.global] = "None"]
    BY <1>5 DEF GlobalFails, OnTop, Resume
  <2>2. Completed' = Completed
    BY <1>1, <1>2, <2>1 DEF Completed
  <2>3. CASE flow \in {"Break", "Continue"}
    BY <1>1, <2>1, <2>2, <2>3, GoesAstray DEF TransparentKind, LoopKind, Error
  <2>4. CASE flow \in Error
    BY <1>1, <2>1, <2>2, <2>4, Surfaces
  <2> QED
    BY <2>1, <2>3, <2>4 DEF Result
<1>6. CASE MessageDone
  BY <1>6, MessageShows
<1>7. CASE PassError
  <2>1. /\ flow \in Error /\ flow' = flow /\ stack' = Popped /\ Top.kind # "message"
        /\ Completed' = Completed
    BY <1>7 DEF PassError, OnTop, Resume, Pure, Completed
  <2> QED
    BY <1>1, <2>1, Surfaces
<1> QED
  BY <1>3, <1>4, <1>5, <1>6, <1>7 DEF Leave

\* Every step is one of ControlFlow, or is not seen.
LEMMA StepImplements ==
  ASSUME IInv, RInv, RInv', Coherent', [Next]_vars
  PROVE  [CF!Next]_(CF!vars)
<1>1. CASE UNCHANGED vars
  BY <1>1 DEF vars, CF!vars, absScopes, absOutcome, absUnconstrained, Doomed, Jumping,
              JumpsToLoop, Rendering, Raised, Catcher, ScopesTo, Height
<1>2. CASE RejectInput \/ RunMain
  BY <1>2, Starts
<1>3. CASE Enter
  BY <1>3, EnterImplements
<1>4. CASE Operand
  BY <1>4, OperandImplements
<1>5. CASE Statement
  BY <1>5, StatementImplements
<1>6. CASE Leave
  BY <1>6, LeaveImplements
<1> QED
  BY <1>1, <1>2, <1>3, <1>4, <1>5, <1>6 DEF Next

\* For every program and call limit the evaluator implements ControlFlow:
\* however many frames it unwinds through, jumps and failures are atomic.
THEOREM EvalImplements == Spec => ImplementsControlFlow
<1>1. Init => CF!Init
  <2> SUFFICES ASSUME Init PROVE CF!Init
    OBVIOUS
  <2>1. stack = <<>> /\ flow = "Idle" /\ unconstrained = FALSE /\ Height = 0
        /\ \A g \in Global : globals[g] = "None"
    BY DEF Init, Height
  <2>2. ~Doomed /\ ~JumpsToLoop
    BY <2>1 DEF Doomed, Jumping, JumpsToLoop, Error
  <2> QED
    BY <2>1, <2>2 DEF CF!Init, absScopes, absOutcome, absUnconstrained, ScopesTo
<1>2. IInv /\ RInv /\ RInv' /\ Coherent' /\ [Next]_vars => [CF!Next]_(CF!vars)
  BY StepImplements
<1> QED
  BY <1>1, <1>2, AlwaysRInv, StateCoherent, PTL
     DEF Spec, ImplementsControlFlow, CF!Spec
=============================================================================
