------------------------ MODULE MavrosVerdictProofs -------------------------
(***************************************************************************)
(* Proofs about MavrosVerdict: the record tells what both sides did, so    *)
(* every verdict is true of them.                                          *)
(***************************************************************************)
EXTENDS MavrosVerdict, TLAPS

InterpSays(word) ==
  IF word = "not-run" THEN "nothing" ELSE IF word = "ok" THEN "accepts"
  ELSE IF word \in Rejections THEN "rejects" ELSE IF word = "InputError" THEN "bad input" ELSE "gap"

MavrosSays ==
  IF record.mavros_compile = "frontend-reject" THEN "frontend"
  ELSE IF mavros_gap THEN "gap"
  ELSE IF mavros_rejects THEN "rejects"
  ELSE IF mavros_accepts THEN "accepts"
  ELSE "nothing"

Before == {"open", "lower", "interpret", "recorded", "compile"}
Stages == Before \cup {"inputs", "unchecked", "declared", "judge", "done"}

TypeOK ==
  /\ program \in Programs
  /\ lowering \in {"none", "lowering-fail", "lowering-panic"}
  /\ record = [f \in Fields |-> record[f]]
  /\ stage \in Stages
  /\ did = [interp |-> did.interp, mavros |-> did.mavros, recorded |-> did.recorded]
  /\ record.interp \in Failures \cup {"ok", "not-run"}

\* How far the examination is, as the record shows it.
Staged ==
  /\ stage \in Before => record.mavros_compile = "not-run"
  /\ stage \in {"inputs", "unchecked", "declared"} => record.mavros_compile = "ok"
  /\ stage \in Before \cup {"inputs", "unchecked"} => record.witgen_unchecked = "not-run"
  /\ stage \notin {"judge", "done"} => record.witgen_declared = "not-run"
  /\ stage \in {"open", "lower", "interpret"} => record.interp = "not-run"
  /\ stage \in {"recorded", "compile", "inputs", "unchecked", "declared"} =>
       record.interp # "not-run"
  /\ stage \in {"declared", "judge", "done"} =>
       /\ MavrosSays # "nothing"
       /\ MavrosSays \in {"rejects", "accepts"} => record.interp # "not-run"

\* What the declared run says of Mavros's value.
Declared ==
  /\ record.witgen_declared = "ok" => program.same
  /\ record.witgen_declared \in {"unsat", "trap"} /\ mavros_accepts =>
       program.returns /\ ~program.same
  /\ record.witgen_declared = "no-return" => ~program.returns

Told ==
  /\ did.interp = InterpSays(record.interp)
  /\ did.mavros = MavrosSays
  /\ did.recorded = record.recorded_return

IInv == /\ TypeOK /\ Staged /\ Declared /\ Told
        /\ stage = "done" => record.verdict = verdict

-----------------------------------------------------------------------------
\* The word a run is noted by says what it shows.
LEMMA WordShows ==
  ASSUME NEW run \in Run
  PROVE  /\ witgen(run) \in {"params", "trap", "panic", "unsat", "guard", "ok"}
         /\ Shows(run) = "gap" <=> witgen(run) \in {"params", "panic", "guard"}
         /\ Shows(run) = "rejects" <=> witgen(run) \in {"unsat", "trap"}
         /\ Shows(run) = "accepts" <=> witgen(run) = "ok"
<1>1. run.vm \in {"result", "trap", "panic"} /\ run.params \in BOOLEAN
      /\ run.satisfied \in BOOLEAN /\ run.guard \in BOOLEAN
  BY DEF Run
<1>2. CASE ~run.params
  BY <1>2 DEF witgen, Shows
<1>3. CASE run.params /\ run.vm = "trap"
  BY <1>3 DEF witgen, Shows
<1>4. CASE run.params /\ run.vm = "panic"
  BY <1>4 DEF witgen, Shows
<1>5. CASE run.params /\ run.vm = "result" /\ ~run.satisfied
  BY <1>5 DEF witgen, Shows
<1>6. CASE run.params /\ run.vm = "result" /\ run.satisfied /\ ~run.guard
  BY <1>6 DEF witgen, Shows
<1>7. CASE run.params /\ run.vm = "result" /\ run.satisfied /\ run.guard
  BY <1>7 DEF witgen, Shows
<1> QED BY <1>1, <1>2, <1>3, <1>4, <1>5, <1>6, <1>7

LEMMA InitInv == Init => IInv
<1> SUFFICES ASSUME Init PROVE IInv
  OBVIOUS
<1>1. /\ record = [f \in Fields |-> record[f]] /\ record.interp = "not-run"
      /\ record.mavros_compile = "not-run" /\ record.witgen_unchecked = "not-run"
      /\ record.witgen_declared = "not-run" /\ record.recorded_return = "not-run"
  BY DEF Init, Fields
<1>2. did = [interp |-> "nothing", mavros |-> "nothing", recorded |-> "not-run"]
      /\ stage = "open" /\ program \in Programs /\ lowering = "none"
  BY DEF Init
<1>3. TypeOK
  BY <1>1, <1>2 DEF TypeOK, Stages, Before
<1>4. MavrosSays = "nothing"
  BY <1>1 DEF MavrosSays, mavros_gap, mavros_rejects, mavros_accepts
<1> QED BY <1>1, <1>2, <1>3, <1>4 DEF IInv, Staged, Declared, Told, InterpSays, Before

\* Noting a word changes that field alone.
LEMMA Noted ==
  ASSUME TypeOK, NEW field \in Fields, NEW word, Note(field, word)
  PROVE  /\ record' = [f \in Fields |-> record'[f]] /\ record'[field] = word
         /\ \A f \in Fields : f # field => record'[f] = record[f]
BY DEF Note, TypeOK

LEMMA DidMavros ==
  ASSUME TypeOK, NEW what, Mavros(what)
  PROVE  /\ did' = [interp |-> did'.interp, mavros |-> did'.mavros, recorded |-> did'.recorded]
         /\ did'.mavros = what /\ did'.interp = did.interp /\ did'.recorded = did.recorded
BY DEF Mavros, TypeOK

\* A word about Mavros that ends the examination.
LEMMA Ended ==
  ASSUME IInv, NEW field \in {"mavros_compile", "witgen_unchecked"}, NEW word,
         NEW what \in {"gap", "rejects", "frontend"},
         Note(field, word), Mavros(what), stage' = "judge",
         program' = program, lowering' \in {"none", "lowering-fail", "lowering-panic"},
         record.witgen_declared = "not-run",
         MavrosSays' = what,
         what = "rejects" => record.interp # "not-run"
  PROVE  IInv'
<1>1. /\ record' = [f \in Fields |-> record'[f]]
      /\ record'.interp = record.interp /\ record'.witgen_declared = record.witgen_declared
      /\ record'.recorded_return = record.recorded_return
  BY Noted DEF IInv, Fields
<1>2. /\ did' = [interp |-> did'.interp, mavros |-> did'.mavros, recorded |-> did'.recorded]
      /\ did'.mavros = what /\ did'.interp = did.interp /\ did'.recorded = did.recorded
  BY DEF IInv, TypeOK, Mavros
<1>3. TypeOK'
  BY <1>1, <1>2 DEF IInv, TypeOK, Stages
<1>4. Staged'
  BY <1>1 DEF Staged, Before
<1>5. Declared' /\ Told'
  BY <1>1, <1>2 DEF IInv, Declared, Told
<1> QED BY <1>3, <1>4, <1>5 DEF IInv

\* Steps that only move on.
LEMMA MovedOn ==
  ASSUME IInv, UNCHANGED <<program, record, did>>, stage \notin {"judge", "done"},
         lowering' \in {"none", "lowering-fail", "lowering-panic"},
         \/ stage \in {"open", "lower"} /\ stage' \in {"lower", "interpret"}
         \/ stage = "inputs" /\ stage' = "unchecked"
  PROVE  IInv'
<1>1. TypeOK'
  BY DEF IInv, TypeOK, Stages, Before
<1>2. MavrosSays' = MavrosSays
  BY DEF MavrosSays, mavros_gap, mavros_rejects, mavros_accepts
<1>3. Staged'
  BY DEF IInv, Staged, Before
<1>4. Declared' /\ Told'
  BY <1>2 DEF IInv, Declared, Told, mavros_accepts
<1> QED BY <1>1, <1>3, <1>4 DEF IInv

LEMMA OpenInv == IInv /\ Open => IInv'
<1> SUFFICES ASSUME IInv, Open PROVE IInv'
  OBVIOUS
<1>1. /\ stage = "open" /\ program' = program /\ lowering' = lowering
      /\ lowering \in {"none", "lowering-fail", "lowering-panic"} /\ TypeOK
      /\ record.witgen_declared = "not-run"
  BY DEF IInv, TypeOK, Staged, Open, At
<1>2. CASE Note("mavros_compile", "project") /\ To("judge") /\ Mavros("gap")
  <2>1. record'.mavros_compile = "project"
    BY <1>1, <1>2, Noted DEF Fields
  <2>2. MavrosSays' = "gap"
    BY <2>1 DEF MavrosSays, mavros_gap
  <2> QED BY <1>1, <1>2, <2>2, Ended DEF To
<1>3. CASE To("lower") /\ UNCHANGED <<record, did>>
  BY <1>1, <1>3, MovedOn DEF To
<1> QED BY <1>2, <1>3 DEF Open

LEMMA LowerInv == IInv /\ Lower => IInv'
<1> SUFFICES ASSUME IInv, Lower PROVE IInv'
  OBVIOUS
<1>1. /\ stage = "lower" /\ program' = program /\ TypeOK
      /\ lowering' \in {"none", "lowering-fail", "lowering-panic"}
      /\ record.witgen_declared = "not-run"
  BY DEF IInv, TypeOK, Staged, Lower, At
<1>2. CASE Note("mavros_compile", "frontend-reject") /\ To("judge") /\ Mavros("frontend")
  <2>1. record'.mavros_compile = "frontend-reject"
    BY <1>1, <1>2, Noted DEF Fields
  <2>2. MavrosSays' = "frontend"
    BY <2>1 DEF MavrosSays
  <2> QED BY <1>1, <1>2, <2>2, Ended DEF To
<1>3. CASE To("interpret") /\ UNCHANGED <<record, did>>
  BY <1>1, <1>3, MovedOn DEF To
<1>4. ASSUME NEW word \in {"no program", "lowering-fail", "lowering-panic"},
             Note("mavros_compile", word), To("judge"), Mavros("gap")
      PROVE  IInv'
  <2>1. record'.mavros_compile = word
    BY <1>1, <1>4, Noted DEF Fields
  <2>2. MavrosSays' = "gap"
    BY <2>1 DEF MavrosSays, mavros_gap
  <2> QED BY <1>1, <1>4, <2>2, Ended DEF To
<1>5. PICK failure \in {"none", "lowering-fail", "lowering-panic"} :
        \/ Note("mavros_compile", "frontend-reject") /\ To("judge") /\ Mavros("frontend")
        \/ To("interpret") /\ UNCHANGED <<record, did>>
        \/ /\ Note("mavros_compile", IF failure = "none" THEN "no program" ELSE failure)
           /\ To("judge") /\ Mavros("gap")
  BY DEF Lower
<1>6. (IF failure = "none" THEN "no program" ELSE failure)
        \in {"no program", "lowering-fail", "lowering-panic"}
  OBVIOUS
<1> QED BY <1>2, <1>3, <1>4, <1>5, <1>6

LEMMA InterpretInv == IInv /\ Interpret => IInv'
<1> SUFFICES ASSUME IInv, Interpret PROVE IInv'
  OBVIOUS
<1>1. /\ stage = "interpret" /\ stage' = "recorded" /\ program' = program
      /\ lowering' = lowering /\ TypeOK /\ Staged /\ Told
  BY DEF IInv, Interpret, At, To
<1>2. PICK word \in Failures \cup {"ok"} :
        /\ Note("interp", word)
        /\ did' = [did EXCEPT !.interp = InterpSays(word)]
  <2>1. CASE Note("interp", "ok") /\ did' = [did EXCEPT !.interp = "accepts"]
    BY <2>1 DEF InterpSays
  <2>2. CASE \E kind \in Failures :
               /\ Note("interp", kind)
               /\ did' = [did EXCEPT !.interp = IF kind \in Rejections THEN "rejects"
                                                ELSE IF kind = "InputError" THEN "bad input"
                                                ELSE "gap"]
    <3>1. PICK kind \in Failures :
               /\ Note("interp", kind)
               /\ did' = [did EXCEPT !.interp = IF kind \in Rejections THEN "rejects"
                                                ELSE IF kind = "InputError" THEN "bad input"
                                                ELSE "gap"]
      BY <2>2
    <3>2. kind # "ok" /\ kind # "not-run"
      BY DEF Failures, Rejections, Broken
    <3>3. InterpSays(kind) = IF kind \in Rejections THEN "rejects"
                             ELSE IF kind = "InputError" THEN "bad input" ELSE "gap"
      BY <3>2 DEF InterpSays
    <3> QED BY <3>1, <3>3
  <2> QED BY <2>1, <2>2 DEF Interpret
<1>3. /\ record' = [f \in Fields |-> record'[f]] /\ record'.interp = word
      /\ record'.mavros_compile = record.mavros_compile
      /\ record'.witgen_unchecked = record.witgen_unchecked
      /\ record'.witgen_declared = record.witgen_declared
      /\ record'.recorded_return = record.recorded_return
  BY <1>1, <1>2, Noted DEF Fields
<1>4. /\ did' = [interp |-> did'.interp, mavros |-> did'.mavros, recorded |-> did'.recorded]
      /\ did'.interp = InterpSays(word) /\ did'.mavros = did.mavros
      /\ did'.recorded = did.recorded
  BY <1>1, <1>2 DEF TypeOK
<1>5. word # "not-run"
  BY DEF Failures, Rejections, Broken
<1>6. MavrosSays' = MavrosSays
  BY <1>3 DEF MavrosSays, mavros_gap, mavros_rejects, mavros_accepts
<1>7. TypeOK'
  BY <1>1, <1>2, <1>3, <1>4 DEF TypeOK, Stages, Before
<1>8. Staged'
  BY <1>1, <1>3, <1>5 DEF Staged, Before
<1>9. Declared' /\ Told'
  BY <1>1, <1>3, <1>4, <1>6 DEF IInv, Declared, Told, mavros_accepts
<1> QED BY <1>1, <1>7, <1>8, <1>9 DEF IInv

LEMMA CompareRecordedInv == IInv /\ CompareRecorded => IInv'
<1> SUFFICES ASSUME IInv, CompareRecorded PROVE IInv'
  OBVIOUS
<1>1. /\ stage = "recorded" /\ program' = program /\ lowering' = lowering
      /\ stage' = IF lowering = "none" THEN "compile" ELSE "judge"
      /\ TypeOK /\ Staged /\ Told /\ Declared
  BY DEF IInv, CompareRecorded, At, To
<1>2. PICK word :
       /\ record' = [record EXCEPT !.recorded_return = word,
                                   !.mavros_compile = IF lowering = "none" THEN @ ELSE lowering]
       /\ did' = [did EXCEPT !.recorded = word,
                             !.mavros = IF lowering = "none" THEN @ ELSE "gap"]
  BY DEF CompareRecorded
<1>3. /\ record' = [f \in Fields |-> record'[f]] /\ record'.interp = record.interp
      /\ record'.mavros_compile = IF lowering = "none" THEN record.mavros_compile ELSE lowering
      /\ record'.witgen_unchecked = record.witgen_unchecked
      /\ record'.witgen_declared = record.witgen_declared
      /\ record'.recorded_return = word
  BY <1>1, <1>2 DEF TypeOK, Fields
<1>4. /\ did' = [interp |-> did'.interp, mavros |-> did'.mavros, recorded |-> did'.recorded]
      /\ did'.interp = did.interp /\ did'.recorded = word
      /\ did'.mavros = IF lowering = "none" THEN did.mavros ELSE "gap"
  BY <1>1, <1>2 DEF TypeOK
<1>5. CASE lowering = "none"
  <2>1. MavrosSays' = MavrosSays
    BY <1>3, <1>5 DEF MavrosSays, mavros_gap, mavros_rejects, mavros_accepts
  <2>2. TypeOK'
    BY <1>1, <1>3, <1>4, <1>5 DEF TypeOK, Stages, Before
  <2>3. Staged'
    BY <1>1, <1>3, <1>5 DEF Staged, Before
  <2>4. Declared' /\ Told'
    BY <1>1, <1>3, <1>4, <1>5, <2>1 DEF Declared, Told, mavros_accepts
  <2> QED BY <1>1, <1>5, <2>2, <2>3, <2>4 DEF IInv
<1>6. CASE lowering # "none"
  <2>1. MavrosSays' = "gap"
    BY <1>1, <1>3, <1>6 DEF MavrosSays, mavros_gap, TypeOK
  <2>2. TypeOK'
    BY <1>1, <1>3, <1>4, <1>6 DEF TypeOK, Stages, Before
  <2>3. Staged'
    BY <1>1, <1>3, <1>6, <2>1 DEF Staged, Before
  <2>4. Declared' /\ Told'
    BY <1>1, <1>3, <1>4, <1>6, <2>1 DEF Declared, Told, Staged
  <2> QED BY <1>1, <1>6, <2>2, <2>3, <2>4 DEF IInv
<1> QED BY <1>5, <1>6

LEMMA CompileInv == IInv /\ Compile => IInv'
<1> SUFFICES ASSUME IInv, Compile PROVE IInv'
  OBVIOUS
<1>1. /\ stage = "compile" /\ program' = program /\ lowering' = lowering
      /\ lowering \in {"none", "lowering-fail", "lowering-panic"}
      /\ TypeOK /\ Staged /\ Told /\ Declared
      /\ record.witgen_declared = "not-run" /\ record.witgen_unchecked = "not-run"
      /\ record.mavros_compile = "not-run" /\ record.interp # "not-run"
  BY DEF IInv, TypeOK, Staged, Before, Compile, At
<1>2. CASE Note("mavros_compile", "ok") /\ To("inputs") /\ UNCHANGED did
  <2>1. /\ record' = [f \in Fields |-> record'[f]] /\ record'.mavros_compile = "ok"
        /\ record'.interp = record.interp /\ record'.witgen_unchecked = "not-run"
        /\ record'.witgen_declared = "not-run"
        /\ record'.recorded_return = record.recorded_return
    BY <1>1, <1>2, Noted DEF Fields
  <2>2. MavrosSays' = "nothing" /\ MavrosSays = "nothing"
    BY <1>1, <2>1 DEF MavrosSays, mavros_gap, mavros_rejects, mavros_accepts
  <2>3. stage' = "inputs" /\ did' = did
    BY <1>2 DEF To
  <2>4. TypeOK'
    BY <1>1, <2>1, <2>3 DEF TypeOK, Stages, Before
  <2>5. Staged'
    BY <1>1, <2>1, <2>3 DEF Staged, Before
  <2>6. Declared' /\ Told'
    BY <1>1, <2>1, <2>2, <2>3 DEF Declared, Told
  <2> QED BY <2>3, <2>4, <2>5, <2>6 DEF IInv
<1>3. CASE Note("mavros_compile", "reject") /\ To("judge") /\ Mavros("rejects")
  <2>1. record'.mavros_compile = "reject" /\ record'.witgen_unchecked = "not-run"
    BY <1>1, <1>3, Noted DEF Fields
  <2>2. MavrosSays' = "rejects"
    BY <2>1 DEF MavrosSays, mavros_gap, mavros_rejects
  <2> QED BY <1>1, <1>3, <2>2, Ended DEF To
<1>4. ASSUME NEW word \in {"fail", "panic"},
             Note("mavros_compile", word), To("judge"), Mavros("gap")
      PROVE  IInv'
  <2>1. record'.mavros_compile = word
    BY <1>1, <1>4, Noted DEF Fields
  <2>2. MavrosSays' = "gap"
    BY <2>1 DEF MavrosSays, mavros_gap
  <2> QED BY <1>1, <1>4, <2>2, Ended DEF To
<1> QED BY <1>2, <1>3, <1>4 DEF Compile

LEMMA ParseInputsInv == IInv /\ ParseInputs => IInv'
<1> SUFFICES ASSUME IInv, ParseInputs PROVE IInv'
  OBVIOUS
<1>1. /\ stage = "inputs" /\ program' = program /\ lowering' = lowering
      /\ lowering \in {"none", "lowering-fail", "lowering-panic"} /\ TypeOK
      /\ record.witgen_declared = "not-run" /\ record.mavros_compile = "ok"
  BY DEF IInv, TypeOK, Staged, Before, ParseInputs, At
<1>2. CASE To("unchecked") /\ UNCHANGED <<record, did>>
  BY <1>1, <1>2, MovedOn DEF To
<1>3. CASE Note("witgen_unchecked", "inputs") /\ To("judge") /\ Mavros("gap")
  <2>1. record'.witgen_unchecked = "inputs" /\ record'.mavros_compile = "ok"
    BY <1>1, <1>3, Noted DEF Fields
  <2>2. MavrosSays' = "gap"
    BY <2>1 DEF MavrosSays, mavros_gap
  <2> QED BY <1>1, <1>3, <2>2, Ended DEF To
<1> QED BY <1>2, <1>3 DEF ParseInputs

LEMMA RunUncheckedInv == IInv /\ RunUnchecked => IInv'
<1> SUFFICES ASSUME IInv, RunUnchecked PROVE IInv'
  OBVIOUS
<1>1. /\ stage = "unchecked" /\ stage' = "declared" /\ program' = program
      /\ lowering' = lowering /\ TypeOK /\ Staged /\ Told /\ Declared
      /\ record.witgen_declared = "not-run" /\ record.mavros_compile = "ok"
      /\ record.interp # "not-run"
  BY DEF IInv, Staged, Before, RunUnchecked, At, To
<1>2. PICK run \in Run : Note("witgen_unchecked", witgen(run)) /\ Mavros(Shows(run))
  BY DEF RunUnchecked
<1>3. /\ record' = [f \in Fields |-> record'[f]]
      /\ record'.witgen_unchecked = witgen(run)
      /\ record'.mavros_compile = "ok" /\ record'.interp = record.interp
      /\ record'.witgen_declared = "not-run"
      /\ record'.recorded_return = record.recorded_return
  BY <1>1, <1>2, Noted DEF Fields
<1>4. /\ did' = [interp |-> did'.interp, mavros |-> did'.mavros, recorded |-> did'.recorded]
      /\ did'.mavros = Shows(run) /\ did'.interp = did.interp
      /\ did'.recorded = did.recorded
  BY <1>1, <1>2, DidMavros
<1>5. Shows(run) \in {"gap", "rejects", "accepts"}
  BY DEF Shows
<1>6. MavrosSays' = Shows(run)
  BY <1>3, <1>5, WordShows DEF MavrosSays, mavros_gap, mavros_rejects, mavros_accepts
<1>7. TypeOK'
  BY <1>1, <1>3, <1>4 DEF TypeOK, Stages, Before
<1>8. Staged'
  BY <1>1, <1>3, <1>5, <1>6 DEF Staged, Before
<1>9. Declared' /\ Told'
  BY <1>1, <1>3, <1>4, <1>6 DEF Declared, Told
<1> QED BY <1>1, <1>7, <1>8, <1>9 DEF IInv

LEMMA RunDeclaredInv == IInv /\ RunDeclared => IInv'
<1> SUFFICES ASSUME IInv, RunDeclared PROVE IInv'
  OBVIOUS
<1>1. /\ stage = "declared" /\ stage' = "judge" /\ program' = program
      /\ lowering' = lowering /\ did' = did /\ TypeOK /\ Staged /\ Told /\ Declared
      /\ record.witgen_declared = "not-run"
  BY DEF IInv, Staged, Before, RunDeclared, At, To
<1> DEFINE Fine ==
      /\ record' = [f \in Fields |-> record'[f]]
      /\ record'.interp = record.interp /\ record'.mavros_compile = record.mavros_compile
      /\ record'.witgen_unchecked = record.witgen_unchecked
      /\ record'.recorded_return = record.recorded_return
      /\ record'.witgen_declared = "ok" => program.same
      /\ record'.witgen_declared \in {"unsat", "trap"} /\ record.witgen_unchecked = "ok" =>
           program.returns /\ ~program.same
      /\ record'.witgen_declared = "no-return" => ~program.returns
<1>2. Fine
  <2>1. CASE record' = record
    BY <1>1, <2>1 DEF TypeOK
  <2>2. CASE ~program.returns /\ Note("witgen_declared", "no-return")
    BY <1>1, <2>2, Noted DEF Fields
  <2>3. CASE Note("witgen_declared", "unencodable")
    BY <1>1, <2>3, Noted DEF Fields
  <2>4. ASSUME program.returns, NEW run \in Run,
               Shows(run) = "accepts" => program.same,
               Shows(run) = "rejects" => ~program.same \/ record.witgen_unchecked # "ok",
               Note("witgen_declared", witgen(run))
        PROVE  Fine
    <3>1. record'.witgen_declared = witgen(run)
          /\ record' = [f \in Fields |-> record'[f]]
          /\ record'.interp = record.interp /\ record'.mavros_compile = record.mavros_compile
          /\ record'.witgen_unchecked = record.witgen_unchecked
          /\ record'.recorded_return = record.recorded_return
      BY <1>1, <2>4, Noted DEF Fields
    <3> QED BY <3>1, <2>4, WordShows
  <2> QED BY <2>1, <2>2, <2>3, <2>4 DEF RunDeclared
<1>3. MavrosSays' = MavrosSays /\ mavros_accepts' = mavros_accepts
  BY <1>2 DEF MavrosSays, mavros_gap, mavros_rejects, mavros_accepts
<1>4. TypeOK'
  BY <1>1, <1>2 DEF TypeOK, Stages, Before
<1>5. Staged'
  BY <1>1, <1>2, <1>3 DEF Staged, Before
<1>6. Declared'
  BY <1>1, <1>2, <1>3 DEF Declared, mavros_accepts
<1>7. Told'
  BY <1>1, <1>2, <1>3 DEF Told
<1> QED BY <1>1, <1>4, <1>5, <1>6, <1>7 DEF IInv

LEMMA JudgeInv == IInv /\ Judge => IInv'
<1> SUFFICES ASSUME IInv, Judge PROVE IInv'
  OBVIOUS
<1>1. /\ stage = "judge" /\ stage' = "done" /\ program' = program
      /\ lowering' = lowering /\ did' = did /\ TypeOK /\ Staged /\ Told /\ Declared
      /\ Note("verdict", verdict)
  BY DEF IInv, Judge, At, To
<1>2. /\ record' = [f \in Fields |-> record'[f]] /\ record'.verdict = verdict
      /\ record'.interp = record.interp /\ record'.mavros_compile = record.mavros_compile
      /\ record'.witgen_unchecked = record.witgen_unchecked
      /\ record'.witgen_declared = record.witgen_declared
      /\ record'.recorded_return = record.recorded_return
  BY <1>1, Noted DEF Fields
<1>3. /\ interp_ok' = interp_ok /\ interp_gap' = interp_gap
      /\ interp_internal' = interp_internal /\ mavros_gap' = mavros_gap
      /\ mavros_rejects' = mavros_rejects /\ mavros_accepts' = mavros_accepts
  BY <1>2 DEF interp_ok, interp_gap, interp_internal, mavros_gap, mavros_rejects, mavros_accepts
<1>4. MavrosSays' = MavrosSays
  BY <1>2, <1>3 DEF MavrosSays
<1>5. of_expected_failure' = of_expected_failure /\ of_returns' = of_returns
  BY <1>2, <1>3 DEF of_expected_failure, of_returns
<1>6. verdict' = verdict
  BY <1>1, <1>2, <1>3, <1>5 DEF verdict
<1>7. TypeOK'
  BY <1>1, <1>2 DEF TypeOK, Stages, Before
<1>8. Staged'
  BY <1>1, <1>2, <1>4 DEF Staged, Before
<1>9. Declared' /\ Told'
  BY <1>1, <1>2, <1>3, <1>4 DEF Declared, Told
<1> QED BY <1>2, <1>6, <1>7, <1>8, <1>9 DEF IInv

LEMMA StutterInv == IInv /\ UNCHANGED vars => IInv'
<1> SUFFICES ASSUME IInv, UNCHANGED vars PROVE IInv'
  OBVIOUS
<1>1. /\ program' = program /\ lowering' = lowering /\ record' = record
      /\ stage' = stage /\ did' = did
  BY DEF vars
<1>2. MavrosSays' = MavrosSays /\ verdict' = verdict /\ mavros_accepts' = mavros_accepts
  BY <1>1 DEF MavrosSays, verdict, mavros_gap, mavros_rejects, mavros_accepts, interp_ok,
     interp_gap, interp_internal, of_expected_failure, of_returns
<1> QED BY <1>1, <1>2 DEF IInv, TypeOK, Staged, Declared, Told

LEMMA Induction == Spec => []IInv
<1>1. IInv /\ [Next]_vars => IInv'
  BY OpenInv, LowerInv, InterpretInv, CompareRecordedInv, CompileInv, ParseInputsInv,
     RunUncheckedInv, RunDeclaredInv, JudgeInv, StutterInv DEF Next
<1> QED BY InitInv, <1>1, PTL DEF Spec

-----------------------------------------------------------------------------
\* What the record says once the examination is done.
LEMMA Facts ==
  ASSUME IInv, Judged
  PROVE  /\ Verdict = verdict /\ MavrosSays # "nothing"
         /\ did.interp = InterpSays(record.interp) /\ did.mavros = MavrosSays
         /\ did.recorded = record.recorded_return
         /\ record.interp \in Failures \cup {"ok", "not-run"}
         /\ MavrosSays \in {"rejects", "accepts"} => record.interp # "not-run"
         /\ Declared
BY DEF IInv, TypeOK, Staged, Told, Judged, Verdict

\* A verdict other than a failure to process means both sides were run and had
\* an opinion, and it is the one the verdict says.
LEMMA Opinions ==
  ASSUME IInv, Judged
  PROVE  \/ Verdict \in {"frontend-reject", "input-error", "both-gap", "mavros-gap",
                          "interp-gap", "interp-internal"}
         \/ /\ did.interp \in {"accepts", "rejects"} /\ did.mavros \in {"accepts", "rejects"}
            /\ interp_ok <=> did.interp = "accepts"
            /\ mavros_accepts <=> did.mavros = "accepts"
            /\ mavros_rejects <=> did.mavros = "rejects"
            /\ Verdict = IF program.expect_failure THEN of_expected_failure
                         ELSE IF ~interp_ok
                           THEN IF mavros_accepts THEN "INTERP-REJECTS" ELSE "both-reject"
                         ELSE IF ~mavros_accepts THEN "MAVROS-REJECTS" ELSE of_returns
            /\ ~interp_gap
<1> DEFINE Gaps == {"frontend-reject", "input-error", "both-gap", "mavros-gap", "interp-gap",
                    "interp-internal"}
<1>1. /\ Verdict = verdict /\ MavrosSays # "nothing"
      /\ did.interp = InterpSays(record.interp) /\ did.mavros = MavrosSays
      /\ record.interp \in Failures \cup {"ok", "not-run"}
      /\ MavrosSays \in {"rejects", "accepts"} => record.interp # "not-run"
  BY Facts
<1>2. CASE record.mavros_compile = "frontend-reject" \/ record.interp = "InputError"
  BY <1>1, <1>2 DEF verdict
<1>3. CASE mavros_gap
  BY <1>1, <1>3 DEF verdict
<1>4. CASE interp_internal
  BY <1>1, <1>4 DEF verdict
<1>5. ASSUME record.mavros_compile # "frontend-reject", record.interp # "InputError",
             ~mavros_gap, ~interp_internal
      PROVE  /\ MavrosSays = IF mavros_rejects THEN "rejects" ELSE "accepts"
             /\ mavros_accepts <=> MavrosSays = "accepts"
             /\ mavros_rejects <=> MavrosSays = "rejects"
             /\ record.interp \in Rejections \cup {"ok", "Unsupported"}
             /\ interp_ok <=> did.interp = "accepts"
             /\ ~interp_gap => did.interp \in {"accepts", "rejects"}
  <2>1. MavrosSays = IF mavros_rejects THEN "rejects" ELSE "accepts"
    BY <1>1, <1>5 DEF MavrosSays
  <2>2. /\ mavros_accepts <=> MavrosSays = "accepts"
        /\ mavros_rejects <=> MavrosSays = "rejects"
    BY <1>1, <1>5 DEF MavrosSays, mavros_rejects, mavros_accepts
  <2>3. record.interp \in Rejections \cup {"ok", "Unsupported"}
    BY <1>1, <1>5, <2>1 DEF Failures, interp_internal
  <2>4. interp_ok <=> did.interp = "accepts"
    BY <1>1, <2>3 DEF InterpSays, interp_ok, Rejections
  <2>5. ~interp_gap => did.interp \in {"accepts", "rejects"}
    BY <1>1, <2>3 DEF InterpSays, interp_gap, Rejections
  <2> QED BY <2>1, <2>2, <2>3, <2>4, <2>5
<1>6. ASSUME record.mavros_compile # "frontend-reject", record.interp # "InputError",
             ~mavros_gap, ~interp_internal, interp_gap
      PROVE  Verdict \in Gaps
  <2>1. ~interp_ok
    BY <1>6 DEF interp_gap, interp_ok
  <2>2. mavros_rejects \/ mavros_accepts
    BY <1>1, <1>5, <1>6
  <2>3. of_expected_failure = "interp-gap"
    BY <1>6, <2>1, <2>2 DEF of_expected_failure
  <2> QED BY <1>1, <1>6, <2>1, <2>3 DEF verdict
<1>7. ASSUME record.mavros_compile # "frontend-reject", record.interp # "InputError",
             ~mavros_gap, ~interp_internal, ~interp_gap
      PROVE  Verdict = IF program.expect_failure THEN of_expected_failure
                       ELSE IF ~interp_ok
                         THEN IF mavros_accepts THEN "INTERP-REJECTS" ELSE "both-reject"
                       ELSE IF ~mavros_accepts THEN "MAVROS-REJECTS" ELSE of_returns
  BY <1>1, <1>7 DEF verdict
<1> QED BY <1>1, <1>2, <1>3, <1>4, <1>5, <1>6, <1>7

LEMMA GapsStayGaps == IInv => GapIsNoOpinion
<1> SUFFICES ASSUME IInv, Judged, did.interp \in {"gap", "bad input"} \/ did.mavros \in {"gap", "frontend"}
             PROVE  Verdict \in {"frontend-reject", "input-error", "both-gap", "mavros-gap",
                                "interp-gap", "interp-internal"}
  BY DEF GapIsNoOpinion
<1> QED BY Opinions

LEMMA ChargesTrue == IInv => ChargesHold
<1> SUFFICES ASSUME IInv, Judged PROVE ChargesHold
  BY DEF ChargesHold
<1>1. CASE Verdict \in {"frontend-reject", "input-error", "both-gap", "mavros-gap",
                        "interp-gap", "interp-internal"}
  BY <1>1 DEF ChargesHold
<1>2. CASE /\ did.interp \in {"accepts", "rejects"} /\ did.mavros \in {"accepts", "rejects"}
           /\ interp_ok <=> did.interp = "accepts"
           /\ mavros_accepts <=> did.mavros = "accepts"
           /\ mavros_rejects <=> did.mavros = "rejects"
           /\ Verdict = IF program.expect_failure THEN of_expected_failure
                        ELSE IF ~interp_ok
                          THEN IF mavros_accepts THEN "INTERP-REJECTS" ELSE "both-reject"
                        ELSE IF ~mavros_accepts THEN "MAVROS-REJECTS" ELSE of_returns
           /\ ~interp_gap
  <2>1. CASE program.expect_failure
    <3>1. Verdict = IF ~interp_ok
                      THEN IF mavros_rejects THEN "agree-reject" ELSE "MAVROS-ACCEPTS"
                      ELSE IF mavros_rejects THEN "INTERP-ACCEPTS" ELSE "both-accept"
      BY <1>2, <2>1 DEF of_expected_failure
    <3> QED BY <1>2, <3>1 DEF ChargesHold
  <2>2. CASE ~program.expect_failure /\ ~(interp_ok /\ mavros_accepts)
    BY <1>2, <2>2 DEF ChargesHold
  <2>3. CASE ~program.expect_failure /\ interp_ok /\ mavros_accepts
    <3>1. Verdict = of_returns /\ did.interp = "accepts" /\ did.mavros = "accepts"
      BY <1>2, <2>3
    <3>2. did.recorded = record.recorded_return /\ Declared
      BY Facts
    <3>3. Verdict = "RECORDED-DIFFERS" => did.recorded = "differs"
      BY <3>1, <3>2 DEF of_returns
    <3>4. Verdict = "RETURN-MISMATCH" => program.returns /\ ~program.same
      BY <3>1, <3>2, <2>3 DEF of_returns, Declared
    <3>5. Verdict \in {"RECORDED-DIFFERS", "agree", "unencodable-return", "RETURN-MISMATCH",
                       "mavros-gap"}
      BY <3>1 DEF of_returns
    <3> QED BY <3>1, <3>3, <3>4, <3>5 DEF ChargesHold
  <2> QED BY <2>1, <2>2, <2>3
<1> QED BY <1>1, <1>2, Opinions

LEMMA AgreementTrue == IInv => AgreementHolds
<1> SUFFICES ASSUME IInv, Judged PROVE AgreementHolds
  BY DEF AgreementHolds
<1>1. CASE Verdict \in {"frontend-reject", "input-error", "both-gap", "mavros-gap",
                        "interp-gap", "interp-internal"}
  BY <1>1 DEF AgreementHolds
<1>2. CASE /\ did.interp \in {"accepts", "rejects"} /\ did.mavros \in {"accepts", "rejects"}
           /\ interp_ok <=> did.interp = "accepts"
           /\ mavros_accepts <=> did.mavros = "accepts"
           /\ mavros_rejects <=> did.mavros = "rejects"
           /\ Verdict = IF program.expect_failure THEN of_expected_failure
                        ELSE IF ~interp_ok
                          THEN IF mavros_accepts THEN "INTERP-REJECTS" ELSE "both-reject"
                        ELSE IF ~mavros_accepts THEN "MAVROS-REJECTS" ELSE of_returns
           /\ ~interp_gap
  <2>1. CASE program.expect_failure
    <3>1. Verdict = IF ~interp_ok
                      THEN IF mavros_rejects THEN "agree-reject" ELSE "MAVROS-ACCEPTS"
                      ELSE IF mavros_rejects THEN "INTERP-ACCEPTS" ELSE "both-accept"
      BY <1>2, <2>1 DEF of_expected_failure
    <3> QED BY <1>2, <3>1 DEF AgreementHolds
  <2>2. CASE ~program.expect_failure /\ ~(interp_ok /\ mavros_accepts)
    BY <1>2, <2>2 DEF AgreementHolds
  <2>3. CASE ~program.expect_failure /\ interp_ok /\ mavros_accepts
    <3>1. Verdict = of_returns /\ did.interp = "accepts" /\ did.mavros = "accepts"
      BY <1>2, <2>3
    <3>2. did.recorded = record.recorded_return /\ Declared
      BY Facts
    <3>3. Verdict = "agree" => (program.returns => program.same) /\ did.recorded # "differs"
      BY <3>1, <3>2 DEF of_returns, Declared
    <3>4. Verdict \in {"RECORDED-DIFFERS", "agree", "unencodable-return", "RETURN-MISMATCH",
                       "mavros-gap"}
      BY <3>1 DEF of_returns
    <3> QED BY <3>1, <3>3, <3>4 DEF AgreementHolds
  <2> QED BY <2>1, <2>2, <2>3
<1> QED BY <1>1, <1>2, Opinions

-----------------------------------------------------------------------------
\* A side that could not process a program is never charged with a bug nor
\* counted as agreeing (verdict, src/mavros_oracle.rs).
THEOREM GapsAreNotVerdicts == Spec => []GapIsNoOpinion
BY Induction, GapsStayGaps, PTL

\* Every bug the sweep reports is one that the runs of both sides show.
THEOREM ChargesAreTrue == Spec => []ChargesHold
BY Induction, ChargesTrue, PTL

\* Every agreement the sweep reports is one that the runs of both sides show.
THEOREM AgreementsAreTrue == Spec => []AgreementHolds
BY Induction, AgreementTrue, PTL
=============================================================================
