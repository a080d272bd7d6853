--------------------------- MODULE MavrosVerdict ----------------------------
(***************************************************************************)
(* One program in a child of the Mavros sweep (src/mavros_oracle.rs:       *)
(* examine, witgen, verdict): the interpreter and Mavros each take their   *)
(* turn, the record keeps the first word of what they said, and the        *)
(* verdict is read off the record.  `program` is what the run is given and *)
(* what Mavros would return; `did` is what each side really did, which the *)
(* verdict must be true of and no step looks at.                           *)
(***************************************************************************)
VARIABLES program, lowering, record, stage, did

vars == <<program, lowering, record, stage, did>>

-----------------------------------------------------------------------------
\* The interpreter's failures by what they say of the program: it is wrong,
\* or the interpreter could not tell.
Rejections == {"AssertionFailed", "Overflow", "DivisionByZero", "ValueOutOfRange"}
Broken     == {"Internal", "Panic", "TypeError"}
Failures   == Rejections \cup Broken \cup {"Unsupported", "InputError"}

\* Witness generation: whether the parameters can be laid out, how the VM
\* ends, whether its witness satisfies the R1CS and the return guard holds.
Run == [params : BOOLEAN, vm : {"result", "trap", "panic"}, satisfied : BOOLEAN,
        guard : BOOLEAN]

witgen(run) ==
  CASE ~run.params                       -> "params"
    [] run.params /\ run.vm # "result"   -> run.vm
    [] run.params /\ run.vm = "result" /\ ~run.satisfied -> "unsat"
    [] run.params /\ run.vm = "result" /\ run.satisfied /\ ~run.guard -> "guard"
    [] OTHER                             -> "ok"

\* What such a run shows of Mavros.
Shows(run) ==
  IF ~run.params \/ run.vm = "panic" THEN "gap"
  ELSE IF run.vm = "trap" \/ ~run.satisfied THEN "rejects"
  ELSE IF ~run.guard THEN "gap" ELSE "accepts"

Fields == {"interp", "recorded_return", "mavros_compile", "witgen_unchecked",
           "witgen_declared", "verdict"}

\* A program of either half of the corpus, with or without a Prover.toml, run
\* with or without generic builtins; whether it returns a value, and whether
\* Mavros computes the value the interpreter does.
Programs == [expect_failure : BOOLEAN, prover : BOOLEAN, generic_builtins : BOOLEAN,
             returns : BOOLEAN, same : BOOLEAN]

\* Record::new: nothing has run.
Init ==
  /\ program \in Programs
  /\ record = [f \in Fields |-> IF f = "verdict" THEN "" ELSE "not-run"]
  /\ lowering = "none"
  /\ stage = "open"
  /\ did = [interp |-> "nothing", mavros |-> "nothing", recorded |-> "not-run"]

Note(field, word) == record' = [record EXCEPT ![field] = word]
At(s)   == stage = s
To(s)   == stage' = s
Mavros(what) == did' = [did EXCEPT !.mavros = what]

-----------------------------------------------------------------------------
\* Project::new.
Open ==
  /\ At("open")
  /\ UNCHANGED <<program, lowering>>
  /\ \/ Note("mavros_compile", "project") /\ To("judge") /\ Mavros("gap")
     \/ To("lower") /\ UNCHANGED <<record, did>>

\* run_noir_compiler and frontend_output: the frontend may reject the program;
\* a failure to lower it may still leave a program to interpret.
Lower ==
  /\ At("lower")
  /\ UNCHANGED program
  /\ \/ /\ Note("mavros_compile", "frontend-reject") /\ To("judge") /\ Mavros("frontend")
        /\ UNCHANGED lowering
     \/ \E failure \in {"none", "lowering-fail", "lowering-panic"} :
          /\ lowering' = failure
          /\ \/ To("interpret") /\ UNCHANGED <<record, did>>
             \/ /\ Note("mavros_compile", IF failure = "none" THEN "no program" ELSE failure)
                /\ To("judge") /\ Mavros("gap")

\* The interpreter, in its own guard.
Interpret ==
  /\ At("interpret")
  /\ UNCHANGED <<program, lowering>>
  /\ To("recorded")
  /\ \/ Note("interp", "ok") /\ did' = [did EXCEPT !.interp = "accepts"]
     \/ \E kind \in Failures :
          /\ Note("interp", kind)
          /\ did' = [did EXCEPT !.interp = IF kind \in Rejections THEN "rejects"
                                           ELSE IF kind = "InputError" THEN "bad input"
                                           ELSE "gap"]

\* The recorded return, and the end of a program that could not be lowered.
CompareRecorded ==
  /\ At("recorded")
  /\ UNCHANGED <<program, lowering>>
  /\ \E word \in IF record.interp # "ok" THEN {"not-run"}
                 ELSE IF ~program.prover THEN {"absent"}
                 ELSE IF program.generic_builtins THEN {"not-compared"}
                 ELSE {"agrees", "differs", "absent", "unreadable"} :
       /\ record' = [record EXCEPT !.recorded_return = word,
                                   !.mavros_compile = IF lowering = "none" THEN @ ELSE lowering]
       /\ did' = [did EXCEPT !.recorded = word,
                             !.mavros = IF lowering = "none" THEN @ ELSE "gap"]
  /\ To(IF lowering = "none" THEN "compile" ELSE "judge")

\* Mavros's back half, in one guard: a refused program is a rejection.
Compile ==
  /\ At("compile")
  /\ UNCHANGED <<program, lowering>>
  /\ \/ Note("mavros_compile", "ok") /\ To("inputs") /\ UNCHANGED did
     \/ Note("mavros_compile", "reject") /\ To("judge") /\ Mavros("rejects")
     \/ \E word \in {"fail", "panic"} :
          Note("mavros_compile", word) /\ To("judge") /\ Mavros("gap")

\* The inputs are parsed with the interpreter's ABI and field: they only fail
\* where the interpreter's did.
ParseInputs ==
  /\ At("inputs")
  /\ UNCHANGED <<program, lowering>>
  /\ \/ To("unchecked") /\ UNCHANGED <<record, did>>
     \/ /\ program.prover /\ record.interp = "InputError"
        /\ Note("witgen_unchecked", "inputs") /\ To("judge") /\ Mavros("gap")

RunUnchecked ==
  /\ At("unchecked")
  /\ UNCHANGED <<program, lowering>>
  /\ \E run \in Run : Note("witgen_unchecked", witgen(run)) /\ Mavros(Shows(run))
  /\ To("declared")

\* The interpreter's value as Mavros's return: a run that gets as far as
\* checking it passes exactly if Mavros computes the same.
RunDeclared ==
  /\ At("declared")
  /\ UNCHANGED <<program, lowering, did>>
  /\ IF record.interp # "ok" THEN UNCHANGED record
     ELSE IF ~program.returns THEN Note("witgen_declared", "no-return")
     ELSE \/ Note("witgen_declared", "unencodable")
          \/ \E run \in Run :
               /\ Shows(run) = "accepts" => program.same
               /\ Shows(run) = "rejects" =>
                    ~program.same \/ record.witgen_unchecked # "ok"
               /\ Note("witgen_declared", witgen(run))
  /\ To("judge")

-----------------------------------------------------------------------------
interp_ok       == record.interp = "ok"
interp_gap      == record.interp = "Unsupported"
interp_internal == record.interp \in Broken
\* Mutant: only the compiler has gaps.
only_compile_gap ==
  record.mavros_compile \in {"panic", "fail", "lowering-fail", "lowering-panic", "project",
                             "no program"}

mavros_gap ==
  \/ record.mavros_compile \in {"panic", "fail", "lowering-fail", "lowering-panic", "project",
                                "no program"}
  \/ record.witgen_unchecked \in {"panic", "params", "inputs", "guard"}
mavros_rejects ==
  \/ record.mavros_compile = "reject"
  \/ record.mavros_compile = "ok" /\ record.witgen_unchecked \in {"unsat", "trap"}
mavros_accepts == record.mavros_compile = "ok" /\ record.witgen_unchecked = "ok"

\* Mutants.  The interpreter's gaps count as failures of the program; a return
\* that could not be declared counts as agreement.
of_expected_failure_with_gaps ==
  IF ~interp_ok /\ mavros_rejects THEN "agree-reject"
  ELSE IF ~interp_ok /\ mavros_accepts THEN "MAVROS-ACCEPTS"
  ELSE IF interp_ok /\ mavros_rejects THEN "INTERP-ACCEPTS"
  ELSE IF interp_ok /\ mavros_accepts THEN "both-accept"
  ELSE "unclassified"
of_returns_unread ==
  IF record.witgen_declared \in {"ok", "no-return", "unencodable"} THEN "agree"
  ELSE "RETURN-MISMATCH"

\* A program that should fail.
of_expected_failure ==
  IF ~interp_ok /\ (mavros_rejects \/ mavros_accepts) /\ interp_gap THEN "interp-gap"
  ELSE IF ~interp_ok /\ mavros_rejects THEN "agree-reject"
  ELSE IF ~interp_ok /\ mavros_accepts THEN "MAVROS-ACCEPTS"
  ELSE IF interp_ok /\ mavros_rejects THEN "INTERP-ACCEPTS"
  ELSE IF interp_ok /\ mavros_accepts THEN "both-accept"
  ELSE "unclassified"

\* A program both sides ran.
of_returns ==
  IF record.recorded_return = "differs" THEN "RECORDED-DIFFERS"
  ELSE IF record.witgen_declared \in {"ok", "no-return"} THEN "agree"
  ELSE IF record.witgen_declared = "unencodable" THEN "unencodable-return"
  ELSE IF record.witgen_declared \in {"unsat", "trap"} THEN "RETURN-MISMATCH"
  ELSE "mavros-gap"

verdict ==
  IF record.mavros_compile = "frontend-reject" THEN "frontend-reject"
  ELSE IF record.interp = "InputError" THEN "input-error"
  ELSE IF mavros_gap
    THEN IF interp_gap \/ interp_internal THEN "both-gap" ELSE "mavros-gap"
  ELSE IF interp_internal THEN "interp-internal"
  ELSE IF program.expect_failure THEN of_expected_failure
  ELSE IF ~interp_ok
    THEN IF interp_gap THEN "interp-gap"
         ELSE IF mavros_accepts THEN "INTERP-REJECTS" ELSE "both-reject"
  ELSE IF ~mavros_accepts THEN "MAVROS-REJECTS"
  ELSE of_returns

Judge ==
  /\ At("judge")
  /\ Note("verdict", verdict)
  /\ To("done")
  /\ UNCHANGED <<program, lowering, did>>

Next == \/ Open \/ Lower \/ Interpret \/ CompareRecorded \/ Compile \/ ParseInputs
        \/ RunUnchecked \/ RunDeclared \/ Judge

Spec == Init /\ [][Next]_vars

-----------------------------------------------------------------------------
Verdict == record.verdict
Judged  == stage = "done"

\* A side that could not process the program neither accepts nor rejects it
\* (the comment of verdict): then no bug is charged to anyone and no agreement
\* is claimed.
GapIsNoOpinion ==
  Judged /\ (did.interp \in {"gap", "bad input"} \/ did.mavros \in {"gap", "frontend"}) =>
    Verdict \in {"frontend-reject", "input-error", "both-gap", "mavros-gap", "interp-gap",
                 "interp-internal"}

\* A verdict that charges one side with a bug is true of what both sides did,
\* and every program both sides ran gets a verdict.
ChargesHold ==
  Judged =>
    /\ Verdict \in {"MAVROS-ACCEPTS", "INTERP-REJECTS"} =>
         did.interp = "rejects" /\ did.mavros = "accepts"
    /\ Verdict \in {"MAVROS-REJECTS", "INTERP-ACCEPTS"} =>
         did.interp = "accepts" /\ did.mavros = "rejects"
    /\ Verdict = "RETURN-MISMATCH" =>
         did.interp = "accepts" /\ did.mavros = "accepts" /\ program.returns /\ ~program.same
    /\ Verdict = "RECORDED-DIFFERS" => did.interp = "accepts" /\ did.recorded = "differs"
    /\ Verdict # "unclassified"

\* A claimed agreement is one: both sides said the same of the program, and
\* where it succeeds and its return could be declared, computed the same value.
AgreementHolds ==
  Judged =>
    /\ Verdict \in {"agree-reject", "both-reject"} =>
         did.interp = "rejects" /\ did.mavros = "rejects"
    /\ Verdict \in {"agree", "both-accept", "unencodable-return"} =>
         did.interp = "accepts" /\ did.mavros = "accepts"
    /\ Verdict = "agree" => (program.returns => program.same) /\ did.recorded # "differs"
=============================================================================
