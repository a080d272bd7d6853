------------------------------ MODULE Verdicts ------------------------------
(***************************************************************************)
(* One program of the sweep: its run under each field, recorded step by    *)
(* step, and the row of STATUS.md that the two records give.  What the     *)
(* frontend, the interpreter and the input bridge do is not looked into:   *)
(* each step ends in any of the ways it can.                               *)
(*                                                                         *)
(* An optional value is a set of at most one element.                      *)
(***************************************************************************)
EXTENDS Integers

CONSTANTS RunError,     \* kinds of failure of a program that runs: a failed
                        \* assertion, an overflow, ...
          Shape,        \* what of a value must match exactly across fields
          Element,      \* the Field elements in a value, which need not
          Hash          \* hashes of projected programs

ASSUME VerdictsAssumption ==
  RunError \cap {"None", "ProjectLoad", "CompileError", "InputError", "Unsupported",
                 "Internal", "Panic", "OracleMismatch"} = {}

VARIABLES program,      \* what the tables and the directory say of the program
          record,       \* its RunRecord under each field
          at,           \* the step each run is at
          row           \* the rendered row

vars == <<program, record, at, row>>

Field == {"bn254", "goldilocks"}

Value == [shape : Shape, element : Element]

FailureKind == RunError \cup {"ProjectLoad", "CompileError", "InputError", "Unsupported",
                              "Internal", "Panic", "OracleMismatch"}

\* width: the text is one that is_field_refusal recognizes under the run's field.
Failed(kind)      == [is |-> "Failed", kind |-> kind, width |-> FALSE]
WidthRefusal(kind) == [is |-> "Failed", kind |-> kind, width |-> TRUE]
Passed == [is |-> "Passed", kind |-> "None", width |-> FALSE]
NotRun == [is |-> "NotRun", kind |-> "None", width |-> FALSE]

StepOutcome == {Passed, NotRun} \cup {Failed(k) : k \in FailureKind}
                 \cup {WidthRefusal(k) : k \in {"CompileError", "InputError"}}

Option(S) == {{}} \cup {{x} : x \in S}

RunRecord ==
  [load : StepOutcome, compile : StepOutcome, interpret : StepOutcome, oracle : StepOutcome,
   projection : StepOutcome, returned : Option(Value), projection_hash : Option(Hash)]

\* tagged is an entry of PROGRAM_CAPABILITIES, allowlisted one of KNOWN_FIELD_DEPENDENT,
\* invariant one of PROJECTION_INVARIANT_FIXTURES.
Program == [workspace : BOOLEAN, prover : {"None", "Inputs", "Return"}, recorded : Value,
            allowlisted : BOOLEAN, tagged : BOOLEAN, invariant : BOOLEAN]

TypeOK == /\ program \in Program
          /\ record \in [Field -> RunRecord]
          /\ at \in [Field -> {"Load", "Compile", "Project", "Interpret", "Oracle", "Done"}]

-----------------------------------------------------------------------------
(* The record of one run: run_record, run_steps. *)

NothingRun == [load |-> NotRun, compile |-> NotRun, interpret |-> NotRun, oracle |-> NotRun,
               projection |-> NotRun, returned |-> {}, projection_hash |-> {}]

Init == /\ program \in Program
        /\ record = [f \in Field |-> NothingRun]
        /\ at = [f \in Field |-> IF program.workspace THEN "Done" ELSE "Load"]
        /\ row = {}

Pass(f, step, next) == /\ record' = [record EXCEPT ![f][step] = Passed]
                       /\ at' = [at EXCEPT ![f] = next]
                       /\ UNCHANGED <<program, row>>

Stop(f, step, failure) == /\ record' = [record EXCEPT ![f][step] = failure]
                          /\ at' = [at EXCEPT ![f] = "Done"]
                          /\ UNCHANGED <<program, row>>

\* Every step runs under a guard that makes a panic one more failure.
Load(f) == /\ at[f] = "Load"
           /\ \/ Pass(f, "load", "Compile")
              \/ \E k \in {"ProjectLoad", "Panic"} : Stop(f, "load", Failed(k))

Compile(f) == /\ at[f] = "Compile"
              /\ \/ Pass(f, "compile", "Project")
                 \/ \E k \in {"CompileError", "Panic"} : Stop(f, "compile", Failed(k))
                 \/ Stop(f, "compile", WidthRefusal("CompileError"))

\* A projection that panics does not stop the run.
Project(f) == /\ at[f] = "Project"
              /\ \/ \E h \in Hash : record' = [record EXCEPT ![f].projection = Passed,
                                                             ![f].projection_hash = {h}]
                 \/ record' = [record EXCEPT ![f].projection = Failed("Panic")]
              /\ at' = [at EXCEPT ![f] = "Interpret"]
              /\ UNCHANGED <<program, row>>

Returns(f, v) == /\ record' = [record EXCEPT ![f].interpret = Passed, ![f].returned = {v}]
                 /\ at' = [at EXCEPT ![f] = "Oracle"]
                 /\ UNCHANGED <<program, row>>

InterpretFailure ==
  {Failed(k) : k \in RunError \cup {"InputError", "Unsupported", "Internal", "Panic"}}
    \cup {WidthRefusal("InputError") : p \in {program.prover} \ {"None"}}

\* Decode the inputs, interpret, encode the value.
Interpret(f) == /\ at[f] = "Interpret"
                /\ \/ \E v \in Value : Returns(f, v)
                   \/ \E e \in InterpretFailure : Stop(f, "interpret", e)

values_equivalent(v, w) == v.shape = w.shape

\* Slip: Field elements are ignored under bn254 too.
CompareLoosely(f, v) ==
  IF values_equivalent(v, program.recorded) THEN Passed ELSE Failed("OracleMismatch")

compare_with_recorded(f, v) ==
  IF values_equivalent(v, program.recorded) /\ (f # "bn254" \/ v = program.recorded)
  THEN Passed
  ELSE Failed("OracleMismatch")

\* A recorded return the field or the input bridge refuses is not checked.
oracle_step(f) ==
  CASE program.prover = "None"   -> {NotRun}
    [] program.prover = "Inputs" -> {NotRun}
    [] program.prover = "Return" ->
         {compare_with_recorded(f, v) : v \in record[f].returned}
           \cup {NotRun, Failed("Internal"), Failed("Panic")}

\* Slip: a return that was not confirmed is not kept.
OracleDecides(f) == /\ at[f] = "Oracle"
                    /\ \E s \in oracle_step(f) :
                         record' = [record EXCEPT ![f].oracle = s,
                                                  ![f].returned = IF s = Passed THEN @ ELSE {}]
                    /\ at' = [at EXCEPT ![f] = "Done"]
                    /\ UNCHANGED <<program, row>>

Oracle(f) == /\ at[f] = "Oracle"
             /\ \E s \in oracle_step(f) : record' = [record EXCEPT ![f].oracle = s]
             /\ at' = [at EXCEPT ![f] = "Done"]
             /\ UNCHANGED <<program, row>>

-----------------------------------------------------------------------------
(* The comparison of the two records: outcomes_equivalent, classify. *)

Placeholder == Failed("Internal")

\* The value, else the first failed step.
outcome(r) ==
  LET step   == <<r.load, r.compile, r.interpret>>
      failed == {i \in 1 .. 3 : step[i].is = "Failed"}
      first  == CHOOSE i \in failed : \A j \in failed : i <= j
  IN  IF r.returned # {} THEN [returned |-> r.returned, error |-> Passed]
      ELSE [returned |-> {}, error |-> IF failed = {} THEN Placeholder ELSE step[first]]

is_hard_failure(o) == o.error.kind \in {"Panic", "Internal"}
is_coverage_gap(o) == o.error.kind = "Unsupported"

SameResult(a, b) ==
  \/ \E v \in a.returned, w \in b.returned : values_equivalent(v, w)
  \/ a.returned = {} /\ b.returned = {} /\ a.error.kind = b.error.kind

\* Slip: gaps are excused before crashes are looked for.
GapsFirst(a, b) ==
  \/ is_coverage_gap(a) \/ is_coverage_gap(b)
  \/ ~is_hard_failure(a) /\ ~is_hard_failure(b) /\ SameResult(a, b)

outcomes_equivalent(a, b) ==
  /\ ~is_hard_failure(a) /\ ~is_hard_failure(b)
  /\ is_coverage_gap(a) \/ is_coverage_gap(b) \/ SameResult(a, b)

outcome_is_tolerated(a, b) ==
  /\ ~is_hard_failure(a) /\ ~is_hard_failure(b)
  /\ is_coverage_gap(a) \/ is_coverage_gap(b)

\* Slip: the tag is looked up without the field.
PredictedAnywhere(f) == program.tagged

\* Each tag of the table holds of bn254 and fails for goldilocks.
predicted_gap(f) == program.tagged /\ f = "goldilocks"

\* The field that refused the program for its width when the other returned a value.
RefusingSide(a, b) ==
  {f \in {"goldilocks"} : a.returned # {} /\ b.error.width}
    \cup {f \in {"bn254"} : b.returned # {} /\ a.error.width}

divergence_is_allowlistable(a, b) == ~is_hard_failure(a) /\ ~is_hard_failure(b)

Difference(a, b) ==
  IF \E f \in RefusingSide(a, b) : predicted_gap(f) THEN "PredictedGap"
  ELSE IF program.allowlisted /\ divergence_is_allowlistable(a, b) THEN "FieldDependent"
  ELSE "Divergence"

Gap(a, b) ==
  IF a.returned = {} /\ b.returned = {} THEN "CoverageGap"
  ELSE IF program.allowlisted THEN "FieldDependent"
  ELSE "UnexpectedGap"

classify(a, b) ==
  IF ~outcomes_equivalent(a, b) THEN Difference(a, b)
  ELSE IF outcome_is_tolerated(a, b) THEN Gap(a, b)
  ELSE IF a.returned # b.returned THEN "EqualModuloField"
  ELSE "Equal"

glyph(step) == step.is

step_glyphs(r) == <<IF r.load = Passed THEN glyph(r.compile) ELSE glyph(r.load),
                    glyph(r.interpret), glyph(r.oracle)>>

ast_glyph(a, b) ==
  IF "Failed" \in {a.projection.is, b.projection.is} THEN "Failed"
  ELSE IF {} \in {a.projection_hash, b.projection_hash} THEN "NotRun"
  ELSE IF a.projection_hash = b.projection_hash THEN "Passed"
  ELSE "Failed"

\* Slip: only an equal row makes an allowlist entry stale.
StaleIfEqual(verdict, ast) ==
  {v \in {"allowlist"}  : program.allowlisted /\ verdict = "Equal"}
    \cup {v \in {"tag"} : program.tagged /\ verdict # "PredictedGap"}
    \cup {v \in {"projection"} : program.invariant /\ ast # "Passed"}

\* The harness's own invariants, which fail the render.
invariant_violations(verdict, ast) ==
  {v \in {"allowlist"}  : program.allowlisted /\ verdict # "FieldDependent"}
    \cup {v \in {"tag"} : program.tagged /\ verdict # "PredictedGap"}
    \cup {v \in {"projection"} : program.invariant /\ ast # "Passed"}

RowOf(a, b) ==
  LET skipped == a.load = NotRun /\ b.load = NotRun
      verdict == IF skipped THEN "NotRun" ELSE classify(outcome(a), outcome(b))
      ast     == IF skipped THEN "NotRun" ELSE ast_glyph(a, b)
  IN  [verdict |-> verdict, ast |-> ast, bn254 |-> step_glyphs(a), goldilocks |-> step_glyphs(b),
       violations |-> invariant_violations(verdict, ast)]

Render == /\ row = {} /\ \A f \in Field : at[f] = "Done"
          /\ row' = {RowOf(record["bn254"], record["goldilocks"])}
          /\ UNCHANGED <<program, record, at>>

Next == \/ \E f \in Field : Load(f) \/ Compile(f) \/ Project(f) \/ Interpret(f) \/ Oracle(f)
        \/ Render

Spec == Init /\ [][Next]_vars

-----------------------------------------------------------------------------
(* Properties. *)

Crashed(r) == \E s \in {"load", "compile", "interpret"} : r[s].kind \in {"Panic", "Internal"}

\* The interpreter ran the program to its own end: a value or its own failure.
Ran(r) == r.returned # {} \/ r.interpret.kind \in RunError

\* A finished run of a program that is not a workspace has a value or a
\* failed step but never both, so its outcome is not the placeholder of
\* RunRecord::outcome, whatever the oracle and the projection did.
EveryRunHasOutcome ==
  \A f \in Field : at[f] = "Done" /\ ~program.workspace =>
    LET failed == {s \in {"load", "compile", "interpret"} : record[f][s].is = "Failed"}
    IN  \/ record[f].returned # {} /\ failed = {}
        \/ record[f].returned = {} /\ \E s \in failed : failed = {s}

\* What each verdict says of the two runs (the comments on enum Verdict),
\* in terms of what the records hold and not of how classify decides.
VerdictMeans ==
  \A r \in row :
    LET a == record["bn254"]
        b == record["goldilocks"]
        bothReturned == a.returned # {} /\ b.returned # {}
        oneReturned  == (a.returned = {}) # (b.returned = {})
        unsupported(x) == x.interpret.kind = "Unsupported"
    IN  /\ r.verdict = "NotRun" <=> program.workspace
        /\ r.verdict = "EqualModuloField" <=>
             bothReturned /\ \E v \in a.returned, w \in b.returned :
                                v.shape = w.shape /\ v.element # w.element
        /\ r.verdict = "Equal" =>
             \/ bothReturned /\ a.returned = b.returned
             \/ \E s \in {"load", "compile", "interpret"} :
                  a[s].is = "Failed" /\ b[s].is = "Failed" /\ a[s].kind = b[s].kind
        /\ r.verdict = "PredictedGap" => program.tagged /\ a.returned # {} /\ b.returned = {}
                                         /\ ~Ran(b) /\ ~unsupported(b)
        /\ r.verdict = "FieldDependent" => program.allowlisted
        /\ r.verdict = "UnexpectedGap" => oneReturned /\ (unsupported(a) \/ unsupported(b))
                                          /\ ~program.allowlisted
        /\ r.verdict = "CoverageGap" => ~bothReturned /\ ~oneReturned
                                        /\ (unsupported(a) \/ unsupported(b))

\* A crash of the frontend, the projector's caller or the interpreter under
\* either field is a divergence in the row: no gap under the other field, no
\* tag and no allowlist entry excuses it.
CrashIsDivergence ==
  \A r \in row : (\E f \in Field : Crashed(record[f])) => r.verdict = "Divergence"

\* A render without violations leaves no stale entry in the tables: an
\* allowlisted program gave different results, a tagged one was refused by
\* goldilocks for its width and by nothing else.
NoStaleEntry ==
  \A r \in row : r.violations = {} =>
    LET a == record["bn254"]
        b == record["goldilocks"]
    IN  /\ program.allowlisted =>
             ~ \E v \in a.returned, w \in b.returned : v.shape = w.shape
        /\ program.tagged => a.returned # {} /\ (b.compile.width \/ b.interpret.width)

\* A row with no mark against it is a program that both fields compile to the
\* same projection and that returns what Prover.toml records, every Field
\* element included under bn254.
CleanRowAgrees ==
  \A r \in row :
    /\ r.bn254 = <<"Passed", "Passed", "Passed">> /\ r.goldilocks = r.bn254 /\ r.ast = "Passed"
    /\ r.verdict \in {"Equal", "EqualModuloField"}
    => /\ record["bn254"].returned = {program.recorded}
       /\ \E v \in record["goldilocks"].returned : v.shape = program.recorded.shape
       /\ record["bn254"].projection_hash = record["goldilocks"].projection_hash

\* The comment on Verdict::CoverageGap and the legend of STATUS.md: neither
\* side ran the program.
BothSidesDidNotRun ==
  \A r \in row : r.verdict = "CoverageGap" => \A f \in Field : ~Ran(record[f])
=============================================================================
