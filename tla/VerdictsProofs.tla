--------------------------- MODULE VerdictsProofs ---------------------------
(***************************************************************************)
(* The row of a program, whatever kinds of failure, values and hashes      *)
(* there are: a run always has an outcome, a crash is never excused, the   *)
(* tables are not stale and verdicts and clean rows are true of the runs.  *)
(***************************************************************************)
EXTENDS Verdicts, TLAPS

\* How far a run has come, and what a run that is done has in its record.
Fresh(r)  == r.load = NotRun /\ r.compile = NotRun /\ r.interpret = NotRun /\ r.returned = {}
Loaded(r) == r.load = Passed /\ r.compile = NotRun /\ r.interpret = NotRun /\ r.returned = {}
Compiled(r) == r.load = Passed /\ r.compile = Passed /\ r.interpret = NotRun /\ r.returned = {}
Returned(r) == r.load = Passed /\ r.compile = Passed /\ r.interpret = Passed /\ r.returned # {}

Unloadable(r) == r.load.is = "Failed" /\ r.compile = NotRun /\ r.interpret = NotRun
                 /\ r.returned = {}
Rejected(r) == r.load = Passed /\ r.compile.is = "Failed" /\ r.interpret = NotRun
               /\ r.returned = {}
Aborted(r) == r.load = Passed /\ r.compile = Passed /\ r.interpret.is = "Failed"
              /\ r.returned = {}

Stage(place, r) ==
  /\ program.workspace => place = "Done"
  /\ place = "Load" => Fresh(r)
  /\ place = "Compile" => Loaded(r)
  /\ place \in {"Project", "Interpret"} => Compiled(r)
  /\ place = "Oracle" => Returned(r)
  /\ place = "Done" => IF program.workspace THEN Fresh(r)
                       ELSE Unloadable(r) \/ Rejected(r) \/ Aborted(r) \/ Returned(r)

Stages == \A f \in Field : Stage(at[f], record[f])

RowIsOfRecords ==
  row # {} => /\ \A f \in Field : at[f] = "Done"
              /\ row = {RowOf(record["bn254"], record["goldilocks"])}

IInv == TypeOK /\ Stages /\ RowIsOfRecords

-----------------------------------------------------------------------------

\* One run moves to a right record at a right place; no row is there yet.
LEMMA RunKeeps ==
  ASSUME IInv, NEW f \in Field, at[f] # "Done", NEW r \in RunRecord,
         NEW place \in {"Load", "Compile", "Project", "Interpret", "Oracle", "Done"},
         Stage(place, r),
         record' = [record EXCEPT ![f] = r], at' = [at EXCEPT ![f] = place],
         UNCHANGED <<program, row>>
  PROVE  IInv'
<1>1. TypeOK'  BY DEF IInv, TypeOK
<1>2. Stages'
  <2> SUFFICES ASSUME NEW g \in Field PROVE Stage(at[g], record[g])'  BY DEF Stages
  <2>1. CASE g = f
    <3>1. at'[g] = place /\ record'[g] = r  BY <2>1 DEF IInv, TypeOK
    <3> QED BY <3>1 DEF Stage, Fresh, Loaded, Compiled, Returned, Unloadable, Rejected, Aborted
  <2>2. CASE g # f
    <3>1. at'[g] = at[g] /\ record'[g] = record[g]  BY <2>2 DEF IInv, TypeOK
    <3>2. Stage(at[g], record[g])  BY DEF IInv, Stages
    <3> QED BY <3>1, <3>2 DEF Stage, Fresh, Loaded, Compiled, Returned, Unloadable, Rejected,
                              Aborted
  <2> QED BY <2>1, <2>2
<1>3. row' = {}  BY DEF IInv, RowIsOfRecords
<1> QED BY <1>1, <1>2, <1>3 DEF IInv, RowIsOfRecords

LEMMA LoadKeeps == ASSUME IInv, NEW f \in Field, Load(f) PROVE IInv'
<1>1. record[f] \in RunRecord /\ at[f] = "Load" /\ Fresh(record[f]) /\ ~program.workspace
      /\ record \in [Field -> RunRecord]
  BY DEF IInv, TypeOK, Stages, Stage, Load
<1>2. UNCHANGED <<program, row>>  BY DEF Load, Pass, Stop
<1>3. CASE Pass(f, "load", "Compile")
  <2> DEFINE r == [record[f] EXCEPT !.load = Passed]
  <2>1. r \in RunRecord /\ Loaded(r)
    BY <1>1 DEF RunRecord, StepOutcome, Fresh, Loaded
  <2>2. record' = [record EXCEPT ![f] = r] /\ at' = [at EXCEPT ![f] = "Compile"]
    BY <1>3 DEF Pass
  <2> HIDE DEF r
  <2>3. Stage("Compile", r)  BY <1>1, <2>1 DEF Stage
  <2> QED BY <1>1, <1>2, <2>1, <2>2, <2>3, RunKeeps
<1>4. ASSUME NEW k \in {"ProjectLoad", "Panic"}, Stop(f, "load", Failed(k))
      PROVE IInv'
  <2> DEFINE r == [record[f] EXCEPT !.load = Failed(k)]
  <2>1. Failed(k) \in StepOutcome /\ Failed(k).is = "Failed"
    BY DEF StepOutcome, FailureKind, Failed
  <2>2. r \in RunRecord /\ Unloadable(r)
    BY <1>1, <2>1 DEF RunRecord, Fresh, Unloadable
  <2>3. record' = [record EXCEPT ![f] = r] /\ at' = [at EXCEPT ![f] = "Done"]
    BY <1>4 DEF Stop
  <2> HIDE DEF r
  <2>4. ~program.workspace  BY <1>1
  <2>5. Stage("Done", r)  BY <2>2, <2>4 DEF Stage
  <2> QED BY <1>1, <1>2, <2>2, <2>3, <2>5, RunKeeps
<1> QED BY <1>3, <1>4 DEF Load

LEMMA CompileKeeps == ASSUME IInv, NEW f \in Field, Compile(f) PROVE IInv'
<1>1. record[f] \in RunRecord /\ at[f] = "Compile" /\ Loaded(record[f]) /\ ~program.workspace
      /\ record \in [Field -> RunRecord]
  BY DEF IInv, TypeOK, Stages, Stage, Compile
<1>2. UNCHANGED <<program, row>>  BY DEF Compile, Pass, Stop
<1>3. CASE Pass(f, "compile", "Project")
  <2> DEFINE r == [record[f] EXCEPT !.compile = Passed]
  <2>1. r \in RunRecord /\ Compiled(r)
    BY <1>1 DEF RunRecord, StepOutcome, Loaded, Compiled
  <2>2. record' = [record EXCEPT ![f] = r] /\ at' = [at EXCEPT ![f] = "Project"]
    BY <1>3 DEF Pass
  <2> HIDE DEF r
  <2>3. Stage("Project", r)  BY <1>1, <2>1 DEF Stage
  <2> QED BY <1>1, <1>2, <2>1, <2>2, <2>3, RunKeeps
<1>4. ASSUME NEW e \in StepOutcome, e.is = "Failed", Stop(f, "compile", e)
      PROVE  IInv'
  <2> DEFINE r == [record[f] EXCEPT !.compile = e]
  <2>1. r \in RunRecord /\ Rejected(r)
    BY <1>1, <1>4 DEF RunRecord, Loaded, Rejected
  <2>2. record' = [record EXCEPT ![f] = r] /\ at' = [at EXCEPT ![f] = "Done"]
    BY <1>4 DEF Stop
  <2> HIDE DEF r
  <2>3. Stage("Done", r)  BY <1>1, <2>1 DEF Stage
  <2> QED BY <1>1, <1>2, <2>1, <2>2, <2>3, RunKeeps
<1>5. /\ \A k \in {"CompileError", "Panic"} :
           Failed(k) \in StepOutcome /\ Failed(k).is = "Failed"
      /\ WidthRefusal("CompileError") \in StepOutcome
      /\ WidthRefusal("CompileError").is = "Failed"
  BY DEF StepOutcome, FailureKind, Failed, WidthRefusal
<1> QED BY <1>3, <1>4, <1>5 DEF Compile

LEMMA ProjectKeeps == ASSUME IInv, NEW f \in Field, Project(f) PROVE IInv'
<1>1. record[f] \in RunRecord /\ at[f] = "Project" /\ Compiled(record[f]) /\ ~program.workspace
      /\ record \in [Field -> RunRecord]
  BY DEF IInv, TypeOK, Stages, Stage, Project
<1>2. ASSUME NEW step \in StepOutcome, NEW hash \in Option(Hash),
             record' = [record EXCEPT ![f] = [record[f] EXCEPT !.projection = step,
                                                               !.projection_hash = hash]]
      PROVE  IInv'
  <2> DEFINE r == [record[f] EXCEPT !.projection = step, !.projection_hash = hash]
  <2>1. r \in RunRecord /\ Compiled(r)
    BY <1>1 DEF RunRecord, Compiled
  <2>2. record' = [record EXCEPT ![f] = r] /\ at' = [at EXCEPT ![f] = "Interpret"]
    BY <1>2 DEF Project
  <2> HIDE DEF r
  <2>3. Stage("Interpret", r)  BY <1>1, <2>1 DEF Stage
  <2>4. UNCHANGED <<program, row>>  BY DEF Project
  <2> QED BY <1>1, <2>1, <2>2, <2>3, <2>4, RunKeeps
<1>3. Passed \in StepOutcome /\ Failed("Panic") \in StepOutcome
  BY DEF StepOutcome, FailureKind
<1>4. CASE \E h \in Hash : record' = [record EXCEPT ![f].projection = Passed,
                                                    ![f].projection_hash = {h}]
  <2> PICK h \in Hash : record' = [record EXCEPT ![f].projection = Passed,
                                                 ![f].projection_hash = {h}]
    BY <1>4
  <2>1. {h} \in Option(Hash)  BY DEF Option
  <2>2. record' = [record EXCEPT ![f] = [record[f] EXCEPT !.projection = Passed,
                                                          !.projection_hash = {h}]]
    BY <1>1
  <2> QED BY <1>2, <1>3, <2>1, <2>2
<1>5. CASE record' = [record EXCEPT ![f].projection = Failed("Panic")]
  <2> DEFINE old == record[f].projection_hash
  <2>1. old \in Option(Hash)  BY <1>1 DEF RunRecord
  <2>2. [record[f] EXCEPT !.projection = Failed("Panic"), !.projection_hash = old]
          = [record[f] EXCEPT !.projection = Failed("Panic")]
    BY <1>1 DEF RunRecord
  <2>3. record' = [record EXCEPT ![f] = [record[f] EXCEPT !.projection = Failed("Panic"),
                                                          !.projection_hash = old]]
    BY <1>5, <2>2
  <2> QED BY <1>2, <1>3, <2>1, <2>3
<1> QED BY <1>4, <1>5 DEF Project

LEMMA InterpretKeeps == ASSUME IInv, NEW f \in Field, Interpret(f) PROVE IInv'
<1>1. record[f] \in RunRecord /\ at[f] = "Interpret" /\ Compiled(record[f])
      /\ ~program.workspace /\ record \in [Field -> RunRecord]
  BY DEF IInv, TypeOK, Stages, Stage, Interpret
<1>2. UNCHANGED <<program, row>>  BY DEF Interpret, Returns, Stop
<1>3. ASSUME NEW v \in Value, Returns(f, v) PROVE IInv'
  <2> DEFINE r == [record[f] EXCEPT !.interpret = Passed, !.returned = {v}]
  <2>1. {v} \in Option(Value) /\ Passed \in StepOutcome  BY DEF Option, StepOutcome
  <2>2. r \in RunRecord /\ Returned(r)
    BY <1>1, <2>1 DEF RunRecord, Compiled, Returned
  <2>3. record' = [record EXCEPT ![f] = r] /\ at' = [at EXCEPT ![f] = "Oracle"]
    BY <1>3 DEF Returns
  <2> HIDE DEF r
  <2>4. Stage("Oracle", r)  BY <1>1, <2>2 DEF Stage
  <2> QED BY <1>1, <1>2, <2>2, <2>3, <2>4, RunKeeps
<1>4. ASSUME NEW e \in InterpretFailure, Stop(f, "interpret", e) PROVE IInv'
  <2>1. e \in StepOutcome /\ e.is = "Failed"
    BY DEF InterpretFailure, StepOutcome, FailureKind, Failed, WidthRefusal
  <2> DEFINE r == [record[f] EXCEPT !.interpret = e]
  <2>2. r \in RunRecord /\ Aborted(r)
    BY <1>1, <2>1 DEF RunRecord, Compiled, Aborted
  <2>3. record' = [record EXCEPT ![f] = r] /\ at' = [at EXCEPT ![f] = "Done"]
    BY <1>4 DEF Stop
  <2> HIDE DEF r
  <2>4. Stage("Done", r)  BY <1>1, <2>2 DEF Stage
  <2> QED BY <1>1, <1>2, <2>2, <2>3, <2>4, RunKeeps
<1> QED BY <1>3, <1>4 DEF Interpret

LEMMA OracleKeeps == ASSUME IInv, NEW f \in Field, Oracle(f) PROVE IInv'
<1>1. record[f] \in RunRecord /\ at[f] = "Oracle" /\ Returned(record[f])
      /\ ~program.workspace /\ record \in [Field -> RunRecord] /\ program \in Program
  BY DEF IInv, TypeOK, Stages, Stage, Oracle
<1>2. PICK s \in oracle_step(f) : record' = [record EXCEPT ![f].oracle = s]
  BY DEF Oracle
<1>3. s \in StepOutcome
  <2>1. program.prover \in {"None", "Inputs", "Return"}  BY <1>1 DEF Program
  <2>2. s \in {NotRun, Passed, Failed("OracleMismatch"), Failed("Internal"), Failed("Panic")}
    BY <2>1 DEF oracle_step, compare_with_recorded
  <2> QED BY <2>2 DEF StepOutcome, FailureKind
<1> DEFINE r == [record[f] EXCEPT !.oracle = s]
<1>4. r \in RunRecord /\ Returned(r)
  BY <1>1, <1>3 DEF RunRecord, Returned
<1>5. /\ record' = [record EXCEPT ![f] = r] /\ at' = [at EXCEPT ![f] = "Done"]
      /\ UNCHANGED <<program, row>>
  BY <1>2 DEF Oracle
<1> HIDE DEF r
<1>6. Stage("Done", r)  BY <1>1, <1>4 DEF Stage
<1> QED BY <1>1, <1>4, <1>5, <1>6, RunKeeps

LEMMA RenderKeeps == ASSUME IInv, Render PROVE IInv'
<1>1. UNCHANGED <<program, record, at>>  BY DEF Render
<1>2. Stages'
  BY <1>1 DEF IInv, Stages, Stage, Fresh, Loaded, Compiled, Returned, Unloadable, Rejected, Aborted
<1>3. RowIsOfRecords'
  <2>1. (\A f \in Field : at[f] = "Done") /\ row' = {RowOf(record["bn254"], record["goldilocks"])}
    BY DEF Render
  <2>2. RowOf(record["bn254"], record["goldilocks"])' = RowOf(record["bn254"], record["goldilocks"])
    BY <1>1 DEF RowOf, classify, Difference, Gap, predicted_gap, invariant_violations
  <2> QED BY <1>1, <2>1, <2>2 DEF RowIsOfRecords
<1> QED BY <1>1, <1>2, <1>3 DEF IInv, TypeOK

LEMMA Initially == Init => IInv
<1> SUFFICES ASSUME Init PROVE IInv  OBVIOUS
<1>1. NothingRun \in RunRecord /\ Fresh(NothingRun)
  BY DEF NothingRun, RunRecord, StepOutcome, Option, Fresh
<1>2. TypeOK  BY <1>1 DEF Init, TypeOK
<1>3. Stages  BY <1>1 DEF Init, Stages, Stage
<1> QED BY <1>2, <1>3 DEF IInv, Init, RowIsOfRecords

LEMMA Inductive == IInv /\ [Next]_vars => IInv'
<1> SUFFICES ASSUME IInv, [Next]_vars PROVE IInv'  OBVIOUS
<1>1. CASE UNCHANGED vars
  <2>1. UNCHANGED <<program, record, at, row>>  BY <1>1 DEF vars
  <2>2. Stages'
    BY <2>1 DEF IInv, Stages, Stage, Fresh, Loaded, Compiled, Returned, Unloadable, Rejected,
                Aborted
  <2>3. RowOf(record["bn254"], record["goldilocks"])' = RowOf(record["bn254"], record["goldilocks"])
    BY <2>1 DEF RowOf, classify, Difference, Gap, predicted_gap, invariant_violations
  <2> QED BY <2>1, <2>2, <2>3 DEF IInv, TypeOK, RowIsOfRecords
<1> QED BY <1>1, LoadKeeps, CompileKeeps, ProjectKeeps, InterpretKeeps, OracleKeeps, RenderKeeps
        DEF Next

-----------------------------------------------------------------------------
(* What the comparison makes of two runs that are done. *)

\* The outcome of a run is its value or the one step that failed.
LEMMA OutcomeOf ==
  ASSUME NEW r
  PROVE  /\ Returned(r)   => outcome(r) = [returned |-> r.returned, error |-> Passed]
         /\ Unloadable(r) => outcome(r) = [returned |-> {}, error |-> r.load]
         /\ Rejected(r)   => outcome(r) = [returned |-> {}, error |-> r.compile]
         /\ Aborted(r)    => outcome(r) = [returned |-> {}, error |-> r.interpret]
<1> DEFINE step   == <<r.load, r.compile, r.interpret>>
           failed == {i \in 1 .. 3 : step[i].is = "Failed"}
           first  == CHOOSE i \in failed : \A j \in failed : i <= j
<1>1. Passed.is # "Failed" /\ NotRun.is # "Failed"  BY DEF Passed, NotRun
<1>2. step[1] = r.load /\ step[2] = r.compile /\ step[3] = r.interpret  OBVIOUS
<1>3. ASSUME Returned(r)
      PROVE  outcome(r) = [returned |-> r.returned, error |-> Passed]
  BY <1>3 DEF Returned, outcome
<1>4. ASSUME NEW n \in 1 .. 3, failed = {n}, r.returned = {}
      PROVE  outcome(r) = [returned |-> {}, error |-> step[n]]
  <2>1. first = n  BY <1>4
  <2>2. failed # {}  BY <1>4
  <2> QED BY <1>4, <2>1, <2>2 DEF outcome
<1>5. /\ Unloadable(r) => failed = {1} /\ r.returned = {}
      /\ Rejected(r)   => failed = {2} /\ r.returned = {}
      /\ Aborted(r)    => failed = {3} /\ r.returned = {}
  <2>1. failed = {i \in {1, 2, 3} : step[i].is = "Failed"}  OBVIOUS
  <2> HIDE DEF failed, step
  <2> QED BY <1>1, <1>2, <2>1 DEF Unloadable, Rejected, Aborted
<1> HIDE DEF failed, step
<1> QED BY <1>2, <1>3, <1>4, <1>5

\* A finished run of a program that is no workspace.
Finished(r) == Unloadable(r) \/ Rejected(r) \/ Aborted(r) \/ Returned(r)

LEMMA CrashedOutcome ==
  ASSUME NEW r \in RunRecord, Finished(r), Crashed(r)
  PROVE  outcome(r).returned = {} /\ is_hard_failure(outcome(r)) /\ ~outcome(r).error.width
<1>1. Passed.kind = "None" /\ NotRun.kind = "None"  BY DEF Passed, NotRun
<1>2. r.load.kind \in {"Panic", "Internal"} \/ r.compile.kind \in {"Panic", "Internal"}
      \/ r.interpret.kind \in {"Panic", "Internal"}
  BY DEF Crashed
<1>3. \A s \in StepOutcome : s.kind \in {"Panic", "Internal"} => ~s.width
  BY DEF StepOutcome, Passed, NotRun, Failed, WidthRefusal
<1>4. r.load \in StepOutcome /\ r.compile \in StepOutcome /\ r.interpret \in StepOutcome
  BY DEF RunRecord
<1>5. CASE Unloadable(r)
  BY <1>1, <1>2, <1>3, <1>4, <1>5, OutcomeOf DEF Unloadable, is_hard_failure
<1>6. CASE Rejected(r)
  BY <1>1, <1>2, <1>3, <1>4, <1>6, OutcomeOf DEF Rejected, is_hard_failure
<1>7. CASE Aborted(r)
  BY <1>1, <1>2, <1>3, <1>4, <1>7, OutcomeOf DEF Aborted, is_hard_failure
<1>8. CASE Returned(r)
  BY <1>1, <1>2, <1>8 DEF Returned
<1> QED BY <1>5, <1>6, <1>7, <1>8 DEF Finished

LEMMA CrashClassified ==
  ASSUME NEW a, NEW b,
         \/ a.returned = {} /\ is_hard_failure(a) /\ ~a.error.width
         \/ b.returned = {} /\ is_hard_failure(b) /\ ~b.error.width
  PROVE  classify(a, b) = "Divergence"
<1>1. ~outcomes_equivalent(a, b)  BY DEF outcomes_equivalent
<1>2. ~divergence_is_allowlistable(a, b)  BY DEF divergence_is_allowlistable
<1>3. RefusingSide(a, b) = {} \/ RefusingSide(a, b) = {"bn254"}
  BY DEF RefusingSide
<1> QED BY <1>1, <1>2, <1>3 DEF classify, Difference, predicted_gap

-----------------------------------------------------------------------------

LEMMA TypeAndStages == Spec => [](TypeOK /\ Stages)
<1>1. IInv => TypeOK /\ Stages  BY DEF IInv
<1> QED BY <1>1, Initially, Inductive, PTL DEF Spec

\* A run that is done ended in a value or in exactly one failed step, for any
\* set of values and of failures: the placeholder of RunRecord::outcome is
\* never what the comparison sees.
THEOREM RunsHaveOutcomes == Spec => []EveryRunHasOutcome
<1>1. TypeOK /\ Stages => EveryRunHasOutcome
  <2> SUFFICES ASSUME TypeOK, Stages, NEW f \in Field, at[f] = "Done", ~program.workspace
               PROVE  LET failed == {s \in {"load", "compile", "interpret"} :
                                       record[f][s].is = "Failed"}
                      IN  \/ record[f].returned # {} /\ failed = {}
                          \/ record[f].returned = {} /\ \E s \in failed : failed = {s}
    BY DEF EveryRunHasOutcome
  <2> DEFINE r == record[f]
             failed == {s \in {"load", "compile", "interpret"} : r[s].is = "Failed"}
  <2>1. Unloadable(r) \/ Rejected(r) \/ Aborted(r) \/ Returned(r)  BY DEF Stages, Stage
  <2>2. Passed.is # "Failed" /\ NotRun.is # "Failed"  BY DEF Passed, NotRun
  <2>3. ASSUME Returned(r) PROVE failed = {} /\ r.returned # {}
    BY <2>2, <2>3 DEF Returned
  <2>4. ASSUME Unloadable(r) PROVE failed = {"load"} /\ r.returned = {}
    BY <2>2, <2>4 DEF Unloadable
  <2>5. ASSUME Rejected(r) PROVE failed = {"compile"} /\ r.returned = {}
    BY <2>2, <2>5 DEF Rejected
  <2>6. ASSUME Aborted(r) PROVE failed = {"interpret"} /\ r.returned = {}
    BY <2>2, <2>6 DEF Aborted
  <2> QED BY <2>1, <2>3, <2>4, <2>5, <2>6
<1> QED BY <1>1, TypeAndStages, PTL

\* A crash under either field makes the row a divergence, for any set of
\* failures: neither a gap under the other field nor an entry in a table
\* takes it out of the report.
THEOREM CrashesShow == Spec => []CrashIsDivergence
<1>1. IInv => CrashIsDivergence
  <2> SUFFICES ASSUME IInv, NEW w \in row, NEW f \in Field, Crashed(record[f])
               PROVE  w.verdict = "Divergence"
    BY DEF CrashIsDivergence
  <2> DEFINE a == record["bn254"]
             b == record["goldilocks"]
  <2>1. \A g \in Field : at[g] = "Done" /\ record[g] \in RunRecord
    BY DEF IInv, RowIsOfRecords, TypeOK
  <2>2. w = RowOf(a, b)  BY DEF IInv, RowIsOfRecords
  <2>3. ~program.workspace
    <3>1. ASSUME Fresh(record[f]) PROVE FALSE  BY <3>1 DEF Fresh, Crashed, NotRun
    <3> QED BY <2>1, <3>1 DEF IInv, Stages, Stage
  <2>4. \A g \in Field : Finished(record[g])
    BY <2>1, <2>3 DEF IInv, Stages, Stage, Finished
  <2>5. outcome(record[f]).returned = {} /\ is_hard_failure(outcome(record[f]))
        /\ ~outcome(record[f]).error.width
    BY <2>1, <2>4, CrashedOutcome
  <2>6. classify(outcome(a), outcome(b)) = "Divergence"
    <3>1. f = "bn254" \/ f = "goldilocks"  BY DEF Field
    <3> QED BY <2>5, <3>1, CrashClassified
  <2>7. a.load # NotRun
    <3>1. Finished(a)  BY <2>4 DEF Field
    <3> QED BY <3>1 DEF Finished, Unloadable, Rejected, Aborted, Returned, Passed, NotRun
  <2> QED BY <2>2, <2>6, <2>7 DEF RowOf
<1> QED BY <1>1, Initially, Inductive, PTL DEF Spec
-----------------------------------------------------------------------------
(* What each step may have left in a record, and what a confirmed return is. *)

Confirmed(f, r) ==
  \E v \in Value : /\ r.returned = {v}
                   /\ v.shape = program.recorded.shape
                   /\ f = "bn254" => v = program.recorded

Detailed(f, place, r) ==
  /\ r.load \in {NotRun, Passed, Failed("ProjectLoad"), Failed("Panic")}
  /\ r.compile \in {NotRun, Passed, Failed("CompileError"), Failed("Panic"),
                    WidthRefusal("CompileError")}
  /\ r.interpret \in {NotRun, Passed, WidthRefusal("InputError")}
       \cup {Failed(k) : k \in RunError \cup {"InputError", "Unsupported", "Internal", "Panic"}}
  /\ place # "Done" => r.oracle = NotRun
  /\ r.oracle = Passed => Confirmed(f, r)

Details == \A f \in Field : Detailed(f, at[f], record[f])

LEMMA RunKeepsDetails ==
  ASSUME IInv, Details, NEW f \in Field, NEW r, NEW place,
         record' = [record EXCEPT ![f] = r], at' = [at EXCEPT ![f] = place],
         program' = program, Detailed(f, place, r)
  PROVE  Details'
<1> SUFFICES ASSUME NEW g \in Field PROVE Detailed(g, at[g], record[g])'  BY DEF Details
<1>1. record \in [Field -> RunRecord] /\ DOMAIN at = Field  BY DEF IInv, TypeOK
<1>2. CASE g = f
  BY <1>1, <1>2 DEF Detailed, Confirmed
<1>3. CASE g # f
  <2>1. record'[g] = record[g] /\ at'[g] = at[g]  BY <1>1, <1>3
  <2> QED BY <2>1 DEF Details, Detailed, Confirmed
<1> QED BY <1>2, <1>3

\* A step that sets one field of a record keeps the others.
LEMMA DetailsInductive == IInv /\ Details /\ [Next]_vars => Details'
<1> SUFFICES ASSUME IInv, Details, [Next]_vars PROVE Details'  OBVIOUS
<1>0. NotRun # Passed /\ \A k : Failed(k) # Passed  BY DEF NotRun, Passed, Failed
<1>1. CASE UNCHANGED vars
  BY <1>1 DEF vars, Details, Detailed, Confirmed
<1>2. CASE Render
  BY <1>2 DEF Render, Details, Detailed, Confirmed
<1> SUFFICES ASSUME NEW f \in Field,
                    Load(f) \/ Compile(f) \/ Project(f) \/ Interpret(f) \/ Oracle(f)
             PROVE  Details'
  BY <1>1, <1>2 DEF Next
<1>3. record[f] \in RunRecord /\ record \in [Field -> RunRecord] /\ program \in Program
      /\ Detailed(f, at[f], record[f])
  BY DEF IInv, TypeOK, Details
<1>4. CASE Load(f)
  <2>1. ASSUME Pass(f, "load", "Compile") PROVE Details'
    <3> DEFINE r == [record[f] EXCEPT !.load = Passed]
    <3>1. Detailed(f, "Compile", r)
      BY <1>0, <1>3, <1>4 DEF Load, Detailed, Confirmed, RunRecord
    <3>2. /\ record' = [record EXCEPT ![f] = r] /\ at' = [at EXCEPT ![f] = "Compile"]
          /\ program' = program
      BY <2>1 DEF Pass
    <3> QED BY <3>1, <3>2, RunKeepsDetails
  <2>2. ASSUME NEW k \in {"ProjectLoad", "Panic"}, Stop(f, "load", Failed(k)) PROVE Details'
    <3> DEFINE r == [record[f] EXCEPT !.load = Failed(k)]
    <3>1. Detailed(f, "Done", r)
      BY <1>0, <1>3, <1>4 DEF Load, Detailed, Confirmed, RunRecord
    <3>2. /\ record' = [record EXCEPT ![f] = r] /\ at' = [at EXCEPT ![f] = "Done"]
          /\ program' = program
      BY <2>2 DEF Stop
    <3> QED BY <3>1, <3>2, RunKeepsDetails
  <2> QED BY <1>4, <2>1, <2>2 DEF Load
<1>5. CASE Compile(f)
  <2>1. ASSUME Pass(f, "compile", "Project") PROVE Details'
    <3> DEFINE r == [record[f] EXCEPT !.compile = Passed]
    <3>1. Detailed(f, "Project", r)
      BY <1>0, <1>3, <1>5 DEF Compile, Detailed, Confirmed, RunRecord
    <3>2. /\ record' = [record EXCEPT ![f] = r] /\ at' = [at EXCEPT ![f] = "Project"]
          /\ program' = program
      BY <2>1 DEF Pass
    <3> QED BY <3>1, <3>2, RunKeepsDetails
  <2>2. ASSUME NEW e \in {Failed("CompileError"), Failed("Panic"), WidthRefusal("CompileError")},
               Stop(f, "compile", e)
        PROVE  Details'
    <3> DEFINE r == [record[f] EXCEPT !.compile = e]
    <3>1. Detailed(f, "Done", r)
      BY <1>0, <1>3, <1>5 DEF Compile, Detailed, Confirmed, RunRecord
    <3>2. /\ record' = [record EXCEPT ![f] = r] /\ at' = [at EXCEPT ![f] = "Done"]
          /\ program' = program
      BY <2>2 DEF Stop
    <3> QED BY <3>1, <3>2, RunKeepsDetails
  <2> QED BY <1>5, <2>1, <2>2 DEF Compile
<1>6. CASE Project(f)
  <2>1. record' = [record EXCEPT ![f] = record'[f]] /\ at' = [at EXCEPT ![f] = "Interpret"]
        /\ program' = program
    BY <1>3, <1>6 DEF Project
  <2>2. /\ record'[f].load = record[f].load /\ record'[f].compile = record[f].compile
        /\ record'[f].interpret = record[f].interpret /\ record'[f].oracle = record[f].oracle
        /\ record'[f].returned = record[f].returned
    BY <1>3, <1>6 DEF Project, RunRecord
  <2>3. Detailed(f, "Interpret", record'[f])
    BY <1>0, <1>3, <1>6, <2>2 DEF Project, Detailed, Confirmed
  <2> QED BY <2>1, <2>3, RunKeepsDetails
<1>7. CASE Interpret(f)
  <2>1. ASSUME NEW v \in Value, Returns(f, v) PROVE Details'
    <3> DEFINE r == [record[f] EXCEPT !.interpret = Passed, !.returned = {v}]
    <3>1. Detailed(f, "Oracle", r)
      BY <1>0, <1>3, <1>7 DEF Interpret, Detailed, Confirmed, RunRecord
    <3>2. /\ record' = [record EXCEPT ![f] = r] /\ at' = [at EXCEPT ![f] = "Oracle"]
          /\ program' = program
      BY <2>1 DEF Returns
    <3> QED BY <3>1, <3>2, RunKeepsDetails
  <2>2. ASSUME NEW e \in InterpretFailure, Stop(f, "interpret", e) PROVE Details'
    <3> DEFINE r == [record[f] EXCEPT !.interpret = e]
    <3>1. Detailed(f, "Done", r)
      BY <1>0, <1>3, <1>7 DEF Interpret, InterpretFailure, Detailed, Confirmed, RunRecord
    <3>2. /\ record' = [record EXCEPT ![f] = r] /\ at' = [at EXCEPT ![f] = "Done"]
          /\ program' = program
      BY <2>2 DEF Stop
    <3> QED BY <3>1, <3>2, RunKeepsDetails
  <2> QED BY <1>7, <2>1, <2>2 DEF Interpret
<1>8. CASE Oracle(f)
  <2> PICK s \in oracle_step(f) : record' = [record EXCEPT ![f].oracle = s]
    BY <1>8 DEF Oracle
  <2> DEFINE r == [record[f] EXCEPT !.oracle = s]
  <2>1. s = Passed => Confirmed(f, record[f])
    <3> SUFFICES ASSUME s = Passed PROVE Confirmed(f, record[f])  OBVIOUS
    <3>1. program.prover \in {"None", "Inputs", "Return"}  BY <1>3 DEF Program
    <3>2. PICK v \in record[f].returned : s = compare_with_recorded(f, v)
      BY <1>0, <3>1 DEF oracle_step
    <3>3. values_equivalent(v, program.recorded) /\ (f # "bn254" \/ v = program.recorded)
      BY <1>0, <3>2 DEF compare_with_recorded
    <3>4. v \in Value /\ record[f].returned = {v}
      BY <1>3, <3>2 DEF RunRecord, Option
    <3> QED BY <3>3, <3>4 DEF Confirmed, values_equivalent
  <2>2. Confirmed(f, record[f]) => Confirmed(f, r)
    BY <1>3 DEF Confirmed, RunRecord
  <2>3. Detailed(f, "Done", r)
    BY <1>3, <2>1, <2>2 DEF Detailed, RunRecord
  <2>4. /\ record' = [record EXCEPT ![f] = r] /\ at' = [at EXCEPT ![f] = "Done"]
        /\ program' = program
    BY <1>8 DEF Oracle
  <2> QED BY <2>3, <2>4, RunKeepsDetails
<1> QED BY <1>4, <1>5, <1>6, <1>7, <1>8

LEMMA DetailsInitially == Init => Details
<1>1. NotRun # Passed  BY DEF NotRun, Passed
<1> QED BY <1>1 DEF Init, Details, Detailed, NothingRun, Field

LEMMA AlwaysDetailed == Spec => [](IInv /\ Details)
<1> QED BY Initially, Inductive, DetailsInitially, DetailsInductive, PTL DEF Spec
-----------------------------------------------------------------------------
(* The row, read off the two records. *)

\* What the comparison sees of a finished run: its value, or the failed step,
\* whose kind says which step it was and whether the program ran.
Seen(r, o) ==
  /\ o.returned = r.returned
  /\ r.returned # {} =>
       o.error = Passed /\ r.interpret = Passed /\ r.load = Passed /\ r.compile = Passed
  /\ r.returned = {} =>
       /\ \E s \in {"load", "compile", "interpret"} : r[s].is = "Failed" /\ o.error = r[s]
       /\ o.error.kind # "None"
       /\ o.error.kind = "ProjectLoad"  => r.load = o.error
       /\ o.error.kind = "CompileError" => r.compile = o.error
       /\ o.error.kind \notin {"ProjectLoad", "CompileError", "Panic", "Internal"} =>
            r.interpret = o.error
  /\ is_coverage_gap(o) <=> r.interpret.kind = "Unsupported"
  /\ o.error.width => /\ r.compile.width \/ r.interpret.width
                      /\ r.interpret.kind \notin RunError \cup {"Unsupported"}

LEMMA SeenOutcome ==
  ASSUME NEW f \in Field, NEW r, Finished(r), Detailed(f, "Done", r)
  PROVE  Seen(r, outcome(r)) /\ r.load # NotRun
<1>1. /\ Passed.is # "Failed" /\ NotRun.is # "Failed" /\ Passed.kind = "None"
      /\ NotRun.kind = "None" /\ ~Passed.width /\ ~NotRun.width /\ Passed # NotRun
  BY DEF Passed, NotRun
<1>2. /\ \A k : Failed(k).is = "Failed" /\ Failed(k).kind = k /\ ~Failed(k).width
      /\ \A k : WidthRefusal(k).is = "Failed" /\ WidthRefusal(k).kind = k /\ WidthRefusal(k).width
  BY DEF Failed, WidthRefusal
<1>3. RunError \cap {"None", "ProjectLoad", "CompileError", "InputError", "Unsupported",
                     "Internal", "Panic", "OracleMismatch"} = {}
  BY VerdictsAssumption
<1>4. CASE Unloadable(r)
  <2>1. outcome(r) = [returned |-> {}, error |-> r.load] /\ r.returned = {}
    BY <1>4, OutcomeOf DEF Unloadable
  <2>2. r.load \in {Failed("ProjectLoad"), Failed("Panic")}
    BY <1>1, <1>4 DEF Unloadable, Detailed
  <2>3. r.load.kind \in {"ProjectLoad", "Panic"} /\ ~r.load.width /\ r.load.is = "Failed"
        /\ r.interpret.kind = "None"
    BY <1>1, <1>2, <1>4, <2>2 DEF Unloadable
  <2>4. r["load"] = r.load  OBVIOUS
  <2> QED BY <1>1, <2>1, <2>3, <2>4 DEF Seen, is_coverage_gap
<1>5. CASE Rejected(r)
  <2>1. outcome(r) = [returned |-> {}, error |-> r.compile] /\ r.returned = {}
    BY <1>5, OutcomeOf DEF Rejected
  <2>2. r.compile \in {Failed("CompileError"), Failed("Panic"), WidthRefusal("CompileError")}
    BY <1>1, <1>5 DEF Rejected, Detailed
  <2>3. r.compile.kind \in {"CompileError", "Panic"} /\ r.compile.is = "Failed"
        /\ r.interpret.kind = "None" /\ r.load = Passed
    BY <1>1, <1>2, <1>5, <2>2 DEF Rejected
  <2> QED BY <1>1, <1>3, <2>1, <2>3 DEF Seen, is_coverage_gap
<1>6. CASE Aborted(r)
  <2>1. outcome(r) = [returned |-> {}, error |-> r.interpret] /\ r.returned = {}
    BY <1>6, OutcomeOf DEF Aborted
  <2>2. r.interpret \in {WidthRefusal("InputError")}
          \cup {Failed(k) : k \in RunError \cup {"InputError", "Unsupported", "Internal", "Panic"}}
    BY <1>1, <1>6 DEF Aborted, Detailed
  <2>3. /\ r.interpret.kind \in RunError \cup {"InputError", "Unsupported", "Internal", "Panic"}
        /\ r.interpret.width => r.interpret.kind = "InputError"
        /\ r.interpret.is = "Failed" /\ r.load = Passed
    BY <1>1, <1>2, <1>6, <2>2 DEF Aborted
  <2> QED BY <1>1, <1>3, <2>1, <2>3 DEF Seen, is_coverage_gap
<1>7. CASE Returned(r)
  <2>1. outcome(r) = [returned |-> r.returned, error |-> Passed]  BY <1>7, OutcomeOf
  <2> QED BY <1>1, <1>7, <2>1 DEF Seen, is_coverage_gap, Returned
<1>8. r.load # NotRun
  BY <1>1, <1>4, <1>5, <1>6, <1>7 DEF Finished, Unloadable, Rejected, Aborted, Returned
<1> QED BY <1>4, <1>5, <1>6, <1>7, <1>8 DEF Finished

\* A row of a program that is no workspace.
LEMMA RowFacts ==
  ASSUME IInv, Details, NEW w \in row
  PROVE  LET a == record["bn254"]
             b == record["goldilocks"]
         IN  /\ w = RowOf(a, b)
             /\ program.workspace => w.verdict = "NotRun" /\ w.ast = "NotRun"
                                     /\ a.returned = {} /\ b.returned = {}
             /\ ~program.workspace =>
                  /\ Seen(a, outcome(a)) /\ Seen(b, outcome(b))
                  /\ w.verdict = classify(outcome(a), outcome(b)) /\ w.ast = ast_glyph(a, b)
             /\ w.violations = invariant_violations(w.verdict, w.ast)
             /\ a \in RunRecord /\ b \in RunRecord
<1> DEFINE a == record["bn254"]
           b == record["goldilocks"]
<1>1. /\ w = RowOf(a, b) /\ \A f \in Field : at[f] = "Done"
      /\ a \in RunRecord /\ b \in RunRecord
  BY DEF IInv, RowIsOfRecords, TypeOK, Field
<1>2. ASSUME program.workspace
      PROVE  w.verdict = "NotRun" /\ w.ast = "NotRun" /\ a.returned = {} /\ b.returned = {}
  <2>1. Fresh(a) /\ Fresh(b)  BY <1>1, <1>2 DEF IInv, Stages, Stage, Field
  <2> QED BY <1>1, <2>1 DEF Fresh, RowOf
<1>3. ASSUME ~program.workspace
      PROVE  /\ Seen(a, outcome(a)) /\ Seen(b, outcome(b))
             /\ w.verdict = classify(outcome(a), outcome(b)) /\ w.ast = ast_glyph(a, b)
  <2>1. \A f \in Field : Finished(record[f]) /\ Detailed(f, "Done", record[f])
    BY <1>1, <1>3 DEF IInv, Stages, Stage, Finished, Details
  <2>2. Seen(a, outcome(a)) /\ Seen(b, outcome(b)) /\ a.load # NotRun
    BY <2>1, SeenOutcome DEF Field
  <2> QED BY <1>1, <2>2 DEF RowOf
<1>4. w.violations = invariant_violations(w.verdict, w.ast)  BY <1>1 DEF RowOf
<1> QED BY <1>1, <1>2, <1>3, <1>4

\* For any failures and values, a render without violations finds the tables
\* as the runs do: an entry that no longer describes its program fails it.
THEOREM TablesAreCurrent == Spec => []NoStaleEntry
<1>1. IInv /\ Details => NoStaleEntry
  <2> SUFFICES ASSUME IInv, Details, NEW w \in row, w.violations = {}
               PROVE  LET a == record["bn254"]
                          b == record["goldilocks"]
                      IN  /\ program.allowlisted =>
                               ~ \E v \in a.returned, u \in b.returned : v.shape = u.shape
                          /\ program.tagged =>
                               a.returned # {} /\ (b.compile.width \/ b.interpret.width)
    BY DEF NoStaleEntry
  <2> DEFINE a == record["bn254"]
             b == record["goldilocks"]
             x == outcome(a)
             y == outcome(b)
  <2>1. /\ program.allowlisted => w.verdict = "FieldDependent"
        /\ program.tagged => w.verdict = "PredictedGap"
    BY RowFacts DEF invariant_violations
  <2>2. CASE program.workspace
    BY <2>1, <2>2, RowFacts
  <2>3. CASE ~program.workspace
    <3>1. Seen(a, x) /\ Seen(b, y) /\ w.verdict = classify(x, y)  BY <2>3, RowFacts
    <3> HIDE DEF x, y
    <3>2. ASSUME w.verdict = "PredictedGap"
          PROVE  a.returned # {} /\ (b.compile.width \/ b.interpret.width)
      <4>1. \E f \in RefusingSide(x, y) : predicted_gap(f)
        BY <3>1, <3>2 DEF classify, Difference, Gap
      <4>2. x.returned # {} /\ y.error.width
        BY <4>1 DEF RefusingSide, predicted_gap
      <4> QED BY <3>1, <4>2 DEF Seen
    <3>3. ASSUME w.verdict = "FieldDependent", NEW v \in a.returned, NEW u \in b.returned,
                 v.shape = u.shape
          PROVE  FALSE
      <4>1. x.returned = a.returned /\ y.returned = b.returned
            /\ x.error = Passed /\ y.error = Passed
        BY <3>1, <3>3 DEF Seen
      <4>2. ~is_hard_failure(x) /\ ~is_hard_failure(y) /\ ~is_coverage_gap(x)
            /\ ~is_coverage_gap(y)
        BY <4>1 DEF is_hard_failure, is_coverage_gap, Passed
      <4>3. outcomes_equivalent(x, y) /\ ~outcome_is_tolerated(x, y)
        BY <3>3, <4>1, <4>2 DEF outcomes_equivalent, outcome_is_tolerated, SameResult,
                                values_equivalent
      <4> QED BY <3>1, <3>3, <4>3 DEF classify
    <3> QED BY <2>1, <3>2, <3>3
  <2> QED BY <2>2, <2>3
<1> QED BY <1>1, AlwaysDetailed, PTL

\* For any failures, values and hashes, a row without a mark is of a program
\* that both fields project alike and that returns what is recorded.
THEOREM CleanRowsAgree == Spec => []CleanRowAgrees
<1>1. IInv /\ Details => CleanRowAgrees
  <2> SUFFICES ASSUME IInv, Details, NEW w \in row,
                      w.bn254 = <<"Passed", "Passed", "Passed">>, w.goldilocks = w.bn254,
                      w.ast = "Passed"
               PROVE  /\ record["bn254"].returned = {program.recorded}
                      /\ \E v \in record["goldilocks"].returned :
                           v.shape = program.recorded.shape
                      /\ record["bn254"].projection_hash = record["goldilocks"].projection_hash
    BY DEF CleanRowAgrees
  <2> DEFINE a == record["bn254"]
             b == record["goldilocks"]
  <2>1. w = RowOf(a, b) /\ ~program.workspace /\ a \in RunRecord /\ b \in RunRecord
        /\ ast_glyph(a, b) = "Passed"
    BY RowFacts
  <2>2. a.oracle.is = "Passed" /\ b.oracle.is = "Passed"
    BY <2>1 DEF RowOf, step_glyphs, glyph
  <2>3. \A s \in StepOutcome : s.is = "Passed" => s = Passed
    BY DEF StepOutcome, Passed, NotRun, Failed, WidthRefusal
  <2>4. a.oracle = Passed /\ b.oracle = Passed
    BY <2>1, <2>2, <2>3 DEF RunRecord
  <2>5. Confirmed("bn254", a) /\ Confirmed("goldilocks", b)
    BY <2>4 DEF Details, Detailed, Field
  <2>6. a.projection_hash = b.projection_hash
    BY <2>1 DEF ast_glyph
  <2> QED BY <2>5, <2>6 DEF Confirmed
<1> QED BY <1>1, AlwaysDetailed, PTL
\* For any failures and values, each verdict is true of the two runs in the
\* words that explain it.
THEOREM VerdictsAreTrue == Spec => []VerdictMeans
<1>1. ASSUME IInv, Details PROVE VerdictMeans
  <2> SUFFICES ASSUME NEW r \in row
               PROVE  LET a == record["bn254"]
                          b == record["goldilocks"]
                          bothReturned == a.returned # {} /\ b.returned # {}
                          oneReturned  == (a.returned = {}) # (b.returned = {})
                          unsupported(x) == x.interpret.kind = "Unsupported"
                      IN  /\ r.verdict = "NotRun" <=> program.workspace
                          /\ r.verdict = "EqualModuloField" <=>
                               bothReturned /\ \E v \in a.returned, w \in b.returned :
                                                  v.shape = w.shape /\ v.element # w.element
                          /\ r.verdict = "Equal" =>
                               \/ bothReturned /\ a.returned = b.returned
                               \/ \E s \in {"load", "compile", "interpret"} :
                                    a[s].is = "Failed" /\ b[s].is = "Failed"
                                    /\ a[s].kind = b[s].kind
                          /\ r.verdict = "PredictedGap" =>
                               program.tagged /\ a.returned # {} /\ b.returned = {}
                               /\ ~Ran(b) /\ ~unsupported(b)
                          /\ r.verdict = "FieldDependent" => program.allowlisted
                          /\ r.verdict = "UnexpectedGap" =>
                               oneReturned /\ (unsupported(a) \/ unsupported(b))
                               /\ ~program.allowlisted
                          /\ r.verdict = "CoverageGap" =>
                               ~bothReturned /\ ~oneReturned /\ (unsupported(a) \/ unsupported(b))
    BY DEF VerdictMeans
  <2> DEFINE a == record["bn254"]
             b == record["goldilocks"]
             x == outcome(a)
             y == outcome(b)
             Unsupported(o) == o.interpret.kind = "Unsupported"
  <2>1. CASE program.workspace
    <3>1. r.verdict = "NotRun" /\ a.returned = {} /\ b.returned = {}  BY <1>1, <2>1, RowFacts
    <3> QED BY <2>1, <3>1
  <2>2. CASE ~program.workspace
    <3>1. /\ Seen(a, x) /\ Seen(b, y) /\ r.verdict = classify(x, y)
          /\ a \in RunRecord /\ b \in RunRecord
      BY <1>1, <2>2, RowFacts
    <3> HIDE DEF x, y
    <3>2. r.verdict # "NotRun"
      BY <3>1 DEF classify, Difference, Gap
    <3>3. /\ x.returned = a.returned /\ y.returned = b.returned
          /\ a.returned # {} => x.error.kind = "None" /\ ~is_coverage_gap(x)
          /\ b.returned # {} => y.error.kind = "None" /\ ~is_coverage_gap(y)
          /\ a.returned = {} => x.error.kind # "None"
          /\ b.returned = {} => y.error.kind # "None"
          /\ is_coverage_gap(x) <=> Unsupported(a)
          /\ is_coverage_gap(y) <=> Unsupported(b)
      BY <3>1 DEF Seen, is_coverage_gap, Passed
    <3>4. /\ \A v \in a.returned : a.returned = {v} /\ v \in Value
          /\ \A v \in b.returned : b.returned = {v} /\ v \in Value
      BY <3>1 DEF RunRecord, Option
    <3>5. ASSUME a.returned # {}, b.returned # {}
          PROVE  /\ ~is_hard_failure(x) /\ ~is_hard_failure(y)
                 /\ ~is_coverage_gap(x) /\ ~is_coverage_gap(y)
      BY <3>3, <3>5 DEF is_hard_failure
    <3>6. r.verdict = "EqualModuloField" <=>
            a.returned # {} /\ b.returned # {}
            /\ \E v \in a.returned, w \in b.returned : v.shape = w.shape /\ v.element # w.element
      <4>1. ASSUME r.verdict = "EqualModuloField"
            PROVE  \E v \in a.returned, w \in b.returned :
                     v.shape = w.shape /\ v.element # w.element
        <5>1. outcomes_equivalent(x, y) /\ ~outcome_is_tolerated(x, y)
              /\ a.returned # b.returned
          BY <3>1, <3>3, <4>1 DEF classify, Difference, Gap
        <5>2. SameResult(x, y)  BY <5>1 DEF outcomes_equivalent, outcome_is_tolerated
        <5>3. PICK v \in a.returned, w \in b.returned : v.shape = w.shape
          BY <3>3, <5>1, <5>2 DEF SameResult, values_equivalent
        <5>4. v # w  BY <3>4, <5>1, <5>3
        <5>5. v.element # w.element  BY <3>4, <5>3, <5>4 DEF Value
        <5> QED BY <5>3, <5>5
      <4>2. ASSUME NEW v \in a.returned, NEW w \in b.returned, v.shape = w.shape,
                   v.element # w.element
            PROVE  r.verdict = "EqualModuloField"
        <5>1. outcomes_equivalent(x, y) /\ ~outcome_is_tolerated(x, y)
          BY <3>3, <3>5, <4>2 DEF outcomes_equivalent, outcome_is_tolerated, SameResult,
                                  values_equivalent
        <5>2. a.returned # b.returned  BY <3>4, <4>2
        <5> QED BY <3>1, <3>3, <5>1, <5>2 DEF classify
      <4> QED BY <4>1, <4>2
    <3>7. ASSUME r.verdict = "Equal"
          PROVE  \/ a.returned # {} /\ b.returned # {} /\ a.returned = b.returned
                 \/ \E s \in {"load", "compile", "interpret"} :
                      a[s].is = "Failed" /\ b[s].is = "Failed" /\ a[s].kind = b[s].kind
      <4>1. outcomes_equivalent(x, y) /\ ~outcome_is_tolerated(x, y) /\ a.returned = b.returned
        BY <3>1, <3>3, <3>7 DEF classify, Difference, Gap
      <4>2. SUFFICES ASSUME a.returned = {}
                     PROVE  \E s \in {"load", "compile", "interpret"} :
                              a[s].is = "Failed" /\ b[s].is = "Failed" /\ a[s].kind = b[s].kind
        BY <4>1
      <4>3. b.returned = {} /\ x.error.kind = y.error.kind
            /\ x.error.kind \notin {"Panic", "Internal"}
        BY <3>3, <4>1, <4>2 DEF SameResult, outcomes_equivalent, outcome_is_tolerated,
                                is_hard_failure
      <4>4. x.error.is = "Failed" /\ y.error.is = "Failed"
        BY <3>1, <4>2, <4>3 DEF Seen
      <4>5. \E s \in {"load", "compile", "interpret"} : a[s] = x.error /\ b[s] = y.error
        BY <3>1, <4>2, <4>3 DEF Seen
      <4> QED BY <4>3, <4>4, <4>5
    <3>8. ASSUME r.verdict = "PredictedGap"
          PROVE  program.tagged /\ a.returned # {} /\ b.returned = {} /\ ~Ran(b)
                 /\ ~Unsupported(b)
      <4>1. /\ \E f \in RefusingSide(x, y) : predicted_gap(f)
            /\ ~outcomes_equivalent(x, y)
        BY <3>1, <3>8 DEF classify, Difference, Gap
      <4>2. program.tagged /\ x.returned # {} /\ y.error.width
        BY <4>1 DEF RefusingSide, predicted_gap
      <4>3. b.returned = {}
        BY <3>1, <4>2 DEF Seen, Passed
      <4>4. b.interpret.kind \notin RunError \cup {"Unsupported"}
        BY <3>1, <4>2 DEF Seen
      <4> QED BY <3>3, <4>2, <4>3, <4>4 DEF Ran
    <3>9. r.verdict = "FieldDependent" => program.allowlisted
      BY <3>1 DEF classify, Difference, Gap
    <3>10. ASSUME r.verdict = "UnexpectedGap"
           PROVE  /\ (a.returned = {}) # (b.returned = {})
                  /\ Unsupported(a) \/ Unsupported(b)
                  /\ ~program.allowlisted
      <4>1. outcome_is_tolerated(x, y) /\ ~program.allowlisted
            /\ ~(x.returned = {} /\ y.returned = {})
        BY <3>1, <3>10 DEF classify, Difference, Gap
      <4> QED BY <3>3, <4>1 DEF outcome_is_tolerated
    <3>11. ASSUME r.verdict = "CoverageGap"
           PROVE  a.returned = {} /\ b.returned = {} /\ (Unsupported(a) \/ Unsupported(b))
      <4>1. outcome_is_tolerated(x, y) /\ x.returned = {} /\ y.returned = {}
        BY <3>1, <3>11 DEF classify, Difference, Gap
      <4> QED BY <3>3, <4>1 DEF outcome_is_tolerated
    <3> QED BY <2>2, <3>2, <3>6, <3>7, <3>8, <3>9, <3>10, <3>11
  <2> QED BY <2>1, <2>2
<1> QED BY <1>1, AlwaysDetailed, PTL
=============================================================================
