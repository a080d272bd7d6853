# ast-interpreter in TLA+

Specifications of `ast-interpreter`, a tree-walking interpreter of Noir's
monomorphized AST, with the TLC configurations that check them and TLAPS proofs
about them. Paths below are relative to the repository (`src/src/eval.rs` is the
crate's `eval.rs`).

## The system

| Component | Source | State it keeps | Operations | What makes it correct |
|---|---|---|---|---|
| Evaluator control | `lib.rs`, `eval.rs`, `error.rs` | host stack, `unconstrained`, `call_depth`, `globals` | `interpret_with_inputs`, `call_function`, `eval`, `eval_expr_value`, `eval_global`, `render_assert_message` | counters restored on every path; jumps reach the right loop; errors surface; a global is computed once and never inside itself; the host stack is bounded |
| Cells, places, stores | `eval.rs`, `value.rs` | `Rc<RefCell<Value>>` graph, one `Frame` per call | reads (`deep_copy`), `eval_place`, `store`, `lvalue_value`, `store_flattened`, `project_reference` | reads never alias, references always do, a store reaches the place it names |
| Integers | `value.rs`, `eval.rs` | none | `wrap`, `canonical`, `checked`, `eval_int_binary`, `eval_cast`, `eval_unary` | results stay canonical and agree with two's-complement arithmetic |
| Intrinsics | `intrinsics.rs`, `bn254_crypto.rs` | none | vector operations, radix decomposition, range constraints, hashes | sequence semantics and no shared cells, limbs recompose to the value or are refused |
| Inputs | `input.rs` | visited cells | `validate_inputs`, `value_from_input` | terminates on cyclic inputs and misses no cell; a refusal has a cause |
| Differential outcomes | `diff.rs`, `capability.rs` | recorded dumps | `outcome`, `outcomes_equivalent`, `parse_dump` | every run has one outcome; a verdict means what its legend says; no crash is excused |
| Sweep and STATUS.md | `corpus.rs`, `status.rs` | records on disk, provenance, STATUS.md | `run_steps`, `oracle_step`, `dump_records`, `render_status_file` | a dump is of the pinned corpus; a row pairs records of the same sources; no stale exception survives a render |
| AST projection | `projection.rs` | work queues, id tables | `run`, `drain`, `emit`, `expr` | isomorphic programs get the same hash, different ones different texts |
| Mavros sweep | `mavros_oracle.rs` | job counter, worker and reader threads, child processes, records | `run_job`, `child`, `sweep`, `examine`, `verdict` | each job gets one record that its own child justifies, the sweep ends; a verdict is true of what both sides did |
| Noir executor oracle | `noir_oracle.rs`, `tests.rs` | none | `oracle_compare` | verdict logic |
| Loading, frontend checks | `loader.rs`, `validation_frontend.rs` | none | calls into the Noir compiler | external |

The components meet in a few places. The public entry points build input values
(`input.rs`), run the evaluator on them and return one value or one
`InterpretError`. The evaluator calls integers, cells and intrinsics
synchronously on one thread; there is no callback. The differential components
drive the evaluator once per program and field, turn its result into an
`Outcome`, write records and compare or render them in a later process: they
share files only. The Mavros sweep is the one concurrent part: threads that own a
child process each.

What is hard to test: failures at any depth that must leave the evaluator's
counters exact; swallowed failures in assertion messages; jumps that cross frames
of different kinds; aliasing in the cell graph; the edges of integer
arithmetic; shared and cyclic inputs; the numbering of a program's items; the order of recorded
steps, and dumps gone stale; time limits racing answers; what a verdict may be concluded from. `PROJECT.json` lists each hazard at its line.

## Modules

`Eval.tla` models the evaluator as a stack machine. A frame is a Rust activation
waiting for a sub-evaluation; its kind says what the code does with the
result. `flow` is what the innermost evaluation is doing: `"Idle"` before the run,
`"Eval"` when `eval` is about to start on some expression, else what `eval`
returned: `"Normal"`, `"Break"`, `"Continue"` (`Flow`) or an error
(`InterpretError`; those raised by operators on their operands are one `"Fault"`).

| Frame kind | In the code |
|---|---|
| `value` | `eval_expr_value`: operands, arguments, conditions, loop bounds, places |
| `stmt` | an element of a block, the right-hand side of `let`/assign, `Semi`, `Drop`, a branch: `Break`/`Continue` returned as is |
| `for`, `loop`, `body` | the body of the three loops |
| `cond` | the condition of a `while`, whose jumps belong to the enclosing loop |
| `message` | `render_assert_message` |
| `call` | `call_function`, with the saved `outer_unconstrained` |
| `global` | `eval_global` evaluating an initializer |

What is evaluated is chosen nondeterministically each time `eval` starts, so the
model has the control behaviour of every program with the given functions and
globals, well-typed or not, and more: conditions and values are unconstrained.
A conversion of a value, an operator, a store or an intrinsic is one step that
succeeds or fails. A branch of an `if` is evaluated in tail position: its frame
replaces the operand's (`TakeBranch`). A `match` evaluates only a tail branch and
is a `stmt` frame. `call_function` appears twice, because a call without arguments is
made when `eval` starts (`EvalCall`) and one with arguments when the last
argument's value arrives (`CallWithArguments`). Definitions marked "Slip" are the
plausible mistakes the checks are tried against; no specification uses them.

`ControlFlow.tla` is what control should do, with no unwinding: a jump goes at
once to the innermost loop of its own function, an error ends the run at
once, the runtime is by definition that of the innermost call, and there is no
call counter and no in-progress marker. `EvalRefines.tla` maps `Eval` to it:
while `Eval` unwinds, the mapping already shows where it will end.

`MCEvalRefines.tla` is the instance: an unconstrained entry point `main` whose body has two levels
of expressions, a constrained `helper` with one, and two globals whose initializers are a
leaf, a call or a reference to a global (`Nest` gives the levels of each body, `CanNest` is
the guard that keeps to them).

`EvalProofs.tla` holds the TLAPS proofs.

### Cells

`Cells.tla` models the memory: a value is an integer, a tuple of shared cells
(`Rc<RefCell<Value>>`), an array or vector of values or a reference to a cell, and a reference with
`slot` set (`auto_deref` in the code) is the mutable slot a `let mut` binds in the frame. `memory` holds the frame's bindings and the heap. The
evaluators are those of the code, in its order of evaluation: `ValueOf` (`eval` in
value position), `PlaceOf` (`eval_place`), `LvalueValueOf` (`lvalue_value`),
`TargetCellOf` (`lvalue_target_cell`), `ArrayTarget` (`resolve_array_target`), `Store`,
`StoreFlattened` and `ProjectReference`. They call each other through one recursive
operator, `Evaluate`. An index is a block that may execute assignments before it yields
(`RunIndex`), which is what makes the order of evaluation visible. The vector operations of
`intrinsics.rs` (`vector_push_back`, `vector_push_front`, `vector_pop_back`, `vector_pop_front`,
`vector_insert`, `vector_remove`, `array_len`) are calls in these expressions. A failed bounds check,
of a read, a store, a vector operation or an element on the way to an assignment's target, is an error. `Results.tla` says what an
evaluation returns: a value and the memory it leaves, or nothing (`Fail`), and then everything that called it returns
nothing too (`Then`, the `?` of the code), up to the statement, which ends the run (`failed`).

`Places.tla` is the meaning the language promises: no cells, a local holds a tree, a
reference names a place (a local and a path), a read copies, a store replaces a
subtree. A reference to a value that has no place (`&a[i]`, `&f()`) holds the value; it is
an immutable snapshot. `CellsRefine.tla` maps cells to places: every cell is
owned by one binding at one path, and reading the heap as trees gives the memory of
`Places`. `MCCells.tla` declares three functions, each with its frame and its statements.

Programs are well typed. An error ends the run, and nobody reads the memory after it. Bindings
are made at the start, and not again. The statements take no `&` of an immutable local and no `&mut` of a temporary; the
code puts both in a fresh cell. Cells nobody holds are freed by
`Collect`, which also renumbers those that live on, so that memories that differ only
in the names of cells are one state.

### Integers

`IntMachine.tla` is a local integer to which any sequence of operators, casts and `for`
loops is applied: `acc` is the `IntValue`, `todo` the operation about to be applied,
`loop` the counter and exclusive end of the loop it is the index of, `outcome` the
error that ended the run. `wrap`, `canonical`, `checked`, `unsigned_repr`,
`eval_int_binary` and the casts keep their names and compute on unbounded integers with the
truncating division of `BigInt` (`Quotient`, `Remainder`). The bitwise operators are
constants, because the code applies those of `BigInt` to bit patterns only; `BitwiseAssumption` says what they do to
each bit. `Powers.tla` has `pow2` and the bits of an integer. Three intrinsics are operations of the same
machine: `to_radix` with each of its limbs (`limb`), which refuses a radix outside 2 to 256 and a value too large for its limbs, `apply_range_constraint`, and
`field_less_than`. The limb becomes the next value of the run.

`Words.tla` is the same machine on words of bits: ripple-carry sums with overflow read
off the carries, long multiplication at twice the width, a division law instead of a
division, digit-wise logic, shifts of digits, comparison from the top digit, and a loop
that is the sequence of words its index still takes; the limbs are a notation of the element in the radix,
if it has one of so many digits. It has no modulus or
representative to get wrong. `IntRefine.tla` maps an integer to its digits;
`MCInts.tla` supplies the bitwise operators. `IntProofs.tla` holds the proofs, the refinement's for every width included.

### One program's verdict

`Verdicts.tla` is one program of the sweep. `program` is what the three tables of `status.rs` say of
it and what its directory holds (a workspace manifest, a `Prover.toml` with or without a recorded
return), `record` its `RunRecord` under each field, `at` the step each run is at, `row` the row
of STATUS.md. `Load`, `Compile`, `Project`, `Interpret` and `Oracle` are the steps of `run_steps`, each
under its own panic guard (`run_step`) and free to end in every way it can; the runs of the
two fields interleave, which only adds orders. `Render` is `row`, by way of `outcome`,
`outcomes_equivalent`, `outcome_is_tolerated`, `classify`, `step_glyphs`, `ast_glyph` and
`invariant_violations`, which keep their names. A value is its `shape`, what must match
across fields, and its `element`s, the Field elements, which need not. The text on which
`is_field_refusal` decides is the `width` mark of a failure; every capability
tag in the table holds of bn254 and fails for goldilocks. The payloads of errors, the fingerprint and the
text of the table are left out. `MCVerdicts.tla` is the instance, `VerdictsProofs.tla` holds the proofs.

### Dumps

`Dumps.tla` is everything around those records: the noir checkout and the working trees (`checkout`,
`tree`, `code`, `commit`, `dirty`), a sweep per field (`sweep`: `dump_records`), its file (`dump`), the
render (`render`: `render_status_file`) and STATUS.md (`status`). A record is reduced to the hash taken
when programs were listed, the sources that were there when the program ran, and whether it was
skipped as a workspace. A sweep checks the checkout, lists, runs program by program in place,
checks again, and writes its file, which truncates the old one; it may be killed anywhere. `provenance` reads HEAD
at the end, while the code that runs was built at the start. A render reads one file after the
other, refuses what its checks refuse, writes STATUS.md, and only then makes the checks that may
fail it (`Accept`). A developer edits programs, fixtures and the interpreter, commits, restores the
corpus and moves the checkout, all at any time. A change that is made after the
first check of a sweep and undone before the second passes both, whatever ran in between. The model lets that happen and
notes it in the sweep, its dump and the STATUS.md made from it (`putBack`, a history that no step reads); `PinnedSources` and the part of `RowsPairLike` about the
sources that ran are stated of dumps without the note. The code promises no more: nothing in it could
see such a change. Listing is one step, `Format` stands for the dump and the projection
version, and the toolchain, the features and the corpus directory do not change. `MCDumps.tla` is the
instance, `DumpsProofs.tla` holds the proofs.

### Mavros sweep

`MavrosSweep.tla` is the one concurrent part. A worker's `at` is its place in the loop of
`sweep` and in `run_job`: `Take` (the atomic `fetch_add`), `Spawn`, `Poll` (`try_wait`),
`Deadline` (`elapsed > timeout`, then the sleep), `Kill`, `Reap` (`wait`), `Join` (the reader thread, then
the verdict and the store). A child writes its output in three parts, the head and
the rest of the record's line and libtest's trailer, into a pipe of `PipeSize` parts; it may
crash or hang anywhere. The reader takes parts until the pipe ends. `Elapse` lets a job's time
limit pass, at any moment. Spawning may fail for the process or, when the child
already runs, for its reader thread; both panic the worker. `Report` is the end
of the scope and the `expect("every job reports")`. Progress messages are left out.

`MavrosPromise.tla` is what the sweep promises, with no workers, pipes, readers or counter: the run of a program
ends once (`End`), is cut short only after its time limit (`Pass`), and gets at most one record, which fits how it
ended and is stored before the report (`Record`); the report is written exactly when no record is missing
(`Finish`). `MavrosRefine.tla` maps the sweep to it: a run has ended when its process has exited, limits and
records are seen as they are, and the rest of what workers, readers and the counter do is not seen. `MCMavros.tla` is the instance and `MavrosProofs.tla`
holds the proofs.

### The verdict on one program of that sweep

`MavrosVerdict.tla` is `examine` in one child: `stage` is the place in it, `record` the words it has
noted, `Open`, `Lower`, `Interpret` and so on to `Judge` its steps, each free to end in every way it
can, and `verdict` the code's decision tree on the finished record. `program` says which half of the corpus the program is from
and what Mavros would compute. `did` is a ghost that no step reads: what the interpreter and Mavros really
did (ran it and accepted, ran it and rejected, could not tell). The record keeps only the first word of
each stage, and the properties ask that the verdict is true of `did`. Two abstractions: inputs that the
interpreter could build are inputs Mavros can read, or it notes that it cannot; and a run that
declares the interpreter's return value and reaches the return check passes it exactly if Mavros computes the same
value. `MavrosVerdictProofs.tla` holds the proofs.

### Inputs

`Inputs.tla` is `validate_inputs`. A caller of the library builds the values itself, so an input is a
graph: an array or a format string holds its parts inline, a tuple or a reference holds cells, and a cell may be
shared, lie on a cycle or be mutably borrowed. The recursion of `check` is the stack `todo`;
`seen` is the set of cell addresses; the first fault ends the check as `verdict`, and main runs on what is
`"accepted"`. `Clean` and `Closed` say what a clean input is without following the walk. `MCInputs.tla` is
the instance, `InputsProofs.tla` holds the proofs.

### Projection

`Projection.tla` is `canonical_text`: the maps from ids to numbers (`functions`, `globals`, and the `locals` of the
item at hand), the queues of what is numbered and not yet written, the entries written so far (`out`), and
what is left once main's reach is exhausted (`leftover`, the ids of the program in its order; `phase`). An
expression is a tree of a form, a name and parts; what the code writes as it stands (types, operators,
literals) is the form. `emit_function` and `emit_global` open an entry; `WriteExpr` is one call of `expr`, which numbers what
the expression names, writes a token and puts its subexpressions next on `todo`. When the queues are drained, the functions and
then the globals of the program that main does not reach are numbered and the queues drained again.
The code lists only those without a number; numbering the others a second time changes nothing, so `leftover` is the whole list.

`Recompile.tla` lets the same program be compiled again with functions, globals and locals renamed and every location
moved, and projects it too (`CompileAgain`; `earlier` is the text of the first). A renaming gives each id its new id and
each expression its new self (`r.expr`), node by node and with the location free. `Fits` says that it permutes the places of the program's functions, which are
where their ids say, and the keys of its globals; `Keeps` that it leaves the items main does not reach in their order, because the code
numbers those in emission order and makes no promise for a compilation that emits them in another. `Depth` is the height of an expression: expressions are
finite trees. `Preorder`, the order in which an item's text should name its parts, is a recursive function, so that `ProjectionProofs.tla`
can prove what it computes. `MCProjection.tla` is the instance: a set of bodies closed under renaming, with the recursive operators that build it.

## Runs

| Run | Configuration | Shows |
|---|---|---|
| `core` | 2 functions of different runtime, 2 globals, call limit 2, nesting 2 / 1 / 0 (main, helper, initializers), fair | type correctness; `call_depth` is the number of open calls; the runtime flag and every saved one is that of the innermost call at its point of the stack; a global is in progress exactly while one activation evaluates it; the host stack is bounded; a raised error reaches the caller as an error; `Eval` implements `ControlFlow` |
| `memory` | three functions: references into nested tuples and a struct that holds one (19 statements); an array of tuples with index expressions that assign to it (13); vectors grown, shrunk, read and stored to within and past their bounds, through fields of elements and with an index expression that fails too (20) | `Cells` implements `Places`; no two bindings, fields or elements share a cell; no slot mark leaves the frame |
| `stale_field` | the second function of `memory`, and `a[{ a[0] = t.1; 0 }].0 = x` | a disagreement, see below |
| `integers` | both signednesses at widths 1 to 4, modulus 13, radices 1, 2 and 3 | values stay canonical; every operator, cast, limb, range constraint and loop is the one on words, errors included; a loop's index is its counter and loops end |
| `verdicts` | 2 kinds of failure of a running program, 2 shapes, 2 elements, 2 hashes | a run that is done has one outcome; a verdict means what its legend says; a crash is a divergence; a render without violations leaves no stale exception; a row with no mark is a program both fields compile alike and that returns what is recorded |
| `both_sides` | the same | a disagreement, see below |
| `dumps` | 1 corpus program, 1 fixture, 2 compiler revisions, 3 versions of the interpreter, 6 acts | corpus records of a dump are of the pinned revision, unless a change was undone between the two checks of its sweep; a row pairs records of the same sources, both run or both skipped; a successful render has a row for every program |
| `mismatched` | the same, 5 acts | a disagreement, see below |
| `sweep` | 2 workers, 2 programs, pipe of 1 part, fair | the job counter passes the end by at most one for each worker; verdicts are justified by the job's own child; when no worker panics, every job has its record; the sweep ends whatever the children do; `MavrosSweep` implements `MavrosPromise` |
| `verdict_of_record` | no constants: every kind of program, every way each stage can end | a side that could not process the program has no opinion; a bug charged to a side is one its run shows; an agreement is one both runs show |
| `inputs` | 3 values, 2 cells, `main` of 2 parameters | an accepted input is clean however it is reached; a refusal has a cause the arguments reach; the check ends |
| `projection` | 3 functions, 2 globals, a missing function, bodies in every combination, 8 renamings | every item is written once, under a number of its own; reachable items stand before the mark; the text reads back as the program; a renamed program has the same text |

**Disagreement (`stale_field`).** For a member of an array element, `lvalue_value` takes the
array (`eval.rs:778`) before it evaluates the index (`eval.rs:779`). When the index
expression replaces that element, the store goes to a cell no binding holds, and the assignment is
lost; the comment at `eval.rs:735` says that the caller reaches a live cell. An
element as the target itself (`resolve_array_target`) is stored by path, after its indices, and is
not affected: the `memory` run has it.

**Disagreement (`both_sides`).** `classify` gives `CoverageGap` as soon as the side without the gap
returned no value (`status.rs:398`). A program that ran to a failed assertion under one field and
met an unsupported construct under the other is therefore `both-sides`, which the comment at
`status.rs:288` and the legend of STATUS.md (`status.rs:520`) explain as "neither side ran it".

**Disagreement (`mismatched`).** The comment at `diff.rs:389` says of the provenance of a dump "What a dump was
built from, so mismatched dumps are refused". The render compares the two `interpreter_rev`s
(`status.rs:747`) but not `interpreter_dirty`, and `interpreter_rev` is HEAD when the sweep ends
(`corpus.rs:175`). An uncommitted edit of the interpreter between two sweeps, or a commit
during one, gives a STATUS.md whose columns come from two versions of it.

Bounds. `MaxCallDepth` stands for `MAX_CALL_DEPTH` (256): 2 gives a caller, a callee and
a rejected third call. The unconstrained entry point may call the constrained `helper`, which must switch the
flag and restore it, and `helper` may call on at the limit. `MaxNest` bounds the expression frames of one
activation: 1 is enough for every handler to fire, 2 lets a jump cross a frame
(a block inside a loop, a while condition inside a loop body, a loop inside a
message). Two globals give a cycle through two initializers. TLC
does not look at deeper programs; the proofs do.

The frames of `memory` are closed under their statements: every shape of
lvalue and of reference occurs, at depth one and two, as source and as target, with
both values of the integer, so that a copy that should alias, or an alias that should
copy, shows in a later read. `MaxLength` 2 stops a vector from growing for ever; vectors of no, one and
two elements give every bounds error. `MemoryView` drops `last`, the statement just executed, from
the state: states that differ in it have the same future.

Width 4 is the least with a type that has a minimum, -1, a shift past the width in
both signs, and products and negations that overflow by more than one bit; widths 1
to 3 are the degenerate ones. Modulus 13 lies between 2^3 and 2^4: u3 fits the field and u4
does not. Radix 1 is invalid, radix 2 takes more limbs than radix 3, which is no power of two, and both have values that need one limb more than there is.

One program is all of `Verdicts`: rows do not depend on each other. Two values of each constant
give values that are equal, equal up to Field elements and different, hashes that agree and
do not, and failures of the same and of different kinds; all combinations of table entries are tried.

In `dumps` six acts of the developer, sweeps and renders are enough for two sweeps, a render and three changes
between or during them, or a sweep made again over an old file. The third version of the interpreter moves the pin
and the format, so that old dumps meet new code; one of the revisions has the program as a
workspace. An edit undone within a sweep, with the second sweep and the render, takes five acts; the disagreement needs four.

Two workers and two programs let one worker take both jobs or each take one while the other runs, and
each find the counter past the end. `PipeSize` 1 is the
smallest pipe: the child blocks after each part, and every cut of its output occurs.

Three values and two cells give `inputs` a cell shared by two arguments, one reached twice through an array, a
cycle through a tuple or a reference, a cycle through both cells, and a borrowed cell on or off the way. A
number is 0 or 1 with 0 bits or 1 bit, which is in range, out of range and of an empty type.

In `projection` the bodies are chosen so that items are met in an order other than that of their ids, first met from a global,
unreachable, used by unreachable ones only, or missing. Locals are shadowed and reused across functions. Renamings
swap the two functions other than main, the globals and the locals.

Deadlock is not checked in any run: each system stops. The evaluator's run ends when the
outermost activation returns, an integer's with an error, the sweep's with its
report, a row's with its rendering, a check of inputs with its verdict, a projection with its last entry, a
memory run with a failed bounds check; a developer runs out of acts.

Fairness. `Eval!FairSpec` is weak fairness of the whole next-state relation: the interpreter is
one thread with no blocking operation, so it takes a step whenever it can. No
fairness is assumed between alternatives, so a loop may run for ever; the
liveness property is about unwinding, which is deterministic. `IntMachine!FairSpec` is weak
fairness of the loop's own two steps, on the same grounds: the bodies of the model return, and
what is shown is that the loop makes no iterations beyond its range.
`Inputs!Spec` has weak fairness of the check, again one thread that
never waits. `MavrosSweep!FairSpec` is weak fairness of each worker, each reader, the passing of each
time limit, and the end of the scope: independent threads and a clock. Nothing is assumed of
the children.

## Proofs

`EvalProofs.tla` proves six theorems for every program (any sets `Function` and
`Unconstrained`, any finite `Global`), every positive call limit and every nesting bound. The
assumptions are `ProgramAssumption` and `LimitAssumption` of `Eval`.

* `TypeCorrect` (`TypeOK`), `CallsCounted` (`DepthCountsCalls`), `RuntimeRestored`
  (`FlagOfCurrentFunction`) and `MarkersOnStack` (`InProgressIsOnStack`) rest on one lemma, `Bookkeeping`: their
  conjunction is inductive. The parts need each other: `call_depth` stays
  a natural number only because it counts frames; returning restores the
  caller's flag only because each `call` frame's saved flag is that of the call
  below it, which is the second conjunct of `FlagOfCurrentFunction`; and removing
  the marker is right only because the initializer's frame is the only one of its
  global. The proof first shows that every step has one of a few shapes
  (`StepShapes`): it keeps the stack or drops its innermost expression frame and pushes at
  most one frame, or it leaves an activation; each conjunct is then proved
  per shape.
* `HostStack`: `HostStackBounded`. The strengthening says that every activation is
  followed by at most `MaxNest` expression frames (`PrefixBounded`); the number of activations
  is bounded by `DepthCountsCalls` (calls) and `InProgressIsOnStack` (initializers, one per
  global), so this proof rests on `Bookkeeping`. The bound depends on the cycle check of
  `eval_global` as much as on `MAX_CALL_DEPTH`: without it the stack is unbounded although
  every call is counted.
* `EvalImplements`: `ImplementsControlFlow`, the refinement. A second invariant, `RInv`, says that main's frame is at the
  bottom of the stack while anything runs and that below every frame some frame looks at a jump, so that the mapping's
  `Catcher` exists. `Coherent` follows from the two invariants: in every state that is not going to fail the flag is the
  runtime of the innermost scope, and the run is over when no scope is left. The invariants hold before and after a
  step, so a step only has to be shown to change the scopes as some action of `ControlFlow` does, or not at all while it
  unwinds; there is one lemma for each way a step can look (`Fails`, `Calls`, `Returns`, `Proceeds`, `Jumps`, `HandsOn`,
  `GoesAstray`, `Surfaces`, ...).

`IntProofs.tla` proves, for every `MaxBits` and `Modulus`, from `WidthAssumption`, `ModulusAssumption`,
`BitwiseAssumption` (each bit of a bitwise operator's result is that operator on the bits of its operands) and
`RadixAssumption` (a radix is a natural number); powers of two are defined by recursion and their equations are proved:

* `CanonicalValues`: `Canonical`, the invariant stated at `value.rs:44-45`. The inductive
  invariant adds that a pending operation's operand is canonical as well, that a
  loop's bounds lie within one of the type's range, and that no operation is
  pending during a loop. Each operator is shown to give a canonical value or an error, from
  `WrapInRange` (wrapping any integer lands in the range) and `WrapIdentity` (wrapping
  changes nothing in the range).
* `LoopIndex`: `IndexIsCounter`. The bounds in the invariant give that the counter, while it is below
  the end, is in the type's range; `WrapIdentity` does the rest.
* `PatternNamesValue`: wrapping a value's bit pattern gives the value back.
* `DivisionLaw`: quotient and remainder for all integers.
* `WordsImplemented`: `ImplementsWords`, the refinement. `Bits(v, n)` are the n low bits of an integer v. Two
  facts carry the proof: v and the number of `Bits(v, n)` differ by a multiple of 2^n (`LowOfBits`), and digits
  that satisfy such an equation are the bits of v (`BitsOf`); so wrapping leaves the word as it is
  (`WrapBits`), and different values of a type have different words (`WordsDiffer`). Each operation of `Words` on bits is
  then shown to give the bits of the code's result, and to fail for the same operands with the same error: a ripple
  carry is what the quotients of the summands by a power of two leave out (`SumBits`, `CarryIs`), so an overflow flag
  says whether the sum leaves the range (`OverflowsIff`); a long product is exact because it fits twice the
  width (`PartialIs`, `LongIs`); the division law has one solution, which lies in the type unless the
  operands are the minimum and -1 (`DivisionUnique`, `QuotientRange`); the topmost digit that differs orders
  the values (`LessIs`); the limbs are the only notation of the element in the radix, and there is one exactly when the
  element is below the power that the code compares it with (`PartDetermines`, `NotationsAre`); and the words of a loop are as many as its counter has values left, in their order (`WordsFromIs`). `ResultIs`
  puts the operations together and `WordsStep` has one case per action.

`IntValue`s are also made from literals and inputs; those go through
`canonical` or are validated against `range` first.

`MavrosProofs.tla` proves, for every nonempty finite set of workers, number of programs and pipe size
(`SweepAssumption`):

* `SweepTypes`: `TypeOK`, whose bound on the job counter says that it passes the end of the list by at most one for each worker. The
  bound is not inductive; `Counted` is, which counts the workers that have left: each took one number past the end, and took none
  afterwards.
* `Verdicts`: `VerdictJustified`, and `Reports`: `EveryJobReports`. The inductive invariant says that a
  job handed out is recorded or held by exactly one worker (`Ownership`, `NoneForgotten`), that a pipe
  is closed early only under a job whose worker panicked (`Drained`), and what a
  worker knows of its child at each place (`Knowledge`): only because jobs have
  one owner does a polled child stay as it was until its worker acts, and only because the
  reader drains does a success come with its record. With no worker at all
  (`MAVROS_ORACLE_JOBS=0`) the sweep would panic in `expect("every job reports")`; `Reports`
  needs the assumption.
* `SweepImplements`: `ImplementsPromise`, the refinement. To the invariant above it adds what the verdicts do not
  need (`Orderly`): a program that is not handed out yet, or whose process is about to be spawned, has no process, and no worker
  is at work once the sweep has reported. So a process exits once, a record is stored while there is none, and it is stored
  before the report; that it fits the run is `VerdictJustified` after the step, and that only late runs are killed
  is `Knowledge`. With a counter that is read and then advanced in two steps (`TakeUnlocked`) two workers would run one
  program, whose run would end twice.

`VerdictsProofs.tla` proves, for any `RunError`, `Shape`, `Element` and `Hash`, `RunsHaveOutcomes`
(`EveryRunHasOutcome`), `CrashesShow` (`CrashIsDivergence`), `TablesAreCurrent` (`NoStaleEntry`),
`CleanRowsAgree` (`CleanRowAgrees`) and `VerdictsAreTrue` (`VerdictMeans`). The inductive invariant gives each place of a run the shape of
its record (`Stages`) and says that a row is computed from two finished records
(`RowIsOfRecords`). A finished record has one of four shapes, from which `OutcomeOf` computes what the
comparison sees; a crash is then never equivalent to anything (`CrashClassified`), is no
width refusal and is not allowlistable. The last three theorems need a second invariant,
`Details`: which failures each step may leave in a record, and that an oracle that passed
confirmed the value the record holds. What the comparison sees of a run (`Seen`) then names the failed step by its
kind alone, so that two outcomes can only be equivalent as the properties say.

`DumpsProofs.tla` proves, for any programs, revisions, versions, formats and number of acts
(`DumpsAssumption`), `CorpusIsPinned` (`PinnedSources`), `RowsArePaired` (`RowsPairLike`) and `NoProgramLeftOut`
(`AcceptedIsComplete`). The invariant follows a sweep: from
its first check on, as long as nothing is put back, the checkout either still is what it was at that check or does not match
when it is checked again (`DevelopNotes`), so that what passes the second check was pinned throughout. Rows then pair
because the render compares the compiler revision, for the corpus, and the source hash of every row, for the rest; the
corpus hash and the interpreter revision are not needed. For `NoProgramLeftOut` a second invariant, `Rendered`, says
that a render holds one dump of each field and that, once written, the rows are the names both dumps have: the check
for programs that one dump lacks is then what makes the rows complete.

`MavrosVerdictProofs.tla` proves `GapsAreNotVerdicts` (`GapIsNoOpinion`), `ChargesAreTrue` (`ChargesHold`) and `AgreementsAreTrue`
(`AgreementHolds`) without assumptions. The inductive invariant says how much of the record each stage has filled in
(`Staged`), what the declared run shows of the value (`Declared`), and, which is the point, that
`did` can be read off the record (`Told`): only then can `verdict`, which sees the record
alone, be right. `Told` fails as soon as two stages that differ in what happened note the same word.

`InputsProofs.tla` proves, for any graph of values and cells (`InputAssumption`), `OnlyCleanInputsRun` (`AcceptedIsClean`) and
`RefusalsHaveACause` (`RejectedHasCause`). The walk marks cells, not values, so
the inductive invariant asserts that there is a set of checked values, all without fault, whose parts are checked or still on
`todo` and whose cells are seen or still on `todo`, while what a seen cell holds is checked or on `todo` (`NothingSkipped`). When
`todo` is empty that set and `seen` are closed. The converse, `NothingInvented`, is that `todo` lies in every closed set.

`ProjectionProofs.tla` proves five theorems about `RecompileSpec`, for any programs and renamings. The assumptions are `ExprAssumption` and
`ProgramAssumption` (the shape of a program), `DepthAssumption` (an expression is higher than its parts) and `RenamingAssumption` (different ids
become different ids, main stays main, and an expression's form and the number of its parts stay).

* `NumbersNeverCollide` (`NumbersDiffer`) and `WrittenOnce` (`EachItemOnce`). The numbers of a kind are always 0 to the number of its
  items less one, each given once (`Dense`), because a number is the size of its map; a queue holds exactly the numbered items that have no entry, in the order of
  their numbers (`QueueHolds`); and after main's reach is exhausted whatever has no number is still in `leftover` (`Listed`).
* `ReadsBack` (`TextReadsBack`). `TextInv` says of each entry which item it is of and that its text is that of a prefix of the item's
  expressions in preorder, the rest of which is the preorder of `todo` if the entry is the last one and empty otherwise; and that `locals` numbers just the
  locals of that prefix, as `LocalNumber` does, which has no state to go stale.
* `MarkIsRight` (`MarkedAsReached`). Until the mark, everything numbered is in every closed set that holds main; when the mark is set, the items written are closed
  themselves (`ReachInv`).
* `RenumberingChangesNothing` (`RenumberingInvisible`): the reason the projection exists. No invariant of one compilation relates its
  text to that of another, so the proof goes by way of what a finished text determines. `OrderInv` says where things stand in a text by the text alone:
  a number that a text has for the first time is the next one of its kind (`TokenLaw`); entries stand in the order of their numbers, globals only
  when no function waits, and what main reaches before the rest (`EntryLaw`); the rest is in the order of the program's list (`ListLaw`). A
  text that is done is `Complete`. `Coupled` then compares the second compilation, while it runs, with the first text: its items
  are the renamed items of the first under the same numbers, the tokens left to write are those the first text still has at that place, and what it has written begins
  that text. It is shown for each action (`CoupleInv`); that the next number the second gives is the one the first text shows is `TokenLaw`, and
  that it takes the same item from its queues is `EntryLaw`. For the items that are only listed, `Keeps` and `ListLaw` give the same order.

`Preorder` and `FlattenSeq` are defined by recursion, which needs facts about every expression and every length. The library's induction theorems take an operator, which the
provers cannot instantiate; its theorem that the proper-subset ordering of finite sets is well founded does not. It gives that every nonempty set of naturals has a least element
(`LeastNat`), hence by the least counterexample that a function defined by recursion on a rank exists and is unique (`RecursionExists`,
`RecursionAgrees`), and the equations of `Preorder` follow from `DepthAssumption`.

Only model-checked: the refinement `ImplementsPlaces` and the invariants `OwnedOnce` and
`SlotsStayInFrame` of the memory, whose modules are built on recursive operators, which the proof system
does not handle. As functions they would need a set of all memories as their domain, and a proof would first have to show what the
model takes from the compiler, that programs are well typed: a copy ends because the types of
cells are finite trees, and without a type nothing is known of the cell that a field or a dereference reads. Only model-checked too
are the liveness properties `FailureSurfaces`, `ForEnds`, `CheckEnds` and `SweepEnds`, which are out of
the prover's reach.

## Plan

The order was that of importance: evaluator control, cells, integers, the Mavros sweep, the pipeline of
records, inputs, intrinsics, projection. These are done. What would come next, in this order:

1. Reference arguments across calls and `match` scrutinees in `Cells`. Both reuse the evaluators there: an argument is
   read and bound as a local is, and a scrutinee is a place.
2. The fingerprint and the toolchain of a dump in `Dumps`.
3. A type for every local and cell in `Cells`, with the theorem that evaluation preserves it, on which `SlotsStayInFrame`
   and then `OwnedOnce` could be proved.

## Not modelled

* The black-box functions (`bn254_crypto.rs` and most of `intrinsics.rs` by lines) apply external
  cryptography to converted values; there is no state or control to model beyond the conversion.
* Strings (`str_as_bytes`, `static_assert`'s message) and all message formatting: text.
* `value_from_input` and the ABI: a structural conversion of a tree that an external parser built.
* `noir_oracle.rs` and its tests run Noir's executor, which is external, and compare two finished results.
* `loader.rs`, `validation_frontend.rs`: calls into the Noir compiler.
* The value fuzzer is a test with a reference semantics of its own; `Words` plays that part here.
* The hash over the canonical text, the text of STATUS.md and of the Mavros report.
