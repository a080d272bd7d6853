------------------------------- MODULE Dumps -------------------------------
(***************************************************************************)
(* The dumps behind STATUS.md: a sweep per field records every program of  *)
(* the corpus and of the fixtures into a file, and a render pairs the two  *)
(* files, while a developer edits, commits and changes checkouts.          *)
(*                                                                         *)
(* A record is reduced to the hash taken when the programs were listed,    *)
(* the sources that were there when the program ran, and the code that ran *)
(* it.  A file's content stands for its hash.  An optional value is a set  *)
(* of at most one element.                                                 *)
(***************************************************************************)
EXTENDS Integers, Sequences

CONSTANTS Corpus, Fixture,   \* names of programs
          Order,             \* the order they are swept in: corpus first
          Rev,               \* revisions of the compiler, each with its corpus
          Code,              \* versions of the interpreter, 1 .. n
          Pin,               \* the compiler revision each version builds with
          Format,            \* the dump format each version writes and reads
          Workspace,         \* sources whose manifest declares a workspace
          MaxActs            \* bound on what the developer does, with the
                             \* sweeps and renders that are started

Program == Corpus \cup Fixture

\* Sources of a program: those of a revision, edited, or no directory at all.
Edited  == 0
Absent  == -1
Sources == Rev \cup {Edited, Absent}

ASSUME DumpsAssumption ==
  /\ Corpus \cap Fixture = {}
  /\ Order \in Seq(Program) /\ {Order[i] : i \in 1 .. Len(Order)} = Program
  /\ Rev \subseteq Nat \ {0} /\ Code \subseteq Nat /\ 1 \in Code
  /\ Pin \in [Code -> Rev] /\ Format \in [Code -> Nat]

VARIABLES checkout,     \* the revision the noir checkout is at
          tree,         \* the sources of each program in the working trees
          code,         \* the version of the interpreter in its working tree
          commit,       \* its HEAD
          dirty,        \* whether its working tree differs from HEAD
          sweep,        \* the sweep of each field
          dump,         \* its file
          render,       \* the render
          status,       \* STATUS.md
          acts          \* how much the developer has done

vars == <<checkout, tree, code, commit, dirty, sweep, dump, render, status, acts>>

Field == {"bn254", "goldilocks"}

\* check_checkout_matches_stamp of a build: its revision, with a clean corpus.
MatchesAt(c, revision, sources) ==
  revision = Pin[c] /\ \A p \in Corpus : sources[p] = Pin[c]

Matches(c) == MatchesAt(c, checkout, tree)

Partial(D, S) == UNION {[E -> S] : E \in SUBSET D}

RunRecord == [hash : Sources, skipped : BOOLEAN, ran : SUBSET Sources]

Dump == [format : Nat, noir_rev : Rev, interpreter_rev : Nat, dirty : BOOLEAN,
         corpus : Partial(Corpus, Sources), records : Partial(Program, RunRecord), code : Code,
         putBack : BOOLEAN]

SweepState == [at : {"Idle", "Checked", "Listed", "Rechecked", "Writing"}, code : Code,
               listed : Partial(Program, Sources), records : Partial(Program, RunRecord),
               file : SUBSET Dump, putBack : BOOLEAN]

RenderState == [at : {"Idle", "First", "Loaded", "Written"}, code : Code,
                bn254 : SUBSET Dump, goldilocks : SUBSET Dump]

TypeOK == /\ checkout \in Rev /\ tree \in [Program -> Sources]
          /\ code \in Code /\ commit \in Nat /\ dirty \in BOOLEAN
          /\ sweep \in [Field -> SweepState]
          /\ dump \in [Field -> SUBSET Dump]
          /\ render \in RenderState

\* The partial function of no program.
Nothing == [p \in {} |-> {}]

Idle == [at |-> "Idle", code |-> 1, listed |-> Nothing, records |-> Nothing, file |-> {},
         putBack |-> FALSE]
NotRendering == [at |-> "Idle", code |-> 1, bn254 |-> {}, goldilocks |-> {}]

Init == /\ checkout = Pin[1]
        /\ tree \in [Program -> Rev] /\ \A p \in Corpus : tree[p] = Pin[1]
        /\ code = 1 /\ commit = 0 /\ dirty = FALSE
        /\ sweep = [f \in Field |-> Idle]
        /\ dump = [f \in Field |-> {}]
        /\ render = NotRendering
        /\ status = {}
        /\ acts = 0

-----------------------------------------------------------------------------
(* The developer.                                                          *)

Running == {f \in Field : sweep[f].at \in {"Checked", "Listed"}}

Act == acts < MaxActs /\ acts' = acts + 1

\* History: the checkout matches a running sweep's build again.  No step reads
\* putBack.
Noted(s) == [s EXCEPT !.putBack = @ \/ (~Matches(s.code) /\ MatchesAt(s.code, checkout', tree'))]

Edit == /\ Act
        /\ sweep' = [f \in Field |-> IF f \in Running THEN Noted(sweep[f]) ELSE sweep[f]]
        /\ UNCHANGED <<dump, render, status>>

EditCorpus(p) == /\ tree[p] # Edited
                 /\ tree' = [tree EXCEPT ![p] = Edited]
                 /\ UNCHANGED <<checkout, code, commit, dirty>> /\ Edit

RestoreCorpus == /\ \E p \in Corpus : tree[p] # checkout
                 /\ tree' = [p \in Program |-> IF p \in Corpus THEN checkout ELSE tree[p]]
                 /\ UNCHANGED <<checkout, code, commit, dirty>> /\ Edit

CheckOut(r) == /\ r # checkout /\ \A p \in Corpus : tree[p] = checkout
               /\ checkout' = r
               /\ tree' = [p \in Program |-> IF p \in Corpus THEN r ELSE tree[p]]
               /\ UNCHANGED <<code, commit, dirty>> /\ Edit

EditFixture(p, s) == /\ s # tree[p]
                     /\ tree' = [tree EXCEPT ![p] = s]
                     /\ dirty' = TRUE
                     /\ UNCHANGED <<checkout, code, commit>> /\ Edit

EditCode == /\ code + 1 \in Code
            /\ code' = code + 1
            /\ dirty' = TRUE
            /\ UNCHANGED <<checkout, tree, commit>> /\ Edit

Commit == /\ dirty
          /\ commit' = commit + 1
          /\ dirty' = FALSE
          /\ UNCHANGED <<checkout, tree, code>> /\ Edit

Develop == \/ \E p \in Corpus : EditCorpus(p)
           \/ RestoreCorpus
           \/ \E r \in Rev : CheckOut(r)
           \/ \E p \in Fixture, s \in Sources : EditFixture(p, s)
           \/ EditCode
           \/ Commit

-----------------------------------------------------------------------------
(* A sweep: dump_records.  Cargo builds the working tree first; a checkout *)
(* that does not match the build ends the sweep before it begins.          *)

Sweep(f, new) == /\ sweep' = [sweep EXCEPT ![f] = new]
                 /\ UNCHANGED <<checkout, tree, code, commit, dirty, render, status>>

Start(f) == /\ sweep[f].at = "Idle" /\ Matches(code)
            /\ Sweep(f, [Idle EXCEPT !.at = "Checked", !.code = code])
            /\ Act /\ UNCHANGED dump

List(f) == /\ sweep[f].at = "Checked"
           /\ LET present == {p \in Program : tree[p] # Absent}
              IN  Sweep(f, [sweep[f] EXCEPT !.at = "Listed",
                                            !.listed = [p \in present |-> tree[p]]])
           /\ UNCHANGED <<dump, acts>>

Pending(f) == {i \in 1 .. Len(Order) :
                 Order[i] \in DOMAIN sweep[f].listed \ DOMAIN sweep[f].records}

\* A workspace manifest is not run; otherwise the program runs in place.
run_record(p, hash) == [hash |-> hash, skipped |-> hash \in Workspace,
                        ran |-> IF hash \in Workspace THEN {} ELSE {tree[p]}]

RunProgram(f) ==
  /\ sweep[f].at = "Listed"
  /\ \E i \in Pending(f) :
       /\ \A j \in Pending(f) : i <= j
       /\ LET p == Order[i]
              r == sweep[f].records
          IN  Sweep(f, [sweep[f] EXCEPT !.records =
                [q \in DOMAIN r \cup {p} |-> IF q = p THEN run_record(p, sweep[f].listed[p])
                                             ELSE r[q]]])
  /\ UNCHANGED <<dump, acts>>

\* Slip: the checkout is checked at the start only.
RecheckNothing(f) == /\ sweep[f].at = "Listed" /\ Pending(f) = {}
                     /\ Sweep(f, [sweep[f] EXCEPT !.at = "Rechecked"])
                     /\ UNCHANGED <<dump, acts>>

Recheck(f) == /\ sweep[f].at = "Listed" /\ Pending(f) = {}
              /\ IF Matches(sweep[f].code)
                 THEN Sweep(f, [sweep[f] EXCEPT !.at = "Rechecked"])
                 ELSE Sweep(f, Idle)
              /\ UNCHANGED <<dump, acts>>

\* HEAD is read now; the code that ran was built at the start.
provenance(f) ==
  LET s == sweep[f]
  IN  [format |-> Format[s.code], noir_rev |-> Pin[s.code], interpreter_rev |-> commit,
       dirty |-> dirty, corpus |-> [p \in Corpus \cap DOMAIN s.listed |-> s.listed[p]],
       records |-> s.records, code |-> s.code, putBack |-> s.putBack]

\* fs::write truncates the old file.
Truncate(f) == /\ sweep[f].at = "Rechecked"
               /\ Sweep(f, [sweep[f] EXCEPT !.at = "Writing", !.file = {provenance(f)}])
               /\ UNCHANGED acts
               /\ dump' = [dump EXCEPT ![f] = {}]

Write(f) == /\ sweep[f].at = "Writing"
            /\ dump' = [dump EXCEPT ![f] = sweep[f].file]
            /\ Sweep(f, Idle)
            /\ UNCHANGED acts

Die(f) == /\ sweep[f].at # "Idle"
          /\ Sweep(f, Idle)
          /\ UNCHANGED <<dump, acts>>

SweepStep == \E f \in Field : \/ Start(f) \/ List(f) \/ RunProgram(f) \/ Recheck(f)
                              \/ Truncate(f) \/ Write(f) \/ Die(f)

-----------------------------------------------------------------------------
(* The render: render_status_file. *)

Renders(new) == /\ render' = new
                /\ UNCHANGED <<checkout, tree, code, commit, sweep, dump>>

\* parse_dump refuses a partial file and another format.
LoadFirst == /\ render.at = "Idle"
             /\ \E d \in dump["bn254"] :
                  /\ d.format = Format[code]
                  /\ Renders([NotRendering EXCEPT !.at = "First", !.code = code, !.bn254 = {d}])
             /\ Act /\ UNCHANGED <<status, dirty>>

LoadSecond == /\ render.at = "First"
              /\ \E d \in dump["goldilocks"] :
                   /\ d.format = Format[render.code]
                   /\ Renders([render EXCEPT !.at = "Loaded", !.goldilocks = {d}])
              /\ UNCHANGED <<status, dirty, acts>>

Names(d) == DOMAIN d.records

\* Slip: the sources of a row are taken to agree when the corpora do.
TrustCorpusHash(a, b) == /\ a.noir_rev = b.noir_rev /\ a.interpreter_rev = b.interpreter_rev
                         /\ a.corpus = b.corpus

Comparable(a, b) == /\ a.noir_rev = b.noir_rev /\ a.interpreter_rev = b.interpreter_rev
                    /\ a.corpus = b.corpus
                    /\ \A p \in Names(a) \cap Names(b) : a.records[p].hash = b.records[p].hash

Refuse == /\ \/ render.at = "First"
             \/ render.at = "Loaded" /\ \E a \in render.bn254, b \in render.goldilocks :
                                          ~Comparable(a, b)
          /\ Renders(NotRendering)
          /\ UNCHANGED <<status, dirty, acts>>

\* STATUS.md is tracked: a new text makes the working tree dirty.
WriteStatus ==
  /\ render.at = "Loaded"
  /\ \E a \in render.bn254, b \in render.goldilocks :
       /\ Comparable(a, b)
       /\ status' = {[rows |-> [p \in Names(a) \cap Names(b) |->
                                  [bn254 |-> a.records[p], goldilocks |-> b.records[p]]],
                      built |-> {a.code, b.code}, accepted |-> FALSE,
                      putBack |-> a.putBack \/ b.putBack]}
  /\ dirty' \in {dirty, TRUE}
  /\ Renders([render EXCEPT !.at = "Written"])
  /\ UNCHANGED acts

\* Slip: a program in one dump only is skipped without a word.
AcceptRows == /\ render.at = "Written"
              /\ \E accepted \in BOOLEAN :
                   status' = {[s EXCEPT !.accepted = accepted] : s \in status}
              /\ Renders(NotRendering)
              /\ UNCHANGED <<dirty, acts>>

\* The checks that fail the render come after the file is written; the rows
\* may also violate the harness's invariants.
Accept == /\ render.at = "Written"
          /\ \E a \in render.bn254, b \in render.goldilocks, accepted \in BOOLEAN :
               /\ accepted => Names(a) = Names(b)
               /\ status' = {[s EXCEPT !.accepted = accepted] : s \in status}
          /\ Renders(NotRendering)
          /\ UNCHANGED <<dirty, acts>>

RenderStep == LoadFirst \/ LoadSecond \/ Refuse \/ WriteStatus \/ Accept

Next == Develop \/ SweepStep \/ RenderStep

Spec == Init /\ [][Next]_vars

-----------------------------------------------------------------------------
(* Properties. *)

\* Every corpus record of a dump ran the sources of the compiler revision the
\* dump names, and its hash is theirs, however the trees were edited while it
\* was made, unless a change was undone before the second check: the code
\* cannot see one that was, and the property says nothing of such a dump.
PinnedSources ==
  \A f \in Field : \A d \in dump[f] : ~d.putBack =>
    \A p \in Corpus : /\ p \in Names(d)
                      /\ d.records[p].hash = d.noir_rev
                      /\ d.records[p].ran \subseteq {d.noir_rev}

\* The two records of a row hash the same sources, and either both ran or
\* neither did, so that no row sets a run against a program that was skipped.
\* Those of a corpus program also ran the same sources, with the exception of
\* PinnedSources.
RowsPairLike ==
  \A s \in status : \A p \in DOMAIN s.rows :
    LET a == s.rows[p].bn254
        b == s.rows[p].goldilocks
    IN  /\ a.hash = b.hash /\ a.skipped = b.skipped
        /\ p \in Corpus /\ ~s.putBack => a.ran = b.ran

\* A render that succeeds leaves no program out: STATUS.md has a row for each
\* program either dump has a record of.
AcceptedIsComplete ==
  [][\A s \in status' : s.accepted /\ status' # status =>
       \A d \in render.bn254 \cup render.goldilocks : DOMAIN s.rows = Names(d)]_vars

\* The comment on DumpProvenance: it says what a dump was built from, so
\* mismatched dumps are refused.  A rendered status pairs dumps of one
\* version of the interpreter.
MismatchedDumpsRefused == \A s \in status : \A c, d \in s.built : c = d
=============================================================================
