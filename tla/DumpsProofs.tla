---------------------------- MODULE DumpsProofs ----------------------------
(***************************************************************************)
(* The dumps for any programs, compiler revisions and versions of the      *)
(* interpreter: a corpus record ran the sources its dump names, a row of   *)
(* STATUS.md pairs records of the same sources, and no program is missing. *)
(***************************************************************************)
EXTENDS Dumps, TLAPS

\* The record of a corpus program that ran, or was skipped, at revision r.
Pinned(rec, r) == rec.hash = r /\ rec.ran = IF r \in Workspace THEN {} ELSE {r}

\* The hash tells whether the program was skipped.
Told(rec) == rec.skipped = TRUE <=> rec.hash \in Workspace

DumpOK(d) ==
  /\ ~d.putBack =>
       \A p \in Corpus : p \in DOMAIN d.records /\ Pinned(d.records[p], d.noir_rev)
  /\ \A p \in DOMAIN d.records : Told(d.records[p])

\* What a sweep holds.  While the checkout matches its build and was not made
\* to match it again, it has matched since the sweep began, so the corpus was
\* listed and ran as pinned.
SweepOK(s) ==
  /\ \A p \in DOMAIN s.records : Told(s.records[p])
  /\ s.at = "Checked" => DOMAIN s.records = {}
  /\ s.at = "Listed" /\ Matches(s.code) /\ ~s.putBack =>
       /\ \A p \in Corpus : p \in DOMAIN s.listed /\ s.listed[p] = Pin[s.code]
       /\ \A p \in Corpus \cap DOMAIN s.records : Pinned(s.records[p], Pin[s.code])
  /\ s.at = "Rechecked" /\ ~s.putBack =>
       \A p \in Corpus : p \in DOMAIN s.records /\ Pinned(s.records[p], Pin[s.code])
  /\ \A d \in s.file : DumpOK(d)

Sweeps == \A f \in Field : SweepOK(sweep[f])

DumpsOK == /\ \A f \in Field : \A d \in dump[f] : DumpOK(d)
           /\ \A d \in render.bn254 \cup render.goldilocks : DumpOK(d)

StatusShape ==
  \A s \in status : s = [rows |-> s.rows, built |-> s.built, accepted |-> s.accepted,
                       putBack |-> s.putBack]

IInv == TypeOK /\ Sweeps /\ DumpsOK /\ StatusShape /\ RowsPairLike

-----------------------------------------------------------------------------
(* Partial functions. *)

LEMMA PartialParts ==
  ASSUME NEW D, NEW S, NEW g \in Partial(D, S)
  PROVE  DOMAIN g \subseteq D /\ \A x \in DOMAIN g : g[x] \in S
  BY DEF Partial

LEMMA PartialWhole ==
  ASSUME NEW D, NEW S, NEW E \in SUBSET D, NEW g \in [E -> S]
  PROVE  g \in Partial(D, S)
  BY DEF Partial

LEMMA NothingPartial ==
  ASSUME NEW D, NEW S
  PROVE  Nothing \in Partial(D, S) /\ DOMAIN Nothing = {}
<1>1. Nothing \in [{} -> S]  BY DEF Nothing
<1>2. DOMAIN Nothing = {}  BY DEF Nothing
<1> QED BY <1>1, <1>2, PartialWhole

LEMMA IdleTyped == Idle \in SweepState /\ SweepOK(Idle) /\ NotRendering \in RenderState
<1>1. 1 \in Code  BY DumpsAssumption
<1>2. /\ Nothing \in Partial(Program, Sources)
      /\ Nothing \in Partial(Program, RunRecord)
      /\ DOMAIN Nothing = {}
  BY NothingPartial
<1>3. Idle \in SweepState  BY <1>1, <1>2 DEF Idle, SweepState
<1>4. SweepOK(Idle)  BY <1>2 DEF Idle, SweepOK
<1> QED BY <1>1, <1>3, <1>4 DEF NotRendering, RenderState

\* One sweep moves.
LEMMA SweepMoves ==
  ASSUME sweep \in [Field -> SweepState], NEW f \in Field, NEW new \in SweepState, Sweep(f, new)
  PROVE  /\ sweep' \in [Field -> SweepState] /\ sweep'[f] = new
         /\ \A g \in Field : g # f => sweep'[g] = sweep[g]
  BY DEF Sweep

\* A developer's act changes a sweep in putBack only, and if the checkout
\* matches a running sweep's build after it with nothing put back, then it did
\* before.
LEMMA DevelopNotes ==
  ASSUME sweep \in [Field -> SweepState], Develop
  PROVE  /\ UNCHANGED <<dump, render, status>> /\ sweep' \in [Field -> SweepState]
         /\ \A f \in Field :
              /\ sweep'[f] = [sweep[f] EXCEPT !.putBack = sweep'[f].putBack]
              /\ f \notin Running => sweep'[f] = sweep[f]
              /\ f \in Running /\ Matches(sweep[f].code)' /\ ~sweep'[f].putBack
                   => Matches(sweep[f].code) /\ ~sweep[f].putBack
<1>1. Edit
  BY DEF Develop, EditCorpus, RestoreCorpus, CheckOut, EditFixture, EditCode, Commit
<1>2. /\ UNCHANGED <<dump, render, status>>
      /\ sweep' = [f \in Field |-> IF f \in Running THEN Noted(sweep[f]) ELSE sweep[f]]
  BY <1>1 DEF Edit
<1>3. ASSUME NEW f \in Field
      PROVE  /\ sweep'[f] \in SweepState
             /\ sweep'[f] = [sweep[f] EXCEPT !.putBack = sweep'[f].putBack]
             /\ f \notin Running => sweep'[f] = sweep[f]
             /\ f \in Running /\ Matches(sweep[f].code)' /\ ~sweep'[f].putBack
                  => Matches(sweep[f].code) /\ ~sweep[f].putBack
  <2>1. sweep[f] \in SweepState /\ sweep[f] = [sweep[f] EXCEPT !.putBack = sweep[f].putBack]
    BY DEF SweepState
  <2>2. CASE f \notin Running
    BY <1>2, <2>1, <2>2
  <2>3. CASE f \in Running
    <3> DEFINE was == sweep[f].putBack
               put == ~Matches(sweep[f].code) /\ MatchesAt(sweep[f].code, checkout', tree')
    <3>1. sweep'[f] = [sweep[f] EXCEPT !.putBack = was \/ put]
      BY <1>2, <2>3 DEF Noted
    <3>2. was \in BOOLEAN /\ (was \/ put) \in BOOLEAN
      BY <2>1 DEF SweepState
    <3>3. sweep'[f].putBack = (was \/ put)
      BY <2>1, <3>1 DEF SweepState
    <3>4. sweep'[f] \in SweepState
      BY <2>1, <3>1, <3>2 DEF SweepState
    <3>5. sweep'[f] = [sweep[f] EXCEPT !.putBack = sweep'[f].putBack]
      BY <3>1, <3>3
    <3>6. Matches(sweep[f].code)' => MatchesAt(sweep'[f].code, checkout', tree')
      BY DEF Matches, MatchesAt
    <3>7. sweep'[f].code = sweep[f].code
      BY <2>1, <3>1 DEF SweepState
    <3>8. Matches(sweep[f].code)' /\ ~sweep'[f].putBack => Matches(sweep[f].code) /\ ~was
      BY <3>3, <3>6, <3>7
    <3> QED BY <2>3, <3>4, <3>5, <3>8
  <2> QED BY <2>2, <2>3
<1>4. sweep' \in [Field -> SweepState]
  BY <1>2, <1>3
<1> QED BY <1>2, <1>3, <1>4

\* Sweeps depend on the checkout and the trees only.
LEMMA SweepsStay == ASSUME Sweeps, UNCHANGED <<checkout, tree, sweep>> PROVE Sweeps'
<1> SUFFICES ASSUME NEW g \in Field PROVE SweepOK(sweep[g])'  BY DEF Sweeps
<1>1. SweepOK(sweep'[g])  BY DEF Sweeps
<1> QED BY <1>1 DEF SweepOK, Matches, MatchesAt, DumpOK, Pinned, Told

\* The developer changes no file and no type, and of a sweep only putBack.
LEMMA DevelopKeeps == ASSUME IInv, Develop PROVE IInv'
<1> USE DEF IInv
<1>1. /\ UNCHANGED <<dump, render, status>> /\ sweep' \in [Field -> SweepState]
      /\ \A f \in Field :
           /\ sweep'[f] = [sweep[f] EXCEPT !.putBack = sweep'[f].putBack]
           /\ f \notin Running => sweep'[f] = sweep[f]
           /\ f \in Running /\ Matches(sweep[f].code)' /\ ~sweep'[f].putBack
                => Matches(sweep[f].code) /\ ~sweep[f].putBack
  BY DevelopNotes DEF TypeOK
<1>2. TypeOK'
  <2>1. checkout' \in Rev /\ tree' \in [Program -> Sources] /\ code' \in Code /\ commit' \in Nat
        /\ dirty' \in BOOLEAN
    <3> USE DEF TypeOK
    <3>1. CASE \E p \in Corpus : EditCorpus(p)
      BY <3>1 DEF EditCorpus, Sources
    <3>2. CASE RestoreCorpus
      BY <3>2 DEF RestoreCorpus, Sources
    <3>3. CASE \E r \in Rev : CheckOut(r)
      BY <3>3 DEF CheckOut, Sources
    <3>4. CASE \E p \in Fixture, s \in Sources : EditFixture(p, s)
      BY <3>4 DEF EditFixture
    <3>5. CASE EditCode
      BY <3>5 DEF EditCode
    <3>6. CASE Commit
      <4>1. /\ commit' = commit + 1 /\ dirty' = FALSE
            /\ checkout' = checkout /\ tree' = tree /\ code' = code
        BY <3>6 DEF Commit
      <4>2. commit \in Nat => commit + 1 \in Nat  OBVIOUS
      <4> QED BY <4>1, <4>2
    <3> QED BY <3>1, <3>2, <3>3, <3>4, <3>5, <3>6 DEF Develop
  <2> QED BY <1>1, <2>1 DEF TypeOK
<1>3. Sweeps'
  <2> SUFFICES ASSUME NEW f \in Field PROVE SweepOK(sweep[f])'  BY DEF Sweeps
  <2>1. SweepOK(sweep[f]) /\ sweep[f] \in SweepState  BY DEF Sweeps, TypeOK
  <2>2. sweep[f].at = "Listed" => f \in Running  BY DEF Running
  <2>3. sweep[f].at = "Rechecked" => sweep'[f] = sweep[f]  BY <1>1 DEF Running
  <2>4. /\ sweep'[f].at = sweep[f].at /\ sweep'[f].listed = sweep[f].listed
        /\ sweep'[f].records = sweep[f].records /\ sweep'[f].file = sweep[f].file
        /\ sweep'[f].code = sweep[f].code
    <3>1. sweep'[f] = [sweep[f] EXCEPT !.putBack = sweep'[f].putBack]  BY <1>1
    <3> QED BY ONLY <2>1, <3>1 DEF SweepState
  <2>5. /\ sweep[f].at = "Listed" /\ Matches(sweep[f].code)' /\ ~sweep'[f].putBack
             => Matches(sweep[f].code) /\ ~sweep[f].putBack
    BY <1>1, <2>2
  <2> DEFINE s == sweep[f]
             t == sweep'[f]
  <2>6. /\ \A p \in DOMAIN t.records : Told(t.records[p])
        /\ t.at = "Checked" => DOMAIN t.records = {}
        /\ \A d \in t.file : DumpOK(d)
    BY <2>1, <2>4 DEF SweepOK
  <2>7. t.at = "Listed" /\ Matches(sweep[f].code)' /\ ~t.putBack =>
          /\ \A p \in Corpus : p \in DOMAIN t.listed /\ t.listed[p] = Pin[t.code]
          /\ \A p \in Corpus \cap DOMAIN t.records : Pinned(t.records[p], Pin[t.code])
    BY <2>1, <2>4, <2>5 DEF SweepOK
  <2>8. t.at = "Rechecked" /\ ~t.putBack =>
          \A p \in Corpus : p \in DOMAIN t.records /\ Pinned(t.records[p], Pin[t.code])
    BY <2>1, <2>3, <2>4 DEF SweepOK
  <2> QED BY <2>6, <2>7, <2>8 DEF SweepOK, DumpOK, Pinned, Told
<1> QED BY <1>1, <1>2, <1>3 DEF DumpsOK, DumpOK, Pinned, Told, StatusShape, RowsPairLike

\* A sweep that moves to a state that is right in itself keeps the rest.
LEMMA SweepKeeps ==
  ASSUME IInv, NEW f \in Field, NEW new \in SweepState, SweepOK(new), Sweep(f, new),
         dump' \in [Field -> SUBSET Dump],
         \A g \in Field : \A d \in dump'[g] : DumpOK(d)
  PROVE  IInv'
<1> USE DEF IInv
<1>1. /\ sweep' \in [Field -> SweepState] /\ sweep'[f] = new
      /\ \A g \in Field : g # f => sweep'[g] = sweep[g]
  BY SweepMoves DEF TypeOK
<1>2. UNCHANGED <<checkout, tree, code, commit, dirty, render, status>>  BY DEF Sweep
<1>3. TypeOK'  BY <1>1, <1>2 DEF TypeOK
<1>4. Sweeps'
  <2> SUFFICES ASSUME NEW g \in Field PROVE SweepOK(sweep[g])'  BY DEF Sweeps
  <2>1. SweepOK(sweep'[g])
    BY <1>1 DEF Sweeps
  <2> QED BY <1>2, <2>1 DEF SweepOK, Matches, MatchesAt, DumpOK, Pinned, Told
<1> QED BY <1>2, <1>3, <1>4 DEF DumpsOK, DumpOK, Pinned, Told, StatusShape, RowsPairLike

LEMMA StartKeeps == ASSUME IInv, NEW f \in Field, Start(f) PROVE IInv'
<1> DEFINE new == [Idle EXCEPT !.at = "Checked", !.code = code]
<1>1. Nothing \in Partial(Program, Sources) /\ Nothing \in Partial(Program, RunRecord)
      /\ DOMAIN Nothing = {}
  BY NothingPartial
<1>2. new \in SweepState /\ SweepOK(new)
  BY <1>1 DEF IInv, TypeOK, Idle, SweepState, SweepOK
<1>3. Sweep(f, new) /\ dump' = dump  BY DEF Start
<1> HIDE DEF new
<1> QED BY <1>2, <1>3, SweepKeeps DEF IInv, TypeOK, DumpsOK

LEMMA ListKeeps == ASSUME IInv, NEW f \in Field, List(f) PROVE IInv'
<1> DEFINE present == {p \in Program : tree[p] # Absent}
           listed  == [p \in present |-> tree[p]]
           new     == [sweep[f] EXCEPT !.at = "Listed", !.listed = listed]
<1>1. sweep[f] \in SweepState /\ SweepOK(sweep[f])  BY DEF IInv, TypeOK, Sweeps
<1>2. listed \in Partial(Program, Sources)
  <2>1. present \in SUBSET Program /\ listed \in [present -> Sources]
    BY DEF IInv, TypeOK
  <2> QED BY <2>1, PartialWhole
<1>3. DOMAIN listed = present /\ \A p \in present : listed[p] = tree[p]  OBVIOUS
<1>4. \A p \in Corpus : Matches(sweep[f].code) => p \in present /\ tree[p] = Pin[sweep[f].code]
  <2>1. Pin[sweep[f].code] \in Nat  BY <1>1, DumpsAssumption DEF SweepState
  <2> QED BY <2>1 DEF Matches, MatchesAt, Program, Absent
<1> HIDE DEF listed, present
<1>5. /\ new \in SweepState /\ new.at = "Listed" /\ new.listed = listed
      /\ new.code = sweep[f].code /\ new.records = sweep[f].records /\ new.file = sweep[f].file
      /\ new.putBack = sweep[f].putBack
  BY <1>1, <1>2 DEF SweepState
<1>6. Sweep(f, new) /\ dump' = dump /\ sweep[f].at = "Checked"  BY DEF List, listed, present
<1> HIDE DEF new
<1>7. SweepOK(new)  BY <1>1, <1>3, <1>4, <1>5, <1>6 DEF SweepOK
<1> QED BY <1>5, <1>6, <1>7, SweepKeeps DEF IInv, TypeOK, DumpsOK

LEMMA RunKeeps == ASSUME IInv, NEW f \in Field, RunProgram(f) PROVE IInv'
<1> USE DumpsAssumption
<1>1. sweep[f] \in SweepState /\ SweepOK(sweep[f])  BY DEF IInv, TypeOK, Sweeps
<1>2. PICK i \in Pending(f) :
        Sweep(f, [sweep[f] EXCEPT !.records =
          [q \in DOMAIN sweep[f].records \cup {Order[i]} |->
             IF q = Order[i] THEN run_record(Order[i], sweep[f].listed[Order[i]])
             ELSE sweep[f].records[q]]])
  BY DEF RunProgram
<1> DEFINE p   == Order[i]
           old == sweep[f].records
           rec == run_record(p, sweep[f].listed[p])
           all == [q \in DOMAIN old \cup {p} |-> IF q = p THEN rec ELSE old[q]]
           new == [sweep[f] EXCEPT !.records = all]
<1>3. p \in Program /\ p \in DOMAIN sweep[f].listed /\ tree[p] \in Sources
  BY DEF Pending, IInv, TypeOK
<1>4. /\ DOMAIN old \subseteq Program /\ \A q \in DOMAIN old : old[q] \in RunRecord
      /\ sweep[f].listed[p] \in Sources
  <2>1. old \in Partial(Program, RunRecord) /\ sweep[f].listed \in Partial(Program, Sources)
    BY <1>1 DEF SweepState
  <2> HIDE DEF p, old
  <2> QED BY ONLY <1>3, <2>1, PartialParts
<1>5. rec \in RunRecord /\ rec.hash = sweep[f].listed[p] /\ Told(rec)
      /\ rec.ran = IF rec.hash \in Workspace THEN {} ELSE {tree[p]}
  <2>1. (sweep[f].listed[p] \in Workspace) \in BOOLEAN  OBVIOUS
  <2>2. /\ rec.hash = sweep[f].listed[p] /\ rec.skipped = (sweep[f].listed[p] \in Workspace)
        /\ rec.ran = IF sweep[f].listed[p] \in Workspace THEN {} ELSE {tree[p]}
    BY DEF run_record
  <2>3. rec \in RunRecord  BY <1>3, <1>4, <2>1 DEF run_record, RunRecord
  <2> QED BY <2>2, <2>3 DEF Told
<1> HIDE DEF p, rec
<1>6. all \in Partial(Program, RunRecord)
  <2>1. DOMAIN old \cup {p} \in SUBSET Program  BY <1>3, <1>4
  <2>2. all \in [DOMAIN old \cup {p} -> RunRecord]  BY <1>4, <1>5
  <2> QED BY <2>1, <2>2, PartialWhole
<1>7. /\ DOMAIN all = DOMAIN old \cup {p} /\ all[p] = rec
      /\ \A q \in DOMAIN old : q # p => all[q] = old[q]
  OBVIOUS
<1> HIDE DEF all
<1>8. /\ new \in SweepState /\ new.at = sweep[f].at /\ new.listed = sweep[f].listed
      /\ new.code = sweep[f].code /\ new.records = all /\ new.file = sweep[f].file
      /\ new.putBack = sweep[f].putBack
  BY <1>1, <1>6 DEF SweepState
<1>9. Sweep(f, new) /\ dump' = dump /\ sweep[f].at = "Listed"
  BY <1>2 DEF RunProgram, all, p, rec
<1> HIDE DEF new, old
<1>10. SweepOK(new)
  <2>1. \A q \in DOMAIN all : Told(all[q])
    BY <1>1, <1>5, <1>7 DEF SweepOK, old
  <2>2. ASSUME Matches(sweep[f].code), ~sweep[f].putBack, NEW q \in Corpus \cap DOMAIN all
        PROVE  Pinned(all[q], Pin[sweep[f].code])
    <3>1. CASE q = p
      BY <1>1, <1>5, <1>7, <1>9, <2>2, <3>1 DEF SweepOK, Pinned, Matches, MatchesAt
    <3>2. CASE q # p
      BY <1>1, <1>7, <1>9, <2>2, <3>2 DEF SweepOK, old
    <3> QED BY <3>1, <3>2
  <2> QED BY <1>1, <1>8, <1>9, <2>1, <2>2 DEF SweepOK
<1> QED BY <1>8, <1>9, <1>10, SweepKeeps DEF IInv, TypeOK, DumpsOK

LEMMA RecheckKeeps == ASSUME IInv, NEW f \in Field, Recheck(f) PROVE IInv'
<1> USE DumpsAssumption
<1> DEFINE new == [sweep[f] EXCEPT !.at = "Rechecked"]
<1>1. sweep[f] \in SweepState /\ SweepOK(sweep[f])  BY DEF IInv, TypeOK, Sweeps
<1>2. dump' = dump /\ sweep[f].at = "Listed"  BY DEF Recheck
<1>3. CASE Matches(sweep[f].code) /\ Sweep(f, new)
  <2>1. ~sweep[f].putBack => \A p \in Corpus : p \in DOMAIN sweep[f].listed
    BY <1>1, <1>2, <1>3 DEF SweepOK
  <2>2. ~sweep[f].putBack => \A p \in Corpus : p \in DOMAIN sweep[f].records
    <3> SUFFICES ASSUME ~sweep[f].putBack, NEW p \in Corpus, p \notin DOMAIN sweep[f].records
                 PROVE  FALSE
      OBVIOUS
    <3>1. PICK i \in 1 .. Len(Order) : Order[i] = p  BY DEF Program
    <3>2. i \in Pending(f)  BY <2>1, <3>1 DEF Pending
    <3> QED BY <3>2 DEF Recheck
  <2>3. /\ new \in SweepState /\ new.at = "Rechecked" /\ new.records = sweep[f].records
        /\ new.code = sweep[f].code /\ new.file = sweep[f].file
        /\ new.putBack = sweep[f].putBack /\ new.listed = sweep[f].listed
    BY <1>1 DEF SweepState
  <2> HIDE DEF new
  <2>4. SweepOK(new)
    BY <1>1, <1>2, <1>3, <2>2, <2>3 DEF SweepOK
  <2> QED BY <1>2, <1>3, <2>3, <2>4, SweepKeeps DEF IInv, TypeOK, DumpsOK
<1>4. CASE Sweep(f, Idle)
  BY <1>2, <1>4, IdleTyped, SweepKeeps DEF IInv, TypeOK, DumpsOK
<1> QED BY <1>3, <1>4 DEF Recheck

LEMMA TruncateKeeps == ASSUME IInv, NEW f \in Field, Truncate(f) PROVE IInv'
<1> USE DumpsAssumption
<1> DEFINE d   == provenance(f)
           new == [sweep[f] EXCEPT !.at = "Writing", !.file = {d}]
<1>1. sweep[f] \in SweepState /\ SweepOK(sweep[f]) /\ sweep[f].at = "Rechecked"
  BY DEF IInv, TypeOK, Sweeps, Truncate
<1>2. d \in Dump /\ d.putBack = sweep[f].putBack /\ d.noir_rev = Pin[sweep[f].code] /\ d.records = sweep[f].records
  <2> DEFINE part == [p \in Corpus \cap DOMAIN sweep[f].listed |-> sweep[f].listed[p]]
  <2>1. sweep[f].listed \in Partial(Program, Sources)  BY <1>1 DEF SweepState
  <2>2. part \in Partial(Corpus, Sources)
    <3>1. part \in [Corpus \cap DOMAIN sweep[f].listed -> Sources]
      BY <2>1, PartialParts
    <3> QED BY <3>1, PartialWhole
  <2> HIDE DEF part
  <2>3. d = [format |-> Format[sweep[f].code], noir_rev |-> Pin[sweep[f].code],
             interpreter_rev |-> commit, dirty |-> dirty, corpus |-> part,
             records |-> sweep[f].records, code |-> sweep[f].code,
             putBack |-> sweep[f].putBack]
    BY DEF provenance, part
  <2>4. /\ Format[sweep[f].code] \in Nat /\ Pin[sweep[f].code] \in Rev /\ commit \in Nat
        /\ sweep[f].records \in Partial(Program, RunRecord) /\ sweep[f].code \in Code
        /\ sweep[f].putBack \in BOOLEAN
    BY <1>1 DEF SweepState, IInv, TypeOK
  <2>5. dirty \in BOOLEAN  BY DEF IInv, TypeOK
  <2> HIDE DEF d
  <2> QED BY <2>2, <2>3, <2>4, <2>5 DEF Dump
<1>3. DumpOK(d)
  BY <1>1, <1>2 DEF SweepOK, DumpOK
<1> HIDE DEF d
<1>4. /\ new \in SweepState /\ new.at = "Writing" /\ new.records = sweep[f].records
      /\ new.file = {d}
  BY <1>1, <1>2 DEF SweepState
<1>5. Sweep(f, new) /\ dump' = [dump EXCEPT ![f] = {}]  BY DEF Truncate, d
<1> HIDE DEF new
<1>6. SweepOK(new)  BY <1>1, <1>3, <1>4 DEF SweepOK
<1>7. dump' \in [Field -> SUBSET Dump] /\ \A g \in Field : \A e \in dump'[g] : DumpOK(e)
  BY <1>5 DEF IInv, TypeOK, DumpsOK
<1> QED BY <1>4, <1>5, <1>6, <1>7, SweepKeeps

LEMMA WriteKeeps == ASSUME IInv, NEW f \in Field, Write(f) PROVE IInv'
<1>1. /\ sweep[f].file \in SUBSET Dump /\ \A d \in sweep[f].file : DumpOK(d)
      /\ dump' = [dump EXCEPT ![f] = sweep[f].file] /\ Sweep(f, Idle)
  BY DEF IInv, TypeOK, Sweeps, SweepOK, SweepState, Write
<1>2. dump' \in [Field -> SUBSET Dump] /\ \A g \in Field : \A d \in dump'[g] : DumpOK(d)
  BY <1>1 DEF IInv, TypeOK, DumpsOK
<1> QED BY <1>1, <1>2, IdleTyped, SweepKeeps

LEMMA DieKeeps == ASSUME IInv, NEW f \in Field, Die(f) PROVE IInv'
<1>1. Sweep(f, Idle) /\ dump' = dump  BY DEF Die
<1> QED BY <1>1, IdleTyped, SweepKeeps DEF IInv, TypeOK, DumpsOK

\* A render that moves between right states keeps the rest.
LEMMA RenderKeeps ==
  ASSUME IInv, NEW new \in RenderState, Renders(new),
         \A d \in new.bn254 \cup new.goldilocks : DumpOK(d),
         dirty' \in BOOLEAN, StatusShape', RowsPairLike'
  PROVE  IInv'
<1>1. UNCHANGED <<checkout, tree, code, commit, sweep, dump>> /\ render' = new  BY DEF Renders
<1>2. TypeOK'  BY <1>1 DEF IInv, TypeOK
<1>3. Sweeps'  BY <1>1, SweepsStay DEF IInv
<1>4. DumpsOK'  BY <1>1 DEF IInv, DumpsOK, DumpOK, Pinned, Told
<1> QED BY <1>2, <1>3, <1>4 DEF IInv

LEMMA RenderStepKeeps == ASSUME IInv, RenderStep PROVE IInv'
<1> USE DEF IInv
<1>1. render \in RenderState /\ dump \in [Field -> SUBSET Dump] /\ dirty \in BOOLEAN
      /\ \A f \in Field : \A d \in dump[f] : d \in Dump /\ DumpOK(d)
  BY DEF TypeOK, DumpsOK
<1>0. /\ \A d \in render.bn254 : DumpOK(d)
      /\ \A d \in render.goldilocks : DumpOK(d)
  BY DEF DumpsOK
<1>2. UNCHANGED status => StatusShape' /\ RowsPairLike'
  BY DEF StatusShape, RowsPairLike
<1>3. CASE LoadFirst
  <2>1. PICK d \in dump["bn254"] :
          Renders([NotRendering EXCEPT !.at = "First", !.code = code, !.bn254 = {d}])
    BY <1>3 DEF LoadFirst
  <2> DEFINE new == [NotRendering EXCEPT !.at = "First", !.code = code, !.bn254 = {d}]
  <2>2. new \in RenderState /\ new.bn254 = {d} /\ new.goldilocks = {}
    BY <1>1 DEF NotRendering, RenderState, Field, TypeOK
  <2>3. UNCHANGED status /\ dirty' \in BOOLEAN  BY <1>1, <1>3 DEF LoadFirst
  <2> HIDE DEF new
  <2>4. Renders(new)  BY <2>1 DEF new
  <2> QED BY <1>1, <1>2, <2>2, <2>3, <2>4, RenderKeeps DEF Field
<1>4. CASE LoadSecond
  <2>1. PICK d \in dump["goldilocks"] :
          Renders([render EXCEPT !.at = "Loaded", !.goldilocks = {d}])
    BY <1>4 DEF LoadSecond
  <2> DEFINE new == [render EXCEPT !.at = "Loaded", !.goldilocks = {d}]
  <2>2. new \in RenderState /\ new.bn254 = render.bn254 /\ new.goldilocks = {d}
    BY <1>1 DEF RenderState, Field
  <2>3. UNCHANGED status /\ dirty' \in BOOLEAN  BY <1>1, <1>4 DEF LoadSecond
  <2> HIDE DEF new
  <2>4. Renders(new)  BY <2>1 DEF new
  <2> QED BY <1>0, <1>1, <1>2, <2>2, <2>3, <2>4, RenderKeeps DEF Field
<1>5. NotRendering \in RenderState /\ NotRendering.bn254 \cup NotRendering.goldilocks = {}
  BY IdleTyped DEF NotRendering
<1>6. CASE Refuse
  <2>1. Renders(NotRendering) /\ UNCHANGED status /\ dirty' \in BOOLEAN
    BY <1>1, <1>6 DEF Refuse
  <2> QED BY <1>2, <1>5, <2>1, RenderKeeps
<1>7. CASE WriteStatus
  <2>1. PICK a \in render.bn254, b \in render.goldilocks :
          /\ Comparable(a, b)
          /\ status' = {[rows |-> [p \in Names(a) \cap Names(b) |->
                                     [bn254 |-> a.records[p], goldilocks |-> b.records[p]]],
                         built |-> {a.code, b.code}, accepted |-> FALSE,
                         putBack |-> a.putBack \/ b.putBack]}
    BY <1>7 DEF WriteStatus
  <2> DEFINE rows == [p \in Names(a) \cap Names(b) |->
                        [bn254 |-> a.records[p], goldilocks |-> b.records[p]]]
  <2>2. DumpOK(a) /\ DumpOK(b) /\ a \in Dump /\ b \in Dump
    <3>1. render.bn254 \in SUBSET Dump /\ render.goldilocks \in SUBSET Dump
      BY <1>1 DEF RenderState
    <3>2. DumpOK(a) /\ DumpOK(b)  BY <1>0
    <3> QED BY <3>1, <3>2
  <2>3. StatusShape'  BY <2>1 DEF StatusShape
  <2>4. ASSUME NEW p \in Names(a) \cap Names(b)
        PROVE  /\ rows[p].bn254 = a.records[p] /\ rows[p].goldilocks = b.records[p]
               /\ a.records[p].hash = b.records[p].hash
               /\ a.records[p].skipped = b.records[p].skipped
               /\ p \in Corpus /\ ~a.putBack /\ ~b.putBack
                    => a.records[p].ran = b.records[p].ran
    <3>1. rows[p].bn254 = a.records[p] /\ rows[p].goldilocks = b.records[p]  OBVIOUS
    <3>2. a.records[p].hash = b.records[p].hash /\ a.noir_rev = b.noir_rev
      BY <2>1 DEF Comparable
    <3>3. a.records[p] \in RunRecord /\ b.records[p] \in RunRecord
      <4>1. a.records \in Partial(Program, RunRecord) /\ b.records \in Partial(Program, RunRecord)
        BY <2>2 DEF Dump
      <4> QED BY <4>1, PartialParts DEF Names
    <3>4. a.records[p].skipped \in BOOLEAN /\ b.records[p].skipped \in BOOLEAN
      BY <3>3 DEF RunRecord
    <3>5. a.records[p].skipped = TRUE <=> b.records[p].skipped = TRUE
      BY <2>2, <3>2 DEF DumpOK, Told, Names
    <3>6. a.records[p].skipped = b.records[p].skipped
      BY <3>4, <3>5
    <3>7. p \in Corpus /\ ~a.putBack /\ ~b.putBack => a.records[p].ran = b.records[p].ran
      BY <2>2, <3>2 DEF DumpOK, Pinned
    <3> QED BY <3>1, <3>2, <3>6, <3>7
  <2>5. RowsPairLike'
    <3>1. DOMAIN rows = Names(a) \cap Names(b)  OBVIOUS
    <3> HIDE DEF rows
    <3> DEFINE built == {a.code, b.code}
               put   == a.putBack \/ b.putBack
               one   == [rows |-> rows, built |-> built, accepted |-> FALSE, putBack |-> put]
    <3>2. one.rows = rows /\ one.putBack = put  OBVIOUS
    <3>3. status' = {one}  BY <2>1 DEF rows
    <3> HIDE DEF one
    <3>4. \A s \in status' : s.rows = rows /\ (s.putBack <=> a.putBack \/ b.putBack)
      BY <3>2, <3>3
    <3> QED BY <2>4, <3>1, <3>4 DEF RowsPairLike
  <2> DEFINE new == [render EXCEPT !.at = "Written"]
  <2>6. new \in RenderState /\ new.bn254 = render.bn254 /\ new.goldilocks = render.goldilocks
    BY <1>1 DEF RenderState
  <2>7. Renders(new)  BY <1>7 DEF WriteStatus
  <2>8. dirty' \in BOOLEAN  BY <1>1, <1>7 DEF WriteStatus
  <2> HIDE DEF new
  <2>9. \A d \in new.bn254 \cup new.goldilocks : DumpOK(d)
    BY <1>0, <2>6
  <2> QED BY <2>3, <2>5, <2>6, <2>7, <2>8, <2>9, RenderKeeps
<1>8. CASE Accept
  <2>1. PICK accepted \in BOOLEAN :
          status' = {[s EXCEPT !.accepted = accepted] : s \in status}
    BY <1>8 DEF Accept
  <2>2. \A s \in status :
          [s EXCEPT !.accepted = accepted] =
            [rows |-> s.rows, built |-> s.built, accepted |-> accepted, putBack |-> s.putBack]
    BY DEF StatusShape
  <2>3. \A t \in status' : \E s \in status :
          t = [rows |-> s.rows, built |-> s.built, accepted |-> accepted, putBack |-> s.putBack]
    BY <2>1, <2>2
  <2>4. StatusShape'  BY <2>3 DEF StatusShape
  <2>5. RowsPairLike'
    <3>1. \A t \in status' : \E s \in status : t.rows = s.rows /\ t.putBack = s.putBack
      BY <2>3
    <3> QED BY <3>1 DEF RowsPairLike
  <2>6. Renders(NotRendering) /\ dirty' \in BOOLEAN  BY <1>1, <1>8 DEF Accept
  <2> QED BY <1>5, <2>4, <2>5, <2>6, RenderKeeps
<1> QED BY <1>3, <1>4, <1>6, <1>7, <1>8 DEF RenderStep

-----------------------------------------------------------------------------

LEMMA Initially == Init => IInv
<1> SUFFICES ASSUME Init PROVE IInv  OBVIOUS
<1> USE DumpsAssumption DEF Init
<1>1. TypeOK
  <2>1. Pin[1] \in Rev /\ tree \in [Program -> Sources]  BY DEF Sources
  <2>2. sweep \in [Field -> SweepState] /\ render \in RenderState  BY IdleTyped
  <2> QED BY <2>1, <2>2 DEF TypeOK
<1>2. Sweeps
  <2>1. \A f \in Field : sweep[f] = Idle  OBVIOUS
  <2> QED BY <2>1, IdleTyped DEF Sweeps
<1>3. DumpsOK
  <2>1. render.bn254 \cup render.goldilocks = {}  BY DEF NotRendering
  <2> QED BY <2>1 DEF DumpsOK
<1>4. StatusShape /\ RowsPairLike  BY DEF StatusShape, RowsPairLike
<1> QED BY <1>1, <1>2, <1>3, <1>4 DEF IInv

LEMMA Inductive == IInv /\ [Next]_vars => IInv'
<1> SUFFICES ASSUME IInv, [Next]_vars PROVE IInv'  OBVIOUS
<1>1. CASE Develop     BY <1>1, DevelopKeeps
<1>2. CASE SweepStep
  BY <1>2, StartKeeps, ListKeeps, RunKeeps, RecheckKeeps, TruncateKeeps, WriteKeeps, DieKeeps
     DEF SweepStep
<1>3. CASE RenderStep  BY <1>3, RenderStepKeeps
<1>4. CASE UNCHANGED vars
  <2>1. UNCHANGED <<checkout, tree, code, commit, dirty, sweep, dump, render, status>>
    BY <1>4 DEF vars
  <2>2. Sweeps'  BY <2>1, SweepsStay DEF IInv
  <2>3. TypeOK'  BY <2>1 DEF IInv, TypeOK
  <2>4. DumpsOK'  BY <2>1 DEF IInv, DumpsOK, DumpOK, Pinned, Told
  <2>5. StatusShape' /\ RowsPairLike'  BY <2>1 DEF IInv, StatusShape, RowsPairLike
  <2> QED BY <2>2, <2>3, <2>4, <2>5 DEF IInv
<1> QED BY <1>1, <1>2, <1>3, <1>4 DEF Next

\* Every corpus record in a dump ran the sources of the compiler revision the
\* dump names, for any programs, revisions and number of edits: the checks of
\* the checkout before and after the records (status.rs, dump_records) are
\* enough, unless what a running sweep began with was changed and put back.
THEOREM CorpusIsPinned == Spec => []PinnedSources
<1>1. IInv => PinnedSources
  BY DEF IInv, DumpsOK, DumpOK, Pinned, PinnedSources, Names
<1> QED BY <1>1, Initially, Inductive, PTL DEF Spec

\* The records of a row hash the same sources and both ran or neither did:
\* the source hash decides, because it is taken with the manifest.
THEOREM RowsArePaired == Spec => []RowsPairLike
<1>1. IInv => RowsPairLike  BY DEF IInv
<1> QED BY <1>1, Initially, Inductive, PTL DEF Spec
-----------------------------------------------------------------------------
(* What a render has in hand, and what STATUS.md says of it. *)

Single(S) == \A d, e \in S : d = e

Rendered == /\ Single(render.bn254) /\ Single(render.goldilocks)
            /\ render.at = "Written" =>
                 \A s \in status, a \in render.bn254, b \in render.goldilocks :
                   DOMAIN s.rows = Names(a) \cap Names(b)

LEMMA RenderedStay == ASSUME Rendered, UNCHANGED <<render, status>> PROVE Rendered'
  BY DEF Rendered, Single, Names

LEMMA NotRenderingRendered == ASSUME render' = NotRendering PROVE Rendered'
  BY DEF Rendered, Single, NotRendering

LEMMA RenderedInductive == IInv /\ Rendered /\ [Next]_vars => Rendered'
<1> SUFFICES ASSUME IInv, Rendered, [Next]_vars PROVE Rendered'  OBVIOUS
<1>1. render \in RenderState  BY DEF IInv, TypeOK
<1>2. CASE Develop
  <2>1. UNCHANGED <<render, status>>
    BY <1>2, DevelopNotes DEF IInv, TypeOK
  <2> QED BY <2>1, RenderedStay
<1>3. CASE SweepStep
  <2>1. UNCHANGED <<render, status>>
    BY <1>3 DEF SweepStep, Start, List, RunProgram, Recheck, Truncate, Write, Die, Sweep
  <2> QED BY <2>1, RenderedStay
<1>4. CASE UNCHANGED vars
  BY <1>4, RenderedStay DEF vars
<1>5. CASE LoadFirst
  <2>1. PICK d \in dump["bn254"] :
          render' = [NotRendering EXCEPT !.at = "First", !.code = code, !.bn254 = {d}]
    BY <1>5 DEF LoadFirst, Renders
  <2>2. render'.bn254 = {d} /\ render'.goldilocks = {} /\ render'.at = "First"
    BY <2>1 DEF NotRendering
  <2> QED BY <2>2 DEF Rendered, Single
<1>6. CASE LoadSecond
  <2>1. PICK d \in dump["goldilocks"] :
          render' = [render EXCEPT !.at = "Loaded", !.goldilocks = {d}]
    BY <1>6 DEF LoadSecond, Renders
  <2>2. render'.bn254 = render.bn254 /\ render'.goldilocks = {d} /\ render'.at = "Loaded"
    BY <1>1, <2>1 DEF RenderState
  <2> QED BY <2>2 DEF Rendered, Single
<1>7. CASE WriteStatus
  <2>1. PICK a \in render.bn254, b \in render.goldilocks :
          status' = {[rows |-> [p \in Names(a) \cap Names(b) |->
                                  [bn254 |-> a.records[p], goldilocks |-> b.records[p]]],
                      built |-> {a.code, b.code}, accepted |-> FALSE,
                         putBack |-> a.putBack \/ b.putBack]}
    BY <1>7 DEF WriteStatus
  <2>2. \A s \in status' : DOMAIN s.rows = Names(a) \cap Names(b)
    BY <2>1
  <2>3. render'.bn254 = render.bn254 /\ render'.goldilocks = render.goldilocks
    BY <1>1, <1>7 DEF WriteStatus, Renders, RenderState
  <2> QED BY <2>2, <2>3 DEF Rendered, Single, Names
<1>8. CASE Refuse \/ Accept
  <2>1. render' = NotRendering  BY <1>8 DEF Refuse, Accept, Renders
  <2> QED BY <2>1, NotRenderingRendered
<1> QED BY <1>2, <1>3, <1>4, <1>5, <1>6, <1>7, <1>8 DEF Next, RenderStep

\* A render that succeeds has a row for every program of either dump, for any
\* programs: what it checks after it has written STATUS.md is about the rows
\* it wrote, because nothing else can write the file in between.
THEOREM NoProgramLeftOut == Spec => AcceptedIsComplete
<1>1. IInv /\ Rendered /\ [Next]_vars =>
        [\A s \in status' : s.accepted /\ status' # status =>
           \A d \in render.bn254 \cup render.goldilocks : DOMAIN s.rows = Names(d)]_vars
  <2> SUFFICES ASSUME IInv, Rendered, Next,
                      NEW s \in status', s.accepted, status' # status,
                      NEW d \in render.bn254 \cup render.goldilocks
               PROVE  DOMAIN s.rows = Names(d)
    OBVIOUS
  <2>1. Accept
    <3>1. ~Develop  BY DevelopNotes DEF IInv, TypeOK
    <3>2. ~SweepStep
      BY DEF SweepStep, Start, List, RunProgram, Recheck, Truncate, Write, Die, Sweep
    <3>3. ~LoadFirst /\ ~LoadSecond /\ ~Refuse
      BY DEF LoadFirst, LoadSecond, Refuse
    <3>4. ~WriteStatus
      <4> SUFFICES ASSUME WriteStatus PROVE FALSE  OBVIOUS
      <4>1. \A t \in status' : t.accepted = FALSE  BY DEF WriteStatus
      <4> QED BY <4>1
    <3> QED BY <3>1, <3>2, <3>3, <3>4 DEF Next, RenderStep
  <2>2. PICK a \in render.bn254, b \in render.goldilocks, accepted \in BOOLEAN :
          /\ accepted => Names(a) = Names(b)
          /\ status' = {[t EXCEPT !.accepted = accepted] : t \in status}
    BY <2>1 DEF Accept
  <2>3. PICK t \in status : s = [t EXCEPT !.accepted = accepted]  BY <2>2
  <2>4. s.rows = t.rows /\ s.accepted = accepted
    <3>1. t = [rows |-> t.rows, built |-> t.built, accepted |-> t.accepted,
             putBack |-> t.putBack]
      BY DEF IInv, StatusShape
    <3>2. s = [rows |-> t.rows, built |-> t.built, accepted |-> accepted,
               putBack |-> t.putBack]
      BY <2>3, <3>1
    <3> QED BY <3>2
  <2>5. DOMAIN t.rows = Names(a) \cap Names(b)
    BY <2>1 DEF Accept, Rendered
  <2>6. Names(a) = Names(b)  BY <2>2, <2>4
  <2>7. d = a \/ d = b  BY DEF Rendered, Single
  <2> QED BY <2>4, <2>5, <2>6, <2>7
<1>2. Init => Rendered
  BY DEF Init, Rendered, Single, NotRendering
<1> QED BY <1>1, <1>2, Initially, Inductive, RenderedInductive, PTL DEF Spec, AcceptedIsComplete
=============================================================================
