---------------------------- MODULE MavrosProofs ----------------------------
(***************************************************************************)
(* The sweep for any number of workers and programs: every verdict is      *)
(* justified by what the child did, and a sweep that finishes without a    *)
(* panic has a record of every program.                                    *)
(***************************************************************************)
EXTENDS MavrosRefine, FiniteSetTheorems, TLAPS

\* The types, without the bound on the counter.
Typed == /\ next \in Nat
         /\ worker \in [Worker -> WorkerState]
         /\ child \in [Job -> ChildState]
         /\ records \in [Job -> {"None", "Examined", "Timeout", "Crash"}]
         /\ report \in {"None", "Written", "Unreported", "Panicked"}

\* A worker between taking a job and storing its record; a panic keeps it.
Holding(w) == worker[w].at \notin {"Take", "Left"}

\* A job whose worker panicked.
Lost(j) == \E w \in Worker : At(w, "Panicked") /\ MyJob(w) = j

\* A job handed out is recorded or held by one worker.
Ownership ==
  /\ \A w \in Worker : Holding(w) => MyJob(w) \in Job /\ MyJob(w) <= next
                                     /\ records[MyJob(w)] = "None"
  /\ \A v, w \in Worker : Holding(v) /\ Holding(w) /\ MyJob(v) = MyJob(w) => v = w
  /\ \A j \in Job : j > next => records[j] = "None"

\* Nothing handed out is forgotten, and a worker leaves after the last job.
NoneForgotten ==
  /\ \A j \in Job : j <= next =>
       records[j] # "None" \/ \E w \in Worker : Holding(w) /\ MyJob(w) = j
  /\ \A w \in Worker : At(w, "Left") => next > Jobs

\* The reader of a worker that did not panic drains the pipe.
Drained ==
  \A j \in Job :
    /\ child[j].process = "Succeeded" => child[j].written = Output
    /\ child[j].process = "BrokenPipe" => Lost(j)
    /\ child[j].reader = "Ended" => Lost(j) \/ (Exited(j) /\ child[j].read = child[j].written)

\* What a worker knows of its child at each place.
Knows(w) ==
  /\ worker[w].at \in {"Poll", "Deadline", "Kill"} => child[MyJob(w)].process # "Killed"
  /\ worker[w].at \in {"Kill", "Reap"} => child[MyJob(w)].late
  /\ At(w, "Join") =>
       /\ Exited(MyJob(w))
       /\ worker[w].status # "None"
       /\ worker[w].status = "Success"  => child[MyJob(w)].process = "Succeeded"
       /\ worker[w].status = "Failure"  => child[MyJob(w)].process = "Crashed"
       /\ worker[w].status = "TimedOut" => child[MyJob(w)].late

\* What every worker knows is so.
Knowledge == \A w \in Worker : Knows(w)

IInv == Typed /\ Ownership /\ NoneForgotten /\ Drained /\ Knowledge
        /\ VerdictJustified /\ EveryJobReports

-----------------------------------------------------------------------------
(* What the assignments to worker do: one worker moves. *)
PlaceName == {"Take", "Spawn", "Poll", "Deadline", "Kill", "Reap", "Join", "Left", "Panicked"}

\* Worker w is now at `place` with job i and status s; nobody else moved.
Moved(w, place, i, s) ==
  /\ worker' \in [Worker -> WorkerState]
  /\ worker'[w].at = place /\ worker'[w].job = i /\ worker'[w].status = s
  /\ \A v \in Worker : v # w => worker'[v] = worker[v]

(* Go moves a worker. *)
LEMMA GoMoves ==
  ASSUME worker \in [Worker -> WorkerState], NEW w \in Worker, NEW place \in PlaceName,
         Go(w, place)
  PROVE  Moved(w, place, worker[w].job, worker[w].status)
<1> DEFINE r == [worker[w] EXCEPT !.at = place]
<1>1. worker[w] \in WorkerState  OBVIOUS
<1>2. r \in WorkerState /\ r.at = place /\ r.job = worker[w].job /\ r.status = worker[w].status
  BY <1>1 DEF WorkerState, PlaceName
<1>3. worker' = [worker EXCEPT ![w] = r]  BY DEF Go
<1> QED BY <1>2, <1>3 DEF Moved

(* GoWith moves a worker and sets its status. *)
LEMMA GoWithMoves ==
  ASSUME worker \in [Worker -> WorkerState], NEW w \in Worker, NEW place \in PlaceName,
         NEW s \in {"None", "Success", "Failure", "TimedOut"}, GoWith(w, place, s)
  PROVE  Moved(w, place, worker[w].job, s)
<1> DEFINE r == [worker[w] EXCEPT !.at = place, !.status = s]
<1>1. worker[w] \in WorkerState  OBVIOUS
<1>2. r \in WorkerState /\ r.at = place /\ r.job = worker[w].job /\ r.status = s
  BY <1>1 DEF WorkerState, PlaceName
<1>3. worker' = [worker EXCEPT ![w] = r]  BY DEF GoWith
<1> QED BY <1>2, <1>3 DEF Moved

(* Taking a job moves the worker to it, or out of the loop. *)
LEMMA TakeMoves ==
  ASSUME Typed, NEW w \in Worker, Take(w)
  PROVE  \/ next' \in Job /\ Moved(w, "Spawn", next', worker[w].status)
         \/ next' \notin Job /\ Moved(w, "Left", 0, worker[w].status)
<1> DEFINE place == IF next' \in Job THEN "Spawn" ELSE "Left"
           i == IF next' \in Job THEN next' ELSE 0
           r == [worker[w] EXCEPT !.at = place, !.job = i]
<1>1. worker[w] \in WorkerState /\ place \in PlaceName /\ i \in 0 .. Jobs
  BY SweepAssumption DEF Typed, PlaceName, Job
<1> HIDE DEF place, i
<1>2. r \in WorkerState /\ r.at = place /\ r.job = i /\ r.status = worker[w].status
  BY <1>1 DEF WorkerState, PlaceName
<1>3. worker' = [worker EXCEPT ![w] = r]  BY DEF Take, Hand, place, i
<1>4. Moved(w, place, i, worker[w].status)  BY <1>2, <1>3 DEF Moved, Typed
<1> QED BY <1>4 DEF place, i

-----------------------------------------------------------------------------
(* What the assignments to child do: one child, its reader or its clock    *)
(* changes.                                                                *)
Changed(j, p, wr, rd, state, l) ==
  /\ child' \in [Job -> ChildState]
  /\ child'[j].process = p /\ child'[j].written = wr /\ child'[j].read = rd
  /\ child'[j].reader = state /\ child'[j].late = l
  /\ \A i \in Job : i # j => child'[i] = child[i]

(* An assignment of a state to one child. *)
LEMMA ChildChanges ==
  ASSUME child \in [Job -> ChildState], NEW j \in Job, NEW r \in ChildState,
         child' = [child EXCEPT ![j] = r]
  PROVE  Changed(j, r.process, r.written, r.read, r.reader, r.late)
BY DEF Changed

(* A process starts, is killed or exits; the reader may start with it. *)
LEMMA ProcessChanges ==
  ASSUME child \in [Job -> ChildState], NEW j \in Job,
         NEW p \in {"Running", "Succeeded", "Crashed", "BrokenPipe", "Killed"},
         NEW state \in {"None", "Reading", "Ended"},
         \/ child' = [child EXCEPT ![j].process = p, ![j].reader = state]
         \/ child' = [child EXCEPT ![j].process = p] /\ state = child[j].reader
  PROVE  Changed(j, p, child[j].written, child[j].read, state, child[j].late)
<1>1. child[j] \in ChildState  OBVIOUS
<1>2. CASE child' = [child EXCEPT ![j].process = p, ![j].reader = state]
  <2> DEFINE r == [child[j] EXCEPT !.process = p, !.reader = state]
  <2>1. /\ r \in ChildState /\ r.process = p /\ r.reader = state
        /\ r.written = child[j].written /\ r.read = child[j].read /\ r.late = child[j].late
    BY <1>1 DEF ChildState
  <2>2. child' = [child EXCEPT ![j] = r]  BY <1>2
  <2> HIDE DEF r
  <2> QED BY <2>1, <2>2, ChildChanges
<1>3. CASE child' = [child EXCEPT ![j].process = p] /\ state = child[j].reader
  <2> DEFINE r == [child[j] EXCEPT !.process = p]
  <2>1. /\ r \in ChildState /\ r.process = p /\ r.reader = state
        /\ r.written = child[j].written /\ r.read = child[j].read /\ r.late = child[j].late
    BY <1>1, <1>3 DEF ChildState
  <2>2. child' = [child EXCEPT ![j] = r]  BY <1>3
  <2> HIDE DEF r
  <2> QED BY <2>1, <2>2, ChildChanges
<1> QED BY <1>2, <1>3

(* A child writes, or fails because its pipe is closed. *)
LEMMA WriteChanges ==
  ASSUME Typed, NEW j \in Job, Write(j)
  PROVE  \/ /\ child[j].reader = "Ended"
            /\ Changed(j, "BrokenPipe", child[j].written, child[j].read, child[j].reader, child[j].late)
         \/ /\ child[j].reader = "Reading"
            /\ Changed(j, "Running", child[j].written + 1, child[j].read, child[j].reader, child[j].late)
<1>1. child[j] \in ChildState  BY DEF Typed
<1>2. CASE child[j].reader = "Ended"
  BY <1>1, <1>2, ProcessChanges DEF Write, Typed, ChildState
<1>3. CASE child[j].reader = "Reading"
  <2> DEFINE r == [child[j] EXCEPT !.written = @ + 1]
  <2>1. /\ r \in ChildState /\ r.process = "Running" /\ r.reader = child[j].reader
        /\ r.written = child[j].written + 1 /\ r.read = child[j].read /\ r.late = child[j].late
    BY <1>1 DEF ChildState, Write, Output
  <2>2. child' = [child EXCEPT ![j] = r]  BY <1>3 DEF Write
  <2> HIDE DEF r
  <2> QED BY <1>3, <2>1, <2>2, ChildChanges DEF Typed
<1> QED BY <1>2, <1>3 DEF Write

(* The time limit passes. *)
LEMMA ElapseChanges ==
  ASSUME Typed, NEW j \in Job, Elapse(j)
  PROVE  Changed(j, child[j].process, child[j].written, child[j].read, child[j].reader, TRUE)
<1> DEFINE r == [child[j] EXCEPT !.late = TRUE]
<1>1. child[j] \in ChildState  BY DEF Typed
<1>2. /\ r \in ChildState /\ r.process = child[j].process /\ r.reader = child[j].reader
      /\ r.written = child[j].written /\ r.read = child[j].read /\ r.late = TRUE
  BY <1>1 DEF ChildState
<1>3. child' = [child EXCEPT ![j] = r]  BY DEF Elapse
<1> HIDE DEF r
<1> QED BY <1>2, <1>3, ChildChanges DEF Typed

(* The reader takes a part off the pipe, or finds its end. *)
LEMMA ReadChanges ==
  ASSUME Typed, NEW j \in Job, Read(j)
  PROVE  \/ /\ child[j].reader = "Reading" /\ child[j].read < child[j].written
            /\ Changed(j, child[j].process, child[j].written, child[j].read + 1, "Reading", child[j].late)
         \/ /\ child[j].read = child[j].written /\ Exited(j)
            /\ Changed(j, child[j].process, child[j].written, child[j].read, "Ended", child[j].late)
<1>1. child[j] \in ChildState  BY DEF Typed
<1>2. CASE child[j].read < child[j].written
  <2> DEFINE r == [child[j] EXCEPT !.read = @ + 1]
  <2>1. /\ r \in ChildState /\ r.process = child[j].process /\ r.reader = "Reading"
        /\ r.written = child[j].written /\ r.read = child[j].read + 1 /\ r.late = child[j].late
    BY <1>1, <1>2 DEF ChildState, Read, Output
  <2>2. child' = [child EXCEPT ![j] = r]  BY <1>1, <1>2 DEF Read, ChildState, Output
  <2> HIDE DEF r
  <2>3. Changed(j, child[j].process, child[j].written, child[j].read + 1, "Reading", child[j].late)
    BY <2>1, <2>2, ChildChanges DEF Typed
  <2> QED BY <1>2, <2>3 DEF Read
<1>3. CASE ~(child[j].read < child[j].written)
  <2> DEFINE r == [child[j] EXCEPT !.reader = "Ended"]
  <2>1. /\ r \in ChildState /\ r.process = child[j].process /\ r.reader = "Ended"
        /\ r.written = child[j].written /\ r.read = child[j].read /\ r.late = child[j].late
    BY <1>1 DEF ChildState
  <2>2. child' = [child EXCEPT ![j] = r]  BY <1>3 DEF Read
  <2> HIDE DEF r
  <2>3. Changed(j, child[j].process, child[j].written, child[j].read, "Ended", child[j].late)
    BY <2>1, <2>2, ChildChanges DEF Typed
  <2> QED BY <1>3, <2>3 DEF Read
<1> QED BY <1>2, <1>3

-----------------------------------------------------------------------------
(* Most steps hand out no job and store no record.                         *)
Stays ==
  /\ UNCHANGED <<next, records, report>>
  /\ \A v \in Worker :
       /\ worker'[v].job = worker[v].job
       /\ Holding(v)' <=> Holding(v)
       /\ At(v, "Left")' <=> At(v, "Left")
       /\ At(v, "Panicked") => At(v, "Panicked")'

\* What has been recorded of a child stays true of it.
Lasting ==
  \A j \in Job : records[j] # "None" =>
    /\ Exited(j) => child'[j].process = child[j].process
    /\ child[j].late => child'[j].late
    /\ child'[j].read >= child[j].read

(* Such a step keeps who owns which job, and nobody is forgotten. *)
LEMMA StaysKeeps ==
  ASSUME IInv, Stays
  PROVE  Ownership' /\ NoneForgotten' /\ EveryJobReports' /\ (\A j \in Job : Lost(j) => Lost(j)')
<1>1. Ownership'  BY DEF IInv, Stays, Ownership, MyJob
<1>2. NoneForgotten'  BY DEF IInv, Stays, NoneForgotten, MyJob
<1>3. EveryJobReports'  BY DEF IInv, Stays, EveryJobReports
<1>4. \A j \in Job : Lost(j) => Lost(j)'  BY DEF Stays, Lost, MyJob
<1> QED BY <1>1, <1>2, <1>3, <1>4

(* A stored verdict stays justified. *)
LEMMA VerdictKept ==
  ASSUME IInv, Typed', Stays, Lasting
  PROVE  VerdictJustified'
BY DEF IInv, Typed, ChildState, Stays, Lasting, VerdictJustified, Exited, Line

(* The owner of a job is not lost while it works. *)
LEMMA OwnerKnown ==
  ASSUME Ownership, NEW w \in Worker, Holding(w), worker[w].at # "Panicked"
  PROVE  ~Lost(MyJob(w))
BY DEF Ownership, Holding, Lost, At

-----------------------------------------------------------------------------
(* Poll: a child seen to have ended by itself succeeded or crashed. *)
LEMMA PollStep ==
  ASSUME IInv, NEW w \in Worker, Poll(w)
  PROVE  IInv'
<1> DEFINE i == worker[w].job
           how == IF child[i].process = "Succeeded" THEN "Success" ELSE "Failure"
<1>1. UNCHANGED <<next, child, records, report>> /\ worker[w].at = "Poll" /\ Holding(w)
  BY DEF Poll, At, Holding
<1>2. \/ ~Exited(i) /\ Moved(w, "Deadline", i, worker[w].status)
      \/ Exited(i) /\ Moved(w, "Join", i, how)
  BY GoMoves, GoWithMoves DEF Poll, MyJob, IInv, Typed, PlaceName
<1>3. i \in Job  BY <1>1 DEF IInv, Ownership, MyJob
<1>4. Stays  BY <1>1, <1>2 DEF Stays, Moved, Holding, At
<1>5. Typed'  BY <1>1, <1>2 DEF IInv, Typed, Moved
<1>6. Ownership' /\ NoneForgotten' /\ EveryJobReports' /\ (\A j \in Job : Lost(j) => Lost(j)')
  BY <1>4, StaysKeeps
<1>7. VerdictJustified'
  BY <1>1, <1>4, <1>5, VerdictKept DEF Lasting, IInv, Typed, ChildState
<1>8. Drained'  BY <1>1, <1>6 DEF IInv, Drained, Exited
<1>9. ~Lost(i)  BY <1>1, OwnerKnown DEF IInv, MyJob
<1>10. Exited(i) => child[i].process \in {"Succeeded", "Crashed"}
  BY <1>1, <1>3, <1>9 DEF IInv, Typed, ChildState, Drained, Knowledge, Knows, Exited, MyJob
<1>11. Knowledge'
  BY <1>1, <1>2, <1>10 DEF IInv, Knowledge, Knows, Moved, At, MyJob, Exited
<1> QED BY <1>5, <1>6, <1>7, <1>8, <1>11 DEF IInv

(* Deadline *)
LEMMA DeadlineStep ==
  ASSUME IInv, NEW w \in Worker, Deadline(w)
  PROVE  IInv'
<1> DEFINE i == worker[w].job
<1>1. UNCHANGED <<next, child, records, report>> /\ worker[w].at = "Deadline"
  BY DEF Deadline, At
<1>2. \/ child[i].late /\ Moved(w, "Kill", i, worker[w].status)
      \/ Moved(w, "Poll", i, worker[w].status)
  BY GoMoves DEF Deadline, MyJob, IInv, Typed, PlaceName
<1>4. Stays  BY <1>1, <1>2 DEF Stays, Moved, Holding, At
<1>5. Typed'  BY <1>1, <1>2 DEF IInv, Typed, Moved
<1>6. Ownership' /\ NoneForgotten' /\ EveryJobReports' /\ (\A j \in Job : Lost(j) => Lost(j)')
  BY <1>4, StaysKeeps
<1>7. VerdictJustified'
  BY <1>1, <1>4, <1>5, VerdictKept DEF Lasting, IInv, Typed, ChildState
<1>8. Drained'  BY <1>1, <1>6 DEF IInv, Drained, Exited
<1>9. Knowledge'
  BY <1>1, <1>2 DEF IInv, Knowledge, Knows, Moved, At, MyJob, Exited
<1> QED BY <1>5, <1>6, <1>7, <1>8, <1>9 DEF IInv

(* Reap: the child is gone and past its limit. *)
LEMMA ReapStep ==
  ASSUME IInv, NEW w \in Worker, Reap(w)
  PROVE  IInv'
<1> DEFINE i == worker[w].job
<1>1. UNCHANGED <<next, child, records, report>> /\ worker[w].at = "Reap" /\ Exited(i)
  BY DEF Reap, At, MyJob
<1>2. Moved(w, "Join", i, "TimedOut")
  BY GoWithMoves DEF Reap, IInv, Typed, PlaceName
<1>4. Stays  BY <1>1, <1>2 DEF Stays, Moved, Holding, At
<1>5. Typed'  BY <1>1, <1>2 DEF IInv, Typed, Moved
<1>6. Ownership' /\ NoneForgotten' /\ EveryJobReports' /\ (\A j \in Job : Lost(j) => Lost(j)')
  BY <1>4, StaysKeeps
<1>7. VerdictJustified'
  BY <1>1, <1>4, <1>5, VerdictKept DEF Lasting, IInv, Typed, ChildState
<1>8. Drained'  BY <1>1, <1>6 DEF IInv, Drained, Exited
<1>9. Knowledge'
  BY <1>1, <1>2 DEF IInv, Knowledge, Knows, Moved, At, MyJob, Exited
<1> QED BY <1>5, <1>6, <1>7, <1>8, <1>9 DEF IInv

(* What the other workers know outlasts a step that moves one worker, which     *)
(* holds a program, and changes that program's process alone.                *)
LEMMA OthersKnow ==
  ASSUME IInv, NEW w \in Worker, Holding(w), \A v \in Worker : v # w => worker'[v] = worker[v],
         \A j \in Job : j # MyJob(w) => child'[j] = child[j]
  PROVE  \A v \in Worker : v # w => Knows(v)'
<1> SUFFICES ASSUME NEW v \in Worker, v # w PROVE Knows(v)'
  OBVIOUS
<1>1. worker'[v] = worker[v] /\ MyJob(v)' = MyJob(v) /\ Knows(v)
  BY DEF MyJob, IInv, Knowledge
<1>2. CASE Holding(v)
  <2>1. MyJob(v) \in Job /\ MyJob(v) # MyJob(w)
    BY <1>2 DEF IInv, Ownership, MyJob
  <2>2. child'[MyJob(v)] = child[MyJob(v)]
    BY ONLY <2>1, \A j \in Job : j # MyJob(w) => child'[j] = child[j]
  <2> QED BY ONLY <1>1, <2>2 DEF Knows, At, Exited
<1>3. CASE ~Holding(v)
  BY ONLY <1>1, <1>3 DEF Knows, At, Holding
<1> QED BY <1>2, <1>3

(* SpawnChild *)
LEMMA SpawnChildStep ==
  ASSUME IInv, NEW w \in Worker, SpawnChild(w)
  PROVE  IInv'
<1> DEFINE i == worker[w].job
<1>1. UNCHANGED <<next, records, report>> /\ worker[w].at = "Spawn" /\ Holding(w)
  BY DEF SpawnChild, At, Holding
<1>2. i \in Job /\ records[i] = "None"  BY <1>1 DEF IInv, Ownership, MyJob
<1>3. Moved(w, "Poll", i, "None")
  BY GoWithMoves DEF SpawnChild, IInv, Typed, PlaceName
<1>4. Changed(i, "Running", child[i].written, child[i].read, "Reading", child[i].late)
  BY <1>2, ProcessChanges DEF SpawnChild, MyJob, IInv, Typed
<1>5. Stays  BY <1>1, <1>3 DEF Stays, Moved, Holding, At
<1>6. Typed'  BY <1>1, <1>3, <1>4 DEF IInv, Typed, Moved, Changed
<1>7. Ownership' /\ NoneForgotten' /\ EveryJobReports' /\ (\A j \in Job : Lost(j) => Lost(j)')
  BY <1>5, StaysKeeps
<1>8. VerdictJustified'
  <2>1. Lasting  BY <1>2, <1>4 DEF Lasting, Changed, IInv, Typed, ChildState
  <2> QED BY <1>5, <1>6, <2>1, VerdictKept
<1>9. Drained'  BY <1>4, <1>7 DEF IInv, Drained, Exited, Changed
<1>10. \A v \in Worker : v # w => Knows(v)'
  BY <1>1, <1>3, <1>4, OthersKnow DEF Moved, Changed, MyJob
<1>11. Knows(w)'
  BY <1>2, <1>3, <1>4 DEF IInv, Knowledge, Knows, Moved, Changed, At, MyJob, Exited
<1>12. Knowledge'
  BY <1>10, <1>11 DEF Knowledge
<1> QED BY <1>6, <1>7, <1>8, <1>9, <1>12 DEF IInv

(* SpawnFails: the worker is lost, with a child that has no reader. *)
LEMMA SpawnFailsStep ==
  ASSUME IInv, NEW w \in Worker, SpawnFails(w)
  PROVE  IInv'
<1> DEFINE i == worker[w].job
<1>1. UNCHANGED <<next, records, report>> /\ worker[w].at = "Spawn" /\ Holding(w)
  BY DEF SpawnFails, At, Holding
<1>2. i \in Job /\ records[i] = "None"  BY <1>1 DEF IInv, Ownership, MyJob
<1>3. Moved(w, "Panicked", i, worker[w].status)
  BY GoMoves DEF SpawnFails, IInv, Typed, PlaceName
<1>4. \/ UNCHANGED child
      \/ Changed(i, "Running", child[i].written, child[i].read, "Ended", child[i].late)
  BY <1>2, ProcessChanges DEF SpawnFails, MyJob, IInv, Typed
<1>5. Stays  BY <1>1, <1>3 DEF Stays, Moved, Holding, At
<1>6. Typed'  BY <1>1, <1>3, <1>4 DEF IInv, Typed, Moved, Changed
<1>7. Ownership' /\ NoneForgotten' /\ EveryJobReports' /\ (\A j \in Job : Lost(j) => Lost(j)')
  BY <1>5, StaysKeeps
<1>8. VerdictJustified'
  <2>1. Lasting  BY <1>2, <1>4 DEF Lasting, Changed, IInv, Typed, ChildState
  <2> QED BY <1>5, <1>6, <2>1, VerdictKept
<1>9. Drained'
  <2>1. CASE UNCHANGED child  BY <1>7, <2>1 DEF IInv, Drained, Exited
  <2>2. CASE Changed(i, "Running", child[i].written, child[i].read, "Ended", child[i].late)
    <3> SUFFICES ASSUME NEW j \in Job
                 PROVE /\ child'[j].process = "Succeeded" => child'[j].written = Output
                       /\ child'[j].process = "BrokenPipe" => Lost(j)'
                       /\ child'[j].reader = "Ended" =>
                            Lost(j)' \/ (Exited(j)' /\ child'[j].read = child'[j].written)
      BY DEF Drained
    <3>1. CASE j = i
      <4>1. Lost(j)'  BY <1>3, <3>1 DEF Lost, Moved, At, MyJob
      <4> QED BY <2>2, <3>1, <4>1 DEF Changed
    <3>2. CASE j # i
      BY <1>7, <2>2, <3>2 DEF IInv, Drained, Exited, Changed
    <3> QED BY <3>1, <3>2
  <2> QED BY <1>4, <2>1, <2>2
<1>10. \A v \in Worker : v # w => Knows(v)'
  BY <1>1, <1>3, <1>4, OthersKnow DEF Moved, Changed, MyJob
<1>11. Knows(w)'
  BY <1>2, <1>3, <1>4 DEF IInv, Knowledge, Knows, Moved, Changed, At, MyJob, Exited
<1>12. Knowledge'
  BY <1>10, <1>11 DEF Knowledge
<1> QED BY <1>6, <1>7, <1>8, <1>9, <1>12 DEF IInv

(* Kill: the child has exited since it was polled, or is killed now. *)
LEMMA KillStep ==
  ASSUME IInv, NEW w \in Worker, Kill(w)
  PROVE  IInv'
<1> DEFINE i == worker[w].job
<1>1. UNCHANGED <<next, records, report>> /\ worker[w].at = "Kill" /\ Holding(w)
  BY DEF Kill, At, Holding
<1>2. i \in Job /\ records[i] = "None"  BY <1>1 DEF IInv, Ownership, MyJob
<1>3. Moved(w, "Reap", i, worker[w].status)
  BY GoMoves DEF Kill, IInv, Typed, PlaceName
<1>4. \/ UNCHANGED child
      \/ /\ ~Exited(i)
         /\ Changed(i, "Killed", child[i].written, child[i].read, child[i].reader, child[i].late)
  <2>1. CASE Exited(i)  BY <2>1 DEF Kill, MyJob
  <2>2. CASE ~Exited(i)
    <3>1. child' = [child EXCEPT ![i].process = "Killed"]  BY <2>2 DEF Kill, MyJob
    <3>2. child \in [Job -> ChildState] /\ child[i].reader \in {"None", "Reading", "Ended"}
      BY <1>2 DEF IInv, Typed, ChildState
    <3> QED BY <1>2, <2>2, <3>1, <3>2, ProcessChanges
  <2> QED BY <2>1, <2>2
<1>5. Stays  BY <1>1, <1>3 DEF Stays, Moved, Holding, At
<1>6. Typed'  BY <1>1, <1>3, <1>4 DEF IInv, Typed, Moved, Changed
<1>7. Ownership' /\ NoneForgotten' /\ EveryJobReports' /\ (\A j \in Job : Lost(j) => Lost(j)')
  BY <1>5, StaysKeeps
<1>8. VerdictJustified'
  <2>1. Lasting  BY <1>2, <1>4 DEF Lasting, Changed, IInv, Typed, ChildState
  <2> QED BY <1>5, <1>6, <2>1, VerdictKept
<1>9. Drained'  BY <1>4, <1>7 DEF IInv, Drained, Exited, Changed
<1>10. \A v \in Worker : v # w => Knows(v)'
  BY <1>1, <1>3, <1>4, OthersKnow DEF Moved, Changed, MyJob
<1>11. Knows(w)'
  BY <1>1, <1>2, <1>3, <1>4 DEF IInv, Knowledge, Knows, Moved, Changed, At, MyJob, Exited
<1>12. Knowledge'
  BY <1>10, <1>11 DEF Knowledge
<1> QED BY <1>6, <1>7, <1>8, <1>9, <1>12 DEF IInv

(* Take: job next + 1 had no owner and no record. *)
LEMMA TakeStep ==
  ASSUME IInv, NEW w \in Worker, Take(w)
  PROVE  IInv'
<1>1. UNCHANGED <<child, records, report>> /\ worker[w].at = "Take" /\ next' = next + 1 /\ next \in Nat
  BY DEF Take, Hand, At, IInv, Typed
<1>2. \/ next' \in Job /\ Moved(w, "Spawn", next', worker[w].status)
      \/ next' \notin Job /\ Moved(w, "Left", 0, worker[w].status)
  BY TakeMoves DEF IInv
<1>3. Typed'  BY <1>1, <1>2 DEF IInv, Typed, Moved
<1>4. Ownership'
  BY <1>1, <1>2 DEF IInv, Ownership, Moved, Holding, MyJob, Job
<1>5. NoneForgotten'
  <2>1. ASSUME NEW j \in Job, j <= next', records[j] = "None"
        PROVE  \E v \in Worker : Holding(v)' /\ MyJob(v)' = j
    <3>1. CASE j = next'
      BY <1>2, <2>1, <3>1 DEF Moved, Holding, MyJob
    <3>2. CASE j # next'
      <4>1. j <= next  BY <1>1, <2>1, <3>2 DEF Job
      <4>2. PICK v \in Worker : Holding(v) /\ MyJob(v) = j
        BY <2>1, <4>1 DEF IInv, NoneForgotten
      <4>3. v # w  BY <1>1, <4>2 DEF Holding
      <4> QED BY <1>2, <4>2, <4>3 DEF Moved, Holding, MyJob
    <3> QED BY <3>1, <3>2
  <2>2. ASSUME NEW v \in Worker, At(v, "Left")'
        PROVE  next' > Jobs
    BY <1>1, <1>2, <2>2, SweepAssumption DEF IInv, NoneForgotten, Moved, At, Job
  <2> QED BY <1>1, <2>1, <2>2 DEF NoneForgotten
<1>6. \A j \in Job : Lost(j) => Lost(j)'
  BY <1>1, <1>2 DEF Lost, Moved, At, MyJob
<1>7. Drained'  BY <1>1, <1>6 DEF IInv, Drained, Exited
<1>8. Knowledge'  BY <1>1, <1>2 DEF IInv, Knowledge, Knows, Moved, At, MyJob, Exited
<1>9. VerdictJustified' /\ EveryJobReports'
  BY <1>1 DEF IInv, VerdictJustified, EveryJobReports, Exited
<1> QED BY <1>3, <1>4, <1>5, <1>7, <1>8, <1>9 DEF IInv

(* Join: the reader has drained the pipe, so a success has its record. *)
LEMMA JoinStep ==
  ASSUME IInv, NEW w \in Worker, Join(w)
  PROVE  IInv'
<1> DEFINE i == worker[w].job
<1>1. /\ UNCHANGED <<next, child, report>> /\ worker[w].at = "Join" /\ Holding(w)
      /\ records' = [records EXCEPT ![i] = Verdict(w)]
      /\ child[i].reader = "Ended"
  BY DEF Join, At, Holding, MyJob
<1>2. i \in Job /\ i <= next /\ records[i] = "None"  BY <1>1 DEF IInv, Ownership, MyJob
<1>3. Moved(w, "Take", i, worker[w].status)
  BY GoMoves DEF Join, IInv, Typed, PlaceName
<1>4. /\ Verdict(w) = "Examined" => child[i].process = "Succeeded" /\ child[i].read >= Line
      /\ Verdict(w) = "Timeout" => child[i].late /\ Exited(i)
      /\ Verdict(w) = "Crash" => child[i].process = "Crashed"
      /\ Verdict(w) \in {"Examined", "Timeout", "Crash"}
  <2>1. ~Lost(i)  BY <1>1, OwnerKnown DEF IInv, MyJob
  <2>2. child[i].read = child[i].written /\ (child[i].process = "Succeeded" => child[i].written = Output)
    BY <1>1, <1>2, <2>1 DEF IInv, Drained
  <2>3. /\ Exited(i) /\ worker[w].status \in {"Success", "Failure", "TimedOut"}
        /\ worker[w].status = "Success"  => child[i].process = "Succeeded"
        /\ worker[w].status = "Failure"  => child[i].process = "Crashed"
        /\ worker[w].status = "TimedOut" => child[i].late
    BY <1>1 DEF IInv, Typed, WorkerState, Knowledge, Knows, At, MyJob
  <2> QED BY <2>2, <2>3 DEF Verdict, Line, Output, MyJob
<1> HIDE DEF i
<1>5. Typed'  BY <1>1, <1>2, <1>3, <1>4 DEF IInv, Typed, Moved
<1>6. records'[i] = Verdict(w) /\ \A j \in Job : j # i => records'[j] = records[j]
  BY <1>1, <1>2 DEF IInv, Typed
<1>7. \A v \in Worker : v # w /\ Holding(v) => MyJob(v) # i /\ MyJob(v) \in Job
  BY <1>1 DEF IInv, Ownership, MyJob, i
<1>8. Ownership'
  BY <1>1, <1>2, <1>3, <1>6, <1>7 DEF IInv, Typed, Ownership, Moved, Holding, MyJob, Job
<1>9. NoneForgotten'
  <2>1. ASSUME NEW j \in Job, j <= next, records'[j] = "None"
        PROVE  \E v \in Worker : Holding(v)' /\ MyJob(v)' = j
    <3>1. j # i /\ records[j] = "None"  BY <1>4, <1>6, <2>1
    <3>2. PICK v \in Worker : Holding(v) /\ MyJob(v) = j
      BY <2>1, <3>1 DEF IInv, NoneForgotten
    <3>3. v # w  BY <3>1, <3>2 DEF MyJob, i
    <3> QED BY <1>3, <3>2, <3>3 DEF Moved, Holding, MyJob
  <2> QED BY <1>1, <1>3, <2>1 DEF IInv, NoneForgotten, Moved, At
<1>10. \A j \in Job : Lost(j) => Lost(j)'
  BY <1>1, <1>3 DEF Lost, Moved, At, MyJob
<1>11. Drained'  BY <1>1, <1>10 DEF IInv, Drained, Exited
<1>12. Knowledge'  BY <1>1, <1>3 DEF IInv, Knowledge, Knows, Moved, At, MyJob, Exited
<1>13. VerdictJustified'
  BY <1>1, <1>2, <1>4, <1>6 DEF IInv, VerdictJustified, Exited
<1>14. EveryJobReports'  BY <1>1 DEF IInv, EveryJobReports
<1> QED BY <1>5, <1>8, <1>9, <1>11, <1>12, <1>13, <1>14 DEF IInv

-----------------------------------------------------------------------------
(* Steps of children, readers and clocks: no worker moves. *)
LEMMA ChildStep ==
  ASSUME IInv, UNCHANGED <<next, worker, records, report>>,
         child' \in [Job -> ChildState], Lasting, Drained',
         \A j \in Job : /\ Exited(j) => child'[j].process = child[j].process
                        /\ child'[j].process = "Killed" => child[j].process = "Killed"
                        /\ child[j].late => child'[j].late
  PROVE  IInv'
<1>1. Stays  BY DEF Stays, Holding, At
<1>2. Typed'  BY DEF IInv, Typed
<1>3. Ownership' /\ NoneForgotten' /\ EveryJobReports'  BY <1>1, StaysKeeps
<1>4. VerdictJustified'  BY <1>1, <1>2, VerdictKept
<1>5. Knowledge'
  BY DEF IInv, Ownership, Knowledge, Knows, At, MyJob, Exited, Holding
<1> QED BY <1>2, <1>3, <1>4, <1>5 DEF IInv

(* Lost speaks of workers only. *)
LEMMA LostKept ==
  ASSUME UNCHANGED worker
  PROVE  \A j \in Job : Lost(j)' <=> Lost(j)
BY DEF Lost, At, MyJob

(* Write: only a child that has lost its worker finds its pipe closed. *)
LEMMA WriteStep ==
  ASSUME IInv, NEW j \in Job, Write(j)
  PROVE  IInv'
<1>1. UNCHANGED <<next, worker, records, report>> /\ child[j].process = "Running" /\ ~Exited(j)
  BY DEF Write, Exited
<1>2. \/ /\ child[j].reader = "Ended"
         /\ Changed(j, "BrokenPipe", child[j].written, child[j].read, child[j].reader, child[j].late)
      \/ /\ child[j].reader = "Reading"
         /\ Changed(j, "Running", child[j].written + 1, child[j].read, child[j].reader, child[j].late)
  BY WriteChanges DEF IInv
<1>3. child[j].reader = "Ended" => Lost(j)  BY <1>1 DEF IInv, Drained
<1>4. Drained'  BY <1>1, <1>2, <1>3, LostKept DEF IInv, Drained, Changed, Exited
<1>5. Lasting  BY <1>1, <1>2 DEF Lasting, Changed, IInv, Typed, ChildState
<1> QED BY <1>1, <1>2, <1>4, <1>5, ChildStep DEF Changed

(* Exit *)
LEMMA ExitStep ==
  ASSUME IInv, NEW j \in Job, Exit(j)
  PROVE  IInv'
<1>1. UNCHANGED <<next, worker, records, report>> /\ child[j].process = "Running" /\ ~Exited(j)
  BY DEF Exit, Exited
<1>2. \E p \in {"Succeeded", "Crashed"} :
        /\ p = "Succeeded" => child[j].written = Output
        /\ Changed(j, p, child[j].written, child[j].read, child[j].reader, child[j].late)
  <2>1. child[j].reader \in {"None", "Reading", "Ended"} /\ child \in [Job -> ChildState]
    BY DEF IInv, Typed, ChildState
  <2>2. PICK p \in {"Succeeded", "Crashed"} :
          /\ p = "Succeeded" => child[j].written = Output
          /\ child' = [child EXCEPT ![j].process = p]
    BY DEF Exit
  <2> QED BY <2>1, <2>2, ProcessChanges
<1>3. Drained'
  BY <1>1, <1>2, LostKept DEF IInv, Drained, Changed, Exited
<1>4. Lasting  BY <1>1, <1>2 DEF Lasting, Changed, IInv, Typed, ChildState
<1> QED BY <1>1, <1>2, <1>3, <1>4, ChildStep DEF Changed

(* Elapse *)
LEMMA ElapseStep ==
  ASSUME IInv, NEW j \in Job, Elapse(j)
  PROVE  IInv'
<1>1. UNCHANGED <<next, worker, records, report>>
  BY DEF Elapse
<1>2. Changed(j, child[j].process, child[j].written, child[j].read, child[j].reader, TRUE)
  BY ElapseChanges DEF IInv
<1>3. Drained'
  BY <1>1, <1>2, LostKept DEF IInv, Drained, Changed, Exited
<1>4. Lasting  BY <1>1, <1>2 DEF Lasting, Changed, IInv, Typed, ChildState
<1> QED BY <1>1, <1>2, <1>3, <1>4, ChildStep DEF Changed

(* Read: the reader ends only when the pipe is empty and the child gone. *)
LEMMA ReadStep ==
  ASSUME IInv, NEW j \in Job, Read(j)
  PROVE  IInv'
<1>1. UNCHANGED <<next, worker, records, report>>
  BY DEF Read
<1>2. \/ /\ child[j].reader = "Reading" /\ child[j].read < child[j].written
         /\ Changed(j, child[j].process, child[j].written, child[j].read + 1, "Reading", child[j].late)
      \/ /\ child[j].read = child[j].written /\ Exited(j)
         /\ Changed(j, child[j].process, child[j].written, child[j].read, "Ended", child[j].late)
  BY ReadChanges DEF IInv
<1>3. Drained'
  BY <1>1, <1>2, LostKept DEF IInv, Drained, Changed, Exited
<1>4. Lasting  BY <1>1, <1>2 DEF Lasting, Changed, IInv, Typed, ChildState
<1> QED BY <1>1, <1>2, <1>3, <1>4, ChildStep DEF Changed

-----------------------------------------------------------------------------
(* Report: without a panic nobody holds a job, and all were handed out. *)
LEMMA ReportStep ==
  ASSUME IInv, Report
  PROVE  IInv'
<1>1. UNCHANGED <<next, worker, child, records>>
  BY DEF Report
<1>2. CASE \E w \in Worker : At(w, "Panicked")
  BY <1>1, <1>2 DEF Report, IInv, Typed, Ownership, NoneForgotten, Drained, Knowledge, Knows,
     VerdictJustified, EveryJobReports, Lost, Holding, At, MyJob, Exited
<1>3. CASE ~\E w \in Worker : At(w, "Panicked")
  <2>1. \A w \in Worker : At(w, "Left") /\ ~Holding(w)
    BY <1>3 DEF Report, At, Holding
  <2>2. next > Jobs
    BY <2>1, SweepAssumption DEF IInv, NoneForgotten
  <2>3. \A j \in Job : records[j] # "None"
    BY <2>1, <2>2, SweepAssumption DEF IInv, Typed, NoneForgotten, Job
  <2>4. report' = "Written"
    BY <1>3, <2>3 DEF Report
  <2> QED BY <1>1, <2>4 DEF IInv, Typed, Ownership, NoneForgotten, Drained, Knowledge, Knows,
       VerdictJustified, EveryJobReports, Lost, Holding, At, MyJob, Exited
<1> QED BY <1>2, <1>3

(* The strengthened invariant holds at the start. *)
LEMMA Start ==
  ASSUME Init
  PROVE  IInv
<1> USE SweepAssumption DEF Init, NoChild
<1>1. Typed  BY DEF Typed, WorkerState, ChildState, Job, Output
<1>2. Ownership /\ NoneForgotten  BY DEF Ownership, NoneForgotten, Holding, At, Job
<1>3. Drained  BY DEF Drained
<1>4. Knowledge  BY DEF Knowledge, Knows, At
<1>5. VerdictJustified /\ EveryJobReports  BY DEF VerdictJustified, EveryJobReports
<1> QED BY <1>1, <1>2, <1>3, <1>4, <1>5 DEF IInv

(* Every step keeps it. *)
LEMMA Step ==
  ASSUME IInv, [Next]_vars
  PROVE  IInv'
<1>1. ASSUME NEW w \in Worker, Work(w) PROVE IInv'
  BY <1>1, TakeStep, SpawnChildStep, SpawnFailsStep, PollStep, DeadlineStep, KillStep, ReapStep,
     JoinStep DEF Work
<1>2. ASSUME NEW j \in Job, Write(j) \/ Exit(j) \/ Elapse(j) \/ Read(j) PROVE IInv'
  BY <1>2, WriteStep, ExitStep, ElapseStep, ReadStep
<1>3. CASE Report  BY <1>3, ReportStep
<1>4. CASE UNCHANGED vars
  BY <1>4 DEF vars, IInv, Typed, Ownership, NoneForgotten, Drained, Knowledge, Knows,
     VerdictJustified, EveryJobReports, Lost, Holding, At, MyJob, Exited
<1> QED BY <1>1, <1>2, <1>3, <1>4 DEF Next

-----------------------------------------------------------------------------
(* The counter.  Each worker that left took one number past the end, and   *)
(* took nothing afterwards.                                                *)
Gone == {w \in Worker : At(w, "Left")}

Counted == next <= Jobs + Cardinality(Gone)

\* Any set of workers is finite, and no larger than all of them.
LEMMA WorkersCount ==
  ASSUME NEW S \in SUBSET Worker, NEW R \in SUBSET S
  PROVE  /\ IsFiniteSet(S) /\ Cardinality(S) \in Nat /\ Cardinality(R) \in Nat
         /\ Cardinality(R) <= Cardinality(S) /\ Cardinality(S) <= Cardinality(Worker)
         /\ Cardinality(Worker) \in Nat
<1>1. IsFiniteSet(S) /\ Cardinality(S) <= Cardinality(Worker)
  BY SweepAssumption, FS_Subset
<1>2. IsFiniteSet(R) /\ Cardinality(R) <= Cardinality(S)
  BY <1>1, FS_Subset
<1> QED BY <1>1, <1>2, SweepAssumption, FS_CardinalityType

\* A step that takes no job leaves the counter, and nobody returns.
LEMMA CounterStays ==
  ASSUME IInv, Counted, next' = next, Gone \subseteq Gone'
  PROVE  Counted'
<1>1. Gone' \in SUBSET Worker  BY DEF Gone
<1>2. Cardinality(Gone) \in Nat /\ Cardinality(Gone') \in Nat
      /\ Cardinality(Gone) <= Cardinality(Gone')
  BY <1>1, WorkersCount
<1> QED BY <1>2, SweepAssumption DEF Counted, IInv, Typed

\* Take hands out a number of the list, or one more worker leaves.
LEMMA TakeCounts ==
  ASSUME IInv, Counted, NEW w \in Worker, Take(w)
  PROVE  Counted'
<1>1. next \in Nat /\ next' = next + 1 /\ w \notin Gone
  BY DEF IInv, Typed, Take, Hand, At, Gone
<1>2. Gone \in SUBSET Worker /\ Gone' \in SUBSET Worker  BY DEF Gone
<1>3. IsFiniteSet(Gone) /\ Cardinality(Gone) \in Nat /\ Cardinality(Gone') \in Nat
  BY <1>2, WorkersCount
<1>4. CASE next' \in Job
  BY <1>3, <1>4, SweepAssumption DEF Counted, Job
<1>5. CASE Moved(w, "Left", 0, worker[w].status)
  <2>1. Gone' = Gone \cup {w}  BY <1>5 DEF Gone, At, Moved
  <2>2. Cardinality(Gone') = Cardinality(Gone) + 1
    BY <1>1, <1>3, <2>1, FS_AddElement
  <2> QED BY <1>1, <1>3, <2>2, SweepAssumption DEF Counted
<1> QED BY <1>4, <1>5, TakeMoves DEF IInv

LEMMA CountedStep ==
  ASSUME IInv, Counted, [Next]_vars
  PROVE  Counted'
<1>1. ASSUME NEW w \in Worker, Work(w), ~Take(w) PROVE Counted'
  <2>1. next' = next /\ worker[w].at # "Left"
    BY <1>1 DEF Work, SpawnChild, SpawnFails, Poll, Deadline, Kill, Reap, Join, At
  <2>2. \A v \in Worker : v # w => worker'[v] = worker[v]
    BY <1>1 DEF Work, SpawnChild, SpawnFails, Poll, Deadline, Kill, Reap, Join, Go, GoWith,
                IInv, Typed
  <2>3. Gone \subseteq Gone'  BY <2>1, <2>2 DEF Gone, At
  <2> QED BY <2>1, <2>3, CounterStays
<1>2. CASE UNCHANGED <<next, worker>>
  BY <1>2, CounterStays DEF Gone, At
<1>3. ASSUME NEW j \in Job, Write(j) \/ Exit(j) \/ Elapse(j) \/ Read(j)
      PROVE  UNCHANGED <<next, worker>>
  BY <1>3 DEF Write, Exit, Elapse, Read
<1>4. Report \/ UNCHANGED vars => UNCHANGED <<next, worker>>
  BY DEF Report, vars
<1> QED BY <1>1, <1>2, <1>3, <1>4, TakeCounts DEF Next

(* Types, for any number of workers and jobs: a worker never holds a job   *)
(* past the end of the list, although the counter runs past it, by one for *)
(* each worker at most.                                                    *)
THEOREM SweepTypes == Spec => []TypeOK
<1>1. IInv /\ Counted => TypeOK
  <2> SUFFICES ASSUME IInv, Counted PROVE TypeOK  OBVIOUS
  <2>1. Gone \in SUBSET Worker  BY DEF Gone
  <2>2. Cardinality(Gone) \in Nat /\ Cardinality(Gone) <= Cardinality(Worker)
        /\ Cardinality(Worker) \in Nat
    BY <2>1, WorkersCount
  <2>3. next \in Nat /\ next <= Jobs + Cardinality(Worker)
    BY <2>2, SweepAssumption DEF Counted, IInv, Typed
  <2> QED BY <2>3 DEF IInv, Typed, TypeOK
<1>2. Init => Counted
  <2> SUFFICES ASSUME Init PROVE Counted  OBVIOUS
  <2>1. Gone \in SUBSET Worker  BY DEF Gone
  <2>2. Cardinality(Gone) \in Nat  BY <2>1, WorkersCount
  <2> QED BY <2>2, SweepAssumption DEF Init, Counted
<1> QED BY <1>1, <1>2, Start, Step, CountedStep, PTL DEF Spec

(* For any number of workers and programs, and whatever the children do,   *)
(* each verdict is justified by the job's own child.                       *)
THEOREM Verdicts == Spec => []VerdictJustified
<1>1. IInv => VerdictJustified  BY DEF IInv
<1> QED BY <1>1, Start, Step, PTL DEF Spec

(* With at least one worker, a sweep in which none panics has a record of  *)
(* every program when its workers are done.                                *)
THEOREM Reports == Spec => []EveryJobReports
<1>1. IInv => EveryJobReports  BY DEF IInv
<1> QED BY <1>1, Start, Step, PTL DEF Spec

-----------------------------------------------------------------------------
(* The sweep keeps its promise.  The refinement needs two facts that the   *)
(* verdicts do not: a program whose process is about to be spawned has     *)
(* none yet, and no worker is at work once the sweep has reported.         *)
Orderly ==
  /\ \A j \in Job : j > next => child[j].process = "None"
  /\ \A w \in Worker : At(w, "Spawn") => child[MyJob(w)].process = "None"
  /\ report # "None" => \A w \in Worker : At(w, "Left") \/ At(w, "Panicked")

(* A step of a worker that holds a job and leaves the others' alone.       *)
LEMMA HolderKeepsOrder ==
  ASSUME IInv, Orderly, NEW w \in Worker, Holding(w), UNCHANGED <<next, report>>,
         \A v \in Worker : v # w => worker'[v] = worker[v],
         worker[w].at # "Panicked", worker'[w].at # "Spawn",
         \A j \in Job : j # MyJob(w) => child'[j] = child[j]
  PROVE  Orderly'
<1>1. MyJob(w) \in Job /\ MyJob(w) <= next /\ next \in Nat
  BY DEF IInv, Ownership, Typed
<1>2. report = "None"
  BY DEF Orderly, Holding, At
<1>3. ASSUME NEW j \in Job, j > next PROVE child'[j].process = "None"
  <2>1. j # MyJob(w)
    BY ONLY <1>1, <1>3, j \in Job DEF Job
  <2> QED BY <1>3, <2>1 DEF Orderly
<1>4. ASSUME NEW v \in Worker, worker'[v].at = "Spawn"
      PROVE  child'[worker'[v].job].process = "None"
  <2>1. v # w /\ worker'[v] = worker[v] /\ worker[v].at = "Spawn"
    BY <1>4
  <2>2. MyJob(v) \in Job /\ MyJob(v) # MyJob(w)
    BY <2>1 DEF IInv, Ownership, Holding
  <2>3. child[MyJob(v)].process = "None"
    BY <2>1 DEF Orderly, At
  <2> QED BY <2>1, <2>2, <2>3 DEF MyJob
<1> QED BY <1>2, <1>3, <1>4 DEF Orderly, At, MyJob

(* Take: the next job has no process.                                      *)
LEMMA TakeKeepsOrder ==
  ASSUME IInv, Orderly, NEW w \in Worker, Take(w)
  PROVE  Orderly'
<1>1. UNCHANGED <<child, report>> /\ worker[w].at = "Take" /\ next' = next + 1 /\ next \in Nat
  BY DEF Take, Hand, At, IInv, Typed
<1>2. \/ next' \in Job /\ Moved(w, "Spawn", next', worker[w].status)
      \/ next' \notin Job /\ Moved(w, "Left", 0, worker[w].status)
  BY TakeMoves DEF IInv
<1>3. \A j \in Job : j > next' => child[j].process = "None"
  BY <1>1 DEF Orderly, Job
<1>4. ASSUME NEW v \in Worker, worker'[v].at = "Spawn"
      PROVE  child[worker'[v].job].process = "None"
  <2>1. CASE v = w
    <3>1. worker'[v].job = next' /\ next' \in Job
      BY <1>2, <1>4, <2>1 DEF Moved
    <3> QED BY <1>1, <3>1 DEF Orderly
  <2>2. CASE v # w
    BY <1>2, <1>4, <2>2 DEF Orderly, Moved, At, MyJob
  <2> QED BY <2>1, <2>2
<1>5. report = "None"
  BY <1>1 DEF Orderly, At
<1> QED BY <1>1, <1>3, <1>4, <1>5 DEF Orderly, At, MyJob

(* A step of a child, its reader or its clock starts no process.           *)
LEMMA ChildKeepsOrder ==
  ASSUME IInv, Orderly, UNCHANGED <<next, worker, report>>,
         \A j \in Job : child[j].process = "None" => child'[j].process = "None"
  PROVE  Orderly'
<1>1. \A w \in Worker : At(w, "Spawn") => MyJob(w) \in Job
  BY DEF IInv, Ownership, Holding, At
<1> QED BY <1>1 DEF Orderly, At, MyJob

-----------------------------------------------------------------------------
(* What a step shows of how the programs' runs ended.                      *)
\* It shows nothing: a process that had not exited has not, and one that
\* had is as it was.
Unseen == /\ \A j \in Job : /\ Exited(j)' <=> Exited(j)
                            /\ Exited(j) => child'[j].process = child[j].process
                            /\ child'[j].late = child[j].late
          /\ UNCHANGED <<records, report>>

(* Then the promise stutters.                                              *)
LEMMA UnseenStutters ==
  ASSUME Unseen
  PROVE  UNCHANGED Promise!vars
<1>1. ended' = ended
  BY DEF Unseen, ended
<1>2. late' = late
  BY DEF Unseen, late
<1> QED BY <1>1, <1>2 DEF Unseen, Promise!vars

(* The process of one program exits.                                       *)
LEMMA ExitEnds ==
  ASSUME NEW j \in Job, ~Exited(j), NEW p \in {"Succeeded", "Crashed", "BrokenPipe", "Killed"},
         Changed(j, p, child'[j].written, child'[j].read, child'[j].reader, child[j].late),
         p = "Killed" => child[j].late, UNCHANGED <<records, report>>
  PROVE  Promise!Next
<1>1. j \in Promise!Job
  BY DEF Promise!Job, Job
<1>2. ended' = [ended EXCEPT ![j] = p] /\ ended[j] = "None"
  <2>1. \A i \in Job : i # j => (Exited(i)' <=> Exited(i)) /\ child'[i] = child[i]
    BY DEF Changed, Exited
  <2>2. Exited(j)' /\ child'[j].process = p
    BY DEF Changed, Exited
  <2> QED BY <2>1, <2>2 DEF ended
<1>3. late' = late
  BY DEF Changed, late
<1>4. p = "Killed" => j \in late
  BY DEF late
<1>5. Promise!End(j)
  BY <1>2, <1>3, <1>4 DEF Promise!End
<1> QED BY <1>1, <1>5 DEF Promise!Next

(* A worker's step between taking a job and storing its record.            *)
LEMMA HolderPromise ==
  ASSUME IInv, Orderly, NEW w \in Worker,
         SpawnChild(w) \/ SpawnFails(w) \/ Poll(w) \/ Deadline(w) \/ Kill(w) \/ Reap(w)
  PROVE  Orderly' /\ [Promise!Next]_Promise!vars
<1> DEFINE i == worker[w].job
<1>1. /\ UNCHANGED <<next, records, report>> /\ worker \in [Worker -> WorkerState]
      /\ worker[w].at \in {"Spawn", "Poll", "Deadline", "Kill", "Reap"} /\ Holding(w)
  BY DEF SpawnChild, SpawnFails, Poll, Deadline, Kill, Reap, At, Holding, IInv, Typed
<1>2. i \in Job
  BY <1>1 DEF IInv, Ownership, MyJob
<1>3. /\ \A v \in Worker : v # w => worker'[v] = worker[v]
      /\ worker'[w].at # "Spawn"
  <2>1. PICK place \in PlaceName \ {"Spawn"}, s \in {"None", "Success", "Failure", "TimedOut"} :
          Go(w, place) \/ GoWith(w, place, s)
    BY DEF SpawnChild, SpawnFails, Poll, Deadline, Kill, Reap, PlaceName
  <2>2. CASE Go(w, place)
    BY <1>1, <2>2, GoMoves DEF Moved
  <2>3. CASE GoWith(w, place, s)
    BY <1>1, <2>3, GoWithMoves DEF Moved
  <2> QED BY <2>1, <2>2, <2>3
<1>4. \/ UNCHANGED child
      \/ /\ worker[w].at = "Spawn"
         /\ \E state \in {"Reading", "Ended"} :
              Changed(i, "Running", child[i].written, child[i].read, state, child[i].late)
      \/ /\ worker[w].at = "Kill" /\ ~Exited(i)
         /\ Changed(i, "Killed", child[i].written, child[i].read, child[i].reader, child[i].late)
  <2>1. child \in [Job -> ChildState] /\ child[i].reader \in {"None", "Reading", "Ended"}
    BY <1>2 DEF IInv, Typed, ChildState
  <2>2. CASE SpawnChild(w)
    <3>1. child' = [child EXCEPT ![i].process = "Running", ![i].reader = "Reading"]
      BY <2>2 DEF SpawnChild, MyJob
    <3>2. worker[w].at = "Spawn"
      BY <2>2 DEF SpawnChild, At
    <3> QED BY <1>2, <2>1, <3>1, <3>2, ProcessChanges, Zenon
  <2>3. CASE SpawnFails(w)
    <3>1. \/ UNCHANGED child
          \/ child' = [child EXCEPT ![i].process = "Running", ![i].reader = "Ended"]
      BY <2>3 DEF SpawnFails, MyJob
    <3>2. \/ UNCHANGED child
          \/ Changed(i, "Running", child[i].written, child[i].read, "Ended", child[i].late)
      BY <1>2, <2>1, <3>1, ProcessChanges
    <3>3. worker[w].at = "Spawn"
      BY <2>3 DEF SpawnFails, At
    <3> QED BY <3>2, <3>3
  <2>4. CASE Kill(w) /\ ~Exited(i)
    <3>1. child' = [child EXCEPT ![i].process = "Killed"]
      BY <2>4 DEF Kill, MyJob
    <3>2. worker[w].at = "Kill"
      BY <2>4 DEF Kill, At
    <3> QED BY <1>2, <2>1, <2>4, <3>1, <3>2, ProcessChanges, Zenon
  <2>5. CASE Kill(w) /\ Exited(i)
    BY <2>5 DEF Kill, MyJob
  <2>6. CASE Poll(w) \/ Deadline(w) \/ Reap(w)
    BY <2>6 DEF Poll, Deadline, Reap
  <2> QED BY <2>2, <2>3, <2>4, <2>5, <2>6
<1>5. Orderly'
  <2>1. \A j \in Job : j # i => child'[j] = child[j]
    BY <1>4 DEF Changed
  <2> QED BY <1>1, <1>3, <2>1, HolderKeepsOrder DEF MyJob
<1>6. CASE UNCHANGED child
  <2>1. Unseen
    BY <1>1, <1>6 DEF Unseen, Exited
  <2> QED BY <1>5, <2>1, UnseenStutters
<1>7. ASSUME NEW state \in {"Reading", "Ended"}, worker[w].at = "Spawn",
             Changed(i, "Running", child[i].written, child[i].read, state, child[i].late)
      PROVE  UNCHANGED Promise!vars
  <2>1. child[i].process = "None"
    BY <1>7 DEF Orderly, At, MyJob
  <2>2. Unseen
    BY <1>1, <1>7, <2>1 DEF Unseen, Changed, Exited
  <2> QED BY <2>2, UnseenStutters
<1>8. ASSUME worker[w].at = "Kill", ~Exited(i),
             Changed(i, "Killed", child[i].written, child[i].read, child[i].reader, child[i].late)
      PROVE  Promise!Next
  <2>1. child[i].late
    BY <1>8 DEF IInv, Knowledge, Knows, MyJob
  <2>2. Changed(i, "Killed", child'[i].written, child'[i].read, child'[i].reader, child[i].late)
    BY <1>8 DEF Changed
  <2> HIDE DEF i
  <2> QED BY ONLY <1>1, <1>2, <1>8, <2>1, <2>2, ExitEnds
<1> QED BY <1>4, <1>5, <1>6, <1>7, <1>8

(* Take hands out a job; the promise does not see it.                      *)
LEMMA TakePromise ==
  ASSUME IInv, Orderly, NEW w \in Worker, Take(w)
  PROVE  Orderly' /\ [Promise!Next]_Promise!vars
<1>1. Unseen
  BY DEF Unseen, Take, Hand, Exited
<1> QED BY <1>1, TakeKeepsOrder, UnseenStutters

(* Join stores the only record of the job, before the sweep reports.       *)
LEMMA JoinPromise ==
  ASSUME IInv, IInv', Orderly, NEW w \in Worker, Join(w)
  PROVE  Orderly' /\ [Promise!Next]_Promise!vars
<1> DEFINE i == MyJob(w)
<1>1. /\ UNCHANGED <<next, child, report>> /\ worker[w].at = "Join" /\ Holding(w)
      /\ records' = [records EXCEPT ![i] = Verdict(w)]
  BY DEF Join, At, Holding
<1>2. i \in Job /\ records[i] = "None" /\ ~Lost(i)
  BY <1>1, OwnerKnown DEF IInv, Ownership
<1>3. Orderly'
  <2>1. Moved(w, "Take", worker[w].job, worker[w].status)
    BY GoMoves DEF Join, IInv, Typed, PlaceName
  <2> QED BY <1>1, <2>1, HolderKeepsOrder DEF Moved
<1>4. report = "None"
  BY <1>1 DEF Orderly, At
<1>5. records'[i] = Verdict(w) /\ Verdict(w) \in {"Examined", "Timeout", "Crash"}
  BY <1>1, <1>2 DEF IInv, Typed, Verdict
<1>6. /\ Exited(i)
      /\ Verdict(w) = "Examined" => child[i].process = "Succeeded"
      /\ Verdict(w) = "Timeout"  => child[i].late
      /\ Verdict(w) = "Crash"    => child[i].process = "Crashed"
      /\ child[i].process \in {"Succeeded", "Crashed", "BrokenPipe", "Killed"}
      /\ child[i].process # "BrokenPipe"
  <2>1. /\ records'[i] = "Examined" => child'[i].process = "Succeeded"
        /\ records'[i] = "Timeout"  => child'[i].late
        /\ records'[i] = "Crash"    => child'[i].process = "Crashed"
    BY <1>2 DEF IInv, VerdictJustified
  <2>2. Exited(i)
    BY <1>1 DEF IInv, Knowledge, Knows, At
  <2>3. child[i] \in ChildState /\ child[i].process # "BrokenPipe"
    BY <1>2 DEF IInv, Typed, Drained
  <2> QED BY <1>1, <1>5, <2>1, <2>2, <2>3 DEF Exited, ChildState
<1>7. Promise!Fits(i, Verdict(w))
  <2>1. ended[i] = child[i].process /\ (child[i].late => i \in late)
    BY <1>2, <1>6 DEF ended, late
  <2> QED BY ONLY <1>5, <1>6, <2>1 DEF Promise!Fits
<1>8. UNCHANGED <<ended, late>>
  BY <1>1 DEF ended, late, Exited
<1>9. Promise!Record(i)
  BY <1>1, <1>2, <1>4, <1>5, <1>7, <1>8 DEF Promise!Record
<1> QED BY <1>2, <1>3, <1>9 DEF Promise!Next, Promise!Job, Job

(* Steps of children, readers and clocks.                                  *)
LEMMA ChildPromise ==
  ASSUME IInv, Orderly, NEW j \in Job, Write(j) \/ Exit(j) \/ Elapse(j) \/ Read(j)
  PROVE  Orderly' /\ [Promise!Next]_Promise!vars
<1>1. UNCHANGED <<next, worker, records, report>>
  BY DEF Write, Exit, Elapse, Read
<1>2. CASE Write(j)
  <2>1. child[j].process = "Running" /\ ~Exited(j)
    BY <1>2 DEF Write, Exited
  <2>2. \/ Changed(j, "BrokenPipe", child[j].written, child[j].read, child[j].reader, child[j].late)
        \/ Changed(j, "Running", child[j].written + 1, child[j].read, child[j].reader, child[j].late)
    BY <1>2, WriteChanges DEF IInv
  <2>3. Orderly'
    BY <1>1, <2>1, <2>2, ChildKeepsOrder DEF Changed
  <2>4. CASE Changed(j, "BrokenPipe", child[j].written, child[j].read, child[j].reader, child[j].late)
    <3>1. Changed(j, "BrokenPipe", child'[j].written, child'[j].read, child'[j].reader, child[j].late)
      BY <2>4 DEF Changed
    <3>2. Promise!Next
      BY <1>1, <2>1, <3>1, ExitEnds
    <3> QED BY <2>3, <3>2
  <2>5. CASE Changed(j, "Running", child[j].written + 1, child[j].read, child[j].reader, child[j].late)
    <3>1. Unseen
      BY <1>1, <2>1, <2>5 DEF Unseen, Changed, Exited
    <3> QED BY <2>3, <3>1, UnseenStutters
  <2> QED BY <2>2, <2>4, <2>5
<1>3. CASE Exit(j)
  <2>1. child[j].process = "Running" /\ ~Exited(j)
    BY <1>3 DEF Exit, Exited
  <2>2. PICK p \in {"Succeeded", "Crashed"} :
          Changed(j, p, child[j].written, child[j].read, child[j].reader, child[j].late)
    <3>1. child[j].reader \in {"None", "Reading", "Ended"} /\ child \in [Job -> ChildState]
      BY DEF IInv, Typed, ChildState
    <3>2. PICK p \in {"Succeeded", "Crashed"} : child' = [child EXCEPT ![j].process = p]
      BY <1>3 DEF Exit
    <3> QED BY <3>1, <3>2, ProcessChanges
  <2>3. Orderly'
    BY <1>1, <2>1, <2>2, ChildKeepsOrder DEF Changed
  <2>4. Changed(j, p, child'[j].written, child'[j].read, child'[j].reader, child[j].late)
    BY <2>2 DEF Changed
  <2>5. Promise!Next
    BY <1>1, <2>1, <2>4, ExitEnds
  <2> QED BY <2>3, <2>5
<1>4. CASE Elapse(j)
  <2>1. Changed(j, child[j].process, child[j].written, child[j].read, child[j].reader, TRUE)
    BY <1>4, ElapseChanges DEF IInv
  <2>2. Orderly'
    BY <1>1, <2>1, ChildKeepsOrder DEF Changed
  <2>3. \A i \in Job : child'[i].process = child[i].process
    BY <2>1 DEF Changed
  <2>4. ended' = ended
    BY <2>3 DEF ended, Exited
  <2>5. j \notin late /\ late' = late \cup {j}
    BY <1>4, <2>1 DEF Elapse, late, Changed
  <2>6. Promise!Pass(j)
    BY <1>1, <2>4, <2>5 DEF Promise!Pass
  <2> QED BY <2>2, <2>6 DEF Promise!Next, Promise!Job, Job
<1>5. CASE Read(j)
  <2>1. \A i \in Job : child'[i].process = child[i].process /\ child'[i].late = child[i].late
    BY <1>5, ReadChanges DEF IInv, Changed
  <2>2. Orderly'
    BY <1>1, <2>1, ChildKeepsOrder
  <2>3. Unseen
    BY <1>1, <2>1 DEF Unseen, Exited
  <2> QED BY <2>2, <2>3, UnseenStutters
<1> QED BY <1>2, <1>3, <1>4, <1>5

(* Report: a worker that panicked holds a job without a record.            *)
LEMMA ReportPromise ==
  ASSUME IInv, IInv', Orderly, Report
  PROVE  Orderly' /\ [Promise!Next]_Promise!vars
<1>1. /\ UNCHANGED <<next, worker, child, records>> /\ report = "None"
      /\ \A w \in Worker : At(w, "Left") \/ At(w, "Panicked")
      /\ report' = IF \E w \in Worker : At(w, "Panicked") THEN "Panicked"
                   ELSE IF \E j \in Job : records[j] = "None" THEN "Unreported"
                   ELSE "Written"
  BY DEF Report
<1>2. Orderly'
  BY <1>1 DEF Orderly, At, MyJob
<1>3. report' # "Unreported"
  BY DEF IInv, EveryJobReports
<1>4. (\E w \in Worker : At(w, "Panicked")) => \E j \in Job : records[j] = "None"
  BY DEF IInv, Ownership, Holding, At
<1>5. report' = IF \E j \in Job : records[j] = "None" THEN "Panicked" ELSE "Written"
  BY <1>1, <1>3, <1>4
<1>6. UNCHANGED <<ended, late>>
  BY <1>1 DEF ended, late, Exited
<1>7. Promise!Finish
  BY <1>1, <1>5, <1>6 DEF Promise!Finish, Promise!Job, Job
<1> QED BY <1>2, <1>7 DEF Promise!Next

(* Every step is a step of the promise or a stutter.                       *)
LEMMA PromiseStep ==
  ASSUME IInv, IInv', Orderly, [Next]_vars
  PROVE  Orderly' /\ [Promise!Next]_Promise!vars
<1>1. ASSUME NEW w \in Worker, Work(w) PROVE Orderly' /\ [Promise!Next]_Promise!vars
  BY <1>1, TakePromise, HolderPromise, JoinPromise DEF Work
<1>2. ASSUME NEW j \in Job, Write(j) \/ Exit(j) \/ Elapse(j) \/ Read(j)
      PROVE  Orderly' /\ [Promise!Next]_Promise!vars
  BY <1>2, ChildPromise
<1>3. CASE Report
  BY <1>3, ReportPromise
<1>4. CASE UNCHANGED vars
  <2>1. Unseen
    BY <1>4 DEF vars, Unseen, Exited
  <2>2. Orderly'
    BY <1>4 DEF vars, Orderly, At, MyJob
  <2> QED BY <2>1, <2>2, UnseenStutters
<1> QED BY <1>1, <1>2, <1>3, <1>4 DEF Next

(* Nothing has ended at the start.                                         *)
LEMMA PromiseStart ==
  ASSUME Init
  PROVE  Orderly /\ Promise!Init
<1>1. \A j \in Job : child[j] = NoChild
  BY DEF Init
<1>2. ended = [j \in Promise!Job |-> "None"] /\ late = {}
  BY <1>1 DEF ended, late, Exited, NoChild, Promise!Job, Job
<1> QED BY <1>1, <1>2 DEF Init, Orderly, At, NoChild, Promise!Init, Promise!Job, Job

(* For any number of workers and programs and any pipe size, the workers,  *)
(* children, readers and clocks of the sweep implement its promise: no     *)
(* program is run twice or killed within its limit, a record fits how the  *)
(* run ended, is stored once and stands, none is stored after the report,  *)
(* and a sweep that panics misses a record.                                *)
THEOREM SweepImplements == Spec => ImplementsPromise
<1>1. Init => IInv /\ Orderly /\ Promise!Init
  BY Start, PromiseStart
<1>2. IInv /\ [Next]_vars => IInv'
  BY Step
<1>3. IInv /\ IInv' /\ Orderly /\ [Next]_vars => Orderly' /\ [Promise!Next]_Promise!vars
  BY PromiseStep
<1> QED BY <1>1, <1>2, <1>3, PTL DEF Spec, ImplementsPromise, Promise!Spec
=============================================================================
