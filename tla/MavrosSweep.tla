---------------------------- MODULE MavrosSweep ----------------------------
(***************************************************************************)
(* The Mavros sweep: worker threads take the programs of the corpus from a *)
(* shared counter, run each in a child process with a time limit, and fill *)
(* in one record per program; a reader thread per child drains its output. *)
(*                                                                         *)
(* A child writes the head and the rest of its record's line, then         *)
(* libtest's trailer, through a bounded pipe, and exits.  It may crash     *)
(* (a panic outside the guards, an abort) or hang at any point.            *)
(***************************************************************************)
EXTENDS Integers, FiniteSets

CONSTANTS Worker,      \* the threads, MAVROS_ORACLE_JOBS of them
          Jobs,        \* the number of programs
          PipeSize     \* how much a child may write ahead of the reader

\* The sweep asserts that there are programs; with no workers it would
\* report on none of them.
ASSUME SweepAssumption == /\ Worker # {} /\ IsFiniteSet(Worker)
                          /\ Jobs \in Nat \ {0} /\ PipeSize \in Nat \ {0}

VARIABLES next,        \* jobs handed out so far
          worker,      \* where each thread is, its job, how the job's child ended
          child,       \* of each job: the process, its output, reader and limit
          records,     \* the verdict stored for each job
          report       \* how the sweep ended

vars == <<next, worker, child, records, report>>

Job == 1 .. Jobs

\* Parts of a child's output: the record's line is complete after the second.
Line   == 2
Output == 3

WorkerState ==
  [at     : {"Take", "Spawn", "Poll", "Deadline", "Kill", "Reap", "Join", "Left", "Panicked"},
   job    : 0 .. Jobs,
   status : {"None", "Success", "Failure", "TimedOut"}]

ChildState ==
  [process : {"None", "Running", "Succeeded", "Crashed", "BrokenPipe", "Killed"},
   written : 0 .. Output,
   read    : 0 .. Output,
   reader  : {"None", "Reading", "Ended"},
   late    : BOOLEAN]                        \* past its time limit

\* The counter passes the end of the list by one for each worker at most.
TypeOK == /\ next \in Nat /\ next <= Jobs + Cardinality(Worker)
          /\ worker \in [Worker -> WorkerState]
          /\ child \in [Job -> ChildState]
          /\ records \in [Job -> {"None", "Examined", "Timeout", "Crash"}]
          /\ report \in {"None", "Written", "Unreported", "Panicked"}

NoChild == [process |-> "None", written |-> 0, read |-> 0, reader |-> "None", late |-> FALSE]

Init == /\ next = 0
        /\ worker = [w \in Worker |-> [at |-> "Take", job |-> 0, status |-> "None"]]
        /\ child = [j \in Job |-> NoChild]
        /\ records = [j \in Job |-> "None"]
        /\ report = "None"

-----------------------------------------------------------------------------
(* The child of job j, its reader and its clock.                           *)
Exited(j) == child[j].process \notin {"None", "Running"}

\* Writing to a pipe whose reader is gone makes libtest fail.
Write(j) ==
  /\ child[j].process = "Running" /\ child[j].written < Output
  /\ \/ /\ child[j].reader = "Ended"
        /\ child' = [child EXCEPT ![j].process = "BrokenPipe"]
     \/ /\ child[j].reader = "Reading"
        /\ child[j].written - child[j].read < PipeSize
        /\ child' = [child EXCEPT ![j].written = @ + 1]
  /\ UNCHANGED <<next, worker, records, report>>

Exit(j) ==
  /\ child[j].process = "Running"
  /\ \/ child[j].written = Output /\ child' = [child EXCEPT ![j].process = "Succeeded"]
     \/ child' = [child EXCEPT ![j].process = "Crashed"]
  /\ UNCHANGED <<next, worker, records, report>>

Elapse(j) ==
  /\ child[j].reader # "None" /\ ~child[j].late
  /\ child' = [child EXCEPT ![j].late = TRUE]
  /\ UNCHANGED <<next, worker, records, report>>

\* Slip: the reader stops once it has the record, which closes the pipe.
ReadRecordOnly(j) ==
  /\ child[j].reader = "Reading"
  /\ \/ /\ child[j].read < child[j].written
        /\ child' = [child EXCEPT ![j].read = @ + 1,
                                  ![j].reader = IF child[j].read + 1 = Line THEN "Ended" ELSE @]
     \/ /\ child[j].read = child[j].written /\ Exited(j)
        /\ child' = [child EXCEPT ![j].reader = "Ended"]
  /\ UNCHANGED <<next, worker, records, report>>

\* The pipe is at its end when it is empty and the child is gone.
Read(j) ==
  /\ child[j].reader = "Reading"
  /\ \/ /\ child[j].read < child[j].written
        /\ child' = [child EXCEPT ![j].read = @ + 1]
     \/ /\ child[j].read = child[j].written /\ Exited(j)
        /\ child' = [child EXCEPT ![j].reader = "Ended"]
  /\ UNCHANGED <<next, worker, records, report>>

-----------------------------------------------------------------------------
(* The worker w: the loop of sweep and, for one job, run_job.              *)
At(w, place) == worker[w].at = place
MyJob(w)     == worker[w].job

Go(w, place) == worker' = [worker EXCEPT ![w].at = place]
GoWith(w, place, s) == worker' = [worker EXCEPT ![w].at = place, ![w].status = s]

Hand(w, places) ==
  /\ next' = next + 1
  /\ worker' = [worker EXCEPT ![w].at = IF next' \in places THEN "Spawn" ELSE "Left",
                              ![w].job = IF next' \in places THEN next' ELSE 0]
  /\ UNCHANGED <<child, records, report>>

\* Slips: the last program is not handed out; one past the last is.
TakeShort(w)   == At(w, "Take") /\ Hand(w, 1 .. Jobs - 1)
TakePastEnd(w) == At(w, "Take") /\ Hand(w, 1 .. Jobs + 1)

\* Slip: the counter is loaded and then stored, so a second worker may load
\* it in between and be handed the same program.
TakeUnlocked(w) ==
  /\ At(w, "Take")
  /\ \E n \in {next, next + 1} :
       /\ next' = n
       /\ worker' = [worker EXCEPT ![w].at = IF next + 1 \in Job THEN "Spawn" ELSE "Left",
                                   ![w].job = IF next + 1 \in Job THEN next + 1 ELSE 0]
  /\ UNCHANGED <<child, records, report>>

\* One atomic fetch_add hands out a job.
Take(w) == At(w, "Take") /\ Hand(w, Job)

SpawnChild(w) ==
  /\ At(w, "Spawn")
  /\ GoWith(w, "Poll", "None")
  /\ child' = [child EXCEPT ![MyJob(w)].process = "Running", ![MyJob(w)].reader = "Reading"]
  /\ UNCHANGED <<next, records, report>>

\* The system refuses a process, or the reader's thread when the child
\* already runs: the worker panics, and nobody reads or waits for the child.
SpawnFails(w) ==
  /\ At(w, "Spawn")
  /\ Go(w, "Panicked")
  /\ \/ UNCHANGED child
     \/ child' = [child EXCEPT ![MyJob(w)].process = "Running", ![MyJob(w)].reader = "Ended"]
  /\ UNCHANGED <<next, records, report>>

\* try_wait
Poll(w) ==
  /\ At(w, "Poll")
  /\ IF ~Exited(MyJob(w)) THEN Go(w, "Deadline")
     ELSE GoWith(w, "Join", IF child[MyJob(w)].process = "Succeeded" THEN "Success" ELSE "Failure")
  /\ UNCHANGED <<next, child, records, report>>

\* The child may have exited since it was polled: past the limit is late.
Deadline(w) ==
  /\ At(w, "Deadline")
  /\ Go(w, IF child[MyJob(w)].late THEN "Kill" ELSE "Poll")
  /\ UNCHANGED <<next, child, records, report>>

\* Slip: a child past its limit is waited for, not killed.
WaitWithoutKill(w) ==
  /\ At(w, "Kill")
  /\ Go(w, "Reap")
  /\ UNCHANGED <<next, child, records, report>>

\* Killing a child that has exited fails, and that is ignored.
Kill(w) ==
  /\ At(w, "Kill")
  /\ Go(w, "Reap")
  /\ child' = IF Exited(MyJob(w)) THEN child ELSE [child EXCEPT ![MyJob(w)].process = "Killed"]
  /\ UNCHANGED <<next, records, report>>

Reap(w) ==
  /\ At(w, "Reap") /\ Exited(MyJob(w))
  /\ GoWith(w, "Join", "TimedOut")
  /\ UNCHANGED <<next, child, records, report>>

\* A record counts when the child that printed it succeeded.
Verdict(w) ==
  CASE worker[w].status = "TimedOut" -> "Timeout"
    [] worker[w].status = "Success" /\ child[MyJob(w)].read >= Line -> "Examined"
    [] OTHER -> "Crash"

Join(w) ==
  /\ At(w, "Join") /\ child[MyJob(w)].reader = "Ended"
  /\ Go(w, "Take")
  /\ records' = [records EXCEPT ![MyJob(w)] = Verdict(w)]
  /\ UNCHANGED <<next, child, report>>

Work(w) == \/ Take(w) \/ SpawnChild(w) \/ SpawnFails(w) \/ Poll(w) \/ Deadline(w)
           \/ Kill(w) \/ Reap(w) \/ Join(w)

-----------------------------------------------------------------------------
\* The scope waits for every worker and passes a panic on; then the sweep
\* expects a record of every job.
Report ==
  /\ report = "None"
  /\ \A w \in Worker : At(w, "Left") \/ At(w, "Panicked")
  /\ report' = IF \E w \in Worker : At(w, "Panicked") THEN "Panicked"
               ELSE IF \E j \in Job : records[j] = "None" THEN "Unreported"
               ELSE "Written"
  /\ UNCHANGED <<next, worker, child, records>>

Next == \/ \E w \in Worker : Work(w)
        \/ \E j \in Job : Write(j) \/ Exit(j) \/ Elapse(j) \/ Read(j)
        \/ Report

Spec == Init /\ [][Next]_vars

\* Threads run and time passes; nothing is assumed of the children.
FairSpec == /\ Spec
            /\ \A w \in Worker : WF_vars(Work(w))
            /\ \A j \in Job : WF_vars(Read(j)) /\ WF_vars(Elapse(j))
            /\ WF_vars(Report)

-----------------------------------------------------------------------------
(* A verdict says what the child did: a record counts only when the child  *)
(* printed all of it and succeeded, a timeout only of a job that ran past  *)
(* its limit and whose process is gone, and a crash is the child's own     *)
(* doing, never the closing of the pipe it writes to.                      *)
VerdictJustified ==
  \A j \in Job :
    /\ records[j] = "Examined" => child[j].process = "Succeeded" /\ child[j].read >= Line
    /\ records[j] = "Timeout"  => child[j].late /\ Exited(j)
    /\ records[j] = "Crash"    => child[j].process = "Crashed"

(* When all workers have left without a panic every job has its record     *)
(* (sweep: expect("every job reports")).                                   *)
EveryJobReports == report # "Unreported"

(* The sweep ends, whatever its children do: hang before, in the middle of *)
(* or after their record, write ahead of the reader or crash.              *)
SweepEnds == <>(report # "None")
=============================================================================
