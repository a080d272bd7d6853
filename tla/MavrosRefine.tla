---------------------------- MODULE MavrosRefine ----------------------------
(***************************************************************************)
(* The workers, children and readers of MavrosSweep keep the promise.      *)
(***************************************************************************)
EXTENDS MavrosSweep

\* How each program's run ended: as its process did, once it has exited.
ended == [j \in Job |-> IF Exited(j) THEN child[j].process ELSE "None"]

\* The programs past their limit.
late == {j \in Job : child[j].late}

Promise == INSTANCE MavrosPromise

\* However the workers, the children, their readers and their clocks
\* interleave: no program is run twice, none is killed within its limit, a
\* record fits how the run ended, is stored once and stands, none is stored
\* after the report, and a sweep that panics misses a record.
ImplementsPromise == Promise!Spec
=============================================================================
