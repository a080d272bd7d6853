--------------------------- MODULE MavrosPromise ---------------------------
(***************************************************************************)
(* What the Mavros sweep promises, without threads, processes and pipes:   *)
(* the run of a program ends once, is cut short only past its time limit,  *)
(* and gets one record, which fits how it ended; the report is written     *)
(* when no record is missing, and a sweep that panics misses one.          *)
(***************************************************************************)
EXTENDS Integers

CONSTANT Jobs      \* the number of programs

VARIABLES ended,   \* how each program's run ended
          late,    \* the programs past their time limit
          records, \* the verdict stored for each program
          report   \* how the sweep ended

vars == <<ended, late, records, report>>

Job == 1 .. Jobs

Init == /\ ended = [j \in Job |-> "None"]
        /\ late = {}
        /\ records = [j \in Job |-> "None"]
        /\ report = "None"

\* A run without its reader ends by its own pipe; no verdict is passed on it.
End(j) ==
  /\ ended[j] = "None"
  /\ \/ ended' = [ended EXCEPT ![j] = "Succeeded"]
     \/ ended' = [ended EXCEPT ![j] = "Crashed"]
     \/ ended' = [ended EXCEPT ![j] = "BrokenPipe"]
     \/ j \in late /\ ended' = [ended EXCEPT ![j] = "Killed"]
  /\ UNCHANGED <<late, records, report>>

Pass(j) ==
  /\ j \notin late /\ late' = late \cup {j}
  /\ UNCHANGED <<ended, records, report>>

\* A run that ends by itself just past its limit may still be a timeout.
Fits(j, verdict) ==
  \/ verdict = "Examined" /\ ended[j] = "Succeeded"
  \/ verdict = "Crash"    /\ ended[j] = "Crashed"
  \/ verdict = "Timeout"  /\ ended[j] \in {"Succeeded", "Crashed", "Killed"} /\ j \in late

Record(j) ==
  /\ report = "None" /\ records[j] = "None"
  /\ \E verdict \in {"Examined", "Timeout", "Crash"} :
       Fits(j, verdict) /\ records' = [records EXCEPT ![j] = verdict]
  /\ UNCHANGED <<ended, late, report>>

Finish ==
  /\ report = "None"
  /\ report' = IF \E j \in Job : records[j] = "None" THEN "Panicked" ELSE "Written"
  /\ UNCHANGED <<ended, late, records>>

Next == (\E j \in Job : End(j) \/ Pass(j) \/ Record(j)) \/ Finish

Spec == Init /\ [][Next]_vars
=============================================================================
