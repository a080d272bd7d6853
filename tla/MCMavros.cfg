SPECIFICATION FairSpec
CONSTANTS
  w1 = w1
  w2 = w2
  Worker <- TwoWorkers
  Jobs = 2
  PipeSize = 1
INVARIANTS TypeOK VerdictJustified EveryJobReports
PROPERTIES SweepEnds ImplementsPromise
CHECK_DEADLOCK FALSE
