SPECIFICATION Spec
CONSTANTS
  RunError = {"AssertionFailed", "Overflow"}
  Shape = {1, 2}
  Element = {1, 2}
  Hash = {"h1", "h2"}
INVARIANTS EveryRunHasOutcome VerdictMeans CrashIsDivergence NoStaleEntry CleanRowAgrees
CHECK_DEADLOCK FALSE
