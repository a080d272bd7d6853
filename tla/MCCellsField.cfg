SPECIFICATION Spec
CONSTANTS
  Function <- FieldFunction
  MaxLength = 2
INVARIANT StoresToLiveCell
VIEW MemoryView
CHECK_DEADLOCK FALSE
