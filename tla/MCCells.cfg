SPECIFICATION Spec
CONSTANTS
  Function <- AllFunctions
  MaxLength = 2
INVARIANTS SlotsStayInFrame OwnedOnce
PROPERTY ImplementsPlaces
VIEW MemoryView
CHECK_DEADLOCK FALSE
