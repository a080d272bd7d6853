SPECIFICATION FairSpec
CONSTANTS
  Function <- MCFunction
  Main = "main"
  Unconstrained <- MCUnconstrained
  Global = {g1, g2}
  MaxCallDepth = 2
  MaxNest = 2
  Nest <- MCNest
INVARIANTS TypeOK DepthCountsCalls FlagOfCurrentFunction InProgressIsOnStack HostStackBounded
PROPERTIES FailureSurfaces ImplementsControlFlow
CHECK_DEADLOCK FALSE
