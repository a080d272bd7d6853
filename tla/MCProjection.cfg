SPECIFICATION RecompileSpec
CONSTANTS
  Expr <- MCExpr
  Program <- MCProgram
  Renaming <- MCRenaming
  Depth <- MCDepth
INVARIANTS EachItemOnce NumbersDiffer TextReadsBack MarkedAsReached RenumberingInvisible
CHECK_DEADLOCK FALSE
