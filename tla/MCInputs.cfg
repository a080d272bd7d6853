SPECIFICATION Spec
CONSTANTS
  v1 = v1
  v2 = v2
  v3 = v3
  c1 = c1
  c2 = c2
  Value <- MCValue
  Cell <- MCCell
  Field = "ours"
  Arity = 2
  Input <- MCInput
INVARIANTS AcceptedIsClean RejectedHasCause
PROPERTY CheckEnds
CHECK_DEADLOCK FALSE
