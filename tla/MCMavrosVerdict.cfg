SPECIFICATION Spec
INVARIANTS GapIsNoOpinion ChargesHold AgreementHolds
CHECK_DEADLOCK FALSE
