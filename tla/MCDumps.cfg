SPECIFICATION Spec
CONSTANTS
  Corpus = {"corpus"}
  Fixture = {"fixture"}
  Order <- MCOrder
  Rev = {1, 2}
  Code = {1, 2, 3}
  Pin <- MCPin
  Format <- MCFormat
  Workspace = {2}
  MaxActs = 6
INVARIANTS PinnedSources RowsPairLike
PROPERTY AcceptedIsComplete
CHECK_DEADLOCK FALSE
