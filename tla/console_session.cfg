SPECIFICATION LiveSpec
CONSTANTS
  None = None
  Tokens = {right, wrong}
  OwnerToken = right
  MaxGenerations = 6
  MaxChanges = 1
CHECK_DEADLOCK FALSE
INVARIANTS
  TypeOK
  LockIsKept
  ShownIsFresh
  LoadingIsLatest
PROPERTIES
  LoadingEnds
