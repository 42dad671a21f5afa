SPECIFICATION LiveSpec
CONSTANTS
  None = None
  Procs = {p1, p2}
  Zones <- MCZones
  Referred <- MCReferred
  Plans <- MCPlans
  Letters = 2
  MaxLength = 2
  Firsts <- MCFirsts
  MaxRequests = 3
  Budget <- MCBudget
CHECK_DEADLOCK FALSE
INVARIANTS
  TypeOK
  ReceiptsKept
  OneReceiptPerRevision
  RevisionsAdvance
  RefusedIsUndone
  RevisionNamesOneDocument
PROPERTIES
  RequestsEnd
  ImplementsRegister
