SPECIFICATION Spec
CONSTANTS
  p1 = p1
  p2 = p2
  None = None
  Procs = {p1}
  Zones <- MCZones
  NoGo <- MCNoGo
  ScopeNames <- MCScopes
  Grants = {1, 2}
  Policy <- MCPolicy
  Seeds = {}
  TornTails = TRUE
  Budget <- CrashBudget
  MaxTx = 3
  MaxNotes = 1
  MaxClock = 1
INVARIANTS
  TypeOK
  AcknowledgedIssueKept
  ReceiptsFollowRevisions
  ReceiptBeforeUse
  EnvelopesAccepted
PROPERTIES
  ImplementsRegistry
