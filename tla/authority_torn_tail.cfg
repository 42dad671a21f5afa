SPECIFICATION LiveSpec
CONSTANTS
  p1 = p1
  p2 = p2
  None = None
  Procs = {p1, p2}
  Zones <- MCZones
  NoGo <- MCNoGo
  ScopeNames <- MCScopes
  Grants = {1}
  Policy <- MCPolicy
  Seeds = {}
  TornTails = TRUE
  Budget <- TornBudget
  MaxTx = 1
  MaxNotes = 0
  MaxClock = 0
PROPERTIES
  PendingResolves
