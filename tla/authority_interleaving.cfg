SPECIFICATION LiveSpec
CONSTANTS
  p1 = p1
  p2 = p2
  None = None
  Procs = {p1, p2}
  Zones <- MCZones
  NoGo <- MCNoGo
  ScopeNames <- MCScopes
  Grants = {1}
  Policy <- MCPolicy
  Seeds = {1}
  TornTails = FALSE
  Budget <- LossBudget
  MaxTx = 2
  MaxNotes = 1
  MaxClock = 1
INVARIANTS
  NoUseAfterDenial
  SeedsOnlyAtFirstBoot
PROPERTIES
  ImplementsRegistry
  PendingResolves
  RequestsEnd
