SPECIFICATION Spec
CONSTANTS
  None = None
  Procs = {p1, p2}
  Zones <- MCZones
  Referred <- MCReferred
  Plans <- OnePlan
  Letters = 2
  MaxLength = 2
  Firsts <- OneFirst
  MaxRequests = 2
  Budget <- NoFailures
CHECK_DEADLOCK FALSE
INVARIANTS
  LoserIsStale
