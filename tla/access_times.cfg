SPECIFICATION Spec
CONSTANTS
  Invalid = Invalid
  Zones <- MCZones
  NoGo <- MCNoGo
  ScopeNames <- MCScopes
  Policies <- MCPolicies
  Day = 6
  Offset = 2
  MaxClock = 12
INVARIANTS
  IssuedCanBeUsed
  UsableIsIssuable
PROPERTIES
  AccessIsOneInterval
  QuietTurnsAtItsEnds
