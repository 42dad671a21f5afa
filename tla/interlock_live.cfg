SPECIFICATION LiveSpec
CONSTANTS
  c1 = c1
  c2 = c2
  c3 = c3
  g1 = g1
  g2 = g2
  None = None
  Callers = {c1, c2}
  Grants = {g1, g2}
  Adapters = 2
  Interrupts = 0
  MaxCycles = 2
PROPERTIES
  ImplementsStopLatch
  TripsComplete
  RequestsEnd
