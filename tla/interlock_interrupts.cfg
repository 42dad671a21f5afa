SPECIFICATION Spec
CONSTANTS
  c1 = c1
  c2 = c2
  c3 = c3
  g1 = g1
  g2 = g2
  None = None
  Callers = {c1, c2, c3}
  Grants = {g1, g2}
  Adapters = 2
  Interrupts = 2
  MaxCycles = 2
SYMMETRY Alike
INVARIANTS
  TypeOK
  TrippedDenies
  StoppedStaysStopped
  OncePerCycle
