CONSTANTS
  d1 = d1
  d2 = d2
  d3 = d3
  d4 = d4
  NoHandle = NoHandle
  Drivers = {d1, d2, d3, d4}
  Root = d1
  MaxHandles = 4
  Faults = {"open", "close"}
SPECIFICATION Spec
SYMMETRY DerivedSymmetry
INVARIANTS
  EveryHandleIsHeld
  ScopedDriversReuseTheHandle
