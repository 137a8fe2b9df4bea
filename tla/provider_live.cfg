CONSTANTS
  s1 = s1
  s2 = s2
  s3 = s3
  s4 = s4
  t1 = t1
  k1 = k1
  k2 = k2
  NoCall = NoCall
  Calls = {s1, s2, t1}
  Closers = {k1, k2}
  PerTest = {t1}
  Parent <- Flat
  ResetOption = "transaction"
  Faults <- AllFaults
SPECIFICATION FairSpec
INVARIANTS
  ResolvedMeansClean
  NoUseAfterDispose
  ConnectionsAccountedFor
  CloseDrainsTheQueue
PROPERTIES
  InvokedCallSettles
  ImplementsSerial
