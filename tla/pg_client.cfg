CONSTANTS
  Queries = {q1, q2, q3, q4}
  Closers = {k1, k2}
  NoConn = NoConn
  Faults = {"rejects", "throws"}
SPECIFICATION FairSpec
INVARIANTS
  HoldsAtMostOne
  QueriesUseLiveConnection
  CloseLeavesNothingOpen
PROPERTY
  QuerySettles
