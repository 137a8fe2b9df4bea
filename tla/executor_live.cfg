CONSTANTS
  t1 = t1
  t2 = t2
  t3 = t3
  w1 = w1
  w2 = w2
  k1 = k1
  k2 = k2
  NoCall = NoCall
  NoConn = NoConn
  Calls = {t1, t2, w1}
  Transactions = {t1, t2}
  Conns = {k1, k2}
  Parent <- Flat
  Faults <- Hooks
SPECIFICATION FairSpec
INVARIANTS
  OriginalErrorWins
  RejectedMeansRolledBack
PROPERTY
  CallSettles
