CONSTANTS
  v1 = v1
  v2 = v2
  v3 = v3
  n1 = n1
  n2 = n2
  Views = {v1, v2, v3}
  Names = {n1, n2}
  CteName <- TwoShareAName
SPECIFICATION FairSpec
INVARIANTS
  DependenciesComeFirst
  ExactlyTheNeededViews
  OnlyCyclesAreRejected
  ConstructedIsAcyclic
PROPERTY
  ExpansionEnds
CHECK_DEADLOCK FALSE
