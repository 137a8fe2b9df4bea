CONSTANTS
  p1 = p1
  p2 = p2
  p3 = p3
  Registered = {p1, p2, p3}
  Before <- MCBefore
  Deprecated = {p1, p3}
  Fallback = TRUE
  Attempts = 2
  MaxFaults = 2
  Faults = {"auth", "tlog", "answer", "view", "deprecate", "npmrc", "push", "release", "crash"}
SPECIFICATION FairSpec
CHECK_DEADLOCK FALSE
INVARIANTS
  TagsFollowTheRegistry
  OnlyInterruptedVersionsLackTags
  OidcSeesNoToken
PROPERTIES
  RunsEnd
  EverythingIsPublished
