SPECIFICATION FairSpec
CONSTANTS
  Threads = {t1, t2, t3}
  IncludeResults = {i1, i2, i3}
  ClientResults = {r1, r2, r3}
  Null = Null
  MaxDirectives = 3
  Callbacks <- PairedCallbacks
INVARIANTS
  TypeOK
  InclusionsSerialized
  ResultsAccounted
  ReleaserGetsResult
PROPERTIES
  InclusionsComplete
  ReleaseNeedsNoMutex
\* The requests end at MaxDirectives.
CHECK_DEADLOCK FALSE
