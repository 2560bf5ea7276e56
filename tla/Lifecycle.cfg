SPECIFICATION FairSpec
CONSTANTS
  h1 = h1
  h2 = h2
  h3 = h3
  Hook = {h1, h2, h3}
  Meta <- MCMeta
  Thread = {t1, t2}
  Starters = {h1, h2}
  Stoppers = {h1, h3}
  Closers = {h1, h2}
  MayPanic = TRUE
INVARIANTS
  TypeOK
  DependenciesUp
  StateTellsTruth
  ClosedReleasesAll
  OneDriver
PROPERTIES
  ImplementsGroup
  CallsReturn
CHECK_DEADLOCK FALSE
