SPECIFICATION StartupSpec
CONSTANTS
  r1 = r1
  r2 = r2
  h1 = h1
  h2 = h2
  h3 = h3
  t1 = t1
  t2 = t2
  audit = audit
  cache = cache
  plain = plain
  refreshed = refreshed
  started = started
  Hook = {h1, h2, h3}
  Meta <- MCMeta
  Definitions <- MCDefinitions
  Configurations <- MCConfigurations
  Assignable <- MCAssignable
  Readers = {r1, r2}
  Questions <- MCQuestions
  Rank <- MCRank
  MaxAttempts = 2
  N = 3
  Prototypes = {2}
  Injectors = {1, 2, 3}
  Order <- MCOrder
  AllowCircular = TRUE
  Thread = {t1, t2}
  Handler = {audit, cache, plain}
  Event = {refreshed, started}
  Options <- MCOptions
  Accepts <- MCAccepts
  MaxSubscriptions = 3
  MaxPublished = 2
  MaxDepth = 2
INVARIANTS
  DeclaredIsBuilt
  SelectionIsTheBest
  HooksRunAsDeclared
  RefusedIffUnresolvable
  OrderRespectsNeeds
  DispatchIsExact
CHECK_DEADLOCK FALSE
