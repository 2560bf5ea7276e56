SPECIFICATION StartupSpec
CONSTANTS
  r1 = r1
  r2 = r2
  h1 = h1
  h2 = h2
  h3 = h3
  t1 = t1
  t2 = t2
  audit = audit
  cache = cache
  plain = plain
  refreshed = refreshed
  started = started
  Hook = {h1, h2, h3}
  Meta <- MCMeta
  Definitions = {}
  Configurations = {}
  Assignable = {}
  Readers = {}
  Questions = {}
  Rank <- MCRank
  MaxAttempts = 0
  N = 1
  Prototypes = {}
  Injectors = {}
  Order <- MCOrder
  AllowCircular = TRUE
  Thread = {t1}
  Handler = {plain}
  Event = {refreshed}
  Options <- MCOptions
  Accepts <- MCAccepts
  MaxSubscriptions = 0
  MaxPublished = 0
  MaxDepth = 0
INVARIANTS
  NeedsInOrder
CHECK_DEADLOCK FALSE
