SPECIFICATION Spec
CONSTANTS
  app = app
  config = config
  store = store
  helper = helper
  left = left
  right = right
  ping = ping
  pong = pong
  Bean = {left, right, store}
  Singletons = {left, right, store}
  DependsOn <- MCDependsOn
  FactoryDeps <- MCFactoryDeps
  InjectDeps <- MCInjectDeps
  AllowCircular = TRUE
  Thread = {t1}
  Roots = {left, right}
  MaxCalls = 2
  MaxFaults = 1
INVARIANTS
  SingletonIsUnique
CHECK_DEADLOCK FALSE
