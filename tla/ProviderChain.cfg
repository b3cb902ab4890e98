SPECIFICATION FairSpec
CONSTANTS
  Callers = {"a", "b"}
  Providers = {"p", "q"}
  Scopes = {"global"}
  Route <- MCRoute
  ScopesOf <- MCScopesOf
  Retries = 1
  RateLimit = 1
  Cooldown = 1
  Configs <- MCConfigs
  MaxCost = 1
  MaxSpent = 3
INVARIANTS OvershootBounded
PROPERTIES CallEnds Heals
CHECK_DEADLOCK FALSE
