SPECIFICATION RunsSpec
CONSTANTS
  Runs = {"r", "s"}
  Id <- MCId
  Kids = {"k1", "k2"}
  Rank <- MCRank
  Settings <- MCSettings
  Calls = {"redirect", "retry", "halt"}
  KeyOf <- MCKeyOf
  Primitive <- MCPrimitive
  Lease = 1
  MaxTime = 4
  a = a
  b = b
  w1 = w1
  w2 = w2
  w3 = w3
  Schedules = {a, b}
  Workers = {w1, w2, w3}
  Environments <- MCEnvironments
  Horizon = 3
  Interval = 2
  Grid = 3
INVARIANTS Reachable KidsSwept CapsHold SettledQuiet ParkedKnows AppliedOnce NoOverlap OneShotNotLost SlotAtMostOnce
PROPERTIES HaltSettles OneShotRuns
CHECK_DEADLOCK FALSE
