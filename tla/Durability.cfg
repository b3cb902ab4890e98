SPECIFICATION DurabilitySpec
CONSTANTS
  Runs = {"a"}
  MaxTries = 2
  MaxAttempts = 2
  MaxBoots = 4
  SegSize = 3
  Readers = {r}
  Environments <- MCEnvironments
INVARIANTS InterruptedKept EndedStaysEnded AttemptsBounded NothingDeleted GapRecorded RangeContiguous
PROPERTIES ListedRunEnds ImplementsDurableLog ComesBack
CHECK_DEADLOCK FALSE
