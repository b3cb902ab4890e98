SPECIFICATION StoreSpec
CONSTANTS
  StoreKeys = {"k", "l"}
  Values = {"v", "w"}
INVARIANT PersistedSynchronously
CHECK_DEADLOCK FALSE
