SPECIFICATION JournalSpec
CONSTANTS
  SegSize = 3
  Readers = {}
  Environments <- DamageAndPower
INVARIANT NothingLost
CHECK_DEADLOCK FALSE
