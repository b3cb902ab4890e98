SPECIFICATION JournalSpec
CONSTANTS
  SegSize = 3
  Readers = {}
  Environments <- WriteErrors
INVARIANT AckedDurable
CHECK_DEADLOCK FALSE
