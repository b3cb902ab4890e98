SPECIFICATION JournalSpec
CONSTANTS
  SegSize = 3
  Readers = {"r"}
  Environments <- FsyncErrors
INVARIANT AlarmMeansBreak
CHECK_DEADLOCK FALSE
