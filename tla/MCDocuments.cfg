CONSTANTS
  Job <- Jobs
  MaxVersion <- Most
SPECIFICATION DocumentsSpec
INVARIANTS StateSafety
PROPERTIES LockedDocsAdvance DirtyIsFlushed
CHECK_DEADLOCK FALSE
