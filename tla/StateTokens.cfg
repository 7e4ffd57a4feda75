CONSTANTS
  Job <- TokenJobs
  MaxVersion <- Most
SPECIFICATION DocumentsSpec
PROPERTIES AllDocsAdvance
CHECK_DEADLOCK FALSE
