CONSTANTS
  a = a
  b = b
  garbage = garbage
  None = None
SPECIFICATION MeasuresSpec
INVARIANTS WanReported TrafficCounted
CHECK_DEADLOCK FALSE
