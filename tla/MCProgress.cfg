CONSTANTS
  Caller = {c1, c2, c3, c4}
  Keys = {"login"}
  Limit = 2
  Duration = 3
  MaxTime = 9
  MaxCount = 4
  None = None
SPECIFICATION ProgressSpec
INVARIANTS LockSafety LimitSafety
PROPERTIES ImplementsFifoLock WaiterServed GetsIn BusyEnds
CHECK_DEADLOCK FALSE
