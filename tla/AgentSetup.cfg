CONSTANTS
  MaxSetups = 3
  MaxFaults = 2
  Files = 0
  MaxEdits = 0
  Download = {}
SPECIFICATION FairSpec
PROPERTIES ValidConfigStarts
CHECK_DEADLOCK FALSE
