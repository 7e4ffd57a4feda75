CONSTANTS
  Installs <- SixInstalls
  InstallId <- SixIds
  At <- SixTimes
  Epsilon = 2
  NoId = "none"
  p1 = p1
  p2 = p2
  locA = locA
  locB = locB
  a = a
  b = b
  Id <- TwoSites
  Protos <- OneProto
  Slots <- TwoSlots
  Requests = {"create", "delete", "section", "import", "reset", "monitor", "target", "test", "silence"}
  MaxGen = 1
  MaxEdits = 2
  NoHost = NoHost
  NoSite = NoSite
SYMMETRY Alike
SPECIFICATION PagesSpec
INVARIANTS InstallSafety ToolsSound Words LogsKept
PROPERTIES UndoTakesOwn VisitsSound
CHECK_DEADLOCK FALSE
