CONSTANTS
  Site = {s1, s2}
  Cmd = {c1, c2}
  c1 = c1
  c2 = c2
  office = office
  a = a
  b = b
  NoHost = NoHost
  NoSite = NoSite
  NoCmd = NoCmd
  Lease = 2
  Timeout = 4
  MaxTime = 6
  AgentLease = 1
  AgentTimeout = 2
  AgentTime = 3
  AgentFaults = 2
  Notices = 2
  Shapes = 3
  Attempts = 2
  MaxAborts = 2
  p1 = p1
  p2 = p2
  r1 = r1
  r2 = r2
  Rows <- Both
  Optional = {r2}
  Polls = {p1, p2}
  MaxServices = 1
  Loads = {a, b}
  MaxVersion = 2
  MaxFailures = 1
SPECIFICATION MonitoringSpec
INVARIANTS ChannelSafety RunsReported WebhookSound BoardsAgree DashboardSound
PROPERTIES ImplementsDelivery SettlesOrDropped KeepsServing EverySitePolled
CHECK_DEADLOCK FALSE
