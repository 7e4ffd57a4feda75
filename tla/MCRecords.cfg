CONSTANTS
  Sids = {"s1", "s2"}
  Ttl = 1
  IdleTtl = 1
  MaxTime = 2
  MaxWire = 2
  None = None
  SetupTokens = {"t1", "t2"}
  SetupTtl = 1
  Ids = {"address", "name"}
  Email <- AccountOf
  Threshold = 2
  Window = 2
  LockFor = 2
  MaxRows = 1
  MaxSaving = 1
  MaxCount = 2
  Lives = {1, 3}
  Throttle = 2
  MaxTokens = 3
  MaxWrites = 2
  MaxFaults = 1
  MaxClock = 4
  TokensClock = 3
  StartKeys <- Tracked
  SitesDoc = "sites"
  DevicesDoc = "devices"
  Unseeded = {"ldap"}
  Migrations = 4
  Attempts = 3
  MaxStartFaults = 3
  HealthSite = {1, 2}
  Ports <- Digits
  AppPort <- OnePort
  Sources <- Digits
  Forms = {"allow", "deny", "out", "bare", "net", "anywhere"}
  MaxRules = 2
  MaxHealthEdits = 2
  People = {"p", "q"}
  Admins = {"p"}
  Monitors = {"p", "q"}
  Servers = {"a", "b"}
  First = "a"
  LdapTests = {1, 2}
  MaxLdapEdits = 1
SPECIFICATION RecordsSpec
INVARIANTS SessionSafety LoginsGuarded  DocumentsKept StartSound HealthSound ImportSound
PROPERTIES NothingComesBack
CHECK_DEADLOCK FALSE
