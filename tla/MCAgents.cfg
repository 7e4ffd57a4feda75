CONSTANTS
  Site = {s1}
  Token = {t1, t2, t3}
  s1 = s1
  s2 = s2
  t1 = t1
  t2 = t2
  t3 = t3
  NoSite = NoSite
  NoToken = NoToken
  Ttl = 2
  MaxTime = 4
  MaxDeletes = 2
  MaxSetups = 3
  MaxFaults = 2
  Files = 2
  MaxEdits = 1
  Download = {1, 2}
SPECIFICATION AgentsSpec
INVARIANTS PresenceHasSession InstallSound
PROPERTIES RevivedInTime SessionsAgree SilentSessionGoes InstalledRuns
CHECK_DEADLOCK FALSE
