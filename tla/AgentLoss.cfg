CONSTANTS
  Site = {s1, s2}
  Token = {t1, t2, t3}
  NoSite = NoSite
  NoToken = NoToken
  Ttl = 2
  MaxTime = 6
SPECIFICATION UnattendedSpec
PROPERTIES AgentLossNotified
