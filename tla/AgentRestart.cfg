CONSTANTS
  Site = {s1, s2}
  Token = {t1, t2}
  NoSite = NoSite
  NoToken = NoToken
  Ttl = 2
  MaxTime = 3
  MaxDeletes = 1
SPECIFICATION StoreFairSpec
PROPERTIES SessionsSurviveRestart
