CONSTANTS
  Site = {s1, s2}
  Cmd = {c1, c2}
  NoSite = NoSite
  Lease = 2
  Timeout = 4
  MaxTime = 6
SPECIFICATION FairSpec
PROPERTIES EveryCommandSettles
