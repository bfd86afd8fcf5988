SPECIFICATION FairSpec
CONSTANTS
  Servers = {s1, s2}
  Gets = {h1}
  Timeout = 2
  Interval = 1
  Absent = Absent
  NoOne = NoOne
INVARIANT TypeOK
PROPERTIES LiveServersListed RegisteredAgain StoppedIsDropped
