SPECIFICATION FairSpec
CONSTANTS
  r1 = r1
  r2 = r2
  None = None
  Request = {r1, r2}
  Address = {a1, a2, a3, a4, a5, a6}
  Id = {h1, h2}
  MaxGeneration = 3
INVARIANTS
  TypeOK
  LockIsExclusive
  OpenStreamPlays
PROPERTIES
  IdleTorrentPauses
