SPECIFICATION FairSpec
CONSTANTS
  c1 = c1
  c2 = c2
  p1 = p1
  alice = alice
  bob = bob
  NoOne = NoOne
  User = {alice, bob}
  Creator = {c1, c2}
  Poller = {p1}
  MaxEntries = 1
  Permits = 1
  Ttl = 0
  MaxJobs = 2
  MaxTime = 2
INVARIANTS
  TypeOK
  CapHolds
  NoOrphanWork
  OneOutcome
  NoLostWakeup
PROPERTIES
  CancelledWorkEnds
