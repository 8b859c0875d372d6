SPECIFICATION Spec
CHECK_DEADLOCK FALSE
CONSTANTS
  auto = auto
  en = en
  Key = {auto, en}
  AutoOf <- MCAutoOf
  s1 = s1
  Source = {s1}
  r1 = r1
  Request = {r1}
  Pinned = {}
  p1 = p1
  p2 = p2
  Reporter = {p1, p2}
  Says <- MCSays
  Wants <- MCWants
  Lease = 1
  Interval = 1
  NoSource = NoSource
  NoOne = NoOne
  MaxTime = 2
  MaxChecks = 1
  MaxLeft = 1
INVARIANTS
  ReportedSourceIsOutAlways
