SPECIFICATION Spec
CHECK_DEADLOCK FALSE
CONSTANTS
  auto = auto
  en = en
  Key = {auto, en}
  AutoOf <- MCAutoOf
  s1 = s1
  Source = {s1}
  r1 = r1
  r2 = r2
  Request = {r1, r2}
  Pinned = {r2}
  p1 = p1
  p2 = p2
  Reporter = {p1, p2}
  Says <- MCSays
  Wants <- MCWants
  Lease = 1
  Interval = 1
  NoSource = NoSource
  NoOne = NoOne
  MaxTime = 3
  MaxChecks = 2
  MaxLeft = 1
INVARIANTS
  TypeOK
  LateVerdictHarmless
  NoHeadStorm
  ReportedSourceIsOut
