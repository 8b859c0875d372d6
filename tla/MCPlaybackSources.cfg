SPECIFICATION Spec
CHECK_DEADLOCK FALSE
CONSTANTS
  auto = auto
  en = en
  Key = {auto, en}
  AutoOf <- MCAutoOf
  s1 = s1
  s2 = s2
  Source = {s1, s2}
  r1 = r1
  Request = {r1}
  Pinned = {}
  p1 = p1
  p2 = p2
  Reporter = {p1, p2}
  Says <- MCSaysAll
  Wants <- MCWants
  Lease = 1
  Interval = 1
  NoSource = NoSource
  NoOne = NoOne
  MaxTime = 4
  MaxChecks = 3
  MaxLeft = 2
SYMMETRY Symmetry
INVARIANTS
  TypeOK
  LateVerdictHarmless
  NoHeadStorm
  ReportedSourceIsOut
