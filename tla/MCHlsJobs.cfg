SPECIFICATION Spec
CHECK_DEADLOCK FALSE
CONSTANTS
  k1 = k1
  r1 = r1
  r2 = r2
  NoOne = NoOne
  Key = {k1}
  Request = {r1, r2}
  Preferred = {"hardware"}
  MaxPermits = 2
  MaxRenders = 1
  MaxJobs = 2
SYMMETRY Symmetry
INVARIANTS
  TypeOK
  OneTranscodePerKey
  TranscodesHavePermits
