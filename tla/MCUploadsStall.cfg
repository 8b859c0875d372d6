SPECIFICATION ServerSpec
CHECK_DEADLOCK FALSE
CONSTANTS
  u1 = u1
  h1 = h1
  h2 = h2
  NoOne = NoOne
  Upload = {u1}
  Handler = {h1, h2}
  Chunks = 2
  MaxUpload = 3
PROPERTY SweepEnds
