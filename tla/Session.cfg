SPECIFICATION Spec
CONSTANTS
  r1 = r1  r2 = r2  h1 = h1  h2 = h2
  Requests = {r1, r2}
  Handlers = {h1, h2}
  TimeWindow = 2
  MaxStall = 1
  NonceTtl = 4
  SessionTtl = 8
  MaxTime = 10
  Unsigned = Unsigned  NoNonce = NoNonce  NoCall = NoCall
SYMMETRY Symmetry
INVARIANTS RepeatedOnlyAtEnds
