SPECIFICATION Spec
CONSTANTS
  f1 = f1  f2 = f2  b1 = b1  x1 = x1  y1 = y1
  Files = {f1, f2, b1}
  Extra = {x1, y1}
  Databases = {b1, y1}
  Concurrency = 2
INVARIANTS TypeOK LocalChangesReported RemoteChangesReported DeletionsLast
PROPERTIES GuardReleased
CHECK_DEADLOCK FALSE
