SPECIFICATION FairSpec
CONSTANTS
  d1 = d1  d2 = d2  p1 = p1  p2 = p2  r1 = r1  r2 = r2  n1 = n1 n2 = n2 f1 = f1
  Devices = {d1}
  PlanIds = {p1}
  Requests = {r1, r2}
  Namespaces = {n1}
  Plain = {f1}
  Grants <- TwoGrants
  NoPlan = NoPlan  Free = Free  NoDevice = NoDevice  Revoked = Revoked
  Original = Original  Absent = Absent
PROPERTIES LockReleased DeletesAuthorized
