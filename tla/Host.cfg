SPECIFICATION Spec
CONSTANTS
  proxy = proxy  x1 = x1  x2 = x2
  Configs <- OwnOrProxied
  Keys = {1, 2, 3}
  Ids = {1, 2}
  ExtKeys = {x1, x2}
  NoPin = NoPin
  Absent = Absent
  Torn = Torn
  Managers = {"systemd", "launchd", "tasks"}
  Hands = 1
  MaxMishaps = 1
CONSTRAINT Unraced
INVARIANTS TypeOK PinsHold IdentityKept FilesWhole
PROPERTIES ServiceComesUp
