SPECIFICATION Spec
CONSTANTS
  d1 = d1  d2 = d2  t1 = t1  t2 = t2  r1 = r1  r2 = r2  rw = rw  ro = ro
  Devices = {d1, d2}
  Tokens = {t1, t2}
  Requests = {r1, r2}
  Presets = {rw}
  ReadWrite = rw
  NoPeer = NoPeer  NoDevice = NoDevice  NoToken = NoToken  NoSave = NoSave  NoRequest = NoRequest  Torn = Torn
ACTION_CONSTRAINT Focus
SYMMETRY Symmetry
INVARIANTS TypeOK TokenPairsOnce ReplacedTokenDead NewPeersReviewed SavesKept
