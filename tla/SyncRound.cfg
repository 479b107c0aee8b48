SPECIFICATION Spec
CONSTANTS
  f1 = f1  n1 = n1  a1 = a1  b1 = b1
  Paths = {f1, a1, b1}
  Namespaces = {n1}
  NamespaceOf <- FileAndDatabase
  Plain = Plain
  Sizes = {1, 2}
  Selections <- Everything
  MaxClock = 4
  NoFile = NoFile
CONSTRAINT Focus
INVARIANTS TypeOK SameStampSameBytes RoundDoesWhatItSays RoundSettles
PROPERTIES NoRegression
