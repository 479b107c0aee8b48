SPECIFICATION Spec
CONSTANTS
  n1 = n1  n2 = n2  f1 = f1  f2 = f2  w1 = w1  w2 = w2
  Namespaces = {n1, n2}
  Files = {f1, f2}
  Writers = {w1, w2}
  NoDir = NoDir  NoNamespace = NoNamespace
  NoWork = NoWork
SYMMETRY Symmetry
INVARIANTS TypeOK NamespaceWhole NothingLost ReportIsTrue
CHECK_DEADLOCK FALSE
