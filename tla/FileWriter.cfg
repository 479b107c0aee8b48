SPECIFICATION WriterSpec
CONSTANTS
  w1 = w1  w2 = w2  i1 = i1  i2 = i2  i3 = i3
  Calls = {w1, w2}
  Inodes = {i1, i2, i3}
  LengthOf <- Lengths
  MaxLength = 3
  Replaces = FALSE
  Original = Original  Hole = Hole  None = None
SYMMETRY Symmetry
INVARIANTS DestinationWhole StampFitsBytes
