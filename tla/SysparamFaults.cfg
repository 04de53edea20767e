SPECIFICATION Spec
CONSTANTS
  v1 = v1
  v2 = v2
  None = None
  Key = {k1, k2}
  Val <- MCVal
  ValSize <- MCValSize
  KeySize = 2
  HdrSize = 1
  Cap = 9
  MaxKeyId = 3
  Calls = {"delete", "reformat"}
  Faults = {"crash", "entry", "region"}
  MaxFaults = 1
SYMMETRY MCSymmetry
VIEW MCView
INVARIANTS
  FitsRegion
  ReadBack
