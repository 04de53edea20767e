SPECIFICATION Spec
CONSTANTS
  v1 = v1
  v2 = v2
  None = None
  Key = {k1, k2}
  Val <- MCVal
  ValSize <- MCValSize
  KeySize = 2
  HdrSize = 1
  Cap = 8
  MaxKeyId = 2
  Calls = {"delete"}
  Faults = {"crash"}
  MaxFaults = 2
SYMMETRY MCSymmetry
VIEW MCView
INVARIANTS
  Mountable
  KeysOrdered
  FitsRegion
  ReadBack
PROPERTIES
  OthersUntouched
