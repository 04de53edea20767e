SPECIFICATION Spec
CONSTANTS
  v1 = v1
  v2 = v2
  None = None
  Key = {k1}
  Val <- MCVal
  ValSize <- MCValSize
  KeySize = 2
  HdrSize = 1
  Cap = 20
  MaxKeyId = 3
  Calls = {}
  Faults = {"crash"}
  MaxFaults = 1
SYMMETRY MCSymmetry
VIEW MCView
PROPERTIES
  OkMeansSet
