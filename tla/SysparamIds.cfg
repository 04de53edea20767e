SPECIFICATION FairSpec
CONSTANTS
  v1 = v1
  v2 = v2
  None = None
  Key = {k1, k2}
  Val <- MCOneVal
  ValSize <- MCOneValSize
  KeySize = 2
  HdrSize = 1
  Cap = 8
  MaxKeyId = 1
  Calls = {"delete", "reformat"}
  Faults = {"crash", "entry", "region"}
  MaxFaults = 1
INVARIANTS
  TypeOK
  IdsInRange
PROPERTIES
  EveryCallReturns
