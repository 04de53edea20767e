SPECIFICATION Spec
CONSTANTS
  Erased = Erased
  Spoilt = Spoilt
  None = None
  Images = {"old", "new"}
  Size <- MCSize
  Irom <- MCIrom
  Odd <- MCOdd
  Firmware1 = "new"
  MaxBlocks = 2
  SectorBlocks = 2
  Retransmits = 1
  MboxSize = 1
  Tids = {1, 2}
  MaxTries = 1
  MaxNet = 1
INVARIANTS
  ValidImageVerifies
