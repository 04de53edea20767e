SPECIFICATION FairSpec
CONSTANTS
  Erased = Erased
  Spoilt = Spoilt
  None = None
  Images = {"old","big","bad"}
  Size <- MCSize
  Irom <- MCIrom
  Odd <- MCOdd
  Firmware1 = "old"
  MaxBlocks = 2
  SectorBlocks = 2
  Retransmits = 1
  MboxSize = 2
  Tids = {1, 2}
  MaxTries = 1
  MaxNet = 1
INVARIANTS
  TypeOK
  AlwaysBootable
  NeverSpoilt
  RunningIntact
PROPERTIES
  SwitchesToCompleteImage
  CurrentUntouched
  TransferEnds
