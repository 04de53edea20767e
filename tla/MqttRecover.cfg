CONSTANTS
  MaxSamples = 1
  MaxColours = 0
  MaxBoth = 0
  MaxSessions = 1
  PubLength = 2
  RgbLength = 1
  Window = 2
  MaxFail = 2
SPECIFICATION FairSpec
PROPERTIES ReadErrorRecovers
