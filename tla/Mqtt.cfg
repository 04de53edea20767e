CONSTANTS
  MaxSamples = 2
  MaxColours = 3
  MaxBoth = 2
  MaxSessions = 2
  PubLength = 1
  RgbLength = 2
  Window = 1
  MaxFail = 2
SPECIFICATION FairSpec
INVARIANTS TypeOK NothingStale AtMostOnce AcceptedFirst EachColourOnce
PROPERTIES DeadLinkFound
