SPECIFICATION Spec
CONSTANTS
  None = None
  TickMs = 10
  TempMs = 2000
  ConvTicks = 75
  Rom <- MCRom
  Readings <- MCReadings
  PowerOn <- MCPowerOn
  Faults = {"absent", "noise"}
  MaxFaults = 1
VIEW MCView
INVARIANTS
  TypeOK
  RequestFindsIdle
  InSequence
  StartsSequence
  SensorInStep
PROPERTIES
  PublishedFresh
