SPECIFICATION FairSpec
CONSTANTS
  None = None
  TickMs = 10
  TempMs = 2000
  ConvTicks = 75
  Rom <- MCRom
  Readings <- MCReadings
  PowerOn <- MCPowerOn
  Faults = {"absent", "deaf"}
  MaxFaults = 1
INVARIANTS
  UuidIsRom
  TableIsPolynomial
PROPERTIES
  ReadingsGoOn
