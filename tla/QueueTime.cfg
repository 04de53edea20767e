SPECIFICATION Spec
CONSTANTS
  Tasks = {"low", "high"}
  Prio <- MCPrio
  Items = {1}
  Length = 1
  TickMod = 4
  Waits = {2, 3}
  Calls = {"send", "receive"}
  MaxLock = 1
  MaxPended = 1
  None = None
INVARIANTS
  NoSenderLeftWaiting
  DelayedEmptyAtWrap
  NeverOversleeps
PROPERTIES
  NeverTooEarly
