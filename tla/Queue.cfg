SPECIFICATION Spec
CONSTANTS
  Tasks = {"low", "high"}
  Prio <- MCPrio
  Items = {1, 2}
  Length = 2
  TickMod = 2
  Waits = {0, 1}
  Calls = {"send", "sendToFront", "receive", "peek", "reset"}
  MaxLock = 2
  MaxPended = 0
  None = None
INVARIANTS
  TypeOK
  NeverForgotten
  NoReceiverLeftWaiting
PROPERTIES
  ImplementsFifo
