SPECIFICATION Spec
CONSTANTS
  a = a
  b = b
  o = o
  Hex40 = {a, b}
  Other = {o}
  NoBody = NoBody
  Nothing = Nothing
  None = None
  Account = {a, b}
  Slot = {1, 2}
  MaxVersion = 1
  MaxFaults = 0
INVARIANT SnapshotOfConnected
CHECK_DEADLOCK FALSE
