SPECIFICATION Spec
CONSTANTS
  a = a
  b = b
  o = o
  Hex40 = {a, b}
  Other = {o}
  NoBody = NoBody
  Nothing = Nothing
  None = None
  Account = {a, b}
  Slot = {1, 2}
  MaxVersion = 1
  MaxFaults = 1
INVARIANT TypeOK
INVARIANT PairsComplete
INVARIANT FlagsHonest
INVARIANT ConfirmedApplied
INVARIANT RecipientMeant
PROPERTY HistoryKept
PROPERTY LoadingEnds
PROPERTY PoolCatchesUp
CHECK_DEADLOCK FALSE
