SPECIFICATION Spec
CONSTANTS
  k1 = k1
  k2 = k2
  Hex40 = {k1, k2}
  Other = {}
  Key = {k1, k2}
  Held = {}
  Tab = {t1, t2}
  Flow = {f1, f2}
  None = None
  MaxPasskeys = 2
INVARIANT TypeOK
INVARIANT VaultOpens
INVARIANT KeysMatch
INVARIANT WriterKnows
INVARIANT BusyMatches
PROPERTY SecretStays
PROPERTY BusyEnds
CHECK_DEADLOCK FALSE
