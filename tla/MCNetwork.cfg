SPECIFICATION MCSpec
CONSTANTS
  n1 = n1
  n2 = n2
  t1 = t1
  Process = {n1, n2}
  Peers <- Pairs
  Txn = {t1}
  MaxMined = 3
  MaxCrashes = 2
INVARIANT TypeOK
INVARIANT CacheSound
INVARIANT OneHistory
PROPERTY CatchesUp
PROPERTY RelayingEnds
CHECK_DEADLOCK FALSE
