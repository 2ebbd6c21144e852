SPECIFICATION Spec
CONSTANTS
  a = a
  A = A
  b = b
  i1 = i1
  i2 = i2
  NoAddr = NoAddr
  NoRaw = NoRaw
  Coinbase = Coinbase
  NoItem = NoItem
  Unowned = Unowned
  NoId = 0
  Raw = {a, A, b, NoRaw, Coinbase}
  Addr = {a, b, Coinbase}
  Norm <- MCNorm
  Item = {i1, i2, NoItem}
  TxnId = {0, 1}
  Reward = 5
  Eps = 1
  Txn <- MCTxn
  MaxTxns = 5
INVARIANT TypeOK
INVARIANT BalanceFloor
INVARIANT IndexesAgree
INVARIANT SupplyIsMinted
PROPERTY OnlySignerLoses
CHECK_DEADLOCK FALSE
