SPECIFICATION Spec
CONSTANTS
  a = a
  b = b
  NoAddr = NoAddr
  NoRaw = NoRaw
  Coinbase = Coinbase
  NoItem = NoItem
  Unowned = Unowned
  NoId = 0
  NoRoot = NoRoot
  Raw = {a, b, NoRaw, Coinbase}
  Addr = {a, b, Coinbase}
  Norm <- MCNorm
  Item = {NoItem}
  TxnId = {0, 1, 2, 3}
  Reward = 9
  Eps = 1
  Txn <- MCTxn
  Time = {0, 5}
  GenesisTime = 0
  MineRate = 3
  InitialDifficulty = 2
  Body <- MCBody
  PeerBlock <- MCPeerBlock
  PeerChain <- MCPeerChain
  MaxBlocks = 3
  Wanted = {1, 2, 3}
  Grain = 3
INVARIANT PassMeansIncluded
INVARIANT NoFalseAlarm
INVARIANT TipSealsChain
PROPERTY OnlyGrows
