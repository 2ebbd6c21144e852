SPECIFICATION Spec
CONSTANTS
  a = a
  A = A
  b = b
  item = item
  NoAddr = NoAddr
  NoRaw = NoRaw
  Coinbase = Coinbase
  NoItem = NoItem
  Unowned = Unowned
  NoRoot = NoRoot
  NoId = 0
  RewardId = 9
  Raw = {a, A, b, NoRaw, Coinbase}
  Addr = {a, b, Coinbase}
  Norm <- MCNorm
  Item = {item, NoItem}
  TxnId = {0, 1, 2, 3, 4, 6, 7, 8, 9}
  Reward = 5
  Eps = 1
  Txn <- MCTxn
  TxnNames = {"pay", "again", "claim", "give"}
  BodyNames <- MineableBodies
  PeerLength = 3
  Time = {0}
  GenesisTime = 0
  MineRate = 3
  InitialDifficulty = 1
  Body = {}
  PeerBlock <- MCPeerBlock
  PeerChain <- MCPeerChain
  MaxBlocks = 3
  Worker = {w1, w2}
  Miner = {b}
ACTION_CONSTRAINT Unhurried
INVARIANT ChainDerivable
PROPERTY NoTxnLost
SYMMETRY WorkerSymmetry
