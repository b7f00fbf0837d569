SPECIFICATION FairSpec
CONSTANTS
  s1 = s1
  s2 = s2
  p1 = p1
  w1 = w1
  w2 = w2
  A = A
  B = B
  d1 = d1
  d2 = d2
  Txs = {w1}
  Sigs = {w1}
  Payers = {A, B}
  NoSig = NoSig
  NoPayer = NoPayer
  SigOf <- MCSigOf
  PayerOf <- MCPayerOf
  Kind <- MCKind
  Amount <- MCAmount
  RecentOf <- MCRecentOf
  Dest <- MCDest
  Leaf <- MCLeaf
  Leaves = {"k1", "k2"}
  Deposits = {d1, d2}
  DepAmount <- MCDepAmount
  DepTo <- MCDepTo
  BatchPost = BatchPost
  Collector = Collector
  Vault = Vault
  Genesis <- MCGenesis
  Fee = 1
  Capacity = 3
  MaxPerPayerOpt = 3
  MaxBlock = 2
  QueueCap = 2
  FetchLimit = 2
  MaxSubmits = 1
  MaxFaults = 2
  MaxHeartbeats = 0
  MaxBatchPosts = 1
  MaxPendingDeposits = 2
PROPERTY DepositsCreditedInReach
CHECK_DEADLOCK FALSE
