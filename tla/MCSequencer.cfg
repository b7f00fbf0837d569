SPECIFICATION Spec
CONSTANTS
  s1 = s1
  s2 = s2
  p1 = p1
  w1 = w1
  w2 = w2
  A = A
  B = B
  d1 = d1
  d2 = d2
  Txs = {s1, s2, p1, w1}
  Sigs = {s1, s2, p1, w1}
  Payers = {A, B}
  NoSig = NoSig
  NoPayer = NoPayer
  SigOf <- MCSigOf
  PayerOf <- MCPayerOf
  Kind <- MCKind
  Amount <- MCAmount
  RecentOf <- MCRecentOf
  Dest <- MCDest
  Leaf <- MCLeaf
  Leaves = {"k1", "k2"}
  Deposits = {d1}
  DepAmount <- MCDepAmount
  DepTo <- MCDepTo
  BatchPost = BatchPost
  Collector = Collector
  Vault = Vault
  Genesis <- MCGenesis
  Fee = 1
  Capacity = 3
  MaxPerPayerOpt = 3
  MaxBlock = 2
  QueueCap = 2
  FetchLimit = 2
  MaxSubmits = 3
  MaxFaults = 1
  MaxHeartbeats = 1
  MaxBatchPosts = 0
  MaxPendingDeposits = 2
SYMMETRY Transfers
INVARIANTS
  DepositOnce
  SvmOnce
  SvmRecent
  RootBacked
  TreeMatchesChainUnlessReplayed
  SupplyAccounted
CHECK_DEADLOCK FALSE
