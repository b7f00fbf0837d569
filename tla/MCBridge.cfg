SPECIFICATION MCSpec
CONSTANTS
  Users = {U, F}
  Collector = F
  Depositees = {U}
  Recipients = {R}
  Nonces = {1, 2, 3}
  Paths = {"p1", "p2"}
  PathOf <- MCPathOf
  U = U
  F = F
  W = W
  R = R
  Z = Z
  Mints = {W, Z}
  WSol = W
  GasMints = {NoMint, Z}
  NoMint = NoMint
  Fee = 1
  Rent = 1
  Amounts = {1, 3}
  MaxDeposits = 2
  MaxWithdraws = 2
  MaxBatches = 2
INVARIANTS
  CustodyCovers
  PaidWasBurned
  
PROPERTIES
  ToolWaitEndsOnceSettled
CHECK_DEADLOCK FALSE
