SPECIFICATION Spec
CONSTANTS
  A = A
  B = B
  Users = {A, B}
  Collector = collector
  Vault = vault
  None = None
  Fee = 1
  Rent = 1
  UserLamports <- MCLamports
  UserTokens <- MCTokens
  Payees <- MCPayees
  Amounts = {1}
  MaxSteps = 4
  MaxBlocks = 2
INVARIANTS
  TokensConservedUnlessOverlapped
  PoolBackedUnlessOverlapped
  LamportsAccountedUnlessOverlapped
