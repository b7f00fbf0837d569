SPECIFICATION Spec
CONSTANTS
  A = A
  Payers = {A, Collector}
  Collector = Collector
  Vault = Vault
  Genesis <- MCGenesis
  Fee = 1
  RootHistory = 2
  TreeCapacity = 3
  MaxAmount = 2
  Dummies <- MCDummies
  MaxBlocks = 2
INVARIANTS
  TypeOK
  SpendOnce
  RingExact
  VaultCovers
  OnlySelfMovesMint
CHECK_DEADLOCK FALSE
