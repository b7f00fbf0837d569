SPECIFICATION TreesSpec
CONSTANTS
  a1 = a1
  a2 = a2
  a3 = a3
  a4 = a4
  SmtDepth = 3
  WDepth = 2
  Pubkeys = {a1, a2, a3, a4}
  PathOf <- MCPathOf
  Hashes = {h1, h2}
  None = None
  EmptyHash = EmptyHash
  EmptyLeaf = EmptyLeaf
  MaxUpdates = 3
  MaxWithdrawals = 3
  Depth = 3
  Commitments = {c1, c2}
INVARIANTS
  StateTreeIsReference
  ProofsExact
  ClaimProofsExact
  InclusionSound
CHECK_DEADLOCK FALSE
