SPECIFICATION FairSpec
CONSTANTS
  a1 = a1
  a2 = a2
  a3 = a3
  a4 = a4
  b1 = b1
  b2 = b2
  c1 = c1
  c2 = c2
  blank = blank
  A = A
  B = B
  C = C
  NoSig = NoSig
  NoPayer = NoPayer
  Txs <- MCTxs
  Sigs <- MCSigs
  Payers <- MCPayers
  SigOf <- MCSigOf
  PayerOf <- MCPayerOf
  Capacity = 4
  MaxPerPayerOpt = 2
  MaxBlock = 2
INVARIANTS
  QueueIndexed
  PayersCounted
  FullNeedsManyPayers
PROPERTIES
  NoOvertaking
  EventuallyDrained
