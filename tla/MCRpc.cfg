SPECIFICATION MCFairSpec
CONSTANTS
  x = x
  y = y
  z = z
  a = a
  b = b
  alice = alice
  Sigs = {x, y, z}
  Addrs = {a, b}
  Subscribers = {s1}
  Lists <- MCLists
  Rank <- MCRank
  Holder <- MCHolder
  None = None
  Bodies <- MCBodies
  Word = 9
  Capacity = 1
  Limit = 2
  ScanLimit = 1
  MaxSlot = 3
  MaxTxs = 2
  MaxRounds = 2
  MaxPages = 6
  MaxRestarts = 1
  BatchSize = 2
  MaxFaults = 2
CHECK_DEADLOCK FALSE
INVARIANTS
  PushedUnlessLagged
  AnswersWithinContext
  PagesExactUnlessRepeated
  IndexedUpToCursor
  AddressesIndexedUnlessSwallowed
PROPERTIES
  SignatureNotifiedUnlessMissed
  BlocksEventuallyIndexed
