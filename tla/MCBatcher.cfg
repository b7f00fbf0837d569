SPECIFICATION Spec
CONSTANTS
  Interval = 2
  RangeLimit = 2
  MaxSlot = 3
  MaxFaults = 2
  Others <- MCOthers
INVARIANTS
  RecordFaithful
  RootsGrow
  DataAvailable
PROPERTIES
  SettlesPrefix
CHECK_DEADLOCK FALSE
