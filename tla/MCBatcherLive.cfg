SPECIFICATION FairSpec
CONSTANTS
  Interval = 2
  RangeLimit = 2
  MaxSlot = 2
  MaxFaults = 2
  Others <- MCOthers
PROPERTIES
  EventuallySettled
CHECK_DEADLOCK FALSE
