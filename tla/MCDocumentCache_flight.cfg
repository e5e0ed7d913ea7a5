SPECIFICATION FairSpec
CONSTANTS
  Callers = {c1, c2, c3}
  Invalidators = {i1}
  Keys = {k1}
  Slots = {s1, s2}
  Ttls = {TRUE}
  Missing <- FirstVersionMissing
  MissTtl = FALSE
  StaleFactor = TRUE
  WaitTimeout = TRUE
  StoreFaults = TRUE
  Clearing = TRUE
  MaxGeneration = 1
  NoSlot = NoSlot
  NoEntry = NoEntry
  NoOne = NoOne
  Pending = Pending
  Failed = Failed
  NoResult = NoResult
INVARIANTS SingleFlightUntilClear WaitersServed NoCircularWait
PROPERTY CallsReturn
