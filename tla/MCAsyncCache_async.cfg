SPECIFICATION AsyncSpec
CONSTANTS
  Callers = {c1}
  Invalidators = {i1}
  Keys = {k1}
  Slots = {s1}
  Tasks = {a1, a2}
  Flights = {f1, f2}
  Ttls = {TRUE}
  Missing <- FirstVersionMissing
  MissTtl = TRUE
  StaleFactor = TRUE
  WaitTimeout = TRUE
  StoreFaults = TRUE
  Clearing = TRUE
  MaxGeneration = 1
  NoSlot = NoSlot
  NoEntry = NoEntry
  NoOne = NoOne
  Pending = Pending
  Failed = Failed
  NoResult = NoResult
  Cancelled = Cancelled
  NoFlight = NoFlight
SYMMETRY Interchangeable
INVARIANTS NoStaleStore OwnReadsSeeInvalidations TasksSeeInvalidations TasksServed
