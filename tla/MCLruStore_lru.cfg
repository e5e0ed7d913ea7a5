SPECIFICATION Spec
CONSTANTS
  Threads = {t1, t2}
  Keys = {k1, k2, k3}
  MaxEntries = 2
  SweepInterval = 2
  Lifetimes = {1, 2}
  MaxTime = 2
  MaxTick = 5
  NoKey = NoKey
SYMMETRY Symmetric
INVARIANTS CapacityHeld
PROPERTIES LiveEntriesKept ImplementsLru
