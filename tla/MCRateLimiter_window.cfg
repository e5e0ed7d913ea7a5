SPECIFICATION Spec
CONSTANTS
  Threads = {t1, t2, t3}
  Keys = {k1}
  MaxRequests = 2
  Window = 3
  MaxDelay = 1
  MaxTime = 6
SYMMETRY ThreadSymmetry
INVARIANTS TypeOK WindowBound
PROPERTY RefusalJustified
