SPECIFICATION Spec
CONSTANTS
  Threads = {t1, t2}
  Remotes = {r1, r2}
  r1 = r1
  r2 = r2
  Policies <- BothHeld
  Storages = {TRUE}
  StorageFaults = FALSE
  Overlaps = {TRUE}
  NoRemote = NoRemote
  NoDoc = NoDoc
SYMMETRY ThreadSymmetry
INVARIANTS UndoWithdraws
