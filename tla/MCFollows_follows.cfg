SPECIFICATION Spec
CONSTANTS
  Threads = {t1, t2}
  Remotes = {r1, r2}
  r1 = r1
  r2 = r2
  Policies <- BothPolicies
  Storages = {TRUE, FALSE}
  StorageFaults = TRUE
  Overlaps = {TRUE, FALSE}
  NoRemote = NoRemote
  NoDoc = NoDoc
SYMMETRY ThreadSymmetry
INVARIANTS CollectionCurrent PolicyHonoured SerialUndoWithdraws AcceptedIsFollower
