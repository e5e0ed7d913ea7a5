SPECIFICATION Spec
CONSTANTS
  x1 = x1
  x2 = x2
  us = us
  post = post
  o1 = o1
  o2 = o2
  o3 = o3
  t1 = t1
  t2 = t2
  Threads = {t1, t2}
  Actors <- MCActors
  Resources <- MCResources
  Objects <- MCObjects
  Inputs <- MCInputs
  Withdrawals <- MCWithdrawals
  Deletions <- MCDeletions
  Legacies <- MCLegacies
  Versions <- MCVersions
  Tags <- MCTags
  MaxCrashes = 1
  NoObject = NoObject
  NoFile = NoFile
  NoEntry = NoEntry
  NoPath = NoPath
  NoWork = NoWork
SYMMETRY SameThreads
INVARIANTS
  ConfirmedIsFound
  ObjectIndexSound
  NothingLost
PROPERTY
  ImplementsStore
