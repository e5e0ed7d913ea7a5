SPECIFICATION Spec
CONSTANTS
  Threads = {t1, t2}
  x1 = x1
  x2 = x2
  o1 = o1
  o2 = o2
  o3 = o3
  post = post
  elsewhere = elsewhere
  d1 = d1
  d2 = d2
  Us = Us
  Actors = {x1, x2, Us}
  Resources = {x1, x2, Us, o1, o2, o3, post, elsewhere}
  Objects = {o1, o2, o3}
  LocalResources = {Us, post}
  Domain <- Domains
  Workloads <- AllWorkloads
  Configs <- LaxAndStrict
  StoreFaults = TRUE
  CallbackPanics = TRUE
  NoObject = NoObject
  NoResource = NoResource
  NoActivity = NoActivity
  NoDomain = NoDomain
SYMMETRY ThreadSymmetry
INVARIANTS CreatedRowsEligible StoredWasTold DeletedStaysDeleted RetractedStaysRetracted AcceptsAuthorized
PROPERTY OwnRowsOnly
