SPECIFICATION FairSpec
CONSTANTS
  a1 = a1
  x1 = x1
  x2 = x2
  x3 = x3
  x4 = x4
  i1 = i1
  i2 = i2
  i3 = i3
  i4 = i4
  NoInbox = NoInbox
  NoDoc = NoDoc
  Activities = {a1}
  Actors = {x1, x2, x3, x4}
  Inboxes = {i1, i2, i3, i4}
  InboxOf <- OwnInboxes
  SharedInboxOf <- SharedInboxes
  Blocked = {i4}
  ToFollowers = {a1}
  Recipients <- OneMention
  Modes = {"sync", "async", "callback"}
  MaxWorkers = 2
  MaxRetries = 2
  StorageFaults = TRUE
  Panics = TRUE
  MaxPublishes = 1
INVARIANTS SoleDeliverer SuccessIsLast SteadyFollowersServed DeliveredIsPublic EveryAttemptReported
PROPERTIES FanOutEnds
