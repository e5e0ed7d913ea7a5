SPECIFICATION Spec
CHECK_DEADLOCK FALSE
CONSTANTS
  Threads = {t1, t2}
  t1 = t1
  t2 = t2
  alice = alice
  relay = relay
  bob = bob
  here = here
  there = there
  Remotes = {alice, relay, bob}
  DomainOf <- MCDomainOf
  Allowed = {here, there}
  Blocked = {there}
  Listed <- MCListed
  MaxAge = 1
  MaxSkew = 1
  FetchTime = 1
  StorageFaults = TRUE
  MaxTime = 6
  NoActor = NoActor
  NoDomain = NoDomain
  NoCopy = NoCopy
  NoRequest = NoRequest
  Users = {"pub", "bo"}
  Canonical <- MCCanonical
  Lowercase <- MCLowercase
  Instance = "pub"
  Activities = {"upub", "ubo"}
  AuthorOf <- MCAuthorOf
  UpdateOf <- MCUpdateOf
  Quotes = {"quote"}
  Followers = {alice}
  MaxEdits = 1
  Nobody = Nobody
  NoEntry = NoEntry
  Missing = Missing
  Setups <- DiscoverySetups
  Shared = Shared
  Foreign = Foreign
INVARIANT MalformedIsUncached
