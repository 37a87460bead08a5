SPECIFICATION AdvertsSpec
CONSTANTS
  a1 = a1
  s1 = s1
  c1 = c1
  r1 = r1
  r2 = r2
  Adverts = {a1}
  Sweeps = {s1}
  Calls = {c1}
  Ops <- AllOps
  LiveDays = 3
  AlertDays <- Alerts
  PublishOffsets <- Around
  RenewOffsets <- RenewAround
  SweepOffsets <- SweepAround
  MaxDay = 4
  MaxOverlaps = 1
  MaxCrashes = 1
  Letters <- MCLetters
  Stems <- MCStems
  RoleNames <- MCRoleNames
  Texts <- MCTexts
  Searches <- MCSearches
  Drafts = {"d1", "d2"}
  Requests = {r1, r2}
  Contents = {"x", "y"}
  MaxItems = 2
  MaxUploads = 3
  MaxPosts = 2
  Listings = {"l1", "l2"}
  Limit = 1
  Runs = {r1, r2}
  MaxDays = 1
  MaxChanges = 1
  MaxTrouble = 1
INVARIANTS RecordAgrees DraftsHold
PROPERTIES SweepIsJust Expires DiscoveryHolds
CHECK_DEADLOCK FALSE
