SPECIFICATION SourcesSpec
CONSTANTS
  t1 = t1
  t2 = t2
  s1 = s1
  x1 = x1
  x2 = x2
  r1 = r1
  r2 = r2
  k1 = k1
  k2 = k2
  c1 = c1
  n1 = n1
  NoTenant = NoTenant
  Tenants = {t1, t2}
  Searches = {s1}
  Owner <- MCOwner
  Sources = {x1, x2}
  Place <- MCPlace
  Score <- MCScore
  opportunityAlertMinScore = 2
  Limits = {1, 2}
  DefaultLimit = 2
  Claims = {c1}
  ClaimInputs <- MCClaimInputs
  Reports = {n1}
  Sweeps = {r1, r2}
  Calls = {k1, k2}
  MaxCalls = 5
  MaxSearches = 3
  MaxTrouble = 1
INVARIANTS SearchesHold
PROPERTIES NoticesAndDecisions Alerted
CHECK_DEADLOCK FALSE
