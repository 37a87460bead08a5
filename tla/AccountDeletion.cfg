SPECIFICATION FairSpec
CONSTANTS
  a1 = a1
  a2 = a2
  t1 = t1
  t2 = t2
  c1 = c1
  s1 = s1
  s2 = s2
  Accounts = {a1, a2}
  Tenants = {t1, t2}
  TenantOf <- Tenancy
  Stuck = {t2}
  Calls = {c1}
  Sweeps = {s1, s2}
  GraceDays = 1
  Limit = 2
  MaxDay = 2
  MaxRequests = 2
  MaxOverlaps = 1
  MaxFaults = 1
PROPERTIES ErasureIsJust DueIsSettled
CHECK_DEADLOCK FALSE
