SPECIFICATION AuthSpec
CONSTANTS
  c1 = c1
  c2 = c2
  p1 = p1
  p2 = p2
  t1 = t1
  t2 = t2
  Calls = {c1, c2}
  SessionLife = 2
  MfaLife = 1
  ChallengeLife = 1
  MaxFailed = 1
  CodesPerSet = 1
  MaxTime = 1
  MaxSessions = 2
  MaxChallenges = 1
  MaxCodeSets = 2
  MaxClosings = 1
  MaxUncounted = 1
  MaxTrouble = 1
  People = {p1, p2}
  Tenants = {t1, t2}
  Roles = {"OWNER", "EDITOR"}
  InviteLife = 1
  MaxClock = 1
  MaxInvites = 2
  MaxReleases = 2
SYMMETRY Symmetry
INVARIANTS ResetClosesSessions CodesHold MembersHold
CHECK_DEADLOCK FALSE
