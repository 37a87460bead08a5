SPECIFICATION RollupsSpec
CONSTANTS
  r1 = r1
  r2 = r2
  t1 = t1
  t2 = t2
  ke = ke
  gb = gb
  af = af
  eu = eu
  am = am
  emea = emea
  americas = americas
  n1 = n1
  n2 = n2
  Whole = Whole
  None = None
  Runs = {r1, r2}
  Tenants = {t1, t2}
  Countries = {ke, gb}
  ActiveCountries = {ke}
  Continents = {af, eu, am}
  continentCode <- MCContinentCode
  operationalRegions <- MCRegions
  Times <- MCTimes
  DayLength = 2
  Scopes <- MCScopes
  analyticsEventTypes = {"VIEW", "CLICK", "INQUIRY"}
  Entities = {n1, n2}
  TopSize = 1
  Samples <- MCSamples
  Sessions <- MCSessions
  MaxEvents = 2
  MaxTrouble = 1
SYMMETRY Symmetry
INVARIANTS ReportsHold
PROPERTIES RollupsAgree
CHECK_DEADLOCK FALSE
