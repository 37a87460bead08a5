SPECIFICATION Spec
CONSTANTS
  d1 = d1
  d2 = d2
  c1 = c1
  c2 = c2
  Drafts = {d1, d2}
  Calls = {c1, c2}
  Contents <- MCContents
  highRiskProfileIndustryCodes = {"HEALTH"}
  highReviewRoles = {"FINANCIER"}
  MaxMedia = 1
  MaxVersions = 2
  MaxTrouble = 1
SYMMETRY Symmetry
PROPERTIES LiveInOrder
CHECK_DEADLOCK FALSE
