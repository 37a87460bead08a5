SPECIFICATION FinanceSpec
CONSTANTS
  h1 = h1
  h2 = h2
  a1 = a1
  a2 = a2
  none = none
  Handlers = {h1, h2}
  Actors = {a1, a2}
  NoActor = none
  Dues <- MCDues
  Amounts <- MCAmounts
  Thresholds <- MCThresholds
  AttachKinds = {"FILING_CONFIRMATION", "REMITTANCE_RECEIPT", "ACCOUNTANT_NOTES"}
  MaxCorrections = 2
  MaxOverlaps = 2
SYMMETRY Symmetry
INVARIANTS EvidenceBacked RecordsBehindReturn LockedUnderDualControl CorrectionChain
PROPERTIES GatesHoldAlone TaxesHold
CHECK_DEADLOCK FALSE
