SPECIFICATION PaymentsSpec
CONSTANTS
  t1 = t1
  t2 = t2
  t3 = t3
  Txns = {t1, t2, t3}
  Unruly = {t3}
  Invoices <- MCInvoices
  ZeroDecimal = {"UGX"}
  ThreeDecimal = {"KWD"}
  ProviderUnit <- MCUnit
  Deployments <- MCDeployments
  MaxBooked = 3
  MaxDeploys = 1
  MaxFaults = 1
INVARIANTS SuccessIsReal AskedIsRecorded RailsHold
PROPERTIES FollowsFSM CheckoutSettles
CHECK_DEADLOCK FALSE
