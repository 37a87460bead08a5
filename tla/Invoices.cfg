SPECIFICATION InvoicesSpec
CONSTANTS
  h1 = h1
  h2 = h2
  Total = 2
  Handlers = {h1, h2}
  ClientKeys <- MCClientKeys
  Adapters = {"stripe", "africastalking"}
  Stated = {1, 3}
  MaxDisturbances = 1
  MaxPayments = 3
  MaxCharges = 2
  MaxRefunds = 2
  Books = {"payment", "tenant"}
  References = {"x", "y"}
  Days <- MCDays
  MaxDocuments = 3
SYMMETRY Symmetry
INVARIANTS InvoiceMoneyAccounted NothingDoneTwice
CHECK_DEADLOCK FALSE
