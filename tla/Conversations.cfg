SPECIFICATION FairConversationSpec
CONSTANTS
  c1 = c1
  s1 = s1
  Calls = {c1}
  Sweeps = {s1}
  SlaTicks = 0
  SoonTicks = 0
  SlaOffsets = {1}
  MaxTime = 2
  MaxMessages = 2
  ByHand = {"OPEN", "RESOLVED"}
  MaxTrouble = 1
PROPERTIES ConversationHolds OverdueIsWarned
CHECK_DEADLOCK FALSE
