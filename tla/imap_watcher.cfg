CONSTANTS
  MessageCount = 3
  Outsiders = {3}
  RefTo <- MCRefTo
  None = None
  OutboundMax = 1
  MaxFaults = 3
SPECIFICATION Spec
INVARIANTS NeverReprocessed OutsidersUnanswered StoreTellsReplies NoSilentLoss
PROPERTY EveryMessageHandled
CHECK_DEADLOCK FALSE
