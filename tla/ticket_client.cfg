CONSTANTS
  Handler = {h1, h2}
  Call = {c1, c2}
  None = None
  Label = {ssh}
  Assignee = {operator}
  Nobody = Nobody
  Keep = Keep
  Creates <- MCCreates
  Edits <- MCEdits
  Asks <- MCAsks
  LabelsMax = 2
  CommentsMax = 1
  MaxDay = 2
  MaxSeq = 3
  MaxTickets = 4
SPECIFICATION ClientSpec
INVARIANTS UniqueIds RecordsSound CarriedOut
PROPERTIES GateShut CallsReturn
CHECK_DEADLOCK FALSE
