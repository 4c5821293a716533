CONSTANTS
  Handler = {h1, h2}
  Label = {ssh}
  Assignee = {operator}
  Nobody = Nobody
  Keep = Keep
  Creates <- MCCreates
  Edits <- MCEdits
  LabelsMax = 2
  CommentsMax = 1
  MaxDay = 1
  MaxSeq = 2
  MaxTickets = 2
SPECIFICATION SerialSpec
PROPERTY ImplementsRegister
SYMMETRY HandlerSymmetry
