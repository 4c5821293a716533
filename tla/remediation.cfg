CONSTANTS
  Run = {r1, r2}
  Process = {p1}
  remote = remote
  Local = local
  Host = {local, remote}
  shellCheck = shellCheck
  proseCheck = proseCheck
  manual = manual
  Control = {shellCheck, proseCheck, manual}
  Fixable = {shellCheck, proseCheck}
  Checkable = {shellCheck, manual}
  willing = willing
  sandbox = sandbox
  Tenant = {willing, sandbox}
  Severity = {"medium", "high"}
  Action = {"email", "auto_remediate"}
  Top = 2
  Floor = 1
  Bad = Bad
  Unreadable = Unreadable
  SeverityOf <- MCSeverity
  File <- MCFile
  File0 <- Shipped
  MaxEdits = 1
  MaxRollbacks = 1
  Compliant0 = {}
  None = None
  Garbled = Garbled
  Asks <- MCAsks
SPECIFICATION Spec
INVARIANTS SnapshotFirst Gated TrailAgrees FailureShows
SYMMETRY MCSymmetry
CHECK_DEADLOCK FALSE
