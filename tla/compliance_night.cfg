CONSTANTS
  TenantCount = 2
  h1 = h1
  h2 = h2
  Host = {h1, h2}
  rule1 = rule1
  rule2 = rule2
  Rule = {rule1, rule2}
  access = access
  audit = audit
  Control = {access, audit}
  None = None
  Refs <- MCRefs
  Applicable <- MCApplicable
  Fixable = {audit}
  Willing = {1}
  Permits <- MCPermits
  LocalPass = TRUE
  FleetPass = TRUE
  Allowlist = {h1}
  Days <- MCDays
  Findings = {audit}
  MaxFaults = 1
  MaxRuns = 2
  MaxRequests = 1
SPECIFICATION Spec
PROPERTIES FailHasHost AppliedIsGraded OkIsFresh FixStands
CHECK_DEADLOCK FALSE
