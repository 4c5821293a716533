CONSTANTS
  Levels = {11, 12}
  Malformed = Malformed
  MaxBatch = 2
  MaxAlerts = 4
  MaxDay = 2
  SameDayRestart = TRUE
SPECIFICATION Spec
INVARIANT IncidentDurable
CHECK_DEADLOCK FALSE
