CONSTANTS
  Levels = {11, 12}
  Malformed = Malformed
  MaxBatch = 2
  MaxAlerts = 2
  MaxDay = 2
  SameDayRestart = FALSE
  Process = {p1}
SPECIFICATION PipelineSpec
INVARIANTS LoggedOnce AckedIsLogged IncidentDurable EndTells SameStory LoggedAtMostOnce
PROPERTIES NothingLeftBehind AlertHandled
CHECK_DEADLOCK FALSE
