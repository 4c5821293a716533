CONSTANTS
  i1 = i1
  i2 = i2
  i3 = i3
  Tenant = {soc}
  Incident = {i1, i2, i3}
  Alert <- MCAlert
  Stored <- MCStored
  Absent = Absent
  Freshness <- MCFreshness
  Form <- MCForm
  Instant <- MCInstant
  Now = 2
  TopK = 2
  MaxRecords = 2
  MaxTs = 4
  MaxAdds = 4
SPECIFICATION MemorySpec
INVARIANTS LastWordFound MostRecentKept
CHECK_DEADLOCK FALSE
