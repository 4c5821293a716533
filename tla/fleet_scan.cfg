CONSTANTS
  h1 = h1
  h2 = h2
  r1 = r1
  r2 = r2
  c1 = c1
  Host = {h1, h2}
  Rule = {r1, r2}
  Control = {c1}
  RefOf <- MCRefOf
  Registered = {h1}
  Extra = {h2}
  RootOnly = {r1}
  Ignored <- MCIgnored
  None = None
  Torn = Torn
  MaxRuns = 2
  MaxFaults = 1
SPECIFICATION Spec
INVARIANTS OneHostFails IgnoredStaysOut
PROPERTY ExcludedUntouched
CHECK_DEADLOCK FALSE
