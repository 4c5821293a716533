CONSTANTS
  l1 = l1
  l2 = l2
  b1 = b1
  a1 = a1
  a2 = a2
  Locking = {l1, l2}
  Bare = {b1}
  Annotator = {a1, a2}
  Target <- MCTarget
  First = First
  None = None
  Meta <- MCMeta
  DefaultTenant = "acme"
  Monitored = {"mail", "vader"}
  Limit = 1
  MaxLoad = 3
  MaxClock = 1
SPECIFICATION QSpec
INVARIANTS ReadBack NotesShown PagerSeesAll
CHECK_DEADLOCK FALSE
SYMMETRY MCSymmetry
