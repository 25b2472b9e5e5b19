\* Two links at a time.
SPECIFICATION Spec
CONSTANTS
  MaxId = 3
  Requests = {r1, r2}
  Deletable = {}
  NoRow = NoRow
  Idle = Idle
INVARIANT
  OneHop
