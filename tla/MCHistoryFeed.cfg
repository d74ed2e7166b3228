SPECIFICATION Spec
CONSTANTS
  Requests = {r1, r2}
  MaxPages = 2
  Lifetime = 2
  Backoff = 1
  MinInvalidate = 1
  MaxListed = 3
  MaxWrites = 2
  MaxAge = 4
INVARIANTS
  TypeOK
  SeenInTime
  CleanRefresh
SYMMETRY Symmetry
