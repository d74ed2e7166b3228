\* Two keys over a capacity of one; one request goroutine.
CONSTANTS
  Keys = {k1, k2}
  Callers = {c1}
  Workers = {}
  Ttls = {1, 2}
  MaxTtl = 2
  GoneTTL = 2
  Backoff = 1
  MinInvalidate = 1
  FetchTimeout = 1
  RowDelay = 1
  MaxEntries = 1
  MaxAge = 5

SYMMETRY KeySymmetry
SPECIFICATION Spec

INVARIANTS
  WithinCapacity
PROPERTIES
  FreshOutlivesExpired
