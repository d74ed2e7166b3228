\* One key, two request goroutines and one background goroutine.
CONSTANTS
  Keys = {k1}
  Callers = {c1, c2}
  Workers = {w1}
  Ttls = {2}
  MaxTtl = 2
  GoneTTL = 2
  Backoff = 1
  MinInvalidate = 1
  FetchTimeout = 1
  RowDelay = 1
  MaxEntries = 1
  MaxAge = 5

SPECIFICATION FairSpec

INVARIANTS
  TypeOK
  SingleFlight
  StaleBound
  FailureIsNewest
PROPERTIES
  Paced
  Implements
