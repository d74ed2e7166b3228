\* An owner and a spectator, two links' worth of tokens, two requests.
CONSTANTS
  Sharers = {u1}
  Spectators = {u2}
  Tokens = {t1, t2}
  Requests = {p1, p2}
  Picked = Picked
  MaxEntries = 1

SPECIFICATION FairSpec

INVARIANTS
  TypeOK
  SpectatorsLoseIt
  CleanRevocation
PROPERTIES
  NeverRevived
  RevocationSettles
