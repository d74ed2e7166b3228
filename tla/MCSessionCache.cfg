\* Two concurrent requests over two sessions of one account.
CONSTANTS
  u1 = u1
  Users = {u1}
  Tokens = {t1, t2}
  Owner <- OneOwner
  Requests = {p1, p2}
  MaxSessions = 1
  MaxWrites = 1
  MaxFlushes = 1

SPECIFICATION FairSpec

INVARIANTS
  TypeOK
  WritesAreSeen
  CleanSignOut
PROPERTIES
  SignOutIsFinal
