SPECIFICATION AccountsSpec
CONSTANTS
  Users = {u1, u2}
  Requests = {r1, r2}
  Nobody = Nobody
PROPERTY RefusedChangesNothing
