SPECIFICATION Spec
CONSTANTS
  Users = {u1, u2}
  Requests = {r1, r2}
  Calls = {c1, c2}
  Nobody = Nobody
INVARIANTS
  TypeOK
  BootstrapHeals
  FriendsAgree
PROPERTY RejectedIsOut
SYMMETRY Symmetry
CONSTRAINT TwoAtOnce
