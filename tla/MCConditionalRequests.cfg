SPECIFICATION Spec
CONSTANTS
  Requests = {r1, r2, r3}
  Urls = {info, page}
  Shared = {info}
  Capacity = 1
  MaxVersion = 2
INVARIANTS
  TypeOK
  ConfirmedIsCurrent
SYMMETRY Symmetry
