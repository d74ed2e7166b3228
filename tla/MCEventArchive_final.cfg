SPECIFICATION Spec
CONSTANTS
  Docs = {"roster"}
  TwoCalls = {"roster"}
  Versions = {v1, v2}
  ShortTTL = 1
  FarTTL = 2
  FarOff = 4
  EndedTTL = 2
  Retention = 3
  Lead = 6
  Slots = 1
  MaxWrites = 2
  MaxAge = 5
INVARIANT PermanentIsFinal
