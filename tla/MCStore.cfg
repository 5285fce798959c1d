SPECIFICATION StoreSpec
CONSTANTS
  Keys = {k1, k2}
  Vals = {v1, v2}
  Items = {x1}
  Void = Void
INVARIANTS StoreTypeOK CopiesAgree Acknowledged
PROPERTY TableSpec
