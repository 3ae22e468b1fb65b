CONSTANTS
  Requests = {r1, r2, r3, r4}
  Keys = {k1, k2}
  Values = {v1, v2}
  None = None
  Expired = Expired
SPECIFICATION Spec
INVARIANT IInv
PROPERTY Coalesces
CHECK_DEADLOCK FALSE
