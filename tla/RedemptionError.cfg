SPECIFICATION Spec
CONSTANTS
  k1 = k1
  k2 = k2
  k3 = k3
  c1 = c1
  r1 = r1
  r2 = r2
  None = None
  Unknown = Unknown
  Client = {k1, k2, k3}
  Device = {k1, k2, k3}
  Code = {c1}
  Request = {r1, r2}
  Caller = {r1, r2}
  CodeOf <- OneCode
  Override = {k2}
  MaxRetries = 1
INVARIANTS
  ErrorMeansNotRedeemed
CHECK_DEADLOCK FALSE
