SPECIFICATION Spec
CONSTANTS
  p1 = p1
  p2 = p2
  u1 = u1
  u2 = u2
  a1 = a1
  a2 = a2
  c1 = c1
  c2 = c2
  Door = Door
  None = None
  Code = {c1}
  Attempt = {a1, a2}
  Caller = {a1, a2, Door}
  Phone = {p1, p2}
  User = {u1, u2}
  Device = {u1, u2, Door}
  Owner <- SharedUser
  MaySwitch = FALSE
  MaySlip = FALSE
  MaxCloses = 1
INVARIANTS
  OneAcceptedPerCode
CHECK_DEADLOCK FALSE
