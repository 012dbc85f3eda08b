SPECIFICATION Spec
CONSTANTS
  c1 = c1
  c2 = c2
  None = None
  Code = {c1, c2}
  RequiresOnline = {c2}
  CanOverride = TRUE
  Source = {"camera"}
INVARIANTS
  BlockedOnlyOffline
