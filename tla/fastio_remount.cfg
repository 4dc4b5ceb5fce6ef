SPECIFICATION Spec
CONSTANTS
  c1 = c1
  c2 = c2
  Caller <- Callers
  UsesOf <- Uses
  Dev = {d1, d2}
  NoDev = NoDev
  Nobody = Nobody
  Targets = {"sample", "full", "short"}
INVARIANT DetachesAttachment
CHECK_DEADLOCK FALSE
