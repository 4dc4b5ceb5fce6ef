SPECIFICATION Spec
CONSTANTS
  Mount = {m1, m2}
  Recognised = {m1, m2}
  System = System
  MaxLoads = 1
INVARIANT FreesOnlyAllocated
CHECK_DEADLOCK FALSE
