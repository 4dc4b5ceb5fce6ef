SPECIFICATION Spec
CONSTANTS
  Irp = {i1, i2}
  Sent <- AsyncWrites
  MaxSize = 1
INVARIANT
  PendingHasOwner
CHECK_DEADLOCK FALSE
