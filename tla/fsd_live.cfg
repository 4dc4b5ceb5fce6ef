SPECIFICATION Spec
CONSTANTS
  Irp = {i1, i2}
  Sent <- Ending
  MaxSize = 1
PROPERTIES
  RequestsCompleted
  LivesAsPromised
CHECK_DEADLOCK FALSE
