SPECIFICATION Spec
CONSTANTS
  Irp = {i1, i2}
  Sent <- Anything
  MaxSize = 2
INVARIANTS
  TypeOK
  CompletedOnce
  ResourcesReleased
  OpenCountConsistent
  PatternStoredOnce
  LazyWriterHoldsFile
PROPERTY
  SizeFixed
  AcquiredInOrder
SYMMETRY Symmetry
CHECK_DEADLOCK FALSE
