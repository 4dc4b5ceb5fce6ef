SPECIFICATION Spec
CONSTANTS
  Irp = {r1, r2}
  FsdDev = {fsd}
  VolumeDev = {volume}
  ControlDev = control
  NoDev = NoDev
  Attacher = Attacher
  Detacher = Detacher
  Nobody = Nobody
  SentKind <- EveryKind
  UpdatesOperand = FALSE
INVARIANTS
  TypeOK
  CountedWhileAttached
  CountsBalance
  RefusedOnlyAfterDetach
  VolumeNotMarkedFsd
PROPERTIES
  DevicesAreGates
  RequestsAnswered
CHECK_DEADLOCK FALSE
