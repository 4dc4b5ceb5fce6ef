SPECIFICATION Spec
CONSTANTS
  Irp = {r1, r2}
  FsdDev = {fsd}
  VolumeDev = {volume}
  ControlDev = control
  NoDev = NoDev
  Attacher = Attacher
  Detacher = Detacher
  Nobody = Nobody
  SentKind <- EveryKind
  UpdatesOperand = TRUE
INVARIANTS
  NoLostWakeup
PROPERTIES
  DetachTerminates
CHECK_DEADLOCK FALSE
