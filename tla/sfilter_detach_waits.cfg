SPECIFICATION Spec
CONSTANTS
  Irp = {r1}
  FsdDev = {fsd}
  VolumeDev = {}
  ControlDev = control
  NoDev = NoDev
  Attacher = Attacher
  Detacher = Detacher
  Nobody = Nobody
  SentKind = {"default"}
  UpdatesOperand = FALSE
PROPERTY
  DetachAwaitsRequests
CHECK_DEADLOCK FALSE
