SPECIFICATION Spec
CONSTANTS
  None = None
  Object = {o1, o2, o3}
  Writer = {w1}
  MaxInstances = 2
  RAW_SOCKET_ID = 99999
CHECK_DEADLOCK FALSE
INVARIANTS
  OneOwner
  OwnHandle
PROPERTY
  ImplementsPool
SYMMETRY Symmetry
