SPECIFICATION Spec
CONSTANTS
  None = None
  Object = {o1}
  Writer = {w1}
  MaxInstances = 1
  RAW_SOCKET_ID = 99999
CHECK_DEADLOCK FALSE
INVARIANT
  CaptorOutlivesWriter
