SPECIFICATION Spec
CONSTANTS
  LittleEndian = TRUE
  Stale = 171
  Frames <- WireFrames
  Garbage <- Unset
INVARIANTS
  TypeOK
  ClassFits
  MethodsFitClass
  PayloadExact
  WithinCapture
  OptionsInOrder
  FieldsArrive
  OctetsOnWire
  DataArrives
  ChecksumsRight
