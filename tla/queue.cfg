SPECIFICATION Spec
CONSTANTS
  Handlers = {h1, h2}
  Capacity = 2
  MaxPackets = 3
  MaxStarts = 2
  MaxChanges = 3
INVARIANTS
  HandledOnce
  HandledInOrder
PROPERTY
  Reaches
