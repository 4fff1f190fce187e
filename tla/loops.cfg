SPECIFICATION Spec
CONSTANTS
  Captors = {c1, c2}
  Threads = {t1, t2}
  Counts <- OneAndEndless
  MaxDepth = 2
  MaxCalls = 3
SYMMETRY Symmetry
INVARIANT
  OwnReceiver
  RefsInUse
