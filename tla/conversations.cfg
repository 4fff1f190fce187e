SPECIFICATION Spec
CONSTANTS
  Address = {a, b, c}
  MaxCapture = 4
SYMMETRY Symmetry
INVARIANTS
  AllConversations
  ShownOnce
