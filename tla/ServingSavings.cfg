SPECIFICATION Spec
CONSTANTS
  Requests = {r1}
  Shapes <- AllShapes
INVARIANT
  SavingsHappened
