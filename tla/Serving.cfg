SPECIFICATION Spec
CONSTANTS
  Requests = {r1, r2}
  Shapes <- EngineAndCodex
SYMMETRY Symmetry
INVARIANTS
  TypeOK
  CountersTellTheTurns
  EveryTurnClassifiedOnce
  RowsTellTheOutcome
  BookedOnce
