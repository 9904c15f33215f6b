SPECIFICATION Spec
CONSTANTS
  Groups = {"claude_code", "hermes"}
  Tick = 1
  ReadsFail = TRUE
  MaxWrites = 2
INVARIANTS
  TypeOK
  ServesWhatWasThere
