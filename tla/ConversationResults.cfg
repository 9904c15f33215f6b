SPECIFICATION Spec
CONSTANTS
  DefaultTools <- MCDefaultTools
  Calls <- MCCalls
  NameOf <- MCNameOf
  Freeform <- MCFreeform
  Configs <- MCConfigs
  MaxMessages = 6
CHECK_DEADLOCK FALSE
INVARIANT OnlyOrphansDropped
