SPECIFICATION Spec
CONSTANTS
  Keys <- MCKeys
  Usages <- MCUsages
  Raising <- MCRaising
  Responses <- MCResponses
CHECK_DEADLOCK FALSE
INVARIANTS
  TypeOK
  UsageWhateverTheChunks
  UsageIsStated
  OnlyUnreadableBreaks
