SPECIFICATION FairSpec
CONSTANTS
  Requests = {r1}
  Shapes <- AllShapes
INVARIANTS
  GuardHonoured
  OauthStaysOutOfEngine
  NoResponseLeaks
PROPERTIES
  PremiumIsFinal
  FailsOpen
  EveryTurnEnds
