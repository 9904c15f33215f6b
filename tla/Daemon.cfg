SPECIFICATION FairSpec
CONSTANTS
  Clients = {c1, c2}
  Pids = {p1, p2}
  NoPid = NoPid
  NoClient = NoClient
INVARIANTS
  TypeOK
  DaemonsAreTracked
  StoppedMeansStopped
  FailedStartLeavesNothing
PROPERTY
  EveryCommandReturns
