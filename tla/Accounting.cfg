SPECIFICATION Spec
CONSTANTS
  Turns = {t1, t2}
  MaxRecent = 2
  MaxCrashes = 2
SYMMETRY Symmetry
CHECK_DEADLOCK FALSE
INVARIANTS
  TypeOK
  CountedOnce
  CostsBacked
  PremiumTotalsMatchHistory
  RecentShowsHistory
  UsageKeepsItsRow
PROPERTY
  LinesStay
