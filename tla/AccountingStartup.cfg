SPECIFICATION Spec
CONSTANTS
  Turns = {t1}
  MaxRecent = 2
  MaxCrashes = 1
CHECK_DEADLOCK FALSE
INVARIANT
  CorruptLinesNeverFatal
