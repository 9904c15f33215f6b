SPECIFICATION Spec
CONSTANTS
  Paths = {"home", "project"}
  HermesPath = "home"
  Written <- MCWritten
INVARIANTS
  TypeOK
  OffRestores
  OtherSettingsStay
  NeverStranded
