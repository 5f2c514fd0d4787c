SPECIFICATION Spec
CONSTANTS
  Views = {"left", "right"}
  ReadOnly = {"right"}
  First = "p"
  Inner = "c"
  Platform = "linux"
  HiddenGrids = {"spans"}
  Measured = FALSE
  Letter = "x"
  Preedits = {"k"}
  Chip = "@"
  Content = {"a", "x", "@"}
  HostOwns = TRUE
  HostDocs <- MCDocs
  MaxRevision = 2
  Burst = 2
INVARIANTS
  IdleMethodBlocksNoKey
  OneComposition
  CompositionEntersOnce
PROPERTIES
  HiddenCellUntouched
CHECK_DEADLOCK FALSE
