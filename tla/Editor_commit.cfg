SPECIFICATION Spec
CONSTANTS
  Views = {"left", "right"}
  ReadOnly = {}
  First = "p"
  Inner = "c"
  Platform = "windows"
  HiddenGrids = {"spans"}
  Measured = FALSE
  Letter = "x"
  Preedits = {"k"}
  Chip = "@"
  Content = {"a", "x", "@"}
  HostOwns = FALSE
  HostDocs <- MCDocs
  MaxRevision = 2
  Burst = 2
PROPERTIES
  CommitStaysInItsBlock
CHECK_DEADLOCK FALSE
