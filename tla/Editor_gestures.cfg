SPECIFICATION Spec
CONSTANTS
  Features = {"resize", "atoms", "clipboard"}
  Documents <- MCDocuments
  Selections <- MCSelections
  MaxRevision <- MCMaxRevision
  MaxEpoch <- MCMaxEpoch
  Widths = {1, 2, 3}
  Widest = 2
  Screens <- MCScreens
  MaxGestures = 1
  MaxConfigurations = 1
  MaxCapability = 2
  ReadOnly = FALSE
  MaxChanges <- MCMaxChanges
INVARIANT CacheIsTransparent
PROPERTIES
  CommitIsMeasured
  ReleaseSettles
  ActivationShowsTheDocument
  ImportLandsWhereItWasAsked
CHECK_DEADLOCK FALSE
