SPECIFICATION Spec
CONSTANTS
  Features = {"reading"}
  Documents <- MCDocuments
  Selections <- MCSelections
  MaxRevision <- MCMaxRevision
  MaxEpoch <- MCMaxEpoch
  Sizes <- MCSizes
  Ranges <- MCRanges
  HighlightLists <- MCHighlightLists
  MaxReveals = 2
  MaxChanges = 2
INVARIANT ReadingIsInPlace
PROPERTIES RevealSettles
CHECK_DEADLOCK FALSE
