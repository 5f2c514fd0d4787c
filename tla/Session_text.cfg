SPECIFICATION Spec
CONSTANTS
  None = None
  Isolated = Isolated
  Keep = Keep
  Stores <- MCStores
  Selections <- MCSelections
  Nodes = {"p"}
  Delay = 1
  InitialStore <- InitStore
  InitialSelection <- InitCaret
  ValidAt <- MCValidAt
  Carets <- MCCarets
  CellRanges <- MCCellRanges
  LeadingCaret <- MCLeadingCaret
  MarkSets = {Bold}
  TypingPlans <- MCTypingPlans
  CaretPlans <- MCCaretPlans
  Plans <- MCPlans
  StructuralPlans <- MCStructuralPlans
  HostPlans <- MCHostPlans
  CutPlans <- MCCutPlans
  Amendments <- MCAmendments
  Reversals <- MCReversals
  Times = {0, 1, 2}
  ConsumePending = TRUE
  CaptureOnTraversal = FALSE
  PreserveEditingState = TRUE
  PreserveGroupOnMove = TRUE
  MaxRevision = 3
  InitLen = 0
  MaxLen = 2
  MaxRows = 1
  WithAmendments = FALSE
  WithReversals = FALSE
INVARIANTS
  SelectionValid
  OpenGroupIsNewest
  ListenersInSync
  TypingUnitIsOneInsertion
PROPERTIES
  TimedUnits
CHECK_DEADLOCK FALSE
