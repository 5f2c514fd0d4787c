SPECIFICATION Spec
CONSTANTS
  None = None
  Isolated = Isolated
  Keep = Keep
  Stores <- MCStores
  Selections <- MCSelections
  Nodes = {"p"}
  Delay = None
  InitialStore <- InitStore
  InitialSelection <- InitCaret
  ValidAt <- MCValidAt
  Carets <- MCCarets
  CellRanges <- MCCellRanges
  LeadingCaret <- MCLeadingCaret
  MarkSets = {}
  TypingPlans <- MCTypingPlans
  CaretPlans <- MCCaretPlans
  Plans <- MCPlans
  StructuralPlans <- MCStructuralPlans
  HostPlans = {}
  CutPlans <- MCCutPlans
  Amendments <- MCAmendments
  Reversals <- MCReversals
  Times = {}
  ConsumePending = FALSE
  CaptureOnTraversal = TRUE
  PreserveEditingState = FALSE
  PreserveGroupOnMove = FALSE
  MaxRevision = 3
  InitLen = 1
  MaxLen = 1
  MaxRows = 2
  WithAmendments = TRUE
  WithReversals = FALSE
INVARIANTS
  HistoryReplays
  IInv
PROPERTIES
  OutcomeIsHonest
  ImplementsTimeline
CHECK_DEADLOCK FALSE
