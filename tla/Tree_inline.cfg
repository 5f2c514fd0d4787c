SPECIFICATION Spec
CONSTANTS
  Deleted = Deleted
  Root = 0
  FirstStore <- InlineStore
  FirstNext = 4
  Ops = {"AddMark", "RemoveMark", "ReplaceText", "ReplaceInlineText", "InsertInlineAtom", "RemoveInlineAtom", "SetInlineAtomMarks", "SplitNode", "SplitInlineNode", "JoinNodes"}
  Texts <- MCTexts
  Marks <- TwoMarks
  MarkKinds <- MCKinds
  InsertedKinds = {}
  ChangedKinds = {}
  AttrValues = {"none"}
  NoAttrs = "none"
  AtomKinds = {"HardBreak", "Mention"}
  HardBreak = "HardBreak"
  MaxEdits = 2
  MaxSteps = 2
  MaxRevision = 3
INVARIANTS
  InverseReplays
  EveryStepKeepsTheTree
  MappedPositionsLive
  NoPositionOvertakes
CHECK_DEADLOCK FALSE
