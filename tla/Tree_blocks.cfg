SPECIFICATION Spec
CONSTANTS
  Deleted = Deleted
  Root = 0
  FirstStore <- BlockStore
  FirstNext = 6
  Ops = {"InsertNode", "RemoveNode", "SetNodeAttrs", "SetNodeKind", "SplitNode", "SplitInlineNode", "JoinNodes"}
  Texts <- MCTexts
  Marks <- OneMark
  MarkKinds <- MCKinds
  InsertedKinds = {"Paragraph", "ListItem", "Quote", "Rule"}
  ChangedKinds = {"Paragraph", "Heading"}
  AttrValues = {"none", "one"}
  NoAttrs = "none"
  AtomKinds = {"HardBreak", "Mention"}
  HardBreak = "HardBreak"
  MaxEdits = 2
  MaxSteps = 2
  MaxRevision = 3
INVARIANTS
  InverseReplays
  IdsNeverReused
CHECK_DEADLOCK FALSE
