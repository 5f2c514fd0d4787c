SPECIFICATION Spec
CONSTANTS
  Deleted = Deleted
  Root = 0
  FirstStore <- TaskStore
  FirstNext = 4
  Ops = {"SetNodeKind", "InsertNode"}
  Texts <- MCTexts
  Marks <- OneMark
  MarkKinds <- MCKinds
  InsertedKinds = {"Paragraph"}
  ChangedKinds = {"BulletList", "ListItem", "TaskList", "TaskItem"}
  AttrValues = {"none"}
  NoAttrs = "none"
  AtomKinds = {"HardBreak", "Mention"}
  HardBreak = "HardBreak"
  MaxEdits = 2
  MaxSteps = 2
  MaxRevision = 3
INVARIANTS
  InverseReplays
CHECK_DEADLOCK FALSE
