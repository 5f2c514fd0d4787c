SPECIFICATION EditorSpec
CONSTANTS
  Deleted = Deleted
  Root = 0
  FirstStore <- MixedStore
  FirstNext = 6
  Ops = {}
  Texts <- MCTexts
  Marks <- MCMarks
  MarkKinds <- MCKinds
  InsertedKinds = {}
  ChangedKinds = {"Paragraph", "Heading", "BulletList", "OrderedList"}
  AttrValues = {"open", "done"}
  NoAttrs = "none"
  AtomKinds = {"HardBreak", "Mention"}
  HardBreak = "HardBreak"
  MaxEdits = 1
  MaxSteps = 0
  MaxRevision = 2
  MaxMoves = 1
  Later = {}
  Scenes <- MCScenes
  Slices <- MCSlices
  DisplayWidth <- MCDisplayWidth
  Samples <- MCSamples
  ReadingOptions <- MCOptions
  Cases <- MCCases
  Queries <- MCQueries
  MatchLimits = {0, 1, 10}
  Fragments <- MCFragments
  LeafKinds = {"Mention"}
  Fallbacks <- MCFallbacks
  LF = "LF"
  TAB = "TAB"
  SPACE = "SPACE"
  MaxValues = 280
INVARIANTS
  CopiesAreCarried
  ReadingIsExact
  NavigationVisitsEveryStop
PROPERTIES
  EditsAreExact
  CaretKeepsItsPlace
CHECK_DEADLOCK FALSE
