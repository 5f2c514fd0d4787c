SPECIFICATION Spec
CONSTANTS
  Deleted = Deleted
  Root = 0
  MaxSlots = 9
  MaxCells = 7
  FirstStores <- MCStores
  ExportSamples <- MCExports
  HostOps = {"InsertRowLogical", "InsertColumnLogical", "DeleteRowsLogical", "DeleteColumnsLogical", "IsolateTableRect", "MergeTableCells", "SplitTableCell", "ReplaceTableRect", "InsertTableTree", "ReplaceDocument"}
  Commands = {"MoveCell", "MergeTableCells", "SplitTableCell", "Backspace", "InsertText", "InsertTable", "InsertTableRow", "InsertTableColumn", "DeleteTableRow", "DeleteTableColumn", "PasteTable"}
  Later = {"InsertTableRow", "ReplaceDocument", "SplitTableCell"}
  MaxEdits = 2
  Letter = "x"
INVARIANTS
  ChecksAgree
  HistoryReplays
  SelectionsSurvive
  ClipsAreExact
PROPERTIES
  LogicalRefinement
CHECK_DEADLOCK FALSE
