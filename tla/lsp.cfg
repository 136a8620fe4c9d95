SPECIFICATION Spec
CONSTANTS
  board = board
  module = module
  library = library
  Docs <- MCDocs
  Text <- MCText
  Fits <- MCFits
  Manifests = {"declares", "lacks"}
  MaxActions = 3
CHECK_DEADLOCK FALSE
INVARIANTS NothingLost ShownIsOwed CleanDocsAreParsed
PROPERTIES RefreshesWhatItOwes
