SPECIFICATION ImportSpec
CONSTANTS
  FolderIds = {1, 2, 3}
  Items = {}
  Root = 0
INVARIANTS ImportRestores
CHECK_DEADLOCK FALSE
