SPECIFICATION Spec
CONSTANTS
  Discovered = {d1}
  Services = {s1}
  Bookmarks = {b1}
  Sources = {"docker", "lan"}
  Looks = {before, after}
  Names = {n1}
  None = None
  Requests = {}
  Jobs = {job}
  MaxBreaks = 0
  MaxEdited = 1
  UserRows <- EditedRows
  UsersTriage = TRUE
  UsersEdit = FALSE
PROPERTIES IgnoredUntilItChanges
