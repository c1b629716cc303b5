SPECIFICATION FairSpec
CONSTANTS
  Discovered = {d1}
  Services = {s1, s2}
  Bookmarks = {b1}
  Sources = {"lan"}
  Looks = {seen}
  Names = {n1, n2}
  None = None
  Requests = {r1}
  Jobs = {job}
  MaxBreaks = 1
  MaxEdited = 1
  UserRows <- EditedRows
  UsersTriage = FALSE
  UsersEdit = FALSE
PROPERTIES AcceptingSucceeds
