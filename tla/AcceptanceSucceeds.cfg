SPECIFICATION FairSpec
CONSTANTS
  Discovered = {d1}
  Services = {s1, s2, s3}
  Bookmarks = {b1}
  Sources = {"docker", "lan"}
  Looks = {seen}
  Names = {n1}
  None = None
  Requests = {r1, r2}
  Jobs = {job}
  MaxBreaks = 0
  MaxEdited = 1
  UserRows <- EditedRows
  UsersTriage = TRUE
  UsersEdit = FALSE
PROPERTIES AcceptingSucceeds
