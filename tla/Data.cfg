SPECIFICATION MCSpec
CONSTANTS
  FolderIds = {1, 2, 3}
  Items = {i1}
  Root = 0
  BookmarkIds = {b1, b2}
  ServiceIds = {s1, s2}
  TagNames = {tag}
  None = None
  Macs = {m1, m2}
  Hosts = {h}
  Addresses = {a}
  Endpoints = {e}
  Scanners = {lan, docker}
  Unknown = Unknown
  Setups = {r1, r2}
  Cidrs = {net}
  Tokens = {t1, t2}
  Requests = {q1}
  User = User
  Nobody = Nobody
  Legacy = Legacy
  Pages = {p1}
  PageServices = {v1, v2}
  Notices = {n1, standing}
  standing = standing
  Times = {0, 1, 2, 3, 4}
  Always = Always
  Width = 4
  Wide = 2
  Split = 3
  Finest = 4
  Busy = 1
  Nobits = Nobits
  Definitions = {d1, d2}
  Fallback = Fallback
  Nothing = Nothing
  Registered = {g1}
  Found = {x1}
  Appliers = {a1, a2}
  MaxEdits = 3
INVARIANTS FoldersFormForest ImportsNothingElse BookmarkLinksHold DevicesIdentified SetupAndTokensHold PagesAgree MapHolds ChecksFollowDefinition
PROPERTIES DeletionKeepsPlaces
CHECK_DEADLOCK FALSE
