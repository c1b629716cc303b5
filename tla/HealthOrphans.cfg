SPECIFICATION FairSpec
CONSTANTS
  Services = {s1, s2}
  DiscoveredServices = {}
  CheckIds = {c1, c2}
  NoSubject = NoSubject
  MaxFailures = 1
  Runs = {scheduler}
  Cancellable = {}
  MayStop = FALSE
  Deletable = {s1}
  Resavable = {}
  NoCheck = NoCheck
PROPERTY DueChecksGetProbed
