SPECIFICATION AlertsSpec
CONSTANTS
  Services = {s1}
  DiscoveredServices = {}
  CheckIds = {c1, c2}
  NoSubject = NoSubject
  MaxFailures = 1
  Runs = {scheduler}
  Cancellable = {}
  MayStop = FALSE
  Deletable = {}
  Resavable = {}
  NoCheck = NoCheck
INVARIANT AlertsReachTheBus
