SPECIFICATION AlertsSpec
CONSTANTS
  Services = {s1}
  DiscoveredServices = {}
  CheckIds = {c1}
  NoSubject = NoSubject
  MaxFailures = 2
  Runs = {scheduler, request}
  Cancellable = {scheduler, request}
  MayStop = TRUE
  Deletable = {s1}
  Resavable = {c1}
  NoCheck = NoCheck
SYMMETRY RunSymmetry
INVARIANT AlertMatchesRow
PROPERTIES AlertsAlternate PartsOnlyByOvertaking
