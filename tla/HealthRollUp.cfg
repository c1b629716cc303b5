SPECIFICATION Spec
CONSTANTS
  Services = {s1}
  DiscoveredServices = {d1}
  CheckIds = {c1, c2}
  NoSubject = NoSubject
  MaxFailures = 1
  Runs = {scheduler}
  Cancellable = {scheduler}
  MayStop = TRUE
  Deletable = {s1}
  Resavable = {}
  NoCheck = NoCheck
SYMMETRY CheckSymmetry
INVARIANTS TypeOK WaitsOnlyOnceRun
PROPERTY StaleOnlyByEdits
