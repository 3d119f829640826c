SPECIFICATION Spec
CONSTANTS
  d = d
  m = m
  Components = {d}
  Versions = {1, 2, 3, 4}
  None = None
  Golden <- OneGolden
  Factory <- OneFactory
  KeepPrevious = 0
  LogCapacity = 3
  MaxBootAttempts = 2
  LeftCrumbs <- NoneLeft
  Broken <- ThirdBroken
  Dead <- NoneDead
  Health <- AllSocket
  OnApply <- AllRestart
  Requests = {"apply"}
  Targets = {"latest", "staging"}
  PinVersions = {}
  MayDie = TRUE
  MayFailIO = TRUE
  RequestsDuringTrial = FALSE
INVARIANT TypeOK
INVARIANT LiveIsWhole
INVARIANT GoldenSurvives
INVARIANT BadReleaseIsOnTrial
INVARIANT WayBackIntact
