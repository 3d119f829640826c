SPECIFICATION Spec
CONSTANTS
  d = d
  m = m
  Components = {d}
  Versions = {1, 2, 3}
  None = None
  Golden <- OneGolden
  Factory <- OneFactory
  KeepPrevious = 1
  LogCapacity = 2
  MaxBootAttempts = 2
  LeftCrumbs <- NoneLeft
  Broken <- ThirdBroken
  Dead <- NoneDead
  Health <- AllSocket
  OnApply <- AllRestart
  Requests = {"apply", "rollback", "golden", "select"}
  Targets = {"latest", "staging", "exact"}
  PinVersions = {}
  MayDie = TRUE
  MayFailIO = TRUE
  RequestsDuringTrial = TRUE
INVARIANT LiveInstalled
INVARIANT TrialBracketsLive
PROPERTY VerdictSparesLive
PROPERTY RollbackGoesBack
PROPERTY ImplementsReleaseTrial
