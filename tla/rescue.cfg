SPECIFICATION BoardFairSpec
CONSTANTS
  d = d
  Components = {d}
  Versions = {1, 2, 3}
  None = None
  Golden <- OneGolden
  Factory <- OneFactory
  KeepPrevious = 1
  LogCapacity = 1
  MaxBootAttempts = 2
  LeftCrumbs <- NoneLeft
  Broken <- ThirdBroken
  Dead <- ThirdDead
  Health <- AllSocket
  OnApply <- AllRestart
  Requests = {"apply"}
  Targets = {"latest"}
  PinVersions = {}
  MayDie = TRUE
  MayFailIO = FALSE
  RequestsDuringTrial = FALSE
  Rescued = d
  HandRuns = {"plain", "force"}
  MayCutRescue = TRUE
  MayOutrun = TRUE
INVARIANT BoardTypeOK
INVARIANT RescueLoopGuard
PROPERTY RescueStands
PROPERTY DeadReleaseIsLeft
