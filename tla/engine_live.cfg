SPECIFICATION FairSpec
CONSTANTS
  d = d
  m = m
  Components = {d, m}
  Versions = {1, 2}
  None = None
  Golden <- DaemonOnly
  Factory <- DaemonOnly
  KeepPrevious = 0
  LogCapacity = 1
  MaxBootAttempts = 2
  LeftCrumbs <- RescuedOnce
  Broken <- DaemonBroken
  Dead <- NoneDead
  Health <- DaemonSocket
  OnApply <- DaemonRestart
  Requests = {"apply", "rollback"}
  Targets = {"latest"}
  PinVersions = {}
  MayDie = TRUE
  MayFailIO = FALSE
  RequestsDuringTrial = FALSE
INVARIANT TrialWithinBudget
PROPERTY ComponentsIsolated
PROPERTY RequestEnds
PROPERTY ServesAgain
PROPERTY BadReleaseIsLeft
