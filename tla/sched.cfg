SPECIFICATION SchedFairSpec
CONSTANTS
  d = d
  m = m
  Components = {d}
  Versions = {1, 2}
  None = None
  Golden <- OneGolden
  Factory <- OneFactory
  KeepPrevious = 1
  LogCapacity = 2
  MaxBootAttempts = 2
  LeftCrumbs <- NoneLeft
  Broken <- SecondBroken
  Dead <- NoneDead
  Health <- AllSocket
  OnApply <- AllRestart
  Requests = {"apply", "rollback"}
  Targets = {"latest"}
  PinVersions = {1, None}
  MayDie = TRUE
  MayFailIO = FALSE
  RequestsDuringTrial = TRUE
  Floor <- FloorTwo
  Policy = "mandatory"
  Published <- TwoPublished
  SourceMoves = TRUE
PROPERTY UnattendedSparesKnownBad
PROPERTY PinHonoured
PROPERTY UnattendedSettles
