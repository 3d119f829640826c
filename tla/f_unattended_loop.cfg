SPECIFICATION SchedSpec
CONSTANTS
  d = d
  m = m
  Components = {d}
  Versions = {1, 2}
  None = None
  Golden <- OneGolden
  Factory <- OneFactory
  KeepPrevious = 1
  LogCapacity = 2
  MaxBootAttempts = 2
  LeftCrumbs <- NoneLeft
  Broken <- SecondBroken
  Dead <- NoneDead
  Health <- AllSocket
  OnApply <- AllRestart
  Requests = {}
  Targets = {"latest", "staging", "exact"}
  PinVersions = {}
  MayDie = TRUE
  MayFailIO = FALSE
  RequestsDuringTrial = TRUE
  Floor <- FloorTwo
  Policy = "mandatory"
  Published <- TwoPublished
  SourceMoves = FALSE
PROPERTY UnattendedSparesFailed
