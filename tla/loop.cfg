SPECIFICATION LoopSafetySpec
CONSTANTS
  None = None
  Modes = {"walk", "roller"}
  Skills = {"sit_toggle"}
  Configured <- AllNetworks
  Calls = {"toggle", "init", "relax", "do", "mode"}
  MaxPending = 1
  BootMode = "walk"
  Loads = {"walk"}
  CoastTicks = 0
  LimpFall = TRUE
  FoundSitting = {TRUE}
  MayFailBus = TRUE
  MayFall = TRUE
  MayRunFlat = TRUE
  MayStop = TRUE
INVARIANT TypeOK
INVARIANT PoweredWhenUp
INVARIANT PublishedIsLoaded
INVARIANT RestartSparesTravel
PROPERTY TorqueOnlyWhenWanted
