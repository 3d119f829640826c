SPECIFICATION LoopFairSpec
CONSTANTS
  None = None
  Modes = {"walk", "roller"}
  Skills = {}
  Configured <- AllNetworks
  Calls = {"enable", "mode", "shutdown"}
  MaxPending = 1
  BootMode = "walk"
  Loads = {"walk", "roller"}
  CoastTicks = 1
  LimpFall = TRUE
  FoundSitting = {FALSE}
  MayFailBus = TRUE
  MayFall = TRUE
  MayRunFlat = FALSE
  MayStop = TRUE
PROPERTY ShutdownEnds
PROPERTY SwitchCompletes
PROPERTY EnabledIsDriven
