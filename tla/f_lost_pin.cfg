SPECIFICATION BridgeSpec
CONSTANTS
  robotctl = robotctl
  Robotctl = robotctl
  Writers <- SessionAndRobotctl
  NoWriter = NoWriter
  Names = {ducky}
  FallbackName = radxa
  Pins = {factory, printed}
  FactoryPin = factory
  MaxSessions = 1
  MaxRequests = 2
  MaxBatch = 3
  MaxDeaths = 0
  MaxChanges = 1
  PinAttempts = 2
  Methods = {"authenticate", "setName"}
  Guesses = {factory}
  Room = 1
  NoPin = NoPin
  Waiting = Waiting
  Failed = Failed
INVARIANT ConfirmedPinHolds
CHECK_DEADLOCK FALSE
