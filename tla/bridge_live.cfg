SPECIFICATION BridgeFairSpec
CONSTANTS
  robotctl = robotctl
  Robotctl = robotctl
  Writers <- SessionAndRobotctl
  NoWriter = NoWriter
  Names = {ducky}
  FallbackName = radxa
  Pins = {factory, printed}
  FactoryPin = factory
  MaxSessions = 1
  MaxRequests = 3
  MaxBatch = 1
  MaxDeaths = 1
  MaxChanges = 0
  PinAttempts = 1
  Methods = {"hello", "authenticate", "status", "apply", "subscribe", "setName", "setPairingPin"}
  Guesses = {factory}
  Room = 2
  NoPin = NoPin
  Waiting = Waiting
  Failed = Failed
PROPERTY QueryAnswered
PROPERTY ImplementsLedger
CHECK_DEADLOCK FALSE
