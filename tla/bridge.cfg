SPECIFICATION BridgeSpec
CONSTANTS
  robotctl = robotctl
  Robotctl = robotctl
  Writers <- SessionsAndRobotctl
  NoWriter = NoWriter
  Names = {ducky}
  FallbackName = radxa
  Pins = {factory, printed}
  FactoryPin = factory
  MaxSessions = 2
  MaxRequests = 3
  MaxBatch = 3
  MaxDeaths = 0
  MaxChanges = 1
  PinAttempts = 2
  Methods = {"authenticate", "apply", "setName"}
  Guesses = {factory, printed}
  Room = 1
  NoPin = NoPin
  Waiting = Waiting
  Failed = Failed
INVARIANT TypeOK
INVARIANT GuessesRationed
INVARIANT AnsweredOnce
INVARIANT NewestHoldsSlot
PROPERTY AdmittedByStoredPin
CHECK_DEADLOCK FALSE
