SPECIFICATION FairSpec
CONSTANTS
  wistful = wistful
  strut = strut
  Ducks = {1, 2, 3}
  Register <- Voices
  Pieces = {wistful, strut}
  Idle = Idle
  Unheard = Unheard
  Knows <- OldThird
  LastBeat = 1
  LockAt = 2
  BackFrom = 2
  BackTo = 8
  Settle = 2
  MaxRoster = 3
  Leavers = {2}
  None = None
  Prompt = TRUE
INVARIANT OneConductor
INVARIANT OwnLine
PROPERTY EnsembleSings
