SPECIFICATION Spec
CONSTANTS
  a = a
  b = b
  PlayerCount = 2
  ScorelessLimit = 2
  Clients = {a}
  Timer = Timer
  Commands <- MCOneMove
  TurnDuration = 1
  TimeoutResponse = "pass"
  InvalidAttemptLimit = 2
  InvalidAttemptResponse = "reject_only"
  NoRow = NoRow
  MaxVersion = 2
  Horizon = 2
INVARIANTS RacesAreIgnored
CHECK_DEADLOCK FALSE
