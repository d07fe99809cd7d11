SPECIFICATION Spec
CONSTANTS
  a = a
  b = b
  PlayerCount = 2
  ScorelessLimit = 2
  Clients = {a, b}
  Timer = Timer
  Commands <- MCCommands
  TurnDuration = 1
  TimeoutResponse = "pass"
  InvalidAttemptLimit = 2
  InvalidAttemptResponse = "pass"
  NoRow = NoRow
  MaxVersion = 2
  Horizon = 1
INVARIANTS
    DecisionsAreRecorded AttemptsAreCounted
PROPERTIES
    TimeoutOnlyWhenDue ImplementsGameLog
CHECK_DEADLOCK FALSE
SYMMETRY ClientSymmetry
