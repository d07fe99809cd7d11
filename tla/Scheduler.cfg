SPECIFICATION LiveSpec
CONSTANTS
  Requests <- MCRequests
  Results <- MCResults
  Configurations <- MCConfigurations
  NoRow = NoRow
  MaxDelay = 1
  ConfigureUntil = 1
  ControlUntil = 1
  RenewUntil = 1
  Horizon = 4
INVARIANTS
    LimitsHold
PROPERTIES
    SchedulerSafety CapacityReturns
CHECK_DEADLOCK FALSE
