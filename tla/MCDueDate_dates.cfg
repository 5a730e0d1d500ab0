\* Two calls, with any change of the business days before each.
SPECIFICATION Spec
CONSTANTS
  Starts <- Mondays
  Days <- SomeDays
  Configs <- SomeConfigs
  MaxCalls = 2
INVARIANTS TypeOK NoDayLost RightDate BoundNotMet
PROPERTIES CallReturns
\* After the last call nothing is left to do.
CHECK_DEADLOCK FALSE
