SPECIFICATION Spec
CONSTANTS
  a1 = a1
  Messages <- TwoMessages
  Agents = {a1}
  Attempts = 2
  MaxStalls = 1
  MaxSteps = 2
  MaxActs = 1
  MaxClock = 2
  MaxMishaps = 2
  Faults <- AllFaults
INVARIANTS TypeOK NewestRuns NewestIsKept AnsweredOnce
PROPERTIES TakeoverSilences
CHECK_DEADLOCK FALSE
