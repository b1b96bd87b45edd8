CONSTANTS
  Runs = {r1, r2}
  None = none
  MaxStarts = 3
  CustomRuns = {r1}
  MaxMishaps = 1
  MaxCleans = 1
SPECIFICATION FairSpec
INVARIANTS LockerThere ProbeUndisturbed DetectedForReal EmptyExplained SucceededIsWhole DoneIsMarked
PROPERTIES EveryRunEnds
CHECK_DEADLOCK FALSE
