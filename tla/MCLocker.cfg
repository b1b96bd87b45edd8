CONSTANTS
  Procs = {p1, p2, p3}
  None = none
  MaxCleans = 1
  MaxKills = 1
  Commands <- MCCommands
SPECIFICATION FairSpec
INVARIANTS MutualExclusion FlagMatchesLock ExitStatus CommandLineFits
PROPERTIES EveryLockerEnds ImplementsMutex
CHECK_DEADLOCK FALSE
