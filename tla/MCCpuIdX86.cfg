SPECIFICATION Spec
CONSTANTS
  Machines <- MCMachines
  LongLimit <- MCLongLimit
INVARIANTS CachesFound LineOfLastLevel SizePrinted
CHECK_DEADLOCK FALSE
