SPECIFICATION Spec
CONSTANTS
  Accounts = {root, joe, staff}
  Administrator = root
  PrimaryGroup = staff
  None = None
  Garbage = Garbage
  Blocks <- MCBlocks
  MaxItems = 2
  MaxFaults = 2
INVARIANTS AssertsHold PointersOwned LeaksBounded OwnerInstalled
CHECK_DEADLOCK FALSE
