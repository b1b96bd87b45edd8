CONSTANTS
  home = home
  top = top
  inc = inc
  lib = lib
  srcA = srcA
  srcB = srcB
  incA = incA
  incB = incB
  ln = ln
  sl = sl
  tmpA = tmpA
  tmpB = tmpB
  tmp = tmp
  nowhere = nowhere
  a = a
  b = b
  old = old
  me = me
  other = other
  Paths <- MCPaths
  DirOf <- MCDirOf
  TmpOf <- MCTmpOf
  Targets <- MCTargets
  Contents = {a, b, old}
  Partial = partial
  Modes = {444, 600, 644, 700, 755}
  Writable = {600, 644, 700, 755}
  Created = 600
  Uids = {me, other}
  Self = me
  None = none
  Jobs <- MCJobs
  Trees <- MCTrees
  Names <- MCNames
  LibName <- MCLibName
  Suffixed <- MCSuffixed
  Home = home
  In <- MCIn
  Chain <- MCChain
  Masked <- MCMasked
  SizeOf <- MCSizeOf
  Items <- MCItems
  MaxFaults = 1
  MaxKills = 0
  MaxRuns = 1
SPECIFICATION InstallSpec
INVARIANTS DirectoriesMade
CHECK_DEADLOCK FALSE
