CONSTANTS
  dir = dir
  srcA = srcA
  srcB = srcB
  dst = dst
  dstTmp = dstTmp
  long = long
  a = a
  b = b
  old = old
  me = me
  other = other
  Paths <- MCPaths
  DirOf <- MCDirOf
  TmpOf <- MCTmpOf
  Targets <- MCTargets
  Contents = {a, b, old}
  Partial = partial
  Modes = {444, 600, 644, 755}
  Writable = {600, 644, 755}
  Created = 600
  Uids = {me, other}
  Self = me
  None = none
  Jobs <- MCJobs
  Trees <- MCTrees
  MaxFaults = 2
  MaxKills = 1
SPECIFICATION FairCopySpec
INVARIANTS CopyTypeOK NoLeftover
PROPERTIES ImplementsReplace CopyEnds
