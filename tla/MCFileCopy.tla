----------------------------- MODULE MCFileCopy ----------------------------
(***************************************************************************)
(* A small instance of FileCopy for TLC: two sources, a destination with   *)
(* an ordinary name and one whose name is too long for a temporary name.   *)
(***************************************************************************)
EXTENDS FileCopy

CONSTANTS dir, srcA, srcB, dst, dstTmp, long, a, b, old, me, other

MCPaths == {dir, srcA, srcB, dst, dstTmp, long}
MCTargets == MCPaths \ {dstTmp}
MCDirOf == [p \in MCPaths |-> dir]
\* Sources and dir are no destinations: their temporary names never matter.
MCTmpOf == [p \in MCPaths |-> IF p = long THEN long ELSE dstTmp]

MCJobs ==
  {[src |-> srcA, dst |-> dst, uid |-> other, mode |-> 644],
   [src |-> srcB, dst |-> dst, uid |-> other, mode |-> 444],
   [src |-> srcA, dst |-> long, uid |-> me, mode |-> 644]}

\* The destination is absent, an older file, a directory or a link; the
\* directory it lies in may be missing, and so may a source.
Tree(at0, src, d) ==
  [p \in MCPaths |->
     CASE p = dir -> d
       [] p = srcA -> File(a, 600, me)
       [] p = srcB -> src
       [] p = dst -> at0
       [] OTHER -> Absent]
MCTrees ==
  {Tree(n, s, d) :
     n \in {Absent, File(old, 600, me), Directory(755, me), Symlink(srcA)},
     s \in {Absent, File(b, 600, me)},
     d \in {Absent, Directory(755, me)}}
============================================================================
