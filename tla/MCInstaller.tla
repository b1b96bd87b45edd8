---------------------------- MODULE MCInstaller ----------------------------
(***************************************************************************)
(* A small instance of Installer for TLC: a directory in another one, a    *)
(* read-only file, a program with an owner, and two links, the source of   *)
(* one a ".vlb" name.                                                      *)
(***************************************************************************)
EXTENDS Installer

CONSTANTS home, top, inc, lib, srcA, srcB, incA, incB, ln, sl,
          tmpA, tmpB, tmp, nowhere, a, b, old, me, other

MCPaths == {home, top, inc, lib, srcA, srcB, incA, incB, ln, sl, tmpA, tmpB, tmp, nowhere}
MCTargets == MCPaths \ {tmpA, tmpB, tmp}
MCDirOf ==
  [p \in MCPaths |->
     CASE p \in {srcA, srcB, top, tmp} -> home
       [] p \in {incA, incB, tmpA, tmpB, lib} -> inc
       [] p = inc -> top
       [] p \in {ln, sl} -> lib
       [] OTHER -> p]
MCTmpOf ==
  [p \in MCPaths |-> CASE p = incA -> tmpA [] p = incB -> tmpB [] OTHER -> tmp]

MCNames == {"a", "b", "a.vlb", "ln", "sl"}
MCLibName == [n \in MCNames |-> IF n = "a.vlb" THEN "a" ELSE n]
MCSuffixed == [n \in MCNames |-> n]
\* The build directory holds a and b; inc holds an a of its own.
MCIn ==
  [d \in MCPaths |-> [n \in MCNames |->
     CASE d = home /\ n = "a" -> srcA
       [] d = home /\ n = "b" -> srcB
       [] d = inc /\ n = "a" -> incA
       [] d = inc /\ n = "b" -> incB
       [] d = lib /\ n = "ln" -> ln
       [] d = lib /\ n = "sl" -> sl
       [] d = lib /\ n = "a" -> incA
       [] d = lib /\ n = "b" -> incB
       [] OTHER -> nowhere]]
MCChain ==
  [d \in MCPaths |->
     CASE d = inc -> <<top, inc>> [] d = lib -> <<top, inc, lib>> [] OTHER -> <<d>>]
MCMasked == [m \in {444, 600, 644, 700, 755} |-> m]
\* The old a is as long as the new one.
MCSizeOf ==
  [d \in {a, b, old, Partial, None} |->
     CASE d \in {a, old} -> 2 [] d = b -> 3 [] OTHER -> 1]

MkDir(d, u) == [op |-> "mkdir", src |-> None, dst |-> None, dir |-> d, owner |-> u, mode |-> 755]
MCItems ==
  << MkDir(inc, other), MkDir(lib, None),
     [op |-> "liblink", src |-> "a.vlb", dst |-> "ln", dir |-> lib, owner |-> None, mode |-> 444],
     [op |-> "copy", src |-> "a", dst |-> None, dir |-> inc, owner |-> None, mode |-> 444],
     [op |-> "copy_exec", src |-> "b", dst |-> None, dir |-> inc, owner |-> other, mode |-> 755],
     [op |-> "symlink", src |-> "b", dst |-> "sl", dir |-> lib, owner |-> other, mode |-> 755] >>

MCJobs ==
  [src : {srcA, srcB, incA, incB, nowhere}, dst : {incA}, uid : {me}, mode : {444}]
    \union [src : {srcA, srcB, incA, incB, nowhere}, dst : {incB}, uid : {other}, mode : {755}]

Tree(d, f, l) ==
  [p \in MCPaths |->
     CASE p = home -> Directory(755, me)
       [] p \in {top, inc} -> d
       [] p = srcA -> File(a, 600, me)
       [] p = srcB -> File(b, 600, me)
       [] p = incA -> f
       [] p = lib -> l
       [] OTHER -> Absent]

\* Nothing is there, or an older version, in a directory with another mode.
MCTrees ==
  {Tree(Absent, Absent, Absent),
   Tree(Directory(755, me), File(old, 444, me), Directory(700, me))}
\* What the proofs about the list assume is true of it and of these trees.
ASSUME ListInstance == Trees = MCTrees => Orderly /\ Private
\* A file is in the place of a directory.
MCTreesOdd == {Tree(Directory(755, me), Absent, File(old, 755, me))}
============================================================================
