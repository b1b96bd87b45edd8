----------------------------- MODULE InstallFS -----------------------------
(***************************************************************************)
(* The file system as the installer sees it: what each path names.         *)
(***************************************************************************)
CONSTANTS Paths,     \* every path the programs use
          DirOf,     \* path |-> the directory it lies in
          TmpOf,     \* path |-> the name snprintf makes of "<path>.tmp"
          Targets,   \* the paths that are not temporary names
          Contents,  \* what complete files hold
          Partial,   \* what a file holds while it is being written
          Modes,     \* file modes, "& 0755"
          Writable,  \* those that let the owner write
          Created,   \* the mode fopen gives a new file
          Uids,      \* user IDs
          Self,      \* the user who runs the programs
          None

ASSUME PathAssumption ==
  /\ DirOf \in [Paths -> Paths] /\ TmpOf \in [Paths -> Paths]
  /\ Targets \subseteq Paths /\ None \notin Paths
ASSUME FileAssumption ==
  /\ Partial \notin Contents /\ Self \in Uids
  /\ Writable \subseteq Modes /\ Created \in Writable

\* dst_tmp is as long as a path can be, so "<path>.tmp" can be cut down to the
\* path itself: such a path has no temporary name of its own.
Short == {p \in Targets : TmpOf[p] \notin Targets}

\* A path that is cut is cut to itself.
ASSUME TmpAssumption == \A p \in Targets \ Short : TmpOf[p] = p

Temps == {TmpOf[p] : p \in Short}

Node(k, d, m, u) == [kind |-> k, data |-> d, mode |-> m, owner |-> u]
Absent == Node("none", None, None, None)
File(d, m, u) == Node("file", d, m, u)
Directory(m, u) == Node("dir", None, m, u)
Symlink(p) == Node("symlink", p, None, None)

Files == {File(d, m, u) : d \in Contents \union {Partial}, m \in Modes, u \in Uids}
Nodes ==
  {Absent} \union Files
    \union {Directory(m, u) : m \in Modes, u \in Uids}
    \union {Symlink(p) : p \in Paths}
============================================================================
