\* Two edits that race from one node or from two, with a node replaced
\* midway; over a file, from one node.
CONSTANTS
  Nodes = {n1, n2}
  Admins = {a1, a2}
  Backends = {"conditional", "file"}
  SharedVolume = FALSE
  CommitAttempts = 2
  MaxEdits = 2
  MaxRestarts = 1
SPECIFICATION Spec
SYMMETRY Symmetry
INVARIANT NoLostEdit
PROPERTY GuardedEdits
PROPERTY DocumentShared
CHECK_DEADLOCK FALSE
