\* Two nodes on one file: an edit on each.
CONSTANTS
  Nodes = {n1, n2}
  Admins = {a1, a2}
  Backends = {"file"}
  SharedVolume = TRUE
  CommitAttempts = 2
  MaxEdits = 2
  MaxRestarts = 0
SPECIFICATION Spec
INVARIANT NoLostEdit
CHECK_DEADLOCK FALSE
