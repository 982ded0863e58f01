\* An operator's edit on one node races with another's on the other.
CONSTANTS
  Nodes = {n1, n2}
  Admins = {a1, a2}
  Backends = {"conditional"}
  SharedVolume = FALSE
  CommitAttempts = 2
  MaxEdits = 2
  MaxRestarts = 0
SPECIFICATION FairSpec
PROPERTY Propagates
CHECK_DEADLOCK FALSE
