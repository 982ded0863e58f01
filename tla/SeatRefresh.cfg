\* Two renewals in a row, across a reload and a crash, with a request and the
\* maintenance at the gate.
CONSTANTS
  Slots = {"codex"}
  Requests = {r1}
  MaxCred = 3
  MaxReloads = 1
  MaxCrashes = 1
  MaxRevokes = 1
SPECIFICATION FairSeatSpec
INVARIANT PersistedFirst
INVARIANT RotatedOnce
INVARIANT RotationHeld
PROPERTY Renews
CHECK_DEADLOCK FALSE
