\* Two requests across midnight and the turn of a month, edits and a restart.
CONSTANTS
  Requests = {r1, r2}
  Models = {m1, m2}
  Scope = {m1}
  Costs = {0, 1}
  Limits = {0, 1}
  Periods = {"daily", "monthly"}
  SpendMask = 3
  DaysPerMonth = 2
  MaxDay = 2
  Edits = {"rotate", "enable", "expire", "limit", "period", "delete"}
  MaxEdits = 1
  MaxCrashes = 1
  Straddle = FALSE
SPECIFICATION Spec
SYMMETRY Symmetry
INVARIANT TypeOK
INVARIANT DebitsSerial
INVARIANT SpendKept
INVARIANT OverrunBounded
CHECK_DEADLOCK FALSE
