\* Two requests, a day and a flush: records that are dropped after their debit.
CONSTANTS
  Requests = {r1, r2}
  Models = {m1}
  Scope = {}
  Costs = {0, 2}
  Limits = {2}
  Periods = {"daily"}
  SpendMask = 6
  DaysPerMonth = 2
  MaxDay = 1
  Edits = {}
  MaxEdits = 0
  MaxCrashes = 1
  Straddle = FALSE
SPECIFICATION Spec
SYMMETRY Symmetry
INVARIANT LagBounded
CHECK_DEADLOCK FALSE
