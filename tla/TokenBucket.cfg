\* A token is two units, so that a balance may hold a part of one.
CONSTANTS
  Threads = {t1, t2}
  Limits = {2, 3}
  Rate = 2
  Needs = {2}
  Debits = {3}
  CarriesChanged = FALSE
  MaxRebuilds = 1
  MaxClock = 2
SPECIFICATION BucketSpec
SYMMETRY Symmetry
INVARIANT BucketTypeOK
INVARIANT RateHeld
INVARIANT CreditedOnce
CHECK_DEADLOCK FALSE
