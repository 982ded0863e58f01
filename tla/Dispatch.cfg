\* Two requests on a pool of two keys with one slot each, across a reload.
CONSTANTS
  Pooled = p
  Keyless = q
  Key1 = k1
  Key2 = k2
  Requests = {r1, r2}
  Providers = {p, q}
  Keys = {k1, k2}
  Pool <- PoolOfTwo
  Plans <- WithReserve
  Rated = {k2}
  Ceiling = 1
  Ceilings = {1, 2}
  Editable = {k1}
  MaxConcurrency = 1
  MaxAttempts = 1
  Cap = 2
  RetryOn = {"429"}
  MaxRebuilds = 1
SPECIFICATION Spec
SYMMETRY Symmetry
VIEW View
INVARIANT Conserved
INVARIANT CeilingStands
INVARIANT NotTurnedAway
CHECK_DEADLOCK FALSE
