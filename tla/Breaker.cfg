\* A request and the maintenance of a seat: long enough for a trip, a probe that
\* dies, and the probe after it, with requests, checks and probes that race.
CONSTANTS
  Threads = {t, m}
  Maintenance = {m}
  Threshold = 2
  Window = 0
  Cooldown = 1
  BenchLengths = {1, 2}
  MaxSkew = 1
  MaxClock = 3
  MaxCount = 3
  LastTrouble = 1
SPECIFICATION FairSpec
INVARIANT NoEarlyAdmission
INVARIANT BenchKept
PROPERTY SingleProbe
PROPERTY GateImplemented
PROPERTY Recovers
CHECK_DEADLOCK FALSE
