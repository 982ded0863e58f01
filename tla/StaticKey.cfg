\* A key that is no seat, in a pool whose other keys take every request that
\* finds it out of service.
CONSTANTS
  Threads = {t1}
  Maintenance = {}
  Threshold = 1
  Window = 0
  Cooldown = 1
  BenchLengths = {1}
  MaxSkew = 1
  MaxClock = 3
  MaxCount = 2
  LastTrouble = 1
SPECIFICATION FairSpec
PROPERTY Recovers
CHECK_DEADLOCK FALSE
