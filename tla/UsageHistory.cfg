\* Days of two hours and months of two days; a batch may straddle midnight.
CONSTANTS
  Records = {r1, r2}
  HoursPerDay = 2
  DaysPerMonth = 2
  TailDays = 2
  Retention = 1
  RollupDays = 3
  ChannelCap = 2
  FirstHour = 5
  LastRecord = 6
  LastHour = 12
  MaxBoots = 2
  MaxLosses = 1
SPECIFICATION Spec
SYMMETRY Symmetry
INVARIANT CountedOnce
INVARIANT KeptCounted
INVARIANT CachesHonest
PROPERTY HistoryStands
CHECK_DEADLOCK FALSE
