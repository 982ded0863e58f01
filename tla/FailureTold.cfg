CONSTANTS
  Exchanges <- MCExchanges
  Bursts = {1, 4}
SPECIFICATION Spec
INVARIANT FailureTold
CHECK_DEADLOCK FALSE
