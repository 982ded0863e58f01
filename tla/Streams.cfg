CONSTANTS
  Exchanges <- MCExchanges
  Bursts = {1, 4}
SPECIFICATION Spec
INVARIANT SplitsUnseen
INVARIANT FramesOrdered
INVARIANT SaidIsHeard
INVARIANT RoadsMeet
INVARIANT HeldOut
CHECK_DEADLOCK FALSE
