CONSTANTS
  Asks <- MCAsks
  Plans <- MCPlans
  Openings <- MCOpenings
  Replies <- MCReplies
  FollowUps <- MCFollowUps
  MaxTurns = 4
SPECIFICATION Spec
INVARIANT AllCarried
INVARIANT ResultsAnswered
INVARIANT BackendAccepts
INVARIANT Accounted
INVARIANT PrefixKept
CHECK_DEADLOCK FALSE
