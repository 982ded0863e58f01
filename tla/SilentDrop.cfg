CONSTANTS
  Asks <- MCAsks
  Plans <- MCPlans
  Openings <- MCOpenings
  Replies <- MCReplies
  FollowUps <- MCFollowUps
  MaxTurns = 4
SPECIFICATION Spec
INVARIANT DroppedLoudly
CHECK_DEADLOCK FALSE
