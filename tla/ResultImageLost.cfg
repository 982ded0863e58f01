CONSTANTS
  Asks <- MCAsks
  Plans <- MCPlans
  Openings <- MCOpenings
  Replies <- MCReplies
  FollowUps <- MCFollowUps
  MaxTurns = 4
SPECIFICATION Spec
INVARIANT ResultImagesCarried
CHECK_DEADLOCK FALSE
