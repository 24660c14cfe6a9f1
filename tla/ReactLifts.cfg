\* Contradictory or unknown decisions lift a ban.
SPECIFICATION FairSpec
CONSTANTS
  MaxSteps = 5
  Attempts = 5
INVARIANT OnlyUnblockLifts
CHECK_DEADLOCK FALSE
