\* The code's own bounds: 5 steps, 5 attempts. An inquiry ends.
SPECIFICATION FairSpec
CONSTANTS
  MaxSteps = 5
  Attempts = 5
INVARIANTS TypeOK SilenceKeeps
PROPERTIES InquiryEnds StepsAreCounted
CHECK_DEADLOCK FALSE
