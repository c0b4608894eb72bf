SPECIFICATION FairSpec
CONSTANTS
  NUM_THREAD = 3
  Input <- MCInput
  NoThread = NoThread
  Garbage = {7}
  MaxEarly = 1
INVARIANTS
  RoundTogether
  CountInRange
  FirstRoundRight
PROPERTIES
  JoinsAll
  HangsOnlyAsleep
CHECK_DEADLOCK FALSE
