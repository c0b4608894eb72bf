SPECIFICATION Spec
CONSTANTS
  NUM_THREAD = 2
  Input <- MCInput
  NoThread = NoThread
  Garbage = {7}
  MaxEarly = 1
INVARIANT AnswersRight
CHECK_DEADLOCK FALSE
