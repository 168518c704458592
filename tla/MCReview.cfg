SPECIFICATION Spec
CONSTANTS
  Writer = w
  Tasks = {w}
  Tracked = {w}
  MaxTurns = 3
  MaxRounds = 2
  MaxReviewers = 2
INVARIANTS ReviewIsUnderWay AnswerIsUnderWay 
CHECK_DEADLOCK FALSE
