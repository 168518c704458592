SPECIFICATION FairSpec
CONSTANTS
  Items = {i1, i2}
  Callers = {c1}
  Driver = driver
  SameText = FALSE
  Setups <- LiveSetups
PROPERTIES IdleQueueMoves SendingEnds LostIsLookedFor
CHECK_DEADLOCK FALSE
