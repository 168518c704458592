SPECIFICATION Spec
CONSTANTS
  Items = {i1, i2}
  Callers = {c1}
  Driver = driver
  SameText = FALSE
  Setups <- SafeSetups
INVARIANTS TypeOK OneCopyUnlessAsked DeliveredArrived FailedDidNotArrive
SYMMETRY Symmetry
CHECK_DEADLOCK FALSE
