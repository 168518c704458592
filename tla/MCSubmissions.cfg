SPECIFICATION Spec
CONSTANTS
  h1 = h1
  h2 = h2
  i1 = i1
  i2 = i2
  i3 = i3
  Hosts = {h1, h2}
  Ids = {i1, i2, i3}
  Setups <- SetupsMC
INVARIANTS OneWriter RunsOnce OneTaskPerPage ReceiptIsTrue
PROPERTIES ReceiptsStay
CHECK_DEADLOCK FALSE
