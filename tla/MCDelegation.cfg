SPECIFICATION FairSpec
CONSTANTS
  d1 = d1
  d2 = d2
  Tasks = {d1, d2}
  Tracked = {d1}
  MaxTurns = 2
  ContractOf <- MCContractOf
  RoleOf <- MCRoleOf
  Permission = "full_access"
  ClearsFirst = TRUE
  MaxReworks = 1
  UserTurns = 0
  Setups <- SetupsMC
INVARIANTS ToldOnce SentIsClosed ResultIsThisRuns
PROPERTIES OpenEnds ResultsGoBack
CHECK_DEADLOCK FALSE
