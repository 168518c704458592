SPECIFICATION FairSpec
CONSTANTS
  t1 = t1
  t2 = t2
  Tasks = {t1, t2}
  MaxEntries = 2
  Setups <- SetupsMC
INVARIANTS TypeOK PumpIsGapless
PROPERTIES ResetIsRepaired PumpReachesTheEnd
CHECK_DEADLOCK FALSE
