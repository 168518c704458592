SPECIFICATION FairSpec
CONSTANTS
  r1 = r1
  r2 = r2
  Runs = {r1, r2}
  Window = 2
  ReadMax = 2
  ChunkMax = 2
  FrameMax = 1
  MaxBytes = 3
  Setups <- SetupsMC
INVARIANTS TypeOK ViewIsOnePiece PhoneMissesOnlyDropped
PROPERTIES WindowCatchesUp PhoneGetsTheEnd
CHECK_DEADLOCK FALSE
