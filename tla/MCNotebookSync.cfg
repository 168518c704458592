SPECIFICATION FairSpec
CONSTANTS
  a = a
  b = b
  Devices = {a, b}
  Rounds <- RoundsMC
  Setups <- SetupsMC
INVARIANTS NoEditLost
PROPERTIES NotResurrected Converges
