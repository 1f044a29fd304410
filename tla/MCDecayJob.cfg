CONSTANTS
  Ids = {1, 2}
  BatchSize = 1
  MaxDisturbances = 4
SPECIFICATION FairDecaySpec
PROPERTIES DecayFollowsFence NoRowIsLeftBehind
