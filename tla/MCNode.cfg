CONSTANTS
  b1 = b1
  b2 = b2
  Bots <- MCBots
  Levels <- MCLevels
  MaxOrders <- MCLevels
  RamReadings <- MCRamReadings
  CautionPct = 70
  SafePct = 85
  EmergencyPct = 95
  MaxMoves = 2
  MaxFaults = 1
SPECIFICATION FairSpec
INVARIANTS LiveHasIntent OneOrderAbandoned EmergencyCoversAll
PROPERTIES EmergencyExits StopExits
CHECK_DEADLOCK FALSE
