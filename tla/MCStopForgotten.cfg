CONSTANTS
  BuyIds <- OneBuy
  SellIds <- OneSell
  Size = 1
  Levels = 1
  SellLevels = 0
  StopMonitorato = TRUE
  StopLossOn = TRUE
  FaultKinds = {}
  MaxFaults = 0
  MaxCrashes = 2
  MaxForeign = 0
SPECIFICATION Spec
PROPERTIES StopIsPersistent
