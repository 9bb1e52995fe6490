CONSTANTS
  BuyIds <- OneBuy
  SellIds <- OneSell
  Size = 2
  Levels = 1
  SellLevels = 0
  StopMonitorato = TRUE
  StopLossOn = TRUE
  FaultKinds = {}
  MaxFaults = 0
  MaxCrashes = 0
  MaxForeign = 1
SPECIFICATION Spec
INVARIANTS SoldWithinBought
