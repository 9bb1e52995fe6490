CONSTANTS
  BuyIds <- TwoBuys
  SellIds <- TwoSells
  Size = 1
  Levels = 1
  SellLevels = 1
  StopMonitorato = FALSE
  StopLossOn = TRUE
  FaultKinds = {"spread", "cancel"}
  MaxFaults = 1
  MaxCrashes = 1
  MaxForeign = 0
SPECIFICATION Spec
INVARIANTS LiveOrdersKnown LiveBuysWithinLevels StoppedBookIsFlat
PROPERTIES ImplementsLedger
