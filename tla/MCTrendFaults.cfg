CONSTANTS
  BuyIds <- OneBuy
  SellIds <- OneSell
  Size = 2
  Levels = 1
  SellLevels = 0
  StopMonitorato = TRUE
  StopLossOn = FALSE
  FaultKinds = {"fetch", "bootfetch", "balance", "spread", "send", "reply", "cancel", "expire", "leftover", "disk", "partial"}
  MaxFaults = 1
  MaxCrashes = 1
  MaxForeign = 5
SPECIFICATION FairSpec
INVARIANTS ExcessSalesHaveCause PositionKnownToPolicy
PROPERTIES FilledBuyBooked
