CONSTANTS
  Bots <- MCBots
  BotCap <- MCBotCap
  NodeCap = 0
  Capital = 2
  MaxCrashes = 1
SPECIFICATION Spec
INVARIANTS ReservationCovers
PROPERTIES ImplementsCap
