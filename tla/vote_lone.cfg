CONSTANTS
  MaxWeight = 3
  MaxWeightSum = 5
  MaxInFlight = 2
SPECIFICATION SettledSpec
PROPERTIES
  LoneExpertWins
