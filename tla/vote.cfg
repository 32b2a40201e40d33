CONSTANTS
  MaxWeight = 15
  MaxWeightSum = 12
  MaxInFlight = 2
SPECIFICATION Spec
INVARIANTS
  TypeOK
  WeightSumBounded
  StatsFollowVotes
PROPERTIES
  RewardsRightExperts
  ConservesWeightPastMax
