SPECIFICATION Spec
CONSTANTS
  Bidders <- MCBidders
  MaxCandidates = 3
  Reserve = 2
  Increment = 1
INVARIANTS
  PricesWithinBounds
  PricesKeepTheRanking
  PricesAreSecondPrices
  OnlyTheWinnerPays
  RankingIsUnique
