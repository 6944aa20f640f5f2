SPECIFICATION Spec
CONSTANTS
  MatchLists <- MCMatchLists
  Requests <- MCRequests
  AgeBuckets = {"young", "old"}
  NoBucket = NoBucket
  AnyAge = AnyAge
  Unmeasured = Unmeasured
  KTargeting = 1
  DebugRankingLimit = 2
  Reserve = 2
  LongestList = 3
  Increment = 1
INVARIANTS
  ChargedAdMayBeShown
  PrivateRequestsHideAge
  BestPayerWins
  RankingExplainsTheOutcome
PROPERTY
  ImplementsSelectWinner
