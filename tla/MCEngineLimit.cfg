SPECIFICATION Spec
CONSTANTS
  MatchLists <- MCElevenCandidates
  Requests <- MCDebugRequest
  AgeBuckets = {"young", "old"}
  NoBucket = NoBucket
  AnyAge = AnyAge
  Unmeasured = Unmeasured
  KTargeting = 1
  DebugRankingLimit = 10
  Reserve = 2
  Increment = 1
INVARIANT
  WinnerIsVisible
