SPECIFICATION Spec
CONSTANTS
  photo = photo
  video = video
  music = music
  long = long
  zor = zor
  US = US
  NZ = NZ
  Young = Young
  Older = Older
  anyAge = anyAge
  none = none
  AnyAge = anyAge
  Unmeasured = none
  LongTexts <- MCLongTexts
  MaxQueryTokens = 2
  I64Max = 14
  CountryWeights <- MCCountryWeights
  BucketWeights <- MCBucketWeights
  Population = 16
  Vocabulary <- MCVocabulary
  Phrases <- MCPhrases
  Nonsense <- MCNonsense
  KTargetings = {0, 3}
  CampaignDraws = 2
  RequestDraws = 1
  KeywordCounts = {1, 2}
  MaxNegatives = 1
  MaxTargets = 1
  SmallCountries = {NZ}
  OlderBuckets = {Older}
  Proposals <- MCProposals
INVARIANTS
  IdsAreContiguous
  StoredAudiencesAreTrue
  OwnKeywordsStayOpen
  RequestsMeanTheirKind
  SmallAudiencesAreRefused
  AcceptedCampaignsCanServe
CHECK_DEADLOCK FALSE
