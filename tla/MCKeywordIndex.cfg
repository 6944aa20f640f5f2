SPECIFICATION Spec
CONSTANTS
  x = x
  y = y
  z = z
  Corpora <- MCCorpora
  QueryTexts <- MCQueries
  MaxTokenId = 2
CHECK_DEADLOCK FALSE
INVARIANTS
  IndexFindsTheBest
  NegativesBlockExactly
  InterningIsFaithful
