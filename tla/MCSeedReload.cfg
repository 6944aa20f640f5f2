SPECIFICATION FairSpec
CONSTANTS
  unset = unset
  blank = blank
  address = address
  file = file
  typo = typo
  path = path
  g1 = g1
  g2 = g2
  g3 = g3
  Unset = unset
  Blank = blank
  Addresses = {address}
  FileSource = file
  Texts = {typo, path}
  DefaultAddress = address
  DefaultPath = path
  DefaultThreshold = 5
  DefaultReserve = 2
  DefaultIncrement = 1
  DefaultRefresh = 3
  MaxRefresh = 5
  I64Limit = 9
  Generations = {g1, g2, g3}
  Parts <- MCParts
  Missing = Missing
  None = None
  Hybrid = Hybrid
  Unreadable = Unreadable
  Environments <- MCEnvironments
  MaxRuns = 2
INVARIANTS
  SuccessIsWhole
  AcceptedSettingsAreSane
  ErrorsNameTheCulprit
PROPERTIES
  UntouchedLoadsAreFaithful
  WrittenFileIsServed
CHECK_DEADLOCK FALSE
