SPECIFICATION Spec
CONSTANTS
  a = a
  b = b
  c1 = c1
  c2 = c2
  q = q
  q2 = q2
  Requests = {r1, r2}
  Campaigns = {c1, c2}
  Tables = {a, b}
  Unreadable = Unreadable
  Queries = {q, q2}
  Ranking <- MCRanking
  Budget <- MCBudget
  Size <- MCSize
  None = None
  Absent = Absent
  LastDay = 3
  MaxCrashes = 1
  MaxStops = 0
SYMMETRY RequestSymmetry
INVARIANTS
  CountersMatchAds
  SkippedStillCannotPay
  MetricsMatchAnswers
  GaugesMatchIndex
PROPERTIES
  ReadyStaysReady
  DailyBudgetHolds
