SPECIFICATION Spec
CONSTANTS
  a = a
  b = b
  c1 = c1
  c2 = c2
  q = q
  q2 = q2
  Requests = {r1, r2, r3}
  Campaigns = {c1, c2}
  Tables = {a}
  Unreadable = Unreadable
  Queries = {q}
  Ranking <- MCRanking
  Budget <- MCBudget
  Size <- MCSize
  None = None
  Absent = Absent
  LastDay = 3
  MaxCrashes = 0
  MaxStops = 0
INVARIANTS
  TwoDaysPerCampaign
