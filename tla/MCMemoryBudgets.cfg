SPECIFICATION FairSpec
CONSTANTS
  Threads = {t1, t2}
  Campaigns = {c1}
  Days = {1, 2}
  Epoch = 0
  Amounts <- MCAmounts
  DailyBudgets = {2, 4}
  I64Max = 4
  NoCall = NoCall
  NumShards = 2
  ShardOf <- MCShardOf
  Absent = Absent
INVARIANTS
  IInv
  NoOverspend
  NothingLost
  RefusalsAreTruthful
PROPERTIES
  ImplementsAtomic
  GrantsFitTheirBudget
  CallsReturn
