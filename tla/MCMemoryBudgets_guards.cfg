SPECIFICATION Spec
CONSTANTS
  Threads = {t1, t2, t3}
  Campaigns = {c1}
  Days = {1}
  Epoch = 0
  Amounts = {1, 2}
  DailyBudgets = {2, 3}
  I64Max = 3
  NoCall = NoCall
  NumShards = 1
  ShardOf <- MCShardOf
  Absent = Absent
SYMMETRY ThreadSymmetry
INVARIANTS
  LockHeldOnlyToFind
