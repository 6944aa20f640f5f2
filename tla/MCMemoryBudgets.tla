--------------------------- MODULE MCMemoryBudgets ---------------------------
(* Instances of MemoryBudgets for TLC.                                     *)
EXTENDS MemoryBudgets, TLC

(* Counters in both shards; keys of one day share a shard.                 *)
MCShardOf == [k \in Keys |-> 1 + (DayOf(k) % NumShards)]

(* An amount try_spend refuses below zero and at zero, and one of which    *)
(* two fit the larger budget, one fits the smaller, three overflow.        *)
MCAmounts == {-1, 0, 2}
ThreadSymmetry == Permutations(Threads)
=============================================================================
