---------------------------- MODULE MemoryBudgets ----------------------------
(***************************************************************************)
(* MemoryBudgets of admatch-core/src/budget.rs: one AtomicI64 per          *)
(* (campaign, UTC day) in a sharded DashMap, charged by concurrent threads *)
(* and swept by the refresh task.                                          *)
(*                                                                         *)
(* A thread's try_spend is split at every point where another thread can   *)
(* interfere: taking a shard's lock, the relaxed load, each attempt of the *)
(* compare-and-swap, the release of the lock on return.  A relaxed load,   *)
(* and the load of a failed compare_exchange_weak, may return ANY value of *)
(* the counter's modification order that the thread has not already seen   *)
(* superseded; a successful compare-and-swap acts on the latest.           *)
(***************************************************************************)
EXTENDS BudgetCalls

CONSTANTS
  NumShards,  \* shards of the DashMap
  ShardOf,    \* the shard a key hashes to
  Absent      \* the value of a counter that is not in the map

ASSUME ShardAssumption ==
  /\ NumShards \in Nat \ {0}
  /\ ShardOf \in [Keys -> 1..NumShards]
  /\ Absent \notin Nat

VARIABLES
  spent,    \* the map: per key, the counter's latest value or Absent
  written,  \* per key, the values written to the counter since its creation
  pc,       \* per thread: where it is in try_spend
  call,     \* per thread: its arguments
  guard,    \* per thread: how it holds the lock of its key's shard
  seen,     \* per thread: the value it last read from the counter
  answer,   \* per thread: what try_spend will return
  sweep,    \* drop_days_before: its bound, and the next shard to retain
  \* History, read by properties only:
  horizon,  \* the latest bound of any sweep
  charged,  \* per key, all that was granted while its day was not swept
  ceiling   \* per key, the largest budget a caller passed

map == <<spent, written>>
locals == <<pc, call, guard, seen, answer>>
history == <<horizon, charged, ceiling>>
vars == <<spent, written, pc, call, guard, seen, answer, sweep, horizon, charged, ceiling>>

NotSweeping == 0
Key(t) == KeyOf(call[t])

TypeOK ==
  /\ spent \in [Keys -> Nat \cup {Absent}]
  /\ written \in [Keys -> SUBSET Nat]
  /\ pc \in [Threads -> {"idle", "start", "entry", "load", "cas", "done"}]
  /\ call \in [Threads -> Calls \cup {NoCall}]
  /\ \A t \in Threads : pc[t] # "idle" => call[t] \in Calls
  /\ guard \in [Threads -> {"none", "shared", "exclusive"}]
  /\ seen \in [Threads -> Nat]
  /\ answer \in [Threads -> {"none", "spent", "refused", "invalid"}]
  /\ sweep \in [shard : 0..NumShards, bound : Days \cup {Epoch}]
  /\ horizon \in Days \cup {Epoch}
  /\ charged \in [Keys -> Nat]
  /\ ceiling \in [Keys -> Int]

Init ==
  /\ spent = [k \in Keys |-> Absent]
  /\ written = [k \in Keys |-> {}]
  /\ pc = [t \in Threads |-> "idle"]
  /\ call = [t \in Threads |-> NoCall]
  /\ guard = [t \in Threads |-> "none"]
  /\ seen = [t \in Threads |-> 0]
  /\ answer = [t \in Threads |-> "none"]
  /\ sweep = [shard |-> NotSweeping, bound |-> Epoch]
  /\ horizon = Epoch
  /\ charged = [k \in Keys |-> 0]
  /\ ceiling = [k \in Keys |-> 0]

(***************************************************************************)
(* The lock of a shard, from the guards the threads hold on it.            *)
(***************************************************************************)
HoldersOf(s) == {t \in Threads : guard[t] # "none" /\ ShardOf[Key(t)] = s}
MayRead(s) == \A t \in HoldersOf(s) : guard[t] = "shared"
MayWrite(s) == HoldersOf(s) = {}

(* Mutant: a later caller with a smaller budget spends up to the largest.  *)
FitsLargest(value, c) ==
  /\ value + c.amount <= I64Max
  /\ value + c.amount <= ceiling[KeyOf(c)]

(* Mutant: wrapping_add, so a total beyond I64Max turns negative and fits. *)
FitsWrapped(value, c) ==
  LET total == value + c.amount
  IN  (IF total > I64Max THEN total - 2 * (I64Max + 1) ELSE total) <= c.daily_budget

(* checked_add(..).filter(..): the total is an i64 and within the budget.  *)
Fits(value, c) ==
  /\ value + c.amount <= I64Max
  /\ value + c.amount <= c.daily_budget

(* What a relaxed load may return.  The write lock synchronises with every *)
(* earlier holder of the shard, so its owner reads the latest value.       *)
Visible(t) ==
  IF guard[t] = "exclusive"
  THEN {spent[Key(t)]}
  ELSE {v \in written[Key(t)] : v >= seen[t]}

(***************************************************************************)
(* try_spend                                                               *)
(***************************************************************************)
Invoke(t) ==
  /\ pc[t] = "idle"
  /\ pc' = [pc EXCEPT ![t] = "start"]
  /\ \E c \in Calls :
       /\ call' = [call EXCEPT ![t] = c]
       /\ ceiling' = [ceiling EXCEPT ![KeyOf(c)] = Larger(@, c.daily_budget)]
  /\ UNCHANGED <<map, guard, seen, answer, sweep, horizon, charged>>

(* A zero or negative amount is refused before the map is touched.         *)
Reject(t) ==
  /\ pc[t] = "start"
  /\ call[t].amount <= 0
  /\ pc' = [pc EXCEPT ![t] = "done"]
  /\ answer' = [answer EXCEPT ![t] = "invalid"]
  /\ UNCHANGED <<map, call, guard, seen, sweep, history>>

(* get finds the counter: its guard is held until try_spend returns.       *)
GetHit(t) ==
  /\ pc[t] = "start"
  /\ call[t].amount > 0
  /\ MayRead(ShardOf[Key(t)])
  /\ spent[Key(t)] # Absent
  /\ pc' = [pc EXCEPT ![t] = "load"]
  /\ guard' = [guard EXCEPT ![t] = "shared"]
  /\ UNCHANGED <<map, call, seen, answer, sweep, history>>

(* Mutant: the read guard of the failed lookup is still held when entry    *)
(* wants the shard (how an if-let temporary lived before edition 2024).    *)
GetMissKeepsGuard(t) ==
  /\ pc[t] = "start"
  /\ call[t].amount > 0
  /\ MayRead(ShardOf[Key(t)])
  /\ spent[Key(t)] = Absent
  /\ pc' = [pc EXCEPT ![t] = "entry"]
  /\ guard' = [guard EXCEPT ![t] = "shared"]
  /\ UNCHANGED <<map, call, seen, answer, sweep, history>>

(* get finds nothing and the read lock is released at once.                *)
GetMiss(t) ==
  /\ pc[t] = "start"
  /\ call[t].amount > 0
  /\ MayRead(ShardOf[Key(t)])
  /\ spent[Key(t)] = Absent
  /\ pc' = [pc EXCEPT ![t] = "entry"]
  /\ UNCHANGED <<map, call, guard, seen, answer, sweep, history>>

(* Mutant: insert(key, 0) instead of entry(key).or_default().              *)
EntryOverwrites(t) ==
  /\ pc[t] = "entry"
  /\ MayWrite(ShardOf[Key(t)])
  /\ pc' = [pc EXCEPT ![t] = "load"]
  /\ guard' = [guard EXCEPT ![t] = "exclusive"]
  /\ spent' = [spent EXCEPT ![Key(t)] = 0]
  /\ written' = [written EXCEPT ![Key(t)] = {0}]
  /\ UNCHANGED <<call, seen, answer, sweep, history>>

(* entry(key).or_default(): the counter may exist by now.                  *)
Entry(t) ==
  /\ pc[t] = "entry"
  /\ MayWrite(ShardOf[Key(t)])
  /\ pc' = [pc EXCEPT ![t] = "load"]
  /\ guard' = [guard EXCEPT ![t] = "exclusive"]
  /\ IF spent[Key(t)] = Absent
     THEN /\ spent' = [spent EXCEPT ![Key(t)] = 0]
          /\ written' = [written EXCEPT ![Key(t)] = {0}]
     ELSE UNCHANGED map
  /\ UNCHANGED <<call, seen, answer, sweep, history>>

(* fetch_update's closure on the value just read: go on to the             *)
(* compare-and-swap, or give up without writing.                           *)
Observe(t, v) ==
  /\ seen' = [seen EXCEPT ![t] = v]
  /\ \/ /\ Fits(v, call[t])
        /\ pc' = [pc EXCEPT ![t] = "cas"]
        /\ UNCHANGED answer
     \/ /\ ~ Fits(v, call[t])
        /\ pc' = [pc EXCEPT ![t] = "done"]
        /\ answer' = [answer EXCEPT ![t] = "refused"]
  /\ UNCHANGED <<map, call, guard, sweep, history>>

Load(t) ==
  /\ pc[t] = "load"
  /\ \E v \in Visible(t) : Observe(t, v)

(* Mutant: a plain store of the sum instead of an exchange.                *)
StoreSum(t) ==
  /\ pc[t] = "cas"
  /\ LET total == seen[t] + call[t].amount IN
       /\ spent' = [spent EXCEPT ![Key(t)] = total]
       /\ written' = [written EXCEPT ![Key(t)] = @ \cup {total}]
  /\ pc' = [pc EXCEPT ![t] = "done"]
  /\ answer' = [answer EXCEPT ![t] = "spent"]
  /\ charged' = IF call[t].day >= horizon
                THEN [charged EXCEPT ![Key(t)] = @ + call[t].amount]
                ELSE charged
  /\ UNCHANGED <<call, guard, seen, sweep, horizon, ceiling>>

(* The exchange succeeds only on the latest value.                         *)
CasOk(t) ==
  /\ pc[t] = "cas"
  /\ spent[Key(t)] = seen[t]
  /\ LET total == seen[t] + call[t].amount IN
       /\ spent' = [spent EXCEPT ![Key(t)] = total]
       /\ written' = [written EXCEPT ![Key(t)] = @ \cup {total}]
  /\ pc' = [pc EXCEPT ![t] = "done"]
  /\ answer' = [answer EXCEPT ![t] = "spent"]
  /\ charged' = IF call[t].day >= horizon
                THEN [charged EXCEPT ![Key(t)] = @ + call[t].amount]
                ELSE charged
  /\ UNCHANGED <<call, guard, seen, sweep, horizon, ceiling>>

(* Mutant: one exchange without the retry loop.                            *)
CasFailGivesUp(t) ==
  /\ pc[t] = "cas"
  /\ pc' = [pc EXCEPT ![t] = "done"]
  /\ answer' = [answer EXCEPT ![t] = "refused"]
  /\ UNCHANGED <<map, call, guard, seen, sweep, history>>

(* Mutant: the loop retries with the value it already had.                 *)
CasFailStale(t) ==
  /\ pc[t] = "cas"
  /\ Observe(t, seen[t])

(* It fails because the value is another one, or spuriously (the weak      *)
(* exchange), and the loop runs the closure on the value it came back with.*)
CasFail(t) ==
  /\ pc[t] = "cas"
  /\ \E v \in Visible(t) : Observe(t, v)

(* The function returns and drops the guard.                               *)
Return(t) ==
  /\ pc[t] = "done"
  /\ pc' = [pc EXCEPT ![t] = "idle"]
  /\ call' = [call EXCEPT ![t] = NoCall]
  /\ guard' = [guard EXCEPT ![t] = "none"]
  /\ seen' = [seen EXCEPT ![t] = 0]
  /\ answer' = [answer EXCEPT ![t] = "none"]
  /\ UNCHANGED <<map, sweep, history>>

(***************************************************************************)
(* drop_days_before(bound), called by one task: retain visits the shards   *)
(* one after the other, each under its write lock.                         *)
(***************************************************************************)
SweepStart ==
  /\ sweep.shard = NotSweeping
  /\ \E bound \in Days :
       /\ sweep' = [shard |-> 1, bound |-> bound]
       /\ horizon' = Larger(horizon, bound)
  /\ UNCHANGED <<map, locals, charged, ceiling>>

(* Mutant: retain keeps only the days after the bound.                     *)
RetainedAfter(k) == ShardOf[k] # sweep.shard \/ DayOf(k) > sweep.bound

Retained(k) == ShardOf[k] # sweep.shard \/ DayOf(k) >= sweep.bound

SweepShard ==
  /\ sweep.shard # NotSweeping
  /\ MayWrite(sweep.shard)
  /\ spent' = [k \in Keys |-> IF Retained(k) THEN spent[k] ELSE Absent]
  /\ written' = [k \in Keys |-> IF Retained(k) THEN written[k] ELSE {}]
  /\ sweep' = IF sweep.shard = NumShards
              THEN [shard |-> NotSweeping, bound |-> Epoch]
              ELSE [sweep EXCEPT !.shard = @ + 1]
  /\ UNCHANGED <<locals, history>>

Step(t) ==
  \/ Reject(t)
  \/ GetHit(t)
  \/ GetMiss(t)
  \/ Entry(t)
  \/ Load(t)
  \/ CasOk(t)
  \/ CasFail(t)
  \/ Return(t)

Next ==
  \/ \E t \in Threads : Invoke(t) \/ Step(t)
  \/ SweepStart
  \/ SweepShard

Spec == Init /\ [][Next]_vars

(***************************************************************************)
(* MemoryBudgets::spent.                                                   *)
(***************************************************************************)
Spent(k) == IF spent[k] = Absent THEN 0 ELSE spent[k]

(***************************************************************************)
(* Safety.                                                                 *)
(***************************************************************************)

(* However many threads charge a campaign, what it was granted on a day    *)
(* never exceeds the largest budget a caller passed for it (budget.rs, the *)
(* section "Zero overspend in one process").  Days already swept are out   *)
(* of the promise: a call that comes after the sweep starts a new counter. *)
NoOverspend == \A k \in Keys : charged[k] <= ceiling[k]

(* No charge is lost, to a racing compare-and-swap, to a second creation   *)
(* of the counter or to a sweep that drops too much: the counter of a day  *)
(* that was not swept holds exactly what was granted.                      *)
NothingLost == \A k \in Keys : DayOf(k) >= horizon => charged[k] = Spent(k)

(* try_spend answers Ok(false), possibly after a stale relaxed load, only  *)
(* when the amount really does not fit any more.                           *)
RefusalsAreTruthful ==
  \A t \in Threads : answer[t] = "refused" => ~ Fits(Spent(Key(t)), call[t])

(* Each grant is one caller's amount, and fits THAT caller's budget even   *)
(* when callers disagree on it (before and after a reload).                *)
GrantsFitTheirBudget ==
  [][\A k \in Keys : charged'[k] # charged[k] =>
       \E t \in Threads :
         /\ pc[t] = "cas"
         /\ pc'[t] = "done"
         /\ Key(t) = k
         /\ charged'[k] = charged[k] + call[t].amount
         /\ charged'[k] <= call[t].daily_budget]_vars

(* What the documentation of MemoryBudgets says and does not hold: "The    *)
(* lock is held only to find (or create) the counter; the spend itself is  *)
(* a lock-free CAS".  try_spend keeps the guard of get or entry through    *)
(* the whole exchange loop.                                                *)
LockHeldOnlyToFind ==
  \A t \in Threads : pc[t] \in {"load", "cas"} => guard[t] = "none"

(***************************************************************************)
(* The inductive invariant behind them.                                    *)
(***************************************************************************)

(* A write guard excludes every other guard on the same shard.             *)
GuardsExclude ==
  \A t, u \in Threads :
    /\ t # u
    /\ guard[t] = "exclusive"
    /\ guard[u] # "none"
    => ShardOf[Key(t)] # ShardOf[Key(u)]

(* A thread past the lookup holds a guard, and its counter is in the map.  *)
HoldersHaveCounters ==
  \A t \in Threads :
    /\ pc[t] \in {"load", "cas"} \/ answer[t] \in {"spent", "refused"}
         => guard[t] # "none"
    /\ guard[t] # "none" => pc[t] \in {"load", "cas", "done"} /\ spent[Key(t)] # Absent
    /\ pc[t] \in {"entry", "load", "cas"} => call[t].amount > 0
    /\ answer[t] # "none" => pc[t] = "done"

(* A counter was never above its latest value.                             *)
LatestIsLargest ==
  \A k \in Keys :
    /\ spent[k] # Absent => spent[k] \in written[k]
    /\ spent[k] = Absent => written[k] = {}
    /\ \A v \in written[k] : v <= spent[k]

(* The value a thread is about to exchange was written, and fits.          *)
SeenFits ==
  \A t \in Threads :
    pc[t] = "cas" => seen[t] \in written[Key(t)] /\ Fits(seen[t], call[t])

CeilingCoversCalls ==
  \A t \in Threads : pc[t] # "idle" => call[t].daily_budget <= ceiling[Key(t)]

(* A sweep's bound is never beyond the horizon.                            *)
SweepBehindHorizon == sweep.bound <= horizon

IInv ==
  /\ TypeOK
  /\ GuardsExclude
  /\ HoldersHaveCounters
  /\ LatestIsLargest
  /\ SeenFits
  /\ CeilingCoversCalls
  /\ SweepBehindHorizon
  /\ NothingLost
  /\ NoOverspend
  /\ RefusalsAreTruthful

(***************************************************************************)
(* Refinement: a call decides in one step, between invocation and return.  *)
(***************************************************************************)
phase == [t \in Threads |->
            CASE pc[t] = "idle" -> "idle"
              [] pc[t] = "done" -> "answered"
              [] OTHER -> "pending"]

Atomic == INSTANCE AtomicBudgets WITH spent <- [k \in Keys |-> Spent(k)]

(* MemoryBudgets implements the atomic specification.                      *)
ImplementsAtomic == Atomic!Spec

(***************************************************************************)
(* Liveness.  Each step of a call is one the scheduler eventually runs     *)
(* once it stays possible; the exchange does not fail spuriously for ever, *)
(* and a store becomes visible to a thread that keeps reading.             *)
(***************************************************************************)
Lookup(t) == GetHit(t) \/ GetMiss(t)
FailOnLatest(t) == CasFail(t) /\ seen'[t] = spent[Key(t)]

Fairness ==
  /\ \A t \in Threads :
       /\ WF_vars(Reject(t))
       /\ WF_vars(Lookup(t))
       /\ WF_vars(Entry(t))
       /\ WF_vars(Load(t))
       /\ WF_vars(CasOk(t))
       /\ WF_vars(FailOnLatest(t))
       /\ WF_vars(Return(t))
  /\ WF_vars(SweepShard)

FairSpec == Spec /\ Fairness

TrafficSettles == <>[][\A t \in Threads : ~ Invoke(t)]_vars

(* Neither the shard locks nor the retry loop can strand a call or the     *)
(* sweep: when no new calls come, every call in flight returns and every   *)
(* sweep that started finishes, however the steps were interleaved.        *)
CallsReturn ==
  TrafficSettles =>
    /\ <>[](\A t \in Threads : pc[t] = "idle")
    /\ []<>(sweep.shard = NotSweeping)
=============================================================================
