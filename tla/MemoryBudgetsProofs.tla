------------------------- MODULE MemoryBudgetsProofs -------------------------
(***************************************************************************)
(* Proofs about MemoryBudgets, for any threads, campaigns, days, amounts,  *)
(* budgets, shards and hash function.                                      *)
(*                                                                         *)
(* NoOverspend is not inductive: a thread between its load and its         *)
(* exchange relies on what it read still being the latest value, on the    *)
(* counter still being in the map, and on the counter holding all that was *)
(* granted.  IInv adds exactly these facts; each lemma below shows that    *)
(* one conjunct of IInv is preserved by every step.                        *)
(***************************************************************************)
EXTENDS MemoryBudgets, TLAPS

(* A call's key is a key, of the call's day.                               *)
LEMMA CallFacts ==
  ASSUME NEW c \in Calls
  PROVE  /\ KeyOf(c) \in Keys
         /\ DayOf(KeyOf(c)) = c.day
         /\ c.day \in Days
         /\ c.day \in Int
         /\ c.amount \in Int
         /\ c.amount <= I64Max
         /\ c.daily_budget \in Int
         /\ c.daily_budget <= I64Max
         /\ c # NoCall
  BY BudgetAssumption DEF Calls, KeyOf, Keys, DayOf

LEMMA DayFacts == \A k \in Keys : DayOf(k) \in Days /\ DayOf(k) \in Int
  BY BudgetAssumption DEF Keys, DayOf

(* The initial state.                                                      *)
LEMMA InitIInv == Init => IInv
  <1> SUFFICES ASSUME Init PROVE IInv
    OBVIOUS
  <1>1. TypeOK
    BY BudgetAssumption, ShardAssumption DEF Init, TypeOK, NotSweeping
  <1>2. NothingLost /\ NoOverspend
    BY ShardAssumption DEF Init, NothingLost, NoOverspend, Spent
  <1>3. LatestIsLargest /\ SweepBehindHorizon
    BY BudgetAssumption, ShardAssumption DEF Init, LatestIsLargest, SweepBehindHorizon
  <1>4. GuardsExclude /\ HoldersHaveCounters /\ SeenFits /\ CeilingCoversCalls
    BY DEF Init, GuardsExclude, HoldersHaveCounters, SeenFits, CeilingCoversCalls
  <1>5. RefusalsAreTruthful
    BY DEF Init, RefusalsAreTruthful
  <1> QED
    BY <1>1, <1>2, <1>3, <1>4, <1>5 DEF IInv

(* What a thread may read is a value written to its counter, and no larger *)
(* than the counter.                                                       *)
LEMMA VisibleFacts ==
  ASSUME IInv, NEW t \in Threads, pc[t] \in {"load", "cas"}, NEW v \in Visible(t)
  PROVE  /\ v \in Nat
         /\ v \in written[Key(t)]
         /\ v <= spent[Key(t)]
         /\ Key(t) \in Keys
         /\ spent[Key(t)] \in Nat
         /\ Spent(Key(t)) = spent[Key(t)]
  <1>1. call[t] \in Calls /\ Key(t) \in Keys
    BY CallFacts DEF IInv, TypeOK, Key
  <1>2. spent[Key(t)] # Absent
    BY DEF IInv, HoldersHaveCounters
  <1>3. spent[Key(t)] \in Nat /\ written[Key(t)] \in SUBSET Nat
    BY <1>1, <1>2 DEF IInv, TypeOK
  <1>4. spent[Key(t)] \in written[Key(t)] /\ \A x \in written[Key(t)] : x <= spent[Key(t)]
    BY <1>1, <1>2 DEF IInv, LatestIsLargest
  <1>5. v \in written[Key(t)]
    BY <1>4 DEF Visible
  <1> QED
    BY <1>1, <1>2, <1>3, <1>4, <1>5 DEF Spent

(* What the exchange writes.                                               *)
LEMMA ExchangeFacts ==
  ASSUME IInv, NEW t \in Threads, CasOk(t)
  PROVE  /\ call[t] \in Calls
         /\ Key(t) \in Keys
         /\ call[t].amount \in Int
         /\ call[t].amount > 0
         /\ spent[Key(t)] \in Nat
         /\ spent[Key(t)] = seen[t]
         /\ spent[Key(t)] # Absent
         /\ spent[Key(t)] + call[t].amount \in Nat
         /\ spent[Key(t)] + call[t].amount <= call[t].daily_budget
         /\ spent' = [spent EXCEPT ![Key(t)] = spent[Key(t)] + call[t].amount]
         /\ written' = [written EXCEPT ![Key(t)] = @ \cup {spent[Key(t)] + call[t].amount}]
  <1>1. call[t] \in Calls /\ Key(t) \in Keys
    BY CallFacts DEF CasOk, IInv, TypeOK, Key
  <1>2. spent[Key(t)] # Absent /\ call[t].amount > 0
    BY DEF CasOk, IInv, HoldersHaveCounters
  <1>3. spent[Key(t)] \in Nat
    BY <1>1, <1>2 DEF IInv, TypeOK
  <1>4. Fits(seen[t], call[t])
    BY DEF CasOk, IInv, SeenFits
  <1>5. call[t].amount \in Int
    BY <1>1, CallFacts
  <1>6. spent[Key(t)] = seen[t]
    BY DEF CasOk
  <1>7. spent[Key(t)] + call[t].amount \in Nat
    BY <1>2, <1>3, <1>5
  <1>8. spent[Key(t)] + call[t].amount <= call[t].daily_budget
    BY <1>4, <1>6 DEF Fits
  <1> QED
    BY <1>1, <1>2, <1>3, <1>5, <1>6, <1>7, <1>8 DEF CasOk

(* Types. *)
LEMMA TypeStep == IInv /\ [Next]_vars => TypeOK'
  <1> SUFFICES ASSUME IInv, [Next]_vars PROVE TypeOK'
    OBVIOUS
  <1>1. ASSUME NEW t \in Threads, Invoke(t) PROVE TypeOK'
    BY <1>1, CallFacts DEF Invoke, Larger, IInv, TypeOK, map
  <1>2. ASSUME NEW t \in Threads, Reject(t) PROVE TypeOK'
    BY <1>2, CallFacts DEF Reject, IInv, TypeOK, map, history
  <1>3. ASSUME NEW t \in Threads, GetHit(t) PROVE TypeOK'
    BY <1>3, CallFacts DEF GetHit, IInv, TypeOK, map, history
  <1>4. ASSUME NEW t \in Threads, GetMiss(t) PROVE TypeOK'
    BY <1>4, CallFacts DEF GetMiss, IInv, TypeOK, map, history
  <1>5. ASSUME NEW t \in Threads, Entry(t) PROVE TypeOK'
    BY <1>5, CallFacts DEF Entry, IInv, TypeOK, Key, map, history
  <1>6. ASSUME NEW t \in Threads, Load(t) PROVE TypeOK'
    <2>1. PICK v \in Visible(t) : Observe(t, v)
      BY <1>6 DEF Load
    <2>2. v \in Nat
      BY <1>6, VisibleFacts DEF Load
    <2> QED
      BY <1>6, <2>1, <2>2 DEF Load, Observe, IInv, TypeOK, map, history
  <1>7. ASSUME NEW t \in Threads, CasOk(t) PROVE TypeOK'
    <2>1. call[t] \in Calls /\ Key(t) \in Keys /\ call[t].amount \in Nat
      BY <1>7, ExchangeFacts
    <2>2. spent' \in [Keys -> Nat \cup {Absent}] /\ written' \in [Keys -> SUBSET Nat]
      BY <1>7, ExchangeFacts DEF IInv, TypeOK
    <2>3. charged' \in [Keys -> Nat]
      BY <1>7, <2>1 DEF CasOk, IInv, TypeOK
    <2> QED
      BY <1>7, <2>1, <2>2, <2>3 DEF CasOk, IInv, TypeOK
  <1>8. ASSUME NEW t \in Threads, CasFail(t) PROVE TypeOK'
    <2>1. PICK v \in Visible(t) : Observe(t, v)
      BY <1>8 DEF CasFail
    <2>2. v \in Nat
      BY <1>8, VisibleFacts DEF CasFail
    <2> QED
      BY <1>8, <2>1, <2>2 DEF CasFail, Observe, IInv, TypeOK, map, history
  <1>9. ASSUME NEW t \in Threads, Return(t) PROVE TypeOK'
    BY <1>9, CallFacts DEF Return, IInv, TypeOK, map, history
  <1>10. CASE SweepStart
    BY <1>10, BudgetAssumption, ShardAssumption DEF SweepStart, NotSweeping, Larger, IInv, TypeOK, map, locals
  <1>11. CASE SweepShard
    BY <1>11, BudgetAssumption, ShardAssumption, SMTT(30) DEF SweepShard, NotSweeping, IInv, TypeOK, locals, history
  <1>12. CASE UNCHANGED vars
    BY <1>12 DEF vars, IInv, TypeOK
  <1> QED
    BY <1>1, <1>2, <1>3, <1>4, <1>5, <1>6, <1>7, <1>8, <1>9, <1>10, <1>11, <1>12 DEF Next, Step

(* A guard is taken only when the holders of the shard allow it. *)
LEMMA GuardsStep == IInv /\ [Next]_vars => GuardsExclude'
  <1> SUFFICES ASSUME IInv, [Next]_vars PROVE GuardsExclude'
    OBVIOUS
  <1>1. ASSUME NEW t \in Threads, Invoke(t) PROVE GuardsExclude'
    BY <1>1 DEF Invoke, Key, IInv, TypeOK, GuardsExclude, HoldersHaveCounters, MayRead, MayWrite, HoldersOf, map
  <1>2. ASSUME NEW t \in Threads, Reject(t) PROVE GuardsExclude'
    BY <1>2 DEF Reject, Key, IInv, TypeOK, GuardsExclude, HoldersHaveCounters, MayRead, MayWrite, HoldersOf, map, history
  <1>3. ASSUME NEW t \in Threads, GetHit(t) PROVE GuardsExclude'
    BY <1>3 DEF GetHit, Key, IInv, TypeOK, GuardsExclude, HoldersHaveCounters, MayRead, MayWrite, HoldersOf, map, history
  <1>4. ASSUME NEW t \in Threads, GetMiss(t) PROVE GuardsExclude'
    BY <1>4 DEF GetMiss, Key, IInv, TypeOK, GuardsExclude, HoldersHaveCounters, MayRead, MayWrite, HoldersOf, map, history
  <1>5. ASSUME NEW t \in Threads, Entry(t) PROVE GuardsExclude'
    BY <1>5 DEF Entry, Key, IInv, TypeOK, GuardsExclude, HoldersHaveCounters, MayRead, MayWrite, HoldersOf, map, history
  <1>6. ASSUME NEW t \in Threads, Load(t) PROVE GuardsExclude'
    BY <1>6 DEF Load, Key, Observe, IInv, TypeOK, GuardsExclude, HoldersHaveCounters, MayRead, MayWrite, HoldersOf, map, history
  <1>7. ASSUME NEW t \in Threads, CasOk(t) PROVE GuardsExclude'
    BY <1>7 DEF CasOk, Key, IInv, TypeOK, GuardsExclude, HoldersHaveCounters, MayRead, MayWrite, HoldersOf
  <1>8. ASSUME NEW t \in Threads, CasFail(t) PROVE GuardsExclude'
    BY <1>8 DEF CasFail, Key, Observe, IInv, TypeOK, GuardsExclude, HoldersHaveCounters, MayRead, MayWrite, HoldersOf, map, history
  <1>9. ASSUME NEW t \in Threads, Return(t) PROVE GuardsExclude'
    BY <1>9 DEF Return, Key, IInv, TypeOK, GuardsExclude, HoldersHaveCounters, MayRead, MayWrite, HoldersOf, map, history
  <1>10. CASE SweepStart
    BY <1>10 DEF SweepStart, Key, IInv, TypeOK, GuardsExclude, HoldersHaveCounters, MayRead, MayWrite, HoldersOf, map, locals
  <1>11. CASE SweepShard
    BY <1>11 DEF SweepShard, Key, IInv, TypeOK, GuardsExclude, HoldersHaveCounters, MayRead, MayWrite, HoldersOf, locals, history
  <1>12. CASE UNCHANGED vars
    BY <1>12 DEF vars, IInv, GuardsExclude, Key
  <1> QED
    BY <1>1, <1>2, <1>3, <1>4, <1>5, <1>6, <1>7, <1>8, <1>9, <1>10, <1>11, <1>12 DEF Next, Step

(* No counter is dropped while a thread holds a guard on its shard. *)
LEMMA HoldersStep == IInv /\ [Next]_vars => HoldersHaveCounters'
  <1> SUFFICES ASSUME IInv, [Next]_vars PROVE HoldersHaveCounters'
    OBVIOUS
  <1>1. ASSUME NEW t \in Threads, Invoke(t) PROVE HoldersHaveCounters'
    BY <1>1, CallFacts DEF Invoke, Key, IInv, TypeOK, HoldersHaveCounters, map
  <1>2. ASSUME NEW t \in Threads, Reject(t) PROVE HoldersHaveCounters'
    BY <1>2, CallFacts DEF Reject, Key, IInv, TypeOK, HoldersHaveCounters, map, history
  <1>3. ASSUME NEW t \in Threads, GetHit(t) PROVE HoldersHaveCounters'
    BY <1>3, CallFacts DEF GetHit, Key, IInv, TypeOK, HoldersHaveCounters, map, history
  <1>4. ASSUME NEW t \in Threads, GetMiss(t) PROVE HoldersHaveCounters'
    BY <1>4, CallFacts DEF GetMiss, Key, IInv, TypeOK, HoldersHaveCounters, map, history
  <1>5. ASSUME NEW t \in Threads, Entry(t) PROVE HoldersHaveCounters'
    BY <1>5, CallFacts, ShardAssumption DEF Entry, Key, IInv, TypeOK, HoldersHaveCounters, map, history
  <1>6. ASSUME NEW t \in Threads, Load(t) PROVE HoldersHaveCounters'
    BY <1>6, CallFacts DEF Load, Key, Observe, IInv, TypeOK, HoldersHaveCounters, map, history
  <1>7. ASSUME NEW t \in Threads, CasOk(t) PROVE HoldersHaveCounters'
    <2>1. \A k \in Keys : spent[k] # Absent => spent'[k] # Absent
      BY <1>7, ExchangeFacts, ShardAssumption DEF IInv, TypeOK
    <2>2. \A u \in Threads : guard[u] # "none" => Key(u) \in Keys
      BY CallFacts DEF Key, IInv, TypeOK, HoldersHaveCounters
    <2> QED
      BY <1>7, <2>1, <2>2 DEF CasOk, Key, IInv, TypeOK, HoldersHaveCounters
  <1>8. ASSUME NEW t \in Threads, CasFail(t) PROVE HoldersHaveCounters'
    BY <1>8, CallFacts DEF CasFail, Key, Observe, IInv, TypeOK, HoldersHaveCounters, map, history
  <1>9. ASSUME NEW t \in Threads, Return(t) PROVE HoldersHaveCounters'
    BY <1>9, CallFacts DEF Return, Key, IInv, TypeOK, HoldersHaveCounters, map, history
  <1>10. CASE SweepStart
    BY <1>10, CallFacts DEF SweepStart, Key, IInv, TypeOK, HoldersHaveCounters, map, locals
  <1>11. CASE SweepShard
    BY <1>11, CallFacts DEF SweepShard, Key, Retained, MayWrite, HoldersOf, IInv, TypeOK, HoldersHaveCounters, locals, history
  <1>12. CASE UNCHANGED vars
    BY <1>12 DEF vars, IInv, HoldersHaveCounters, Key
  <1> QED
    BY <1>1, <1>2, <1>3, <1>4, <1>5, <1>6, <1>7, <1>8, <1>9, <1>10, <1>11, <1>12 DEF Next, Step

(* Charges are positive, so the latest value is the largest. *)
LEMMA LatestStep == IInv /\ [Next]_vars => LatestIsLargest'
  <1> SUFFICES ASSUME IInv, [Next]_vars PROVE LatestIsLargest'
    OBVIOUS
  <1>1. ASSUME NEW t \in Threads, Invoke(t) PROVE LatestIsLargest'
    BY <1>1 DEF Invoke, IInv, LatestIsLargest, map
  <1>2. ASSUME NEW t \in Threads, Reject(t) PROVE LatestIsLargest'
    BY <1>2 DEF Reject, IInv, LatestIsLargest, map, history
  <1>3. ASSUME NEW t \in Threads, GetHit(t) PROVE LatestIsLargest'
    BY <1>3 DEF GetHit, IInv, LatestIsLargest, map, history
  <1>4. ASSUME NEW t \in Threads, GetMiss(t) PROVE LatestIsLargest'
    BY <1>4 DEF GetMiss, IInv, LatestIsLargest, map, history
  <1>5. ASSUME NEW t \in Threads, Entry(t) PROVE LatestIsLargest'
    BY <1>5, CallFacts, ShardAssumption DEF Entry, Key, IInv, TypeOK, LatestIsLargest, map, history
  <1>6. ASSUME NEW t \in Threads, Load(t) PROVE LatestIsLargest'
    BY <1>6 DEF Load, Observe, IInv, LatestIsLargest, map, history
  <1>7. ASSUME NEW t \in Threads, CasOk(t) PROVE LatestIsLargest'
    BY <1>7, ExchangeFacts, ShardAssumption, SMTT(20) DEF IInv, TypeOK, LatestIsLargest
  <1>8. ASSUME NEW t \in Threads, CasFail(t) PROVE LatestIsLargest'
    BY <1>8 DEF CasFail, Observe, IInv, LatestIsLargest, map, history
  <1>9. ASSUME NEW t \in Threads, Return(t) PROVE LatestIsLargest'
    BY <1>9 DEF Return, IInv, LatestIsLargest, map, history
  <1>10. CASE SweepStart
    BY <1>10 DEF SweepStart, IInv, LatestIsLargest, map, locals
  <1>11. CASE SweepShard
    BY <1>11, ShardAssumption DEF SweepShard, IInv, TypeOK, LatestIsLargest, locals, history
  <1>12. CASE UNCHANGED vars
    BY <1>12 DEF vars, IInv, LatestIsLargest
  <1> QED
    BY <1>1, <1>2, <1>3, <1>4, <1>5, <1>6, <1>7, <1>8, <1>9, <1>10, <1>11, <1>12 DEF Next, Step

(* The value a thread read stays one of its counter's values, and fits. *)
LEMMA SeenStep == IInv /\ [Next]_vars => SeenFits'
  <1> SUFFICES ASSUME IInv, [Next]_vars PROVE SeenFits'
    OBVIOUS
  <1>1. ASSUME NEW t \in Threads, Invoke(t) PROVE SeenFits'
    BY <1>1 DEF Invoke, Key, IInv, TypeOK, SeenFits, map
  <1>2. ASSUME NEW t \in Threads, Reject(t) PROVE SeenFits'
    BY <1>2 DEF Reject, Key, IInv, TypeOK, SeenFits, map, history
  <1>3. ASSUME NEW t \in Threads, GetHit(t) PROVE SeenFits'
    BY <1>3 DEF GetHit, Key, IInv, TypeOK, SeenFits, map, history
  <1>4. ASSUME NEW t \in Threads, GetMiss(t) PROVE SeenFits'
    BY <1>4 DEF GetMiss, Key, IInv, TypeOK, SeenFits, map, history
  <1>5. ASSUME NEW t \in Threads, Entry(t) PROVE SeenFits'
    BY <1>5, CallFacts DEF Entry, Key, IInv, TypeOK, SeenFits, HoldersHaveCounters, map, history
  <1>6. ASSUME NEW t \in Threads, Load(t) PROVE SeenFits'
    <2>1. PICK v \in Visible(t) : Observe(t, v)
      BY <1>6 DEF Load
    <2>2. v \in written[Key(t)]
      BY <1>6, VisibleFacts DEF Load
    <2> QED
      BY <2>1, <2>2 DEF Observe, Key, IInv, TypeOK, SeenFits, map, history
  <1>7. ASSUME NEW t \in Threads, CasOk(t) PROVE SeenFits'
    BY <1>7, ExchangeFacts DEF CasOk, Key, IInv, TypeOK, SeenFits
  <1>8. ASSUME NEW t \in Threads, CasFail(t) PROVE SeenFits'
    <2>1. PICK v \in Visible(t) : Observe(t, v)
      BY <1>8 DEF CasFail
    <2>2. v \in written[Key(t)]
      BY <1>8, VisibleFacts DEF CasFail
    <2> QED
      BY <2>1, <2>2 DEF Observe, Key, IInv, TypeOK, SeenFits, map, history
  <1>9. ASSUME NEW t \in Threads, Return(t) PROVE SeenFits'
    BY <1>9 DEF Return, Key, IInv, TypeOK, SeenFits, map, history
  <1>10. CASE SweepStart
    BY <1>10 DEF SweepStart, Key, IInv, SeenFits, map, locals
  <1>11. CASE SweepShard
    BY <1>11, CallFacts DEF SweepShard, Key, Retained, MayWrite, HoldersOf, IInv, TypeOK, HoldersHaveCounters, SeenFits, locals, history
  <1>12. CASE UNCHANGED vars
    BY <1>12 DEF vars, IInv, SeenFits, Key
  <1> QED
    BY <1>1, <1>2, <1>3, <1>4, <1>5, <1>6, <1>7, <1>8, <1>9, <1>10, <1>11, <1>12 DEF Next, Step

(* The ceiling only rises. *)
LEMMA CeilingStep == IInv /\ [Next]_vars => CeilingCoversCalls'
  <1> SUFFICES ASSUME IInv, [Next]_vars PROVE CeilingCoversCalls'
    OBVIOUS
  <1>1. ASSUME NEW t \in Threads, Invoke(t) PROVE CeilingCoversCalls'
    BY <1>1, CallFacts DEF Invoke, Larger, Key, IInv, TypeOK, CeilingCoversCalls, map
  <1>2. ASSUME NEW t \in Threads, Reject(t) PROVE CeilingCoversCalls'
    BY <1>2, CallFacts DEF Reject, Key, IInv, TypeOK, CeilingCoversCalls, map, history
  <1>3. ASSUME NEW t \in Threads, GetHit(t) PROVE CeilingCoversCalls'
    BY <1>3, CallFacts DEF GetHit, Key, IInv, TypeOK, CeilingCoversCalls, map, history
  <1>4. ASSUME NEW t \in Threads, GetMiss(t) PROVE CeilingCoversCalls'
    BY <1>4, CallFacts DEF GetMiss, Key, IInv, TypeOK, CeilingCoversCalls, map, history
  <1>5. ASSUME NEW t \in Threads, Entry(t) PROVE CeilingCoversCalls'
    BY <1>5, CallFacts DEF Entry, Key, IInv, TypeOK, CeilingCoversCalls, map, history
  <1>6. ASSUME NEW t \in Threads, Load(t) PROVE CeilingCoversCalls'
    BY <1>6, CallFacts DEF Load, Key, Observe, IInv, TypeOK, CeilingCoversCalls, map, history
  <1>7. ASSUME NEW t \in Threads, CasOk(t) PROVE CeilingCoversCalls'
    BY <1>7, CallFacts DEF CasOk, Key, IInv, TypeOK, CeilingCoversCalls
  <1>8. ASSUME NEW t \in Threads, CasFail(t) PROVE CeilingCoversCalls'
    BY <1>8, CallFacts DEF CasFail, Key, Observe, IInv, TypeOK, CeilingCoversCalls, map, history
  <1>9. ASSUME NEW t \in Threads, Return(t) PROVE CeilingCoversCalls'
    BY <1>9, CallFacts DEF Return, Key, IInv, TypeOK, CeilingCoversCalls, map, history
  <1>10. CASE SweepStart
    BY <1>10, CallFacts DEF SweepStart, Key, IInv, TypeOK, CeilingCoversCalls, map, locals
  <1>11. CASE SweepShard
    BY <1>11, CallFacts DEF SweepShard, Key, IInv, TypeOK, CeilingCoversCalls, locals, history
  <1>12. CASE UNCHANGED vars
    BY <1>12 DEF vars, IInv, CeilingCoversCalls, Key
  <1> QED
    BY <1>1, <1>2, <1>3, <1>4, <1>5, <1>6, <1>7, <1>8, <1>9, <1>10, <1>11, <1>12 DEF Next, Step

(* Starting a sweep raises the horizon to its bound. *)
LEMMA SweepStep == IInv /\ [Next]_vars => SweepBehindHorizon'
  <1> SUFFICES ASSUME IInv, [Next]_vars PROVE SweepBehindHorizon'
    OBVIOUS
  <1>1. ASSUME NEW t \in Threads, Invoke(t) PROVE SweepBehindHorizon'
    BY <1>1 DEF Invoke, IInv, SweepBehindHorizon, map
  <1>2. ASSUME NEW t \in Threads, Reject(t) PROVE SweepBehindHorizon'
    BY <1>2 DEF Reject, IInv, SweepBehindHorizon, map, history
  <1>3. ASSUME NEW t \in Threads, GetHit(t) PROVE SweepBehindHorizon'
    BY <1>3 DEF GetHit, IInv, SweepBehindHorizon, map, history
  <1>4. ASSUME NEW t \in Threads, GetMiss(t) PROVE SweepBehindHorizon'
    BY <1>4 DEF GetMiss, IInv, SweepBehindHorizon, map, history
  <1>5. ASSUME NEW t \in Threads, Entry(t) PROVE SweepBehindHorizon'
    BY <1>5 DEF Entry, IInv, SweepBehindHorizon, map, history
  <1>6. ASSUME NEW t \in Threads, Load(t) PROVE SweepBehindHorizon'
    BY <1>6 DEF Load, Observe, IInv, SweepBehindHorizon, map, history
  <1>7. ASSUME NEW t \in Threads, CasOk(t) PROVE SweepBehindHorizon'
    BY <1>7 DEF CasOk, IInv, SweepBehindHorizon
  <1>8. ASSUME NEW t \in Threads, CasFail(t) PROVE SweepBehindHorizon'
    BY <1>8 DEF CasFail, Observe, IInv, SweepBehindHorizon, map, history
  <1>9. ASSUME NEW t \in Threads, Return(t) PROVE SweepBehindHorizon'
    BY <1>9 DEF Return, IInv, SweepBehindHorizon, map, history
  <1>10. CASE SweepStart
    BY <1>10, BudgetAssumption DEF SweepStart, Larger, IInv, TypeOK, SweepBehindHorizon, map, locals
  <1>11. CASE SweepShard
    BY <1>11, BudgetAssumption, ShardAssumption DEF SweepShard, IInv, TypeOK, SweepBehindHorizon, locals, history
  <1>12. CASE UNCHANGED vars
    BY <1>12 DEF vars, IInv, SweepBehindHorizon
  <1> QED
    BY <1>1, <1>2, <1>3, <1>4, <1>5, <1>6, <1>7, <1>8, <1>9, <1>10, <1>11, <1>12 DEF Next, Step

(* Exchanges, creations and sweeps keep every charge of an open day. *)
LEMMA NothingLostStep == IInv /\ [Next]_vars => NothingLost'
  <1> SUFFICES ASSUME IInv, [Next]_vars PROVE NothingLost'
    OBVIOUS
  <1>1. ASSUME NEW t \in Threads, Invoke(t) PROVE NothingLost'
    BY <1>1 DEF Invoke, Spent, IInv, NothingLost, map
  <1>2. ASSUME NEW t \in Threads, Reject(t) PROVE NothingLost'
    BY <1>2 DEF Reject, Spent, IInv, NothingLost, map, history
  <1>3. ASSUME NEW t \in Threads, GetHit(t) PROVE NothingLost'
    BY <1>3 DEF GetHit, Spent, IInv, NothingLost, map, history
  <1>4. ASSUME NEW t \in Threads, GetMiss(t) PROVE NothingLost'
    BY <1>4 DEF GetMiss, Spent, IInv, NothingLost, map, history
  <1>5. ASSUME NEW t \in Threads, Entry(t) PROVE NothingLost'
    BY <1>5, CallFacts, ShardAssumption DEF Entry, Key, Spent, IInv, TypeOK, NothingLost, map, history
  <1>6. ASSUME NEW t \in Threads, Load(t) PROVE NothingLost'
    BY <1>6 DEF Load, Observe, Spent, IInv, NothingLost, map, history
  <1>7. ASSUME NEW t \in Threads, CasOk(t) PROVE NothingLost'
    <2>1. call[t] \in Calls /\ Key(t) \in Keys /\ DayOf(Key(t)) = call[t].day
      BY <1>7, ExchangeFacts, CallFacts DEF Key
    <2>2. PICK own \in Keys : own = Key(t)
      BY <2>1
    <2>3. ASSUME NEW k \in Keys, k # own
          PROVE  Spent(k)' = Spent(k) /\ charged'[k] = charged[k]
      BY <1>7, <2>2, <2>3, ExchangeFacts DEF CasOk, Spent, IInv, TypeOK
    <2>4. Spent(own)' = Spent(own) + call[t].amount
      BY <1>7, <2>2, ExchangeFacts, ShardAssumption DEF Spent, IInv, TypeOK
    <2>5. DayOf(own) >= horizon => charged'[own] = charged[own] + call[t].amount
      BY <1>7, <2>1, <2>2 DEF CasOk, IInv, TypeOK
    <2>6. horizon' = horizon
      BY <1>7 DEF CasOk
    <2> SUFFICES ASSUME NEW k \in Keys, DayOf(k) >= horizon
                 PROVE  charged'[k] = Spent(k)'
      BY <2>6 DEF NothingLost
    <2>7. charged[k] = Spent(k)
      BY DEF IInv, NothingLost
    <2> QED
      BY <2>3, <2>4, <2>5, <2>7
  <1>8. ASSUME NEW t \in Threads, CasFail(t) PROVE NothingLost'
    BY <1>8 DEF CasFail, Observe, Spent, IInv, NothingLost, map, history
  <1>9. ASSUME NEW t \in Threads, Return(t) PROVE NothingLost'
    BY <1>9 DEF Return, Spent, IInv, NothingLost, map, history
  <1>10. CASE SweepStart
    BY <1>10, BudgetAssumption, DayFacts DEF SweepStart, Larger, Spent, IInv, TypeOK, NothingLost, map, locals
  <1>11. CASE SweepShard
    BY <1>11, BudgetAssumption, DayFacts DEF SweepShard, Retained, Spent, IInv, TypeOK, SweepBehindHorizon, NothingLost, locals, history
  <1>12. CASE UNCHANGED vars
    BY <1>12 DEF vars, IInv, NothingLost, Spent
  <1> QED
    BY <1>1, <1>2, <1>3, <1>4, <1>5, <1>6, <1>7, <1>8, <1>9, <1>10, <1>11, <1>12 DEF Next, Step

(* A grant fits its caller's budget, which the ceiling covers. *)
LEMMA OverspendStep == IInv /\ [Next]_vars => NoOverspend'
  <1> SUFFICES ASSUME IInv, [Next]_vars PROVE NoOverspend'
    OBVIOUS
  <1>1. ASSUME NEW t \in Threads, Invoke(t) PROVE NoOverspend'
    BY <1>1, CallFacts DEF Invoke, Larger, IInv, TypeOK, NoOverspend, map
  <1>2. ASSUME NEW t \in Threads, Reject(t) PROVE NoOverspend'
    BY <1>2 DEF Reject, IInv, NoOverspend, map, history
  <1>3. ASSUME NEW t \in Threads, GetHit(t) PROVE NoOverspend'
    BY <1>3 DEF GetHit, IInv, NoOverspend, map, history
  <1>4. ASSUME NEW t \in Threads, GetMiss(t) PROVE NoOverspend'
    BY <1>4 DEF GetMiss, IInv, NoOverspend, map, history
  <1>5. ASSUME NEW t \in Threads, Entry(t) PROVE NoOverspend'
    BY <1>5 DEF Entry, IInv, NoOverspend, map, history
  <1>6. ASSUME NEW t \in Threads, Load(t) PROVE NoOverspend'
    BY <1>6 DEF Load, Observe, IInv, NoOverspend, map, history
  <1>7. ASSUME NEW t \in Threads, CasOk(t) PROVE NoOverspend'
    <2>1. call[t] \in Calls /\ Key(t) \in Keys
      BY <1>7, ExchangeFacts
    <2>2. call[t].daily_budget <= ceiling[Key(t)]
      BY <1>7 DEF CasOk, IInv, CeilingCoversCalls
    <2>3. call[t].day >= horizon => charged[Key(t)] = spent[Key(t)]
      BY <1>7, <2>1, CallFacts, ExchangeFacts, ShardAssumption DEF IInv, NothingLost, Spent, Key
    <2>4. call[t].day >= horizon => charged[Key(t)] + call[t].amount <= ceiling[Key(t)]
      BY <1>7, <2>1, <2>2, <2>3, CallFacts, ExchangeFacts DEF IInv, TypeOK
    <2> QED
      BY <1>7, <2>1, <2>4 DEF CasOk, IInv, TypeOK, NoOverspend
  <1>8. ASSUME NEW t \in Threads, CasFail(t) PROVE NoOverspend'
    BY <1>8 DEF CasFail, Observe, IInv, NoOverspend, map, history
  <1>9. ASSUME NEW t \in Threads, Return(t) PROVE NoOverspend'
    BY <1>9 DEF Return, IInv, NoOverspend, map, history
  <1>10. CASE SweepStart
    BY <1>10 DEF SweepStart, IInv, NoOverspend, map, locals
  <1>11. CASE SweepShard
    BY <1>11 DEF SweepShard, IInv, NoOverspend, locals, history
  <1>12. CASE UNCHANGED vars
    BY <1>12 DEF vars, IInv, NoOverspend
  <1> QED
    BY <1>1, <1>2, <1>3, <1>4, <1>5, <1>6, <1>7, <1>8, <1>9, <1>10, <1>11, <1>12 DEF Next, Step

(* No step makes room for an amount that was refused while its guard is held. *)
LEMMA RefusalsStep == IInv /\ [Next]_vars => RefusalsAreTruthful'
  <1> SUFFICES ASSUME IInv, [Next]_vars PROVE RefusalsAreTruthful'
    OBVIOUS
  <1>1. ASSUME NEW t \in Threads, Invoke(t) PROVE RefusalsAreTruthful'
    BY <1>1 DEF Invoke, Key, Fits, Spent, IInv, TypeOK, RefusalsAreTruthful, HoldersHaveCounters, map
  <1>2. ASSUME NEW t \in Threads, Reject(t) PROVE RefusalsAreTruthful'
    BY <1>2 DEF Reject, Key, Fits, Spent, IInv, TypeOK, RefusalsAreTruthful, HoldersHaveCounters, map, history
  <1>3. ASSUME NEW t \in Threads, GetHit(t) PROVE RefusalsAreTruthful'
    BY <1>3 DEF GetHit, Key, Fits, Spent, IInv, TypeOK, RefusalsAreTruthful, HoldersHaveCounters, map, history
  <1>4. ASSUME NEW t \in Threads, GetMiss(t) PROVE RefusalsAreTruthful'
    BY <1>4 DEF GetMiss, Key, Fits, Spent, IInv, TypeOK, RefusalsAreTruthful, HoldersHaveCounters, map, history
  <1>5. ASSUME NEW t \in Threads, Entry(t) PROVE RefusalsAreTruthful'
    <2>1. \A u \in Threads : answer[u] = "refused" => spent'[Key(u)] = spent[Key(u)]
      BY <1>5, CallFacts DEF Entry, Key, IInv, TypeOK, HoldersHaveCounters, map, history
    <2> QED
      BY <1>5, <2>1 DEF Entry, Key, Fits, Spent, IInv, RefusalsAreTruthful
  <1>6. ASSUME NEW t \in Threads, Load(t) PROVE RefusalsAreTruthful'
    <2>1. PICK v \in Visible(t) : Observe(t, v)
      BY <1>6 DEF Load
    <2>2. ~ Fits(v, call[t]) => ~ Fits(Spent(Key(t)), call[t])
      <3>1. call[t] \in Calls
        BY <1>6 DEF Load, IInv, TypeOK
      <3>2. v \in Nat /\ Spent(Key(t)) \in Nat /\ v <= Spent(Key(t))
        BY <1>6, VisibleFacts DEF Load
      <3> QED
        BY <3>1, <3>2, CallFacts, BudgetAssumption DEF Fits
    <2> QED
      BY <2>1, <2>2 DEF Observe, Fits, Key, Spent, IInv, TypeOK, RefusalsAreTruthful, map, history
  <1>7. ASSUME NEW t \in Threads, CasOk(t) PROVE RefusalsAreTruthful'
    <2> SUFFICES ASSUME NEW u \in Threads, answer'[u] = "refused"
                 PROVE  ~ Fits(Spent(Key(u)), call[u])'
      BY DEF RefusalsAreTruthful
    <2>1. u # t /\ answer[u] = "refused" /\ call'[u] = call[u] /\ Key(u)' = Key(u)
      BY <1>7 DEF CasOk, IInv, TypeOK, Key
    <2>2. call[u] \in Calls /\ Key(u) \in Keys /\ spent[Key(u)] \in Nat
      BY <2>1, CallFacts, ShardAssumption DEF Key, IInv, TypeOK, HoldersHaveCounters
    <2>3. spent'[Key(u)] \in Nat /\ spent'[Key(u)] >= spent[Key(u)]
      BY <1>7, <2>2, ExchangeFacts DEF IInv, TypeOK
    <2>4. ~ Fits(spent[Key(u)], call[u])
      BY <2>1, <2>2, ShardAssumption DEF IInv, RefusalsAreTruthful, Spent
    <2>5. ~ Fits(spent'[Key(u)], call[u])
      BY <2>2, <2>3, <2>4, CallFacts, BudgetAssumption DEF Fits
    <2> QED
      BY <2>1, <2>2, <2>3, <2>5, ShardAssumption DEF Spent, Fits
  <1>8. ASSUME NEW t \in Threads, CasFail(t) PROVE RefusalsAreTruthful'
    <2>1. PICK v \in Visible(t) : Observe(t, v)
      BY <1>8 DEF CasFail
    <2>2. ~ Fits(v, call[t]) => ~ Fits(Spent(Key(t)), call[t])
      <3>1. call[t] \in Calls
        BY <1>8 DEF CasFail, IInv, TypeOK
      <3>2. v \in Nat /\ Spent(Key(t)) \in Nat /\ v <= Spent(Key(t))
        BY <1>8, VisibleFacts DEF CasFail
      <3> QED
        BY <3>1, <3>2, CallFacts, BudgetAssumption DEF Fits
    <2> QED
      BY <2>1, <2>2 DEF Observe, Fits, Key, Spent, IInv, TypeOK, RefusalsAreTruthful, map, history
  <1>9. ASSUME NEW t \in Threads, Return(t) PROVE RefusalsAreTruthful'
    BY <1>9 DEF Return, Key, Fits, Spent, IInv, TypeOK, RefusalsAreTruthful, HoldersHaveCounters, map, history
  <1>10. CASE SweepStart
    BY <1>10 DEF SweepStart, Key, Fits, Spent, IInv, TypeOK, RefusalsAreTruthful, HoldersHaveCounters, map, locals
  <1>11. CASE SweepShard
    <2>1. \A u \in Threads : answer[u] = "refused" => spent'[Key(u)] = spent[Key(u)]
      BY <1>11, CallFacts DEF SweepShard, Key, Retained, MayWrite, HoldersOf, IInv, TypeOK, HoldersHaveCounters, locals
    <2> QED
      BY <1>11, <2>1 DEF SweepShard, Key, Fits, Spent, IInv, RefusalsAreTruthful, locals
  <1>12. CASE UNCHANGED vars
    BY <1>12 DEF vars, IInv, RefusalsAreTruthful, Key, Spent, Fits
  <1> QED
    BY <1>1, <1>2, <1>3, <1>4, <1>5, <1>6, <1>7, <1>8, <1>9, <1>10, <1>11, <1>12 DEF Next, Step

LEMMA StepIInv == IInv /\ [Next]_vars => IInv'
  BY TypeStep, GuardsStep, HoldersStep, LatestStep, SeenStep, CeilingStep, SweepStep,
     NothingLostStep, OverspendStep, RefusalsStep
  DEF IInv

(* The inductive invariant holds in every reachable state of every         *)
(* instance: threads, keys, amounts, budgets, shards are arbitrary.        *)
THEOREM Invariance == Spec => []IInv
  BY InitIInv, StepIInv, PTL DEF Spec

(* Type correctness.                                                       *)
THEOREM TypeCorrect == Spec => []TypeOK
  <1>1. IInv => TypeOK
    BY DEF IInv
  <1> QED
    BY <1>1, Invariance, PTL

(* try_spend never grants a campaign more on a day than the largest budget *)
(* its callers passed (budget.rs, "Zero overspend in one process").        *)
THEOREM ZeroOverspend == Spec => []NoOverspend
  <1>1. IInv => NoOverspend
    BY DEF IInv
  <1> QED
    BY <1>1, Invariance, PTL

(* Neither a race nor a sweep loses a charge of a day that is still open.  *)
THEOREM EveryChargeIsKept == Spec => []NothingLost
  <1>1. IInv => NothingLost
    BY DEF IInv
  <1> QED
    BY <1>1, Invariance, PTL

(* Relaxed loads never make try_spend refuse an amount that fits.          *)
THEOREM TruthfulRefusals == Spec => []RefusalsAreTruthful
  <1>1. IInv => RefusalsAreTruthful
    BY DEF IInv
  <1> QED
    BY <1>1, Invariance, PTL

(* Only the exchange grants, only one caller's amount, and only within     *)
(* that caller's own budget.                                               *)
THEOREM GrantsFit == Spec => GrantsFitTheirBudget
  <1> DEFINE Fit(k) == charged'[k] # charged[k] =>
                \E t \in Threads :
                  /\ pc[t] = "cas"
                  /\ pc'[t] = "done"
                  /\ Key(t) = k
                  /\ charged'[k] = charged[k] + call[t].amount
                  /\ charged'[k] <= call[t].daily_budget
  <1>1. IInv /\ [Next]_vars => [\A k \in Keys : Fit(k)]_vars
    <2> SUFFICES ASSUME IInv, Next, NEW k \in Keys, charged'[k] # charged[k]
                 PROVE  \E t \in Threads :
                          /\ pc[t] = "cas"
                          /\ pc'[t] = "done"
                          /\ Key(t) = k
                          /\ charged'[k] = charged[k] + call[t].amount
                          /\ charged'[k] <= call[t].daily_budget
      OBVIOUS
    <2>1. PICK t \in Threads : CasOk(t)
      BY DEF Next, Step, Invoke, Reject, GetHit, GetMiss, Entry, Load, CasFail, Observe,
             Return, SweepStart, SweepShard, history
    <2>2. call[t] \in Calls /\ Key(t) \in Keys /\ DayOf(Key(t)) = call[t].day
      BY <2>1, ExchangeFacts, CallFacts DEF Key
    <2>3. Key(t) = k /\ call[t].day >= horizon
      BY <2>1, <2>2 DEF CasOk, IInv, TypeOK
    <2>4. charged[k] = spent[k]
      BY <2>1, <2>2, <2>3, ExchangeFacts DEF IInv, NothingLost, Spent
    <2>5. charged'[k] = charged[k] + call[t].amount
      BY <2>1, <2>3 DEF CasOk, IInv, TypeOK
    <2>6. charged'[k] <= call[t].daily_budget
      BY <2>1, <2>3, <2>4, <2>5, ExchangeFacts
    <2>7. pc[t] = "cas" /\ pc'[t] = "done"
      BY <2>1 DEF CasOk, IInv, TypeOK
    <2> QED
      BY <2>3, <2>5, <2>6, <2>7
  <1> QED
    BY <1>1, Invariance, PTL DEF Spec, GrantsFitTheirBudget

(***************************************************************************)
(* Refinement of AtomicBudgets.                                            *)
(***************************************************************************)
LEMMA AtomicVocabulary ==
  /\ Atomic!Calls = Calls
  /\ Atomic!Keys = Keys
  /\ \A c : Atomic!KeyOf(c) = KeyOf(c)
  /\ \A k : Atomic!DayOf(k) = DayOf(k)
  /\ \A x, y : Atomic!Larger(x, y) = Larger(x, y)
  BY DEF Atomic!Calls, Calls, Atomic!Keys, Keys, Atomic!KeyOf, KeyOf, Atomic!DayOf, DayOf,
         Atomic!Larger, Larger

LEMMA AtomicInit == Init => Atomic!Init
  <1> SUFFICES ASSUME Init PROVE Atomic!Init
    OBVIOUS
  <1>1. [k \in Keys |-> Spent(k)] = [k \in Keys |-> 0]
    BY DEF Init, Spent
  <1>2. phase = [t \in Threads |-> "idle"]
    BY DEF Init, phase
  <1> QED
    BY <1>1, <1>2, AtomicVocabulary DEF Init, Atomic!Init

(* Steps that only move a thread between "start" and "cas" are invisible.  *)
LEMMA PhaseFacts ==
  ASSUME IInv, NEW t \in Threads
  PROVE  /\ pc[t] = "idle" => phase[t] = "idle"
         /\ pc[t] = "done" => phase[t] = "answered"
         /\ pc[t] \in {"start", "entry", "load", "cas"} => phase[t] = "pending"
  BY DEF phase

LEMMA AtomicStep == IInv /\ IInv' /\ [Next]_vars => [Atomic!Next]_(Atomic!vars)
  <1> SUFFICES ASSUME IInv, IInv', [Next]_vars
               PROVE  Atomic!Next \/ UNCHANGED Atomic!vars
    BY DEF Atomic!vars
  <1> DEFINE abstract == [k \in Keys |-> Spent(k)]
  <1>0. spent' = spent => abstract' = abstract
    BY DEF Spent
  <1>1. ASSUME NEW t \in Threads, Invoke(t) PROVE Atomic!Invoke(t)
    <2>1. phase' = [phase EXCEPT ![t] = "pending"]
      BY <1>1 DEF Invoke, phase, IInv, TypeOK
    <2> QED
      BY <1>0, <1>1, <2>1, PhaseFacts, AtomicVocabulary DEF Invoke, Atomic!Invoke, map
  <1>2. ASSUME NEW t \in Threads, Reject(t) PROVE Atomic!Reject(t)
    <2>1. phase' = [phase EXCEPT ![t] = "answered"]
      BY <1>2 DEF Reject, phase, IInv, TypeOK
    <2> QED
      BY <1>0, <1>2, <2>1 DEF Reject, Atomic!Reject, Atomic!Answer, map, history, phase
  <1>3. ASSUME NEW t \in Threads, GetHit(t) PROVE UNCHANGED Atomic!vars
    <2>1. phase' = phase
      BY <1>3 DEF GetHit, phase, IInv, TypeOK
    <2> QED
      BY <1>0, <1>3, <2>1 DEF GetHit, Atomic!vars, map, history
  <1>4. ASSUME NEW t \in Threads, GetMiss(t) PROVE UNCHANGED Atomic!vars
    <2>1. phase' = phase
      BY <1>4 DEF GetMiss, phase, IInv, TypeOK
    <2> QED
      BY <1>0, <1>4, <2>1 DEF GetMiss, Atomic!vars, map, history
  <1>5. ASSUME NEW t \in Threads, Entry(t) PROVE UNCHANGED Atomic!vars
    <2>1. phase' = phase
      BY <1>5 DEF Entry, phase, IInv, TypeOK
    <2>2. Key(t) \in Keys
      BY <1>5, CallFacts DEF Entry, Key, IInv, TypeOK
    <2>3. abstract' = abstract
      BY <1>5, <2>2, ShardAssumption DEF Entry, map, Spent, IInv, TypeOK
    <2> QED
      BY <1>5, <2>1, <2>3 DEF Entry, Atomic!vars, history
  <1>6. ASSUME NEW t \in Threads, NEW v \in Visible(t), Observe(t, v), pc[t] \in {"load", "cas"}
        PROVE  Atomic!Refuse(t) \/ UNCHANGED Atomic!vars
    <2>1. CASE Fits(v, call[t])
      <3>1. phase' = phase
        BY <1>6, <2>1 DEF Observe, phase, IInv, TypeOK
      <3> QED
        BY <1>0, <1>6, <2>1, <3>1 DEF Observe, Atomic!vars, map, history
    <2>2. CASE ~ Fits(v, call[t])
      <3>1. phase' = [phase EXCEPT ![t] = "answered"]
        <4>1. pc' = [pc EXCEPT ![t] = "done"]
          BY <1>6, <2>2 DEF Observe
        <4>2. pc'[t] = "done" /\ \A s \in Threads : s # t => pc'[s] = pc[s]
          BY <4>1 DEF IInv, TypeOK
        <4> QED
          BY <4>2 DEF phase
      <3>2. call[t] \in Calls /\ Key(t) \in Keys
        BY <1>6, VisibleFacts DEF IInv, TypeOK
      <3>3. v \in Nat /\ spent[Key(t)] \in Nat /\ v <= spent[Key(t)]
        BY <1>6, VisibleFacts
      <3>4. abstract[Key(t)] = spent[Key(t)]
        BY <1>6, <3>2, VisibleFacts
      <3>5. ~ (abstract[Key(t)] + call[t].amount <= call[t].daily_budget)
        BY <2>2, <3>2, <3>3, <3>4, CallFacts, BudgetAssumption DEF Fits
      <3>6. call[t].amount > 0
        BY <1>6 DEF IInv, HoldersHaveCounters
      <3> QED
        BY <1>0, <1>6, <2>2, <3>1, <3>5, <3>6, PhaseFacts, AtomicVocabulary
        DEF Observe, Atomic!Refuse, Atomic!Answer, Atomic!Fits, Key, map, history
    <2> QED
      BY <2>1, <2>2
  <1>7. ASSUME NEW t \in Threads, CasOk(t) PROVE Atomic!Grant(t)
    <2>1. phase' = [phase EXCEPT ![t] = "answered"]
      BY <1>7 DEF CasOk, phase, IInv, TypeOK
    <2>2. abstract[Key(t)] = spent[Key(t)]
      BY <1>7, ExchangeFacts DEF Spent
    <2>3. abstract' = [abstract EXCEPT ![Key(t)] = @ + call[t].amount]
      BY <1>7, <2>2, ExchangeFacts, ShardAssumption DEF Spent, IInv, TypeOK
    <2> QED
      BY <1>7, <2>1, <2>2, <2>3, ExchangeFacts, PhaseFacts, AtomicVocabulary
      DEF CasOk, Atomic!Grant, Atomic!Answer, Atomic!Fits, Key
  <1>8. ASSUME NEW t \in Threads, Return(t) PROVE Atomic!Return(t)
    <2>1. phase' = [phase EXCEPT ![t] = "idle"]
      BY <1>8 DEF Return, phase, IInv, TypeOK
    <2> QED
      BY <1>0, <1>8, <2>1, PhaseFacts DEF Return, Atomic!Return, map, history
  <1>9. CASE SweepStart
    <2>1. phase' = phase
      BY <1>9 DEF SweepStart, phase, locals
    <2> QED
      BY <1>0, <1>9, <2>1, AtomicVocabulary DEF SweepStart, Atomic!Next, Atomic!RaiseHorizon, map, locals
  <1>10. CASE SweepShard
    <2> DEFINE gone == {k \in Keys : ~ Retained(k)}
    <2>1. phase' = phase
      BY <1>10 DEF SweepShard, phase, locals
    <2>2. gone \in SUBSET {k \in Keys : DayOf(k) < horizon}
      <3>1. sweep.bound \in Int /\ horizon \in Int /\ sweep.bound <= horizon
        BY BudgetAssumption DEF IInv, TypeOK, SweepBehindHorizon
      <3>2. \A k \in Keys : ~ Retained(k) => DayOf(k) < horizon
        BY <3>1, DayFacts DEF Retained
      <3> QED
        BY <3>2
    <2>3. abstract' = [k \in Keys |-> IF k \in gone THEN 0 ELSE abstract[k]]
      BY <1>10 DEF SweepShard, Spent
    <2>4. Atomic!Forget
      BY <1>10, <2>1, <2>2, <2>3, AtomicVocabulary DEF SweepShard, Atomic!Forget, locals, history
    <2> QED
      BY <2>4 DEF Atomic!Next
  <1>11. CASE UNCHANGED vars
    BY <1>11 DEF vars, Atomic!vars, phase, Spent
  <1> QED
    BY <1>1, <1>2, <1>3, <1>4, <1>5, <1>6, <1>7, <1>8, <1>9, <1>10, <1>11
    DEF Next, Step, Load, CasFail, Atomic!Next

(* Every behaviour of the sharded map with its compare-and-swap loops is,  *)
(* to its callers, one of the specification in which each call decides in  *)
(* a single step.                                                          *)
THEOREM Refinement == Spec => ImplementsAtomic
  BY AtomicInit, AtomicStep, Invariance, PTL DEF Spec, ImplementsAtomic, Atomic!Spec
=============================================================================
