--------------------------- MODULE AdServerProofs ----------------------------
(***************************************************************************)
(* Proofs about the server process, for any requests, tables, queries and  *)
(* campaigns, any number of days, crashes and shutdowns: types, gauges,    *)
(* who was passed over, readiness, and what the counters and the metrics   *)
(* say of the ads shown.                                                   *)
(***************************************************************************)
EXTENDS AdServer, DataLemmas

(* A request that is in an auction, or has been through one.               *)
InAuction(r) == \/ rpc[r] \in {"walk", "record", "skips", "reply"}
                \/ rpc[r] \in {"respond", "done"} /\ answer[r] = "ok"

(* What a request holds is there when it is used; candidates are asked in  *)
(* the auction only.                                                       *)
RequestInv ==
  \A r \in Requests :
    /\ rpc[r] \in {"load", "date", "run"} => input[r] # "malformed"
    /\ rpc[r] \in {"date", "run"} => snap[r] \in Tables
    /\ rpc[r] = "run" => today[r] \in Days
    /\ InAuction(r) => input[r] \in Queries /\ snap[r] \in Tables /\ today[r] \in Days
    /\ rpc[r] # "gone" /\ ~ InAuction(r) => asked[r] = 0

(* The refresh task publishes what it built, with the gauges set first,    *)
(* and never prunes yesterday.                                             *)
RefreshInv ==
  /\ refresh \in {"built", "measured"} => built \in Tables
  /\ bound <= day - 1
  /\ refresh = "measured" => gauge = Size[built]
  /\ GaugesMatchIndex

(* Who was passed over could not pay, and cannot now.                      *)
CannotPay(r, i) == Spent(KeyAt(r, i)) + PriceAt(r, i) > BudgetAt(r, i)
SkippedInv ==
  \A r \in Requests : InAuction(r) /\ today[r] >= day - 1 =>
    \A i \in 1..asked[r] : CannotPay(r, i)

(* Nobody is asked who is not in the ranking.                              *)
WalkInv == \A r \in Requests : InAuction(r) => asked[r] <= Len(Ranked(r))

ServerInv == TypeOK /\ RequestInv /\ RefreshInv /\ WalkInv /\ SkippedInv

(* The i-th candidate of an auction.                                       *)
LEMMA CandidateFacts ==
  ASSUME NEW t \in Tables, NEW query \in Queries
  PROVE  /\ Len(Ranking[t][query]) \in Nat
         /\ \A i \in 1..Len(Ranking[t][query]) :
              /\ Ranking[t][query][i].campaign \in Campaigns
              /\ Ranking[t][query][i].price \in Nat \ {0}
              /\ Budget[t][Ranking[t][query][i].campaign] \in Int
  <1> DEFINE list == Ranking[t][query]
             Candidate == [campaign : Campaigns, price : Nat \ {0}]
  <1>1. list \in Seq(Candidate)
    BY ServerAssumption
  <1>2. \A c \in Candidate : c.campaign \in Campaigns /\ c.price \in Nat \ {0}
    OBVIOUS
  <1> HIDE DEF list, Candidate
  <1>3. /\ Len(list) \in Nat
        /\ \A i \in 1..Len(list) : list[i].campaign \in Campaigns /\ list[i].price \in Nat \ {0}
    BY <1>1, <1>2
  <1>4. \A i \in 1..Len(list) : Budget[t][list[i].campaign] \in Int
    BY <1>3, ServerAssumption
  <1> QED
    BY <1>3, <1>4 DEF list

LEMMA ServerStarts == Init => ServerInv
  <1> SUFFICES ASSUME Init PROVE ServerInv
    OBVIOUS
  <1>1. TypeOK
    BY ServerAssumption DEF Init, TypeOK, Stages, Days, NothingSpent
  <1>2. RequestInv
    BY DEF Init, RequestInv, InAuction
  <1>3. RefreshInv
    BY DEF Init, RefreshInv, GaugesMatchIndex
  <1>4. SkippedInv
    BY DEF Init, SkippedInv, InAuction
  <1>5. WalkInv
    BY DEF Init, WalkInv, InAuction
  <1> QED
    BY <1>1, <1>2, <1>3, <1>4, <1>5 DEF ServerInv

(***************************************************************************)
(* Type correctness.                                                       *)
(***************************************************************************)
LEMMA RequestStepTypes ==
  ASSUME ServerInv, NEW r \in Requests,
         Arrive(r) \/ Timeout(r) \/ Disconnect(r) \/ Validate(r) \/ LoadSnapshot(r)
           \/ ReadDate(r) \/ StartAuction(r) \/ NobodyPays(r) \/ Reply(r) \/ CountRequest(r)
  PROVE  TypeOK'
  <1> USE DEF ServerInv, world, appState, refresher, metrics, outcomes
  <1>1. CASE Arrive(r)
    BY <1>1 DEF TypeOK, Stages, Arrive
  <1>2. CASE Timeout(r)
    BY <1>2 DEF TypeOK, Stages, Timeout, Respond
  <1>3. CASE Disconnect(r)
    BY <1>3 DEF TypeOK, Stages, Disconnect
  <1>4. CASE Validate(r)
    BY <1>4 DEF TypeOK, Stages, Validate, Respond
  <1>5. CASE LoadSnapshot(r)
    BY <1>5 DEF TypeOK, Stages, LoadSnapshot, Respond
  <1>6. CASE ReadDate(r)
    BY <1>6 DEF TypeOK, Stages, ReadDate, Days
  <1>7. CASE StartAuction(r)
    BY <1>7 DEF TypeOK, Stages, StartAuction, Respond
  <1>8. CASE NobodyPays(r)
    BY <1>8 DEF TypeOK, Stages, NobodyPays
  <1>9. CASE Reply(r)
    BY <1>9 DEF TypeOK, Stages, Reply, Respond
  <1>10. CASE CountRequest(r)
    BY <1>10 DEF TypeOK, Stages, CountRequest
  <1> QED
    BY <1>1, <1>2, <1>3, <1>4, <1>5, <1>6, <1>7, <1>8, <1>9, <1>10

(* What a request that asks a candidate reads.                             *)
LEMMA TryPayFacts ==
  ASSUME ServerInv, NEW r \in Requests, TryPay(r)
  PROVE  LET i == asked[r] + 1
             k == KeyAt(r, i)
             total == Spent(k) + PriceAt(r, i)
         IN  /\ rpc[r] = "walk" /\ i \in Nat \ {0} /\ k \in Keys
             /\ i <= Len(Ranked(r))
             /\ Spent(k) \in Nat /\ PriceAt(r, i) \in Nat \ {0} /\ BudgetAt(r, i) \in Int
             /\ \/ /\ total <= BudgetAt(r, i)
                   /\ spent' = [spent EXCEPT ![k] = total]
                   /\ winner' = [winner EXCEPT ![r] = i]
                   /\ rpc' = [rpc EXCEPT ![r] = "record"]
                   /\ UNCHANGED asked
                \/ /\ total > BudgetAt(r, i)
                   /\ spent' = [spent EXCEPT ![k] = Spent(k)]
                   /\ asked' = [asked EXCEPT ![r] = i]
                   /\ UNCHANGED <<winner, rpc>>
             /\ UNCHANGED <<world, published, refresher, metrics, input, snap, today, answer>>
  <1> DEFINE i == asked[r] + 1
             k == KeyAt(r, i)
  <1>1. rpc[r] = "walk" /\ i <= Len(Ranked(r))
    BY DEF TryPay
  <1>2. input[r] \in Queries /\ snap[r] \in Tables /\ today[r] \in Days /\ asked[r] \in Nat
    BY <1>1 DEF ServerInv, RequestInv, InAuction, TypeOK
  <1>3. i \in Nat \ {0} /\ i \in 1..Len(Ranked(r))
    BY <1>1, <1>2, CandidateFacts DEF Ranked
  <1>4. /\ Ranked(r)[i].campaign \in Campaigns
        /\ PriceAt(r, i) \in Nat \ {0}
        /\ BudgetAt(r, i) \in Int
    BY <1>2, <1>3, CandidateFacts DEF Ranked, PriceAt, BudgetAt
  <1>5. k \in Keys
    BY <1>2, <1>4 DEF KeyAt, Keys
  <1>6. Spent(k) \in Nat
    BY <1>5 DEF Spent, ServerInv, TypeOK
  <1> QED
    BY <1>1, <1>3, <1>4, <1>5, <1>6 DEF TryPay

LEMMA PayAndRecordTypes ==
  ASSUME ServerInv, NEW r \in Requests, TryPay(r) \/ RecordOutcome(r) \/ RecordSkipped(r)
  PROVE  TypeOK'
  <1>1. CASE TryPay(r)
    <2> DEFINE i == asked[r] + 1
               k == KeyAt(r, i)
               total == Spent(k) + PriceAt(r, i)
    <2>1. /\ i \in Nat /\ k \in Keys /\ Spent(k) \in Nat /\ total \in Nat
          /\ \/ /\ spent' = [spent EXCEPT ![k] = total]
                /\ winner' = [winner EXCEPT ![r] = i]
                /\ rpc' = [rpc EXCEPT ![r] = "record"]
                /\ UNCHANGED asked
             \/ /\ spent' = [spent EXCEPT ![k] = Spent(k)]
                /\ asked' = [asked EXCEPT ![r] = i]
                /\ UNCHANGED <<winner, rpc>>
          /\ UNCHANGED <<world, published, refresher, metrics, input, snap, today, answer>>
      BY <1>1, TryPayFacts
    <2> HIDE DEF i, k, total
    <2> QED
      BY <2>1 DEF ServerInv, TypeOK, Stages, world, refresher, metrics, outcomes
  <1>2. CASE RecordOutcome(r)
    BY <1>2 DEF ServerInv, TypeOK, Stages, RecordOutcome, world, appState, refresher
  <1>3. CASE RecordSkipped(r)
    BY <1>3 DEF ServerInv, TypeOK, Stages, RecordSkipped, world, appState, refresher
  <1> QED
    BY <1>1, <1>2, <1>3

LEMMA RefreshStepTypes ==
  ASSUME ServerInv, Tick \/ Refresh
  PROVE  TypeOK'
  <1> USE DEF ServerInv, TypeOK, world, appState, refresher, metrics, outcomes, requests
  <1>1. CASE Tick
    BY <1>1 DEF Tick
  <1>2. CASE LoadOk
    BY <1>2 DEF LoadOk
  <1>3. CASE LoadFails
    BY <1>3 DEF LoadFails
  <1>4. CASE RecordIndexSize
    BY <1>4, ServerAssumption DEF RecordIndexSize, RefreshInv
  <1>5. CASE Publish
    BY <1>5 DEF Publish
  <1>6. CASE PruneBound
    <2>1. day - 1 \in 0..LastDay
      BY ServerAssumption DEF Days
    <2> QED
      BY <1>6, <2>1 DEF PruneBound
  <1>7. CASE Prune
    <2>1. spent' \in [Keys -> Nat \cup {Absent}]
      BY <1>7 DEF Prune
    <2>2. 0 \in 0..LastDay
      BY ServerAssumption
    <2> QED
      BY <1>7, <2>1, <2>2 DEF Prune
  <1> QED
    BY <1>1, <1>2, <1>3, <1>4, <1>5, <1>6, <1>7 DEF Refresh

LEMMA WorldStepTypes ==
  ASSUME ServerInv, Midnight \/ EditSource \/ Crash \/ Shutdown \/ Exit \/ UNCHANGED vars
  PROVE  TypeOK'
  <1> USE DEF ServerInv, TypeOK, world, appState, refresher, metrics, outcomes, requests
  <1>1. CASE Midnight
    BY <1>1, ServerAssumption DEF Midnight, Days
  <1>2. CASE EditSource
    BY <1>2 DEF EditSource
  <1>3. CASE StartAgain /\ crashes' \in 0..MaxCrashes /\ stops' \in 0..MaxStops
    <2>1. NothingSpent \in [Keys -> Nat \cup {Absent}] /\ 0 \in 0..LastDay
      BY ServerAssumption DEF NothingSpent
    <2> QED
      BY <1>3, <2>1 DEF StartAgain, Stages
  <1>4. CASE Crash
    <2>1. StartAgain /\ crashes' \in 0..MaxCrashes /\ stops' \in 0..MaxStops
      BY <1>4, ServerAssumption DEF Crash
    <2> QED
      BY <1>3, <2>1
  <1>5. CASE Shutdown
    BY <1>5, ServerAssumption DEF Shutdown
  <1>6. CASE Exit
    BY <1>3, <1>6 DEF Exit
  <1>7. CASE UNCHANGED vars
    BY <1>7 DEF vars
  <1> QED
    BY <1>1, <1>2, <1>4, <1>5, <1>6, <1>7

LEMMA TypesAreKept == ServerInv /\ [Next]_vars => TypeOK'
  BY RequestStepTypes, PayAndRecordTypes, RefreshStepTypes, WorldStepTypes DEF Next, Handle

(***************************************************************************)
(* The requests.                                                           *)
(***************************************************************************)
LEMMA RequestsAreKept == ServerInv /\ [Next]_vars => RequestInv'
  <1> SUFFICES ASSUME ServerInv, [Next]_vars PROVE RequestInv'
    OBVIOUS
  <1> USE DEF RequestInv, InAuction, world, appState, refresher, metrics, outcomes, requests
  <1>1. ASSUME NEW r \in Requests, Arrive(r) \/ Timeout(r) \/ Disconnect(r) PROVE RequestInv'
    BY <1>1 DEF ServerInv, TypeOK, Arrive, Timeout, Disconnect, Respond
  <1>2. ASSUME NEW r \in Requests, Validate(r) PROVE RequestInv'
    BY <1>2 DEF ServerInv, TypeOK, Validate, Respond
  <1>3. ASSUME NEW r \in Requests, LoadSnapshot(r) PROVE RequestInv'
    BY <1>3 DEF ServerInv, TypeOK, LoadSnapshot, Respond
  <1>4. ASSUME NEW r \in Requests, ReadDate(r) PROVE RequestInv'
    BY <1>4 DEF ServerInv, TypeOK, ReadDate
  <1>5. ASSUME NEW r \in Requests, StartAuction(r) PROVE RequestInv'
    BY <1>5 DEF ServerInv, TypeOK, StartAuction, Respond
  <1>6. ASSUME NEW r \in Requests, TryPay(r) PROVE RequestInv'
    <2>1. /\ rpc[r] = "walk"
          /\ \/ rpc' = [rpc EXCEPT ![r] = "record"] /\ UNCHANGED asked
             \/ asked' = [asked EXCEPT ![r] = asked[r] + 1] /\ UNCHANGED rpc
          /\ UNCHANGED <<input, snap, today, answer>>
      BY <1>6, TryPayFacts
    <2>2. CASE rpc' = [rpc EXCEPT ![r] = "record"] /\ UNCHANGED asked
      BY <2>1, <2>2 DEF ServerInv, TypeOK
    <2>3. CASE asked' = [asked EXCEPT ![r] = asked[r] + 1] /\ UNCHANGED rpc
      BY <2>1, <2>3 DEF ServerInv, TypeOK
    <2> QED
      BY <2>1, <2>2, <2>3
  <1>7. ASSUME NEW r \in Requests, NobodyPays(r) \/ RecordOutcome(r) \/ RecordSkipped(r) PROVE RequestInv'
    BY <1>7, ZenonT(40) DEF ServerInv, TypeOK, NobodyPays, RecordOutcome, RecordSkipped
  <1>10. ASSUME NEW r \in Requests, Reply(r) \/ CountRequest(r) PROVE RequestInv'
    BY <1>10 DEF ServerInv, TypeOK, Reply, CountRequest, Respond
  <1>8. CASE Tick \/ Refresh \/ Midnight \/ EditSource \/ Shutdown \/ UNCHANGED vars
    <2>1. UNCHANGED requests
      BY <1>8 DEF Tick, Refresh, LoadOk, LoadFails, RecordIndexSize, Publish, PruneBound, Prune,
                  Midnight, EditSource, Shutdown, vars
    <2> QED
      BY <2>1 DEF ServerInv
  <1>9. CASE Crash \/ Exit
    BY <1>9 DEF ServerInv, TypeOK, Crash, Exit, StartAgain
  <1> QED
    BY <1>1, <1>2, <1>3, <1>4, <1>5, <1>6, <1>7, <1>8, <1>9, <1>10 DEF Next, Handle

(***************************************************************************)
(* The refresh task.                                                       *)
(***************************************************************************)
LEMMA RefreshIsKept == ServerInv /\ [Next]_vars => RefreshInv'
  <1> SUFFICES ASSUME ServerInv, [Next]_vars PROVE RefreshInv'
    OBVIOUS
  <1> USE DEF ServerInv, RefreshInv, GaugesMatchIndex, world, appState, refresher, metrics, outcomes, requests
  <1>1. day \in Nat /\ bound \in Nat /\ None \notin Tables
    BY ServerAssumption DEF TypeOK, Days
  <1>2. ASSUME NEW r \in Requests, Arrive(r) \/ Timeout(r) \/ Disconnect(r) \/ Handle(r) PROVE RefreshInv'
    <2>1. UNCHANGED <<published, refresh, built, bound, gauge, day>>
      BY <1>2, TryPayFacts DEF Arrive, Timeout, Disconnect, Handle, Validate, LoadSnapshot, ReadDate, StartAuction,
                               NobodyPays, RecordOutcome, RecordSkipped, Reply, CountRequest
    <2> QED
      BY <2>1
  <1>3. CASE Tick \/ LoadFails \/ EditSource \/ Shutdown \/ UNCHANGED vars
    BY <1>3 DEF Tick, LoadFails, EditSource, Shutdown, vars
  <1>4. CASE LoadOk
    BY <1>4 DEF LoadOk, TypeOK
  <1>5. CASE RecordIndexSize
    BY <1>5 DEF RecordIndexSize
  <1>6. CASE Publish
    BY <1>1, <1>6 DEF Publish
  <1>7. CASE PruneBound \/ Prune \/ Midnight
    BY <1>1, <1>7 DEF PruneBound, Prune, Midnight
  <1>8. CASE Crash \/ Exit
    BY <1>1, <1>8 DEF Crash, Exit, StartAgain, TypeOK, Days
  <1> QED
    BY <1>2, <1>3, <1>4, <1>5, <1>6, <1>7, <1>8 DEF Next, Refresh

(***************************************************************************)
(* The walks.                                                              *)
(***************************************************************************)

(* A charge of another request only makes it worse for whoever was         *)
(* skipped.                                                                *)
LEMMA SkippedByPay ==
  ASSUME ServerInv, NEW r \in Requests, TryPay(r)
  PROVE  SkippedInv'
  <1> DEFINE i == asked[r] + 1
             k == KeyAt(r, i)
             total == Spent(k) + PriceAt(r, i)
  <1>1. /\ rpc[r] = "walk" /\ i \in Nat \ {0} /\ k \in Keys
        /\ Spent(k) \in Nat /\ PriceAt(r, i) \in Nat \ {0} /\ BudgetAt(r, i) \in Int
        /\ \/ /\ total <= BudgetAt(r, i)
              /\ spent' = [spent EXCEPT ![k] = total]
              /\ rpc' = [rpc EXCEPT ![r] = "record"]
              /\ UNCHANGED asked
           \/ /\ total > BudgetAt(r, i)
              /\ spent' = [spent EXCEPT ![k] = Spent(k)]
              /\ asked' = [asked EXCEPT ![r] = i]
              /\ UNCHANGED rpc
        /\ UNCHANGED <<world, published, refresher, metrics, input, snap, today, answer>>
    BY TryPayFacts
  <1>2. \A s, n : /\ KeyAt(s, n)' = KeyAt(s, n) /\ PriceAt(s, n)' = PriceAt(s, n)
                  /\ BudgetAt(s, n)' = BudgetAt(s, n)
    BY <1>1 DEF KeyAt, PriceAt, BudgetAt, Ranked
  <1>3. \A x \in Keys : Spent(x) \in Nat /\ Spent(x)' \in Nat /\ Spent(x)' >= Spent(x)
    <2> SUFFICES ASSUME NEW x \in Keys PROVE Spent(x) \in Nat /\ Spent(x)' \in Nat /\ Spent(x)' >= Spent(x)
      OBVIOUS
    <2>1. spent[x] \in Nat \cup {Absent} /\ spent \in [Keys -> Nat \cup {Absent}] /\ Absent \notin Nat
      BY ServerAssumption DEF ServerInv, TypeOK
    <2>2. Spent(x) \in Nat
      BY <2>1 DEF Spent
    <2> DEFINE new == IF total <= BudgetAt(r, i) THEN total ELSE Spent(k)
    <2>3. new \in Nat /\ new >= Spent(k) /\ spent' = [spent EXCEPT ![k] = new]
      BY <1>1
    <2> HIDE DEF new, k
    <2>4. CASE x = k
      BY <2>1, <2>2, <2>3, <2>4 DEF Spent
    <2>5. CASE x # k
      BY <2>1, <2>2, <2>3, <2>5 DEF Spent
    <2> QED
      BY <2>4, <2>5
  <1> SUFFICES ASSUME NEW s \in Requests, InAuction(s)', today'[s] >= day' - 1, NEW n \in 1..asked'[s]
               PROVE  CannotPay(s, n)'
    BY DEF SkippedInv
  <1>4. today[s] >= day - 1 /\ InAuction(s)
    BY <1>1 DEF InAuction, world, ServerInv, TypeOK
  <1>5. CASE n \in 1..asked[s]
    <2>1. CannotPay(s, n)
      BY <1>4, <1>5 DEF ServerInv, SkippedInv
    <2>2. KeyAt(s, n) \in Keys /\ PriceAt(s, n) \in Nat /\ BudgetAt(s, n) \in Int
      <3>1. /\ input[s] \in Queries /\ snap[s] \in Tables /\ today[s] \in Days
        BY <1>4 DEF ServerInv, RequestInv
      <3>2. asked[s] \in Nat /\ asked[s] <= Len(Ranked(s)) /\ Len(Ranked(s)) \in Nat
        BY <1>4, <3>1, CandidateFacts DEF ServerInv, WalkInv, TypeOK, Ranked
      <3>3. n \in 1..Len(Ranked(s))
        BY <1>5, <3>2
      <3> QED
        BY <3>1, <3>3, CandidateFacts DEF Ranked, KeyAt, PriceAt, BudgetAt, Keys
    <2> QED
      BY <1>2, <1>3, <2>1, <2>2 DEF CannotPay
  <1>6. CASE n \notin 1..asked[s]
    <2>1. asked[s] \in Nat /\ asked \in [Requests -> Nat]
      BY DEF ServerInv, TypeOK
    <2>2. asked'[s] # asked[s]
      BY <1>6
    <2>3. total > BudgetAt(r, i) /\ spent' = [spent EXCEPT ![k] = Spent(k)] /\ asked' = [asked EXCEPT ![r] = i]
      BY <1>1, <2>2
    <2>4. s = r
      BY <2>1, <2>2, <2>3
    <2>5. n = i
      BY <1>6, <2>1, <2>3, <2>4
    <2>6. Spent(k) \in Nat /\ k \in Keys /\ spent \in [Keys -> Nat \cup {Absent}]
      BY <1>1 DEF ServerInv, TypeOK
    <2> HIDE DEF k
    <2>7. spent'[k] = Spent(k) /\ spent'[k] # Absent
      BY <2>3, <2>6, ServerAssumption
    <2>8. KeyAt(s, n) = k /\ Spent(k) + PriceAt(s, n) > BudgetAt(s, n)
      BY <2>3, <2>4, <2>5 DEF k
    <2>9. Spent(KeyAt(s, n))' = Spent(k)
      BY <1>2, <2>7, <2>8 DEF Spent
    <2> QED
      BY <1>2, <2>8, <2>9 DEF CannotPay
  <1> QED
    BY <1>5, <1>6

(* A step that asks nobody leaves the auctions going on as they were, or   *)
(* starts one, which has asked nobody yet.                                 *)
LEMMA AuctionsGoOn ==
  ASSUME ServerInv, [Next]_vars, ~ \E r \in Requests : TryPay(r),
         NEW s \in Requests, InAuction(s)'
  PROVE  \/ asked'[s] = 0
         \/ /\ InAuction(s)
            /\ UNCHANGED <<asked[s], input[s], snap[s], today[s]>>
  <1> USE DEF ServerInv, RequestInv, InAuction, world, appState, refresher, metrics, outcomes, requests
  <1>1. ASSUME NEW r \in Requests, Arrive(r) \/ Timeout(r) \/ Disconnect(r) \/ Validate(r)
        PROVE  InAuction(s) /\ UNCHANGED <<asked[s], input[s], snap[s], today[s]>>
    BY <1>1 DEF TypeOK, Arrive, Timeout, Disconnect, Validate, Respond
  <1>2. ASSUME NEW r \in Requests, LoadSnapshot(r) \/ ReadDate(r)
        PROVE  InAuction(s) /\ UNCHANGED <<asked[s], input[s], snap[s], today[s]>>
    BY <1>2 DEF TypeOK, LoadSnapshot, ReadDate, Respond
  <1>3. ASSUME NEW r \in Requests, StartAuction(r)
        PROVE  asked'[s] = 0 \/ (InAuction(s) /\ UNCHANGED <<asked[s], input[s], snap[s], today[s]>>)
    BY <1>3 DEF TypeOK, StartAuction, Respond
  <1>4. ASSUME NEW r \in Requests, NobodyPays(r) \/ RecordOutcome(r) \/ RecordSkipped(r)
                                \/ Reply(r) \/ CountRequest(r)
        PROVE  InAuction(s) /\ UNCHANGED <<asked[s], input[s], snap[s], today[s]>>
    BY <1>4 DEF TypeOK, NobodyPays, RecordOutcome, RecordSkipped, Reply, CountRequest, Respond
  <1>5. CASE Tick \/ Refresh \/ Midnight \/ EditSource \/ Shutdown \/ UNCHANGED vars
    <2>1. UNCHANGED requests
      BY <1>5 DEF Tick, Refresh, LoadOk, LoadFails, RecordIndexSize, Publish, PruneBound, Prune,
                  Midnight, EditSource, Shutdown, vars
    <2> QED
      BY <2>1
  <1>6. CASE Crash \/ Exit
    BY <1>6 DEF TypeOK, Crash, Exit, StartAgain
  <1> QED
    BY <1>1, <1>2, <1>3, <1>4, <1>5, <1>6 DEF Next, Handle

LEMMA WalkIsKept == ServerInv /\ [Next]_vars => WalkInv'
  <1> SUFFICES ASSUME ServerInv, [Next]_vars, NEW s \in Requests, InAuction(s)'
               PROVE  asked'[s] <= Len(Ranked(s))'
    BY DEF WalkInv
  <1>1. ASSUME NEW r \in Requests, TryPay(r) PROVE asked'[s] <= Len(Ranked(s))'
    <2>1. /\ rpc[r] = "walk" /\ asked[r] + 1 <= Len(Ranked(r))
          /\ \/ rpc' = [rpc EXCEPT ![r] = "record"] /\ UNCHANGED asked
             \/ asked' = [asked EXCEPT ![r] = asked[r] + 1] /\ UNCHANGED rpc
          /\ UNCHANGED <<input, snap, answer>>
      BY <1>1, TryPayFacts
    <2>2. InAuction(s) /\ Ranked(s)' = Ranked(s) /\ asked \in [Requests -> Nat]
      BY <2>1 DEF InAuction, Ranked, ServerInv, TypeOK
    <2>3. asked[s] <= Len(Ranked(s))
      BY <2>2 DEF ServerInv, WalkInv
    <2> QED
      BY <2>1, <2>2, <2>3
  <1>2. CASE ~ \E r \in Requests : TryPay(r)
    <2>1. CASE InAuction(s) /\ UNCHANGED <<asked[s], input[s], snap[s], today[s]>>
      BY <2>1 DEF ServerInv, WalkInv, Ranked
    <2>2. CASE asked'[s] = 0
      <3>1. input'[s] \in Queries /\ snap'[s] \in Tables
        BY RequestsAreKept DEF RequestInv
      <3> QED
        BY <2>2, <3>1, CandidateFacts DEF Ranked
    <2> QED
      BY <1>2, <2>1, <2>2, AuctionsGoOn
  <1> QED
    BY <1>1, <1>2

(* No other step gives back what was spent today or yesterday, except the  *)
(* end of the process, which ends the auctions too.                        *)
LEMMA CountersStand ==
  ASSUME ServerInv, [Next]_vars, ~ \E r \in Requests : TryPay(r), ~ (Crash \/ Exit)
  PROVE  /\ day' >= day
         /\ \A x \in Keys : x[2] >= day - 1 => Spent(x)' = Spent(x)
  <1> USE DEF ServerInv, world, appState, refresher, metrics, outcomes, requests
  <1>1. day \in Nat /\ bound \in Nat /\ bound <= day - 1 /\ \A x \in Keys : x[2] \in Nat
    BY ServerAssumption DEF TypeOK, Days, RefreshInv, Keys
  <1>2. ASSUME NEW r \in Requests, Arrive(r) \/ Timeout(r) \/ Disconnect(r) \/ Handle(r)
        PROVE  UNCHANGED <<day, spent>>
    BY <1>2 DEF Arrive, Timeout, Disconnect, Handle, Validate, LoadSnapshot, ReadDate, StartAuction,
                NobodyPays, RecordOutcome, RecordSkipped, Reply, CountRequest
  <1>3. CASE Tick \/ LoadOk \/ LoadFails \/ RecordIndexSize \/ Publish \/ PruneBound
               \/ EditSource \/ Shutdown \/ UNCHANGED vars
    <2>1. UNCHANGED <<day, spent>>
      BY <1>3 DEF Tick, LoadOk, LoadFails, RecordIndexSize, Publish, PruneBound, EditSource, Shutdown, vars
    <2> QED
      BY <1>1, <2>1 DEF Spent
  <1>4. CASE Prune
    BY <1>1, <1>4 DEF Prune, Spent
  <1>5. CASE Midnight
    BY <1>1, <1>5 DEF Midnight, Spent
  <1> QED
    BY <1>1, <1>2, <1>3, <1>4, <1>5 DEF Next, Refresh, Spent

LEMMA SkippedIsKept == ServerInv /\ [Next]_vars => SkippedInv'
  <1> SUFFICES ASSUME ServerInv, [Next]_vars PROVE SkippedInv'
    OBVIOUS
  <1>1. CASE \E r \in Requests : TryPay(r)
    BY <1>1, SkippedByPay
  <1>2. CASE Crash \/ Exit
    BY <1>2 DEF Crash, Exit, StartAgain, SkippedInv, InAuction, ServerInv, TypeOK
  <1>3. CASE ~ (\E r \in Requests : TryPay(r)) /\ ~ (Crash \/ Exit)
    <2> SUFFICES ASSUME NEW s \in Requests, InAuction(s)', today'[s] >= day' - 1, NEW n \in 1..asked'[s]
                 PROVE  CannotPay(s, n)'
      BY DEF SkippedInv
    <2>1. InAuction(s) /\ UNCHANGED <<asked[s], input[s], snap[s], today[s]>>
      BY <1>3, AuctionsGoOn
    <2>2. input[s] \in Queries /\ snap[s] \in Tables /\ today[s] \in Days
      BY <2>1 DEF ServerInv, RequestInv
    <2>3. day \in Nat /\ day' \in Nat /\ day' >= day /\ today[s] \in Nat
      <3>1. day' >= day
        BY <1>3, CountersStand
      <3>2. day \in Days /\ day' \in Days
        BY TypesAreKept DEF ServerInv, TypeOK
      <3> QED
        BY <2>2, <3>1, <3>2, ServerAssumption DEF Days
    <2>4. today[s] >= day - 1
      BY <2>1, <2>3
    <2>5. CannotPay(s, n)
      BY <2>1, <2>4 DEF ServerInv, SkippedInv
    <2>6. asked[s] \in Nat /\ asked[s] <= Len(Ranked(s)) /\ Len(Ranked(s)) \in Nat
      BY <2>1, <2>2, CandidateFacts DEF ServerInv, WalkInv, TypeOK, Ranked
    <2>7. n \in 1..Len(Ranked(s))
      BY <2>1, <2>6
    <2>8. KeyAt(s, n) \in Keys /\ KeyAt(s, n)[2] = today[s]
      BY <2>2, <2>7, CandidateFacts DEF Ranked, KeyAt, Keys
    <2>9. /\ KeyAt(s, n)' = KeyAt(s, n) /\ PriceAt(s, n)' = PriceAt(s, n)
          /\ BudgetAt(s, n)' = BudgetAt(s, n)
      BY <2>1 DEF KeyAt, PriceAt, BudgetAt, Ranked
    <2> DEFINE x == KeyAt(s, n)
    <2>10. x' = x /\ x \in Keys /\ x[2] >= day - 1
      BY <2>4, <2>8, <2>9
    <2> HIDE DEF x
    <2>11. Spent(x)' = Spent(x)
      <3>1. \A y \in Keys : y[2] >= day - 1 => Spent(y)' = Spent(y)
        BY <1>3, CountersStand
      <3> QED
        BY <2>10, <3>1 DEF Spent
    <2> QED
      BY <2>5, <2>9, <2>11 DEF CannotPay, x
  <1> QED
    BY <1>1, <1>2, <1>3

(***************************************************************************)
(* The ads.                                                                *)
(***************************************************************************)

(* An auction has one winner, or none so far, and runs on the day it began *)
(* or the one after.                                                       *)
WinnerInv ==
  \A r \in Requests :
    /\ rpc[r] \in {"new", "body", "load", "date", "run", "walk", "left"} => winner[r] = 0
    /\ rpc[r] # "gone" /\ winner[r] # 0 => InAuction(r) /\ winner[r] \in 1..Len(Ranked(r))
    /\ rpc[r] \in {"run", "walk"} => today[r] >= day - 1

AdsInv == WinnerInv /\ CountersMatchAds /\ MetricsMatchAnswers

ShowsAd(r) == rpc[r] # "gone" /\ winner[r] # 0

(* A step that asks nobody shows no ad and takes none back, unless the     *)
(* process ends.                                                           *)
AdStands(s) ==
  /\ UNCHANGED winner[s]
  /\ ShowsAd(s)' <=> ShowsAd(s)
  /\ ShowsAd(s) => /\ InAuction(s)' /\ rpc'[s] # "walk"
                   /\ UNCHANGED <<input[s], snap[s], today[s]>>

LEMMA AdsStand ==
  ASSUME ServerInv, WinnerInv, [Next]_vars, ~ \E r \in Requests : TryPay(r), ~ (Crash \/ Exit),
         NEW s \in Requests
  PROVE  AdStands(s)
  <1>1. ShowsAd(s) => InAuction(s) /\ rpc[s] # "walk"
    BY DEF WinnerInv, ShowsAd
  <1>2. ASSUME NEW r \in Requests, Arrive(r) \/ Timeout(r) \/ Disconnect(r) \/ Validate(r)
        PROVE  AdStands(s)
    BY <1>1, <1>2 DEF AdStands, ShowsAd, InAuction, ServerInv, TypeOK, requests, metrics, outcomes,
                      Arrive, Timeout, Disconnect, Validate, Respond
  <1>3. ASSUME NEW r \in Requests, LoadSnapshot(r) \/ ReadDate(r) \/ StartAuction(r)
        PROVE  AdStands(s)
    BY <1>1, <1>3 DEF AdStands, ShowsAd, InAuction, ServerInv, TypeOK, requests, metrics, outcomes,
                      LoadSnapshot, ReadDate, StartAuction, Respond
  <1>4. ASSUME NEW r \in Requests, NobodyPays(r) \/ RecordOutcome(r) \/ RecordSkipped(r)
                                \/ Reply(r) \/ CountRequest(r)
        PROVE  AdStands(s)
    BY <1>1, <1>4 DEF AdStands, ShowsAd, InAuction, ServerInv, TypeOK, requests, metrics, outcomes,
                      NobodyPays, RecordOutcome, RecordSkipped, Reply, CountRequest, Respond
  <1>5. CASE Tick \/ Refresh \/ Midnight \/ EditSource \/ Shutdown \/ UNCHANGED vars
    <2>1. UNCHANGED requests
      BY <1>5 DEF Tick, Refresh, LoadOk, LoadFails, RecordIndexSize, Publish, PruneBound, Prune,
                  Midnight, EditSource, Shutdown, vars
    <2> QED
      BY <1>1, <2>1 DEF AdStands, ShowsAd, InAuction, requests
  <1> QED
    BY <1>2, <1>3, <1>4, <1>5 DEF Next, Handle

LEMMA WinnersAreKept == ServerInv /\ ServerInv' /\ WinnerInv /\ [Next]_vars => WinnerInv'
  <1> SUFFICES ASSUME ServerInv, ServerInv', WinnerInv, [Next]_vars PROVE WinnerInv'
    OBVIOUS
  <1>0. /\ day \in Nat /\ day' \in Nat
        /\ \A r \in Requests : today[r] \in Nat /\ today'[r] \in Nat /\ winner[r] \in Nat
    BY DEF ServerInv, TypeOK, Days
  <1> USE DEF world, appState, refresher, metrics, outcomes, requests
  <1>1. CASE \E r \in Requests : TryPay(r)
    <2> PICK r \in Requests : TryPay(r)
      BY <1>1
    <2>1. /\ rpc[r] = "walk" /\ asked[r] + 1 \in Nat \ {0} /\ asked[r] + 1 <= Len(Ranked(r))
          /\ \/ /\ winner' = [winner EXCEPT ![r] = asked[r] + 1]
                /\ rpc' = [rpc EXCEPT ![r] = "record"]
             \/ UNCHANGED <<winner, rpc>>
          /\ UNCHANGED <<day, input, snap, today, answer>>
      BY TryPayFacts
    <2>2. \A s : Ranked(s)' = Ranked(s)
      BY <2>1 DEF Ranked
    <2>3. CASE UNCHANGED <<winner, rpc>>
      BY <2>1, <2>2, <2>3 DEF WinnerInv, InAuction
    <2>4. CASE /\ winner' = [winner EXCEPT ![r] = asked[r] + 1]
               /\ rpc' = [rpc EXCEPT ![r] = "record"]
      <3>1. Len(Ranked(r)) \in Nat
        BY <2>1, CandidateFacts DEF ServerInv, RequestInv, InAuction, Ranked
      <3>2. asked[r] + 1 \in 1..Len(Ranked(r))
        BY <2>1, <3>1
      <3> QED
        BY <2>1, <2>2, <2>4, <3>2 DEF WinnerInv, InAuction, ServerInv, TypeOK
    <2> QED
      BY <2>1, <2>3, <2>4
  <1>2. CASE Crash \/ Exit
    BY <1>2 DEF Crash, Exit, StartAgain, WinnerInv, ServerInv, TypeOK
  <1>3. CASE ~ (\E r \in Requests : TryPay(r)) /\ ~ (Crash \/ Exit)
    <2>1. \A s \in Requests :
            /\ UNCHANGED winner[s]
            /\ ShowsAd(s)' <=> ShowsAd(s)
            /\ ShowsAd(s) => /\ InAuction(s)' /\ rpc'[s] # "walk"
                             /\ UNCHANGED <<input[s], snap[s], today[s]>>
      BY <1>3, AdsStand DEF AdStands
    <2>2. ASSUME NEW s \in Requests, ShowsAd(s)'
          PROVE  InAuction(s)' /\ winner'[s] \in 1..Len(Ranked(s)')
      <3>1. InAuction(s)' /\ winner[s] \in 1..Len(Ranked(s)) /\ ShowsAd(s)
        BY <2>1, <2>2 DEF WinnerInv, ShowsAd
      <3>2. Ranked(s)' = Ranked(s)
        BY <2>1, <3>1 DEF Ranked
      <3> QED
        BY <2>1, <3>1, <3>2
    <2>3. ASSUME NEW s \in Requests,
                 rpc'[s] \in {"new", "body", "load", "date", "run", "walk", "left"}
          PROVE  winner'[s] = 0
      <3>1. ~ InAuction(s)' \/ rpc'[s] = "walk"
        BY <2>3 DEF InAuction
      <3> QED
        BY <2>1, <2>3, <3>1 DEF ShowsAd
    <2>4. ASSUME NEW s \in Requests, rpc'[s] \in {"run", "walk"} PROVE today'[s] >= day' - 1
      <3>1. ASSUME NEW r \in Requests, ReadDate(r) PROVE today'[s] >= day' - 1
        BY <1>0, <2>4, <3>1, SMTT(30) DEF ReadDate, WinnerInv, ServerInv, TypeOK
      <3>2. ASSUME NEW r \in Requests, \/ Arrive(r) \/ Timeout(r) \/ Disconnect(r) \/ Validate(r)
                                       \/ LoadSnapshot(r) \/ StartAuction(r) \/ NobodyPays(r)
                                       \/ RecordOutcome(r) \/ RecordSkipped(r) \/ Reply(r)
                                       \/ CountRequest(r)
            PROVE  today'[s] >= day' - 1
        <4>1. today' = today /\ day' = day
          BY <3>2 DEF Arrive, Timeout, Disconnect, Validate, LoadSnapshot, StartAuction, NobodyPays,
                      RecordOutcome, RecordSkipped, Reply, CountRequest
        <4>2. \/ \E x \in {"body", "respond", "done", "left", "load", "date", "record", "skips", "reply"} : rpc' = [rpc EXCEPT ![r] = x]
              \/ rpc[r] = "run" /\ rpc' = [rpc EXCEPT ![r] = "walk"]
          BY <3>2 DEF Arrive, Timeout, Disconnect, Validate, LoadSnapshot, StartAuction, NobodyPays,
                      RecordOutcome, RecordSkipped, Reply, CountRequest, Respond
        <4>3. rpc[s] \in {"run", "walk"}
          BY <2>4, <4>2 DEF ServerInv, TypeOK
        <4> QED
          BY <4>1, <4>3 DEF WinnerInv
      <3>3. CASE Midnight
        BY <1>0, <2>4, <3>3 DEF Midnight
      <3>4. CASE Tick \/ Refresh \/ EditSource \/ Shutdown \/ UNCHANGED vars
        <4>1. UNCHANGED <<requests, day>>
          BY <3>4 DEF Tick, Refresh, LoadOk, LoadFails, RecordIndexSize, Publish, PruneBound, Prune,
                      EditSource, Shutdown, vars
        <4> QED
          BY <2>4, <4>1 DEF WinnerInv
      <3> QED
        BY <1>3, <3>1, <3>2, <3>3, <3>4 DEF Next, Handle
    <2> QED
      BY <2>2, <2>3, <2>4 DEF WinnerInv, ShowsAd, Ranked
  <1> QED
    BY <1>1, <1>2, <1>3

LEMMA EmptySum ==
  ASSUME NEW fun, DOMAIN fun = {}
  PROVE  SumFunction(fun) = 0
  <1>1. IsFiniteSet({}) /\ \A x \in {} : fun[x] \in Nat
    BY FS_EmptySet
  <1>2. SumFunctionOnSet(fun, {}) = 0
    BY <1>1, SumFacts
  <1> QED
    BY <1>2 DEF SumFunction

(* Whoever shows an ad has the price of a candidate to pay.                *)
LEMMA AdFacts ==
  ASSUME ServerInv, WinnerInv, NEW s \in Requests, ShowsAd(s)
  PROVE  PriceAt(s, winner[s]) \in Nat \ {0} /\ KeyAt(s, winner[s]) \in Keys
  <1>1. InAuction(s) /\ winner[s] \in 1..Len(Ranked(s))
    BY DEF WinnerInv, ShowsAd
  <1>2. input[s] \in Queries /\ snap[s] \in Tables /\ today[s] \in Days
    BY <1>1 DEF ServerInv, RequestInv
  <1> QED
    BY <1>1, <1>2, CandidateFacts DEF Ranked, PriceAt, KeyAt, Keys

LEMMA PaidByFacts ==
  ASSUME ServerInv, WinnerInv, NEW k
  PROVE  /\ PaidBy(k) = {s \in Requests : ShowsAd(s) /\ KeyAt(s, winner[s]) = k}
         /\ IsFiniteSet(PaidBy(k))
         /\ \A s \in PaidBy(k) : PriceAt(s, winner[s]) \in Nat
  <1>1. PaidBy(k) = {s \in Requests : ShowsAd(s) /\ KeyAt(s, winner[s]) = k}
    BY DEF PaidBy, ShowsAd
  <1>2. IsFiniteSet(PaidBy(k))
    BY <1>1, ServerAssumption, FS_Subset
  <1>3. \A s \in PaidBy(k) : PriceAt(s, winner[s]) \in Nat
    BY <1>1, AdFacts
  <1> QED
    BY <1>1, <1>2, <1>3

(* Without a new ad, nobody is charged.                                    *)
LEMMA ChargesStand ==
  ASSUME ServerInv, WinnerInv, [Next]_vars, ~ \E r \in Requests : TryPay(r), ~ (Crash \/ Exit),
         NEW k
  PROVE  Charged(k)' = Charged(k)
  <1>1. \A s \in Requests : AdStands(s)
    BY AdsStand
  <1>2. \A s \in Requests : ShowsAd(s) =>
          /\ KeyAt(s, winner[s])' = KeyAt(s, winner[s])
          /\ PriceAt(s, winner[s])' = PriceAt(s, winner[s])
    BY <1>1 DEF AdStands, KeyAt, PriceAt, Ranked
  <1>3. PaidBy(k) = {s \in Requests : ShowsAd(s) /\ KeyAt(s, winner[s]) = k}
    BY DEF PaidBy, ShowsAd
  <1>4. PaidBy(k)' = {s \in Requests : ShowsAd(s)' /\ KeyAt(s, winner[s])' = k}
    BY DEF PaidBy, ShowsAd
  <1>5. PaidBy(k)' = PaidBy(k)
    BY <1>1, <1>2, <1>3, <1>4 DEF AdStands
  <1>6. [r \in PaidBy(k) |-> PriceAt(r, winner[r])]' = [r \in PaidBy(k) |-> PriceAt(r, winner[r])]
    BY <1>2, <1>3, <1>5
  <1> QED
    BY <1>6 DEF Charged

(* A new ad is charged its price, and nothing else changes.                *)
LEMMA AdIsCharged ==
  ASSUME ServerInv, ServerInv', WinnerInv, WinnerInv',
         NEW r \in Requests, TryPay(r), winner' # winner, NEW k
  PROVE  Charged(k)' = Charged(k) + (IF k = KeyAt(r, winner'[r]) THEN PriceAt(r, winner'[r]) ELSE 0)
  <1> DEFINE i == asked[r] + 1
             fun == [s \in PaidBy(k) |-> PriceAt(s, winner[s])]
             new == [s \in PaidBy(k)' |-> PriceAt(s, winner'[s])]
  <1>1. /\ rpc[r] = "walk" /\ i \in Nat \ {0}
        /\ winner' = [winner EXCEPT ![r] = i] /\ rpc' = [rpc EXCEPT ![r] = "record"]
        /\ UNCHANGED <<input, snap, today>>
    BY TryPayFacts
  <1>2. \A s \in Requests : /\ KeyAt(s, winner[s])' = KeyAt(s, winner'[s])
                            /\ PriceAt(s, winner[s])' = PriceAt(s, winner'[s])
    BY <1>1 DEF KeyAt, PriceAt, Ranked
  <1>3. /\ ~ ShowsAd(r) /\ ShowsAd(r)' /\ winner'[r] = i
        /\ \A s \in Requests : s # r => /\ ShowsAd(s)' <=> ShowsAd(s)
                                        /\ winner'[s] = winner[s]
    BY <1>1 DEF ServerInv, TypeOK, WinnerInv, ShowsAd
  <1>4. PaidBy(k)' = {s \in Requests : ShowsAd(s)' /\ KeyAt(s, winner'[s]) = k}
    BY <1>2 DEF PaidBy, ShowsAd
  <1>5. PaidBy(k) = {s \in Requests : ShowsAd(s) /\ KeyAt(s, winner[s]) = k}
    BY PaidByFacts
  <1>6. Charged(k) = SumFunctionOnSet(fun, PaidBy(k)) /\ Charged(k)' = SumFunctionOnSet(new, PaidBy(k)')
    <2>1. Charged(k)' = SumFunction([s \in PaidBy(k)' |-> PriceAt(s, winner[s])'])
      BY DEF Charged
    <2>2. [s \in PaidBy(k)' |-> PriceAt(s, winner[s])'] = new
      BY <1>2, <1>4
    <2>3. DOMAIN fun = PaidBy(k) /\ DOMAIN new = PaidBy(k)'
      OBVIOUS
    <2> QED
      BY <2>1, <2>2, <2>3 DEF Charged, SumFunction
  <1>7. CASE k = KeyAt(r, i)
    <2>1. PaidBy(k)' = PaidBy(k) \cup {r} /\ r \notin PaidBy(k)
      BY <1>3, <1>4, <1>5, <1>7
    <2>2. /\ \A s \in PaidBy(k) : new[s] = fun[s] /\ fun[s] \in Nat
          /\ new[r] = PriceAt(r, winner'[r]) /\ new[r] \in Nat
      <3>1. \A s \in PaidBy(k) : fun[s] \in Nat
        BY PaidByFacts
      <3>2. \A s \in PaidBy(k) : new[s] = fun[s]
        BY <1>3, <1>5, <2>1
      <3>3. new[r] = PriceAt(r, winner'[r])
        BY <2>1
      <3>4. PriceAt(r, winner'[r]) \in Nat
        <4>1. PriceAt(r, i) \in Nat
          BY TryPayFacts
        <4> QED
          BY <1>3, <4>1
      <3> QED
        BY <3>1, <3>2, <3>3, <3>4
    <2>3. IsFiniteSet(PaidBy(k)) /\ IsFiniteSet(PaidBy(k) \cup {r})
      BY PaidByFacts, FS_AddElement
    <2> HIDE DEF fun, new, i
    <2>4. /\ SumFunctionOnSet(new, PaidBy(k)') = new[r] + SumFunctionOnSet(new, PaidBy(k)' \ {r})
          /\ PaidBy(k)' \ {r} = PaidBy(k)
      BY <2>1, <2>2, <2>3, SumFacts
    <2>5. SumFunctionOnSet(new, PaidBy(k)) = SumFunctionOnSet(fun, PaidBy(k))
      BY <2>2, <2>3, SumsAgree
    <2>6. SumFunctionOnSet(fun, PaidBy(k)) \in Nat
      BY <2>2, <2>3, SumFacts
    <2>7. k = KeyAt(r, winner'[r])
      BY <1>3, <1>7
    <2> DEFINE price == new[r]
               sum == SumFunctionOnSet(fun, PaidBy(k))
    <2>8. Charged(k) = sum /\ sum \in Nat /\ price \in Nat /\ price = PriceAt(r, winner'[r])
      BY <1>6, <2>2, <2>6
    <2>9. Charged(k)' = price + sum
      BY <1>6, <2>4, <2>5
    <2> HIDE DEF price, sum
    <2>10. Charged(k)' = Charged(k) + PriceAt(r, winner'[r])
      BY <2>8, <2>9
    <2> QED
      BY <2>7, <2>10
  <1>8. CASE k # KeyAt(r, i)
    <2>1. PaidBy(k)' = PaidBy(k)
      BY <1>3, <1>4, <1>5, <1>8
    <2>2. new = fun
      BY <1>3, <1>5, <2>1
    <2>3. Charged(k) \in Nat
      <3>1. \A s \in PaidBy(k) : fun[s] \in Nat
        BY PaidByFacts
      <3> HIDE DEF fun
      <3> QED
        BY <1>6, <3>1, PaidByFacts, SumFacts
    <2> HIDE DEF fun, new
    <2> QED
      BY <1>3, <1>6, <1>8, <2>1, <2>2, <2>3
  <1> QED
    BY <1>7, <1>8

LEMMA CountersAreKept ==
  ServerInv /\ ServerInv' /\ WinnerInv /\ WinnerInv' /\ CountersMatchAds /\ [Next]_vars
    => CountersMatchAds'
  <1> SUFFICES ASSUME ServerInv, ServerInv', WinnerInv, WinnerInv', CountersMatchAds, [Next]_vars,
                      NEW k \in Keys, k[2] >= day' - 1
               PROVE  Spent(k)' = Charged(k)'
    BY DEF CountersMatchAds
  <1>1. CASE \E r \in Requests : TryPay(r)
    <2> PICK r \in Requests : TryPay(r)
      BY <1>1
    <2> DEFINE i == asked[r] + 1
               x == KeyAt(r, i)
               total == Spent(x) + PriceAt(r, i)
    <2>1. /\ rpc[r] = "walk" /\ i \in Nat \ {0} /\ x \in Keys
          /\ Spent(x) \in Nat /\ PriceAt(r, i) \in Nat
          /\ \/ /\ spent' = [spent EXCEPT ![x] = total]
                /\ winner' = [winner EXCEPT ![r] = i]
             \/ /\ spent' = [spent EXCEPT ![x] = Spent(x)]
                /\ UNCHANGED <<winner, rpc>>
          /\ UNCHANGED <<day, input, snap, today>>
      BY TryPayFacts DEF world
    <2>2. Spent(k) = Charged(k)
      BY <2>1 DEF CountersMatchAds
    <2>3. spent \in [Keys -> Nat \cup {Absent}] /\ winner \in [Requests -> Nat]
      BY DEF ServerInv, TypeOK
    <2> HIDE DEF x, i
    <2>4. CASE spent' = [spent EXCEPT ![x] = total] /\ winner' = [winner EXCEPT ![r] = i]
      <3>1. winner[r] = 0 /\ winner'[r] = i /\ winner' # winner
        BY <2>1, <2>3, <2>4 DEF WinnerInv
      <3>2. Charged(k)' = Charged(k) + (IF k = KeyAt(r, i) THEN PriceAt(r, i) ELSE 0)
        BY <3>1, AdIsCharged
      <3>3. total \in Nat /\ total # Absent
        BY <2>1, ServerAssumption
      <3>4. Spent(k)' = IF k = x THEN total ELSE Spent(k)
        BY <2>3, <2>4, <3>3 DEF Spent
      <3>5. Spent(k) \in Nat
        BY <2>3, ServerAssumption DEF Spent
      <3> QED
        BY <2>2, <3>2, <3>4, <3>5 DEF x
    <2>5. CASE spent' = [spent EXCEPT ![x] = Spent(x)] /\ UNCHANGED <<winner, rpc>>
      <3>1. Spent(x) # Absent
        BY <2>1, ServerAssumption
      <3>2. Spent(k)' = Spent(k)
        BY <2>1, <2>3, <2>5, <3>1 DEF Spent
      <3>3. Charged(k)' = Charged(k)
        BY <2>1, <2>5 DEF Charged, PaidBy, KeyAt, PriceAt, Ranked
      <3> QED
        BY <2>2, <3>2, <3>3
    <2> QED
      BY <2>1, <2>4, <2>5
  <1>2. CASE Crash \/ Exit
    <2>1. \A s \in Requests : ~ ShowsAd(s)'
      BY <1>2 DEF Crash, Exit, StartAgain, ShowsAd, WinnerInv
    <2>2. PaidBy(k)' = {}
      BY <2>1 DEF PaidBy, ShowsAd
    <2>3. Charged(k)' = 0
      <3> DEFINE fun == [r \in PaidBy(k)' |-> PriceAt(r, winner[r])']
      <3>1. Charged(k)' = SumFunction(fun) /\ DOMAIN fun = {}
        BY <2>2 DEF Charged
      <3> HIDE DEF fun
      <3> QED
        BY <3>1, EmptySum
    <2>4. Spent(k)' = 0
      BY <1>2 DEF Crash, Exit, StartAgain, Spent, NothingSpent
    <2> QED
      BY <2>3, <2>4
  <1>3. CASE ~ (\E r \in Requests : TryPay(r)) /\ ~ (Crash \/ Exit)
    <2>1. day' >= day /\ \A x \in Keys : x[2] >= day - 1 => Spent(x)' = Spent(x)
      BY <1>3, CountersStand
    <2>2. day \in Nat /\ day' \in Nat /\ k[2] \in Nat
      BY DEF ServerInv, TypeOK, Days, Keys
    <2>3. k[2] >= day - 1
      BY <2>1, <2>2
    <2>4. Spent(k)' = Spent(k)
      BY <2>1, <2>3
    <2>5. Charged(k)' = Charged(k)
      BY <1>3, ChargesStand
    <2> QED
      BY <2>3, <2>4, <2>5 DEF CountersMatchAds
  <1> QED
    BY <1>1, <1>2, <1>3

(***************************************************************************)
(* The metrics.                                                            *)
(***************************************************************************)
(* One more element, one more counted.                                     *)
LEMMA OneMore ==
  ASSUME NEW S, NEW r \in Requests, S \subseteq Requests, r \notin S
  PROVE  Cardinality(S) \in Nat /\ Cardinality(S \cup {r}) = Cardinality(S) + 1
  BY ServerAssumption, FS_Subset, FS_AddElement, FS_CardinalityType

(* The requests answered, and the auctions whose skipped candidates are in *)
(* the counters.                                                           *)
Done == {s \in Requests : rpc[s] = "done"}
Tallied == {s \in Recorded : rpc[s] # "skips"}

(* A step that counts nothing and moves no request from one of these sets  *)
(* to another.                                                             *)
LEMMA NothingCounted ==
  ASSUME MetricsMatchAnswers, UNCHANGED <<http, wins, no_ads, rejections>>,
         Done' = Done, Recorded' = Recorded, Tallied' = Tallied,
         \A s \in Recorded : UNCHANGED <<winner[s], asked[s]>>
  PROVE  MetricsMatchAnswers'
  <1>1. /\ {s \in Recorded' : winner'[s] # 0} = {s \in Recorded : winner[s] # 0}
        /\ {s \in Recorded' : winner'[s] = 0} = {s \in Recorded : winner[s] = 0}
    OBVIOUS
  <1>2. [s \in Tallied' |-> asked'[s]] = [s \in Tallied |-> asked[s]]
    BY DEF Tallied
  <1> QED
    BY <1>1, <1>2 DEF MetricsMatchAnswers, Done, Tallied

(* The outcome of one more auction is counted.                             *)
LEMMA OutcomeIsCounted ==
  ASSUME ServerInv, MetricsMatchAnswers, NEW r \in Requests, RecordOutcome(r)
  PROVE  MetricsMatchAnswers'
  <1>1. /\ rpc[r] = "record" /\ rpc' = [rpc EXCEPT ![r] = "skips"]
        /\ wins' = wins + (IF winner[r] # 0 THEN 1 ELSE 0)
        /\ no_ads' = no_ads + (IF winner[r] = 0 THEN 1 ELSE 0)
        /\ UNCHANGED <<http, rejections, asked, winner, answer>>
    BY DEF RecordOutcome
  <1>2. rpc \in [Requests -> Stages] /\ wins \in Nat /\ no_ads \in Nat
    BY DEF ServerInv, TypeOK
  <1>3. /\ Recorded' = Recorded \cup {r} /\ r \notin Recorded /\ Recorded \subseteq Requests
        /\ Done' = Done
    BY <1>1, <1>2 DEF Recorded, Answered, Done
  <1>4. Tallied' = Tallied
    BY <1>1, <1>2, <1>3 DEF Tallied
  <1> DEFINE won == {s \in Recorded : winner[s] # 0}
             lost == {s \in Recorded : winner[s] = 0}
  <1>5. /\ won \subseteq Requests /\ r \notin won /\ wins = Cardinality(won)
        /\ lost \subseteq Requests /\ r \notin lost /\ no_ads = Cardinality(lost)
    BY <1>3 DEF MetricsMatchAnswers
  <1>6. /\ {s \in Recorded' : winner'[s] # 0} = IF winner[r] # 0 THEN won \cup {r} ELSE won
        /\ {s \in Recorded' : winner'[s] = 0} = IF winner[r] = 0 THEN lost \cup {r} ELSE lost
    <2>1. CASE winner[r] # 0
      BY <1>1, <1>3, <2>1
    <2>2. CASE winner[r] = 0
      BY <1>1, <1>3, <2>2
    <2> QED
      BY <2>1, <2>2
  <1> HIDE DEF won, lost
  <1>7. /\ Cardinality(won \cup {r}) = wins + 1
        /\ Cardinality(lost \cup {r}) = no_ads + 1
    BY <1>5, OneMore
  <1>8. /\ wins' = Cardinality({s \in Recorded' : winner'[s] # 0})
        /\ no_ads' = Cardinality({s \in Recorded' : winner'[s] = 0})
    <2>1. CASE winner[r] # 0
      <3>1. wins' = wins + 1 /\ no_ads' = no_ads
        BY <1>1, <1>2, <2>1
      <3>2. /\ {s \in Recorded' : winner'[s] # 0} = won \cup {r}
            /\ {s \in Recorded' : winner'[s] = 0} = lost
        BY <1>6, <2>1
      <3> QED
        BY <1>5, <1>7, <3>1, <3>2
    <2>2. CASE winner[r] = 0
      <3>1. wins' = wins /\ no_ads' = no_ads + 1
        BY <1>1, <1>2, <2>2
      <3>2. /\ {s \in Recorded' : winner'[s] # 0} = won
            /\ {s \in Recorded' : winner'[s] = 0} = lost \cup {r}
        BY <1>6, <2>2
      <3> QED
        BY <1>5, <1>7, <3>1, <3>2
    <2> QED
      BY <2>1, <2>2
  <1>9. [s \in Tallied' |-> asked'[s]] = [s \in Tallied |-> asked[s]]
    BY <1>1, <1>4
  <1> QED
    BY <1>1, <1>3, <1>8, <1>9 DEF MetricsMatchAnswers, Done, Tallied

(* Whoever was skipped in one more auction is counted.                     *)
LEMMA SkippedAreCounted ==
  ASSUME ServerInv, MetricsMatchAnswers, NEW r \in Requests, RecordSkipped(r)
  PROVE  MetricsMatchAnswers'
  <1>1. /\ rpc[r] = "skips" /\ rpc' = [rpc EXCEPT ![r] = "reply"]
        /\ rejections' = rejections + asked[r]
        /\ UNCHANGED <<http, wins, no_ads, asked, winner, answer>>
    BY DEF RecordSkipped
  <1>2. rpc \in [Requests -> Stages] /\ asked \in [Requests -> Nat] /\ rejections \in Nat
    BY DEF ServerInv, TypeOK
  <1>3. /\ Recorded' = Recorded /\ r \in Recorded /\ Recorded \subseteq Requests
        /\ Done' = Done
    BY <1>1, <1>2 DEF Recorded, Answered, Done
  <1>4. Tallied' = Tallied \cup {r} /\ r \notin Tallied /\ Tallied \subseteq Requests
    BY <1>1, <1>2, <1>3 DEF Tallied
  <1> DEFINE fun == [s \in Tallied |-> asked[s]]
             new == [s \in Tallied' |-> asked[s]]
  <1>5. rejections = SumFunctionOnSet(fun, Tallied)
    BY DEF MetricsMatchAnswers, Tallied, SumFunction
  <1>6. /\ \A s \in Tallied : new[s] = fun[s] /\ fun[s] \in Nat
        /\ new[r] = asked[r] /\ asked[r] \in Nat
    BY <1>2, <1>4
  <1>7. IsFiniteSet(Tallied) /\ IsFiniteSet(Tallied')
    <2>1. IsFiniteSet(Tallied)
      BY <1>4, ServerAssumption, FS_Subset
    <2> QED
      BY <1>4, <2>1, FS_AddElement
  <1>8. DOMAIN new = Tallied' /\ new = [s \in Tallied' |-> asked'[s]]
    BY <1>1
  <1> HIDE DEF fun, new
  <1>9. /\ SumFunctionOnSet(new, Tallied') = new[r] + SumFunctionOnSet(new, Tallied' \ {r})
        /\ Tallied' \ {r} = Tallied
    <2>1. \A x \in Tallied' : new[x] \in Nat
      BY <1>4, <1>6
    <2> QED
      BY <1>4, <1>7, <2>1, SumFacts
  <1>10. SumFunctionOnSet(new, Tallied) = SumFunctionOnSet(fun, Tallied)
    BY <1>6, <1>7, SumsAgree
  <1>11. SumFunctionOnSet(new, Tallied') = asked[r] + rejections
    BY <1>5, <1>6, <1>9, <1>10
  <1>12. rejections' = SumFunctionOnSet(new, Tallied')
    BY <1>1, <1>2, <1>6, <1>11
  <1>13. /\ {s \in Recorded' : winner'[s] # 0} = {s \in Recorded : winner[s] # 0}
         /\ {s \in Recorded' : winner'[s] = 0} = {s \in Recorded : winner[s] = 0}
    BY <1>1, <1>3
  <1> QED
    BY <1>1, <1>3, <1>8, <1>12, <1>13 DEF MetricsMatchAnswers, Done, Tallied, SumFunction

(* track_metrics counts one more answer.                                   *)
LEMMA AnswerIsCounted ==
  ASSUME ServerInv, MetricsMatchAnswers, NEW r \in Requests, CountRequest(r)
  PROVE  MetricsMatchAnswers'
  <1>1. /\ rpc[r] = "respond" /\ rpc' = [rpc EXCEPT ![r] = "done"] /\ http' = http + 1
        /\ UNCHANGED <<wins, no_ads, rejections, asked, winner, answer>>
    BY DEF CountRequest, outcomes
  <1>2. rpc \in [Requests -> Stages]
    BY DEF ServerInv, TypeOK
  <1>3. Done' = Done \cup {r} /\ r \notin Done /\ Done \subseteq Requests
    BY <1>1, <1>2 DEF Done
  <1>4. Recorded' = Recorded
    BY <1>1, <1>2 DEF Recorded, Answered
  <1>5. Tallied' = Tallied
    BY <1>1, <1>2, <1>4 DEF Tallied
  <1>6. http = Cardinality(Done)
    BY DEF MetricsMatchAnswers, Done
  <1>7. http' = Cardinality(Done')
    BY <1>1, <1>3, <1>6, OneMore
  <1>8. /\ {s \in Recorded' : winner'[s] # 0} = {s \in Recorded : winner[s] # 0}
        /\ {s \in Recorded' : winner'[s] = 0} = {s \in Recorded : winner[s] = 0}
        /\ [s \in Tallied' |-> asked'[s]] = [s \in Tallied |-> asked[s]]
    BY <1>1, <1>4, <1>5
  <1> QED
    BY <1>1, <1>7, <1>8 DEF MetricsMatchAnswers, Done, Tallied

LEMMA MetricsAreKept == ServerInv /\ MetricsMatchAnswers /\ [Next]_vars => MetricsMatchAnswers'
  <1> SUFFICES ASSUME ServerInv, MetricsMatchAnswers, [Next]_vars PROVE MetricsMatchAnswers'
    OBVIOUS
  <1>1. ASSUME UNCHANGED <<http, wins, no_ads, rejections>>,
               \A s \in Requests :
                 /\ rpc'[s] = "done" <=> rpc[s] = "done"
                 /\ rpc'[s] = "skips" <=> rpc[s] = "skips"
                 /\ (s \in Recorded)' <=> s \in Recorded
                 /\ s \in Recorded => UNCHANGED <<winner[s], asked[s]>>
        PROVE  MetricsMatchAnswers'
    <2>1. Recorded \subseteq Requests /\ Recorded' \subseteq Requests
      BY DEF Recorded, Answered
    <2>2. Done' = Done /\ Recorded' = Recorded
      BY <1>1, <2>1 DEF Done
    <2>3. Tallied' = Tallied
      BY <1>1, <2>1, <2>2 DEF Tallied
    <2>4. \A s \in Recorded : UNCHANGED <<winner[s], asked[s]>>
      BY <1>1, <2>1
    <2> QED
      BY <1>1, <2>2, <2>3, <2>4, NothingCounted
  <1> USE DEF world, appState, refresher, metrics, outcomes, requests
  <1>2. ASSUME NEW r \in Requests, RecordOutcome(r) \/ RecordSkipped(r) \/ CountRequest(r)
        PROVE  MetricsMatchAnswers'
    BY <1>2, OutcomeIsCounted, SkippedAreCounted, AnswerIsCounted
  <1>3. ASSUME NEW r \in Requests, Reply(r) PROVE MetricsMatchAnswers'
    BY <1>1, <1>3 DEF Reply, Respond, Recorded, Answered, ServerInv, TypeOK
  <1>4. ASSUME NEW r \in Requests, Timeout(r) \/ Disconnect(r) \/ Arrive(r) PROVE MetricsMatchAnswers'
    BY <1>1, <1>4 DEF Timeout, Disconnect, Arrive, Respond, Recorded, Answered, ServerInv, TypeOK
  <1>5. ASSUME NEW r \in Requests, ReadDate(r) \/ NobodyPays(r) PROVE MetricsMatchAnswers'
    BY <1>1, <1>5 DEF ReadDate, NobodyPays, Recorded, Answered, ServerInv, TypeOK
  <1>6. ASSUME NEW r \in Requests, Validate(r) \/ LoadSnapshot(r) \/ StartAuction(r)
        PROVE  MetricsMatchAnswers'
    BY <1>1, <1>6 DEF Validate, LoadSnapshot, StartAuction, Respond, Recorded, Answered, ServerInv, TypeOK
  <1>7. ASSUME NEW r \in Requests, TryPay(r) PROVE MetricsMatchAnswers'
    <2>1. /\ rpc[r] = "walk"
          /\ \/ winner' = [winner EXCEPT ![r] = asked[r] + 1] /\ rpc' = [rpc EXCEPT ![r] = "record"]
                /\ UNCHANGED asked
             \/ asked' = [asked EXCEPT ![r] = asked[r] + 1] /\ UNCHANGED <<winner, rpc>>
          /\ UNCHANGED <<metrics, answer>>
      BY <1>7 DEF TryPay
    <2> QED
      BY <1>1, <2>1 DEF Recorded, Answered, ServerInv, TypeOK
  <1>8. CASE Tick \/ Refresh \/ Midnight \/ EditSource \/ Shutdown \/ UNCHANGED vars
    <2>1. UNCHANGED <<http, wins, no_ads, rejections, requests>>
      BY <1>8 DEF Tick, Refresh, LoadOk, LoadFails, RecordIndexSize, Publish, PruneBound, Prune,
                  Midnight, EditSource, Shutdown, vars
    <2> QED
      BY <1>1, <2>1 DEF Recorded, Answered
  <1>9. CASE Crash \/ Exit
    <2>1. /\ http' = 0 /\ wins' = 0 /\ no_ads' = 0 /\ rejections' = 0
          /\ \A s \in Requests : rpc'[s] \in {"new", "gone"}
      BY <1>9 DEF Crash, Exit, StartAgain
    <2>2. Recorded' = {} /\ Done' = {} /\ Tallied' = {}
      BY <2>1 DEF Recorded, Answered, Done, Tallied
    <2> DEFINE fun == [s \in Tallied' |-> asked'[s]]
    <2>3. SumFunction(fun) = 0
      <3>1. DOMAIN fun = {}
        BY <2>2
      <3> HIDE DEF fun
      <3> QED
        BY <3>1, EmptySum
    <2>4. /\ {s \in Recorded' : winner'[s] # 0} = {}
          /\ {s \in Recorded' : winner'[s] = 0} = {}
      BY <2>2
    <2> QED
      BY <2>1, <2>2, <2>3, <2>4, FS_EmptySet DEF MetricsMatchAnswers, Done, Tallied
  <1> QED
    BY <1>2, <1>3, <1>4, <1>5, <1>6, <1>7, <1>8, <1>9 DEF Next, Handle

(***************************************************************************)
(* The theorems.                                                           *)
(***************************************************************************)

(* The inductive invariant: whatever the requests, the refresh task, the   *)
(* clock and the operators do, in any order.                               *)
THEOREM ServerInvariance == Spec => []ServerInv
  <1>1. ServerInv /\ [Next]_vars => ServerInv'
    BY TypesAreKept, RequestsAreKept, RefreshIsKept, WalkIsKept, SkippedIsKept DEF ServerInv
  <1> QED
    BY ServerStarts, <1>1, PTL DEF Spec

(* Every variable keeps its type: in particular no counter goes negative   *)
(* and no prune bound lies in the future.                                  *)
THEOREM ServerTypes == Spec => []TypeOK
  <1>1. ServerInv => TypeOK
    BY DEF ServerInv
  <1> QED
    BY ServerInvariance, <1>1, PTL

(* publish and keep_index_fresh: the gauges describe the index being       *)
(* served, except between the two statements of publish.                   *)
THEOREM GaugesDescribeTheIndex == Spec => []GaugesMatchIndex
  <1>1. ServerInv => GaugesMatchIndex
    BY DEF ServerInv, RefreshInv
  <1> QED
    BY ServerInvariance, <1>1, PTL

(* try_spend, prune_days and the bound of prune_budget_days: no candidate  *)
(* is passed over for a budget that later turns out to have had room.      *)
THEOREM SkippedCannotPay == Spec => []SkippedStillCannotPay
  <1>1. ServerInv => SkippedStillCannotPay
    <2> SUFFICES ASSUME ServerInv, NEW r \in Requests, rpc[r] # "gone",
                        today[r] >= day - 1, NEW n \in 1..asked[r]
                 PROVE  CannotPay(r, n)
      BY DEF SkippedStillCannotPay, CannotPay
    <2>1. InAuction(r)
      BY DEF ServerInv, RequestInv, InAuction
    <2> QED
      BY <2>1 DEF ServerInv, SkippedInv
  <1> QED
    BY ServerInvariance, <1>1, PTL

(* keep_index_fresh: once an index is served, only the end of the process  *)
(* takes it away; what is published next was really built.                 *)
THEOREM ServerStaysReady == Spec => ReadyStaysReady
  <1>1. ServerInv /\ [Next]_vars => [published # None => published' # None \/ Crash \/ Exit]_vars
    <2> SUFFICES ASSUME ServerInv, Next, published # None, ~ Crash, ~ Exit PROVE published' # None
      BY DEF vars
    <2> USE DEF world, appState, refresher, metrics, outcomes, requests
    <2>1. ASSUME NEW r \in Requests, Arrive(r) \/ Timeout(r) \/ Disconnect(r) \/ Handle(r)
          PROVE  UNCHANGED published
      BY <2>1, TryPayFacts DEF Arrive, Timeout, Disconnect, Handle, Validate, LoadSnapshot, ReadDate,
                               StartAuction, NobodyPays, RecordOutcome, RecordSkipped, Reply, CountRequest
    <2>2. CASE Publish
      BY <2>2, ServerAssumption DEF Publish, ServerInv, RefreshInv
    <2>3. CASE Tick \/ LoadOk \/ LoadFails \/ RecordIndexSize \/ PruneBound \/ Prune
                 \/ Midnight \/ EditSource \/ Shutdown
      BY <2>3 DEF Tick, LoadOk, LoadFails, RecordIndexSize, PruneBound, Prune, Midnight, EditSource, Shutdown
    <2> QED
      BY <2>1, <2>2, <2>3 DEF Next, Refresh
  <1> QED
    BY ServerInvariance, <1>1, PTL DEF Spec, ReadyStaysReady

LEMMA AdsStart == Init => AdsInv
  <1> SUFFICES ASSUME Init PROVE AdsInv
    OBVIOUS
  <1>1. WinnerInv
    BY DEF Init, WinnerInv
  <1>2. CountersMatchAds
    <2> SUFFICES ASSUME NEW k \in Keys PROVE Spent(k) = Charged(k)
      BY DEF CountersMatchAds
    <2> DEFINE fun == [r \in PaidBy(k) |-> PriceAt(r, winner[r])]
    <2>1. DOMAIN fun = {} /\ Charged(k) = SumFunction(fun)
      BY DEF Init, PaidBy, Charged
    <2> HIDE DEF fun
    <2>2. Charged(k) = 0
      BY <2>1, EmptySum
    <2>3. Spent(k) = 0
      BY DEF Init, NothingSpent, Spent
    <2> QED
      BY <2>2, <2>3
  <1>3. MetricsMatchAnswers
    <2> DEFINE fun == [r \in Tallied |-> asked[r]]
    <2>1. /\ Recorded = {} /\ Done = {} /\ Tallied = {}
          /\ DOMAIN fun = {}
      BY DEF Init, Recorded, Answered, Done, Tallied
    <2> HIDE DEF fun
    <2>2. SumFunction(fun) = 0
      BY <2>1, EmptySum
    <2>3. {r \in Recorded : winner[r] # 0} = {} /\ {r \in Recorded : winner[r] = 0} = {}
      BY <2>1
    <2> QED
      BY <2>1, <2>2, <2>3, FS_EmptySet DEF Init, MetricsMatchAnswers, Done, Tallied, fun
  <1> QED
    BY <1>1, <1>2, <1>3 DEF AdsInv

(* What the counters, the metrics and the requests say of each other.      *)
THEOREM AdsInvariance == Spec => []AdsInv
  <1>1. ServerInv /\ ServerInv' /\ AdsInv /\ [Next]_vars => AdsInv'
    BY WinnersAreKept, CountersAreKept, MetricsAreKept DEF AdsInv
  <1> QED
    BY AdsStart, ServerInvariance, <1>1, PTL DEF Spec

(* try_spend, run and prune_days: the counters of today and yesterday hold *)
(* exactly the prices of the ads shown.                                    *)
THEOREM ChargesMatchAds == Spec => []CountersMatchAds
  <1>1. AdsInv => CountersMatchAds
    BY DEF AdsInv
  <1> QED
    BY AdsInvariance, <1>1, PTL

(* record_auction and track_metrics, in any interleaving of their three    *)
(* increments with those of other requests: every auction is counted once, *)
(* with its outcome, every candidate that could not pay, and its answer.   *)
THEOREM EveryAnswerIsCounted == Spec => []MetricsMatchAnswers
  <1>1. AdsInv => MetricsMatchAnswers
    BY DEF AdsInv
  <1> QED
    BY AdsInvariance, <1>1, PTL

(* run and try_spend: the ad an auction shows fits, together with all the  *)
(* ads shown before it on its day, the daily budget of the snapshot the    *)
(* auction runs on.                                                        *)
THEOREM AdsFitDailyBudgets == Spec => DailyBudgetHolds
  <1> DEFINE Fits(r) == Charged(KeyAt(r, winner[r])) <= BudgetAt(r, winner[r])
  <1>1. ASSUME ServerInv, ServerInv', AdsInv, AdsInv', [Next]_vars,
               NEW r \in Requests, winner'[r] # winner[r]
        PROVE  Fits(r)'
    <2>1. CASE \E s \in Requests : TryPay(s)
      <3> PICK s \in Requests : TryPay(s)
        BY <2>1
      <3> DEFINE i == asked[s] + 1
                 k == KeyAt(s, i)
                 total == Spent(k) + PriceAt(s, i)
      <3>1. /\ rpc[s] = "walk" /\ k \in Keys /\ Spent(k) \in Nat /\ PriceAt(s, i) \in Nat
            /\ total <= BudgetAt(s, i)
            /\ spent' = [spent EXCEPT ![k] = total]
            /\ winner' = [winner EXCEPT ![s] = i]
            /\ UNCHANGED <<day, input, snap, today>>
        BY <1>1, TryPayFacts DEF world
      <3>2. s = r /\ winner'[r] = i
        BY <1>1, <3>1 DEF ServerInv, TypeOK
      <3> PICK x : x = k
        OBVIOUS
      <3>3. x \in Keys /\ x[2] >= day' - 1
        BY <1>1, <3>1 DEF AdsInv, WinnerInv, KeyAt
      <3>4. Spent(x)' = Charged(x)'
        <4>1. CountersMatchAds'
          BY <1>1 DEF AdsInv
        <4> QED
          BY <3>3, <4>1 DEF CountersMatchAds
      <3>5. Spent(x)' = total
        <4>1. spent \in [Keys -> Nat \cup {Absent}]
          BY <1>1 DEF ServerInv, TypeOK
        <4>2. total # Absent
          BY <3>1, ServerAssumption
        <4> HIDE DEF total, k
        <4>3. spent'[x] = total
          BY <3>1, <3>3, <4>1
        <4> QED
          BY <4>2, <4>3 DEF Spent
      <3>6. KeyAt(r, winner[r])' = x /\ BudgetAt(r, winner[r])' = BudgetAt(s, i)
        BY <3>1, <3>2 DEF KeyAt, BudgetAt, Ranked
      <3>7. Charged(KeyAt(r, winner[r]))' = Charged(x)'
        BY <3>6 DEF Charged, PaidBy
      <3> QED
        BY <3>1, <3>4, <3>5, <3>6, <3>7
    <2>2. CASE Crash \/ Exit
      BY <1>1, <2>2 DEF Crash, Exit, StartAgain
    <2>3. CASE ~ (\E s \in Requests : TryPay(s)) /\ ~ (Crash \/ Exit)
      BY <1>1, <2>3, AdsStand DEF AdsInv, AdStands
    <2> QED
      BY <2>1, <2>2, <2>3
  <1>2. ServerInv /\ ServerInv' /\ AdsInv /\ AdsInv' /\ [Next]_vars
          => [\A r \in Requests : winner'[r] # winner[r] => Fits(r)']_vars
    BY <1>1
  <1> QED
    BY ServerInvariance, AdsInvariance, <1>2, PTL DEF Spec, DailyBudgetHolds
=============================================================================
