------------------------------ MODULE AdServer -------------------------------
(***************************************************************************)
(* The server process of admatch-server: concurrent match requests         *)
(* (routes.rs), the refresh task that reloads the campaigns and prunes the *)
(* budget counters (state.rs), and the metrics (metrics.rs), around the    *)
(* daily budgets of admatch-core.                                          *)
(*                                                                         *)
(* A campaign table stands for a built Snapshot: for each query, the       *)
(* campaigns Snapshot::run ranks, each with the price it would pay, and    *)
(* the daily budgets (SelectWinner.tla models ranking and prices).         *)
(* try_spend is the single step of AtomicBudgets.tla, which MemoryBudgets  *)
(* implements.                                                             *)
(***************************************************************************)
EXTENDS Integers, Sequences, FiniteSets, Functions

CONSTANTS
  Requests,     \* each is one match request
  Campaigns,
  Tables,       \* the campaign tables a seed file may hold
  Unreadable,   \* a seed file that cannot be read, parsed or built
  Queries,      \* the queries that pass normalize()
  Ranking,      \* Ranking[table][query]: a sequence of campaigns with prices
  Budget,       \* Budget[table][campaign]: its daily budget
  Size,         \* Size[table]: how many campaigns it holds
  None,         \* no table published
  Absent,       \* a counter that is not in the map
  LastDay,      \* bound: the days are 1..LastDay
  MaxCrashes,   \* bound: crashes of the process
  MaxStops      \* bound: graceful shutdowns

ASSUME ServerAssumption ==
  /\ IsFiniteSet(Requests)
  /\ Unreadable \notin Tables
  /\ None \notin Tables
  /\ Absent \notin Nat
  /\ LastDay \in Nat \ {0}
  /\ MaxCrashes \in Nat
  /\ MaxStops \in Nat
  /\ \A t \in Tables : Size[t] \in Nat
  /\ \A t \in Tables : \A c \in Campaigns : Budget[t][c] \in Int
  /\ \A t \in Tables : \A q \in Queries :
       Ranking[t][q] \in Seq([campaign : Campaigns, price : Nat \ {0}])

VARIABLES
  day,          \* the UTC date
  source,       \* what the seed file holds
  process,      \* "up", or "draining" after a shutdown signal
  crashes, stops,
  \* AppState
  published,    \* the snapshot pointer
  spent,        \* the budget counters
  \* the refresh task
  refresh,      \* "waiting", "loading", "built", "measured", "loaded", "pruning"
  built,        \* the snapshot it has built and not yet stored
  bound,        \* the bound it will prune with
  \* metrics
  gauge,        \* index_campaigns
  http,         \* http_requests_total
  wins, no_ads, \* auction_outcomes_total
  rejections,   \* budget_rejections_total
  \* the requests
  rpc,          \* one of Stages: the statement a request is at
  input,        \* "malformed", "invalid" or a query
  snap,         \* the table it loaded
  today,        \* the date it read
  asked,        \* how many positions of the ranking could not pay
  winner,       \* the position that paid, or 0
  answer        \* "none", "malformed", "unavailable", "not_ready", "invalid_query", "ok"

appState == <<published, spent>>
refresher == <<refresh, built, bound>>
outcomes == <<gauge, wins, no_ads, rejections>>
metrics == <<outcomes, http>>
world == <<day, source, process, crashes, stops>>
requests == <<rpc, input, snap, today, asked, winner, answer>>
vars == <<world, appState, refresher, metrics, requests>>

Days == 1..LastDay
Keys == Campaigns \X Days

(* Where a request is: not sent; in match_ad, up to its early return or    *)
(* through record_auction to its response; in track_metrics; answered; or  *)
(* lost, because the client went away or the process ended.                *)
Stages == {"new", "body", "load", "date", "run", "walk", "record", "skips", "reply",
           "respond", "done", "left", "gone"}
InFlight(r) == rpc[r] \notin {"new", "done", "left", "gone"}

(* The ranking a request walks, and the counter of its i-th campaign.      *)
Ranked(r) == Ranking[snap[r]][input[r]]
KeyAt(r, i) == <<Ranked(r)[i].campaign, today[r]>>
PriceAt(r, i) == Ranked(r)[i].price
BudgetAt(r, i) == Budget[snap[r]][Ranked(r)[i].campaign]

Spent(k) == IF spent[k] = Absent THEN 0 ELSE spent[k]

TypeOK ==
  /\ day \in Days
  /\ source \in Tables \cup {Unreadable}
  /\ process \in {"up", "draining"}
  /\ crashes \in 0..MaxCrashes /\ stops \in 0..MaxStops
  /\ published \in Tables \cup {None}
  /\ spent \in [Keys -> Nat \cup {Absent}]
  /\ refresh \in {"waiting", "loading", "built", "measured", "loaded", "pruning"}
  /\ built \in Tables \cup {None}
  /\ bound \in 0..LastDay
  /\ {gauge, http, wins, no_ads, rejections} \subseteq Nat
  /\ rpc \in [Requests -> Stages]
  /\ input \in [Requests -> Queries \cup {"malformed", "invalid"}]
  /\ snap \in [Requests -> Tables \cup {None}]
  /\ today \in [Requests -> 0..LastDay]
  /\ asked \in [Requests -> Nat]
  /\ winner \in [Requests -> Nat]
  /\ answer \in [Requests -> {"none", "malformed", "unavailable", "not_ready", "invalid_query", "ok"}]

NothingSpent == [k \in Keys |-> Absent]

Init ==
  /\ day = 1
  /\ source \in Tables \cup {Unreadable}
  /\ process = "up"
  /\ crashes = 0 /\ stops = 0
  /\ published = None
  /\ spent = NothingSpent
  /\ refresh = "waiting" /\ built = None /\ bound = 0
  /\ gauge = 0 /\ http = 0 /\ wins = 0 /\ no_ads = 0 /\ rejections = 0
  /\ rpc = [r \in Requests |-> "new"]
  /\ input = [r \in Requests |-> "malformed"]
  /\ snap = [r \in Requests |-> None]
  /\ today = [r \in Requests |-> 0]
  /\ asked = [r \in Requests |-> 0]
  /\ winner = [r \in Requests |-> 0]
  /\ answer = [r \in Requests |-> "none"]

(***************************************************************************)
(* The outside world.                                                      *)
(***************************************************************************)

(* No request holds a date across two midnights: the comment of            *)
(* prune_budget_days, "One day of slack is far longer than any request".   *)
Midnight ==
  /\ day < LastDay
  /\ \A r \in Requests : rpc[r] \in {"run", "walk"} => today[r] = day
  /\ day' = day + 1
  /\ UNCHANGED <<source, process, crashes, stops, appState, refresher, metrics, requests>>

(* Someone replaces, truncates or removes the seed file.                   *)
EditSource ==
  /\ source' \in (Tables \cup {Unreadable}) \ {source}
  /\ UNCHANGED <<day, process, crashes, stops, appState, refresher, metrics, requests>>

(***************************************************************************)
(* POST /v1/match                                                          *)
(***************************************************************************)
Arrive(r) ==
  /\ rpc[r] = "new"
  /\ process = "up"
  /\ rpc' = [rpc EXCEPT ![r] = "body"]
  /\ \E i \in Queries \cup {"malformed", "invalid"} : input' = [input EXCEPT ![r] = i]
  /\ UNCHANGED <<world, appState, refresher, metrics, snap, today, asked, winner, answer>>

(* The handler, or the timeout layer for it, returns a response.           *)
Respond(r, a) ==
  /\ rpc' = [rpc EXCEPT ![r] = "respond"]
  /\ answer' = [answer EXCEPT ![r] = a]

(* track_metrics, outside the timeout, counts every response and passes it *)
(* on to the client.                                                       *)
CountRequest(r) ==
  /\ rpc[r] = "respond"
  /\ rpc' = [rpc EXCEPT ![r] = "done"]
  /\ http' = http + 1
  /\ UNCHANGED <<world, appState, refresher, outcomes, input, snap, today, asked, winner, answer>>

(* The timeout layer can drop a request only where the handler awaits:     *)
(* while its body is being read.                                           *)
Timeout(r) ==
  /\ rpc[r] = "body"
  /\ Respond(r, "unavailable")
  /\ UNCHANGED <<world, appState, refresher, metrics, input, snap, today, asked, winner>>

(* The client closes the connection: the same await drops the handler, and *)
(* track_metrics with it.  A handler past it is not interrupted.           *)
Disconnect(r) ==
  /\ rpc[r] = "body"
  /\ rpc' = [rpc EXCEPT ![r] = "left"]
  /\ UNCHANGED <<world, appState, refresher, metrics, input, snap, today, asked, winner, answer>>

(* The body, the country and the age bucket are checked first.             *)
Validate(r) ==
  /\ rpc[r] = "body"
  /\ \/ /\ input[r] = "malformed"
        /\ Respond(r, "malformed")
     \/ /\ input[r] # "malformed"
        /\ rpc' = [rpc EXCEPT ![r] = "load"]
        /\ UNCHANGED answer
  /\ UNCHANGED <<world, appState, refresher, metrics, input, snap, today, asked, winner>>

LoadSnapshot(r) ==
  /\ rpc[r] = "load"
  /\ \/ /\ published = None
        /\ Respond(r, "not_ready")
        /\ UNCHANGED snap
     \/ /\ published # None
        /\ snap' = [snap EXCEPT ![r] = published]
        /\ rpc' = [rpc EXCEPT ![r] = "date"]
        /\ UNCHANGED answer
  /\ UNCHANGED <<world, appState, refresher, metrics, input, today, asked, winner>>

ReadDate(r) ==
  /\ rpc[r] = "date"
  /\ today' = [today EXCEPT ![r] = day]
  /\ rpc' = [rpc EXCEPT ![r] = "run"]
  /\ UNCHANGED <<world, appState, refresher, metrics, input, snap, asked, winner, answer>>

(* Snapshot::run refuses an invalid query before anything else; no auction *)
(* is recorded then.                                                       *)
StartAuction(r) ==
  /\ rpc[r] = "run"
  /\ \/ /\ input[r] = "invalid"
        /\ Respond(r, "invalid_query")
     \/ /\ input[r] # "invalid"
        /\ rpc' = [rpc EXCEPT ![r] = "walk"]
        /\ UNCHANGED answer
  /\ UNCHANGED <<world, appState, refresher, metrics, input, snap, today, asked, winner>>

(* One candidate is asked to pay: try_spend creates the counter if need    *)
(* be, and adds the price if the total stays within the budget.            *)
TryPay(r) ==
  LET i == asked[r] + 1
      total == Spent(KeyAt(r, i)) + PriceAt(r, i)
  IN  /\ rpc[r] = "walk"
      /\ i <= Len(Ranked(r))
      /\ \/ /\ total <= BudgetAt(r, i)
            /\ spent' = [spent EXCEPT ![KeyAt(r, i)] = total]
            /\ winner' = [winner EXCEPT ![r] = i]
            /\ rpc' = [rpc EXCEPT ![r] = "record"]
            /\ UNCHANGED asked
         \/ /\ total > BudgetAt(r, i)
            /\ spent' = [spent EXCEPT ![KeyAt(r, i)] = Spent(KeyAt(r, i))]
            /\ asked' = [asked EXCEPT ![r] = i]
            /\ UNCHANGED <<winner, rpc>>
      /\ UNCHANGED <<world, published, refresher, metrics, input, snap, today, answer>>

NobodyPays(r) ==
  /\ rpc[r] = "walk"
  /\ asked[r] = Len(Ranked(r))
  /\ rpc' = [rpc EXCEPT ![r] = "record"]
  /\ UNCHANGED <<world, appState, refresher, metrics, input, snap, today, asked, winner, answer>>

(* record_auction counts the outcome, ...                                  *)
RecordOutcome(r) ==
  /\ rpc[r] = "record"
  /\ wins' = wins + (IF winner[r] # 0 THEN 1 ELSE 0)
  /\ no_ads' = no_ads + (IF winner[r] = 0 THEN 1 ELSE 0)
  /\ rpc' = [rpc EXCEPT ![r] = "skips"]
  /\ UNCHANGED <<world, appState, refresher, gauge, http, rejections, input, snap, today, asked,
                 winner, answer>>

(* Mutant: one rejection per auction instead of one per candidate.         *)
RecordOneSkipped(r) ==
  /\ rpc[r] = "skips"
  /\ rejections' = rejections + (IF asked[r] > 0 THEN 1 ELSE 0)
  /\ rpc' = [rpc EXCEPT ![r] = "reply"]
  /\ UNCHANGED <<world, appState, refresher, gauge, http, wins, no_ads, input, snap, today, asked,
                 winner, answer>>

(* ... then the candidates passed over, if any; GET /metrics may look in   *)
(* between.                                                                *)
RecordSkipped(r) ==
  /\ rpc[r] = "skips"
  /\ rejections' = rejections + asked[r]
  /\ rpc' = [rpc EXCEPT ![r] = "reply"]
  /\ UNCHANGED <<world, appState, refresher, gauge, http, wins, no_ads, input, snap, today, asked,
                 winner, answer>>

(* The response is built, and the handler returns it.                      *)
Reply(r) ==
  /\ rpc[r] = "reply"
  /\ Respond(r, "ok")
  /\ UNCHANGED <<world, appState, refresher, metrics, input, snap, today, asked, winner>>

Handle(r) ==
  \/ Validate(r)
  \/ LoadSnapshot(r)
  \/ ReadDate(r)
  \/ StartAuction(r)
  \/ TryPay(r)
  \/ NobodyPays(r)
  \/ RecordOutcome(r)
  \/ RecordSkipped(r)
  \/ Reply(r)
  \/ CountRequest(r)

(***************************************************************************)
(* keep_index_fresh                                                        *)
(***************************************************************************)
Tick ==
  /\ refresh = "waiting"
  /\ refresh' = "loading"
  /\ UNCHANGED <<world, appState, built, bound, metrics, requests>>

(* The blocking task reads and builds what the file holds at that moment.  *)
LoadOk ==
  /\ refresh = "loading"
  /\ source # Unreadable
  /\ built' = source
  /\ refresh' = "built"
  /\ UNCHANGED <<world, appState, bound, metrics, requests>>

(* Mutant: a failed load takes the old snapshot away.                      *)
LoadFailsUnpublishes ==
  /\ refresh = "loading"
  /\ source = Unreadable
  /\ refresh' = "loaded"
  /\ published' = None
  /\ UNCHANGED <<world, spent, built, bound, metrics, requests>>

(* Mutant: a failed load goes on to the next tick without pruning.         *)
LoadFailsSkipsPrune ==
  /\ refresh = "loading"
  /\ source = Unreadable
  /\ refresh' = "waiting"
  /\ UNCHANGED <<world, appState, built, bound, metrics, requests>>

(* An error, or a panic of the blocking task: the old snapshot stays.      *)
LoadFails ==
  /\ refresh = "loading"
  /\ source = Unreadable
  /\ refresh' = "loaded"
  /\ UNCHANGED <<world, appState, built, bound, metrics, requests>>

(* Mutant: the gauges are set for the first index only.                    *)
RecordFirstSize ==
  /\ refresh = "built"
  /\ gauge' = IF published = None THEN Size[built] ELSE gauge
  /\ refresh' = "measured"
  /\ UNCHANGED <<world, appState, built, bound, http, wins, no_ads, rejections, requests>>

(* publish: the gauges first, then the pointer.                            *)
RecordIndexSize ==
  /\ refresh = "built"
  /\ gauge' = Size[built]
  /\ refresh' = "measured"
  /\ UNCHANGED <<world, appState, built, bound, http, wins, no_ads, rejections, requests>>

(* Mutant: the budgets live in the snapshot and start anew with it.        *)
PublishResetsBudgets ==
  /\ refresh = "measured"
  /\ published' = built
  /\ spent' = NothingSpent
  /\ built' = None
  /\ refresh' = "loaded"
  /\ UNCHANGED <<world, bound, metrics, requests>>

(* Mutant: only the first snapshot is stored.                              *)
PublishFirst ==
  /\ refresh = "measured"
  /\ published' = IF published = None THEN built ELSE published
  /\ built' = None
  /\ refresh' = "loaded"
  /\ UNCHANGED <<world, spent, bound, metrics, requests>>

Publish ==
  /\ refresh = "measured"
  /\ published' = built
  /\ built' = None
  /\ refresh' = "loaded"
  /\ UNCHANGED <<world, spent, bound, metrics, requests>>

(* Mutant: yesterday's counters are dropped as well.                       *)
PruneBoundToday ==
  /\ refresh = "loaded"
  /\ bound' = day
  /\ refresh' = "pruning"
  /\ UNCHANGED <<world, appState, built, metrics, requests>>

(* prune_budget_days runs on every tick; its bound is yesterday.           *)
PruneBound ==
  /\ refresh = "loaded"
  /\ bound' = day - 1
  /\ refresh' = "pruning"
  /\ UNCHANGED <<world, appState, built, metrics, requests>>

Prune ==
  /\ refresh = "pruning"
  /\ spent' = [k \in Keys |-> IF k[2] >= bound THEN spent[k] ELSE Absent]
  /\ bound' = 0
  /\ refresh' = "waiting"
  /\ UNCHANGED <<world, published, built, metrics, requests>>

Refresh ==
  \/ LoadOk
  \/ LoadFails
  \/ RecordIndexSize
  \/ Publish
  \/ PruneBound
  \/ Prune

(***************************************************************************)
(* The end of the process, and the start of the next one: nothing loaded,  *)
(* nothing spent.                                                          *)
(***************************************************************************)
StartAgain ==
  /\ process' = "up"
  /\ published' = None
  /\ spent' = NothingSpent
  /\ refresh' = "waiting" /\ built' = None /\ bound' = 0
  /\ gauge' = 0 /\ http' = 0 /\ wins' = 0 /\ no_ads' = 0 /\ rejections' = 0
  /\ rpc' = [r \in Requests |-> IF rpc[r] = "new" THEN "new" ELSE "gone"]
  /\ UNCHANGED <<day, source, input, snap, today, asked, winner, answer>>

Crash ==
  /\ crashes < MaxCrashes
  /\ crashes' = crashes + 1
  /\ UNCHANGED stops
  /\ StartAgain

(* A signal: no new connection is accepted, requests in flight finish.     *)
Shutdown ==
  /\ process = "up"
  /\ stops < MaxStops
  /\ process' = "draining"
  /\ stops' = stops + 1
  /\ UNCHANGED <<day, source, crashes, appState, refresher, metrics, requests>>

(* Mutant: the process does not wait for the requests in flight.           *)
ExitAtOnce ==
  /\ process = "draining"
  /\ UNCHANGED <<crashes, stops>>
  /\ StartAgain

Exit ==
  /\ process = "draining"
  /\ \A r \in Requests : ~ InFlight(r)
  /\ UNCHANGED <<crashes, stops>>
  /\ StartAgain

Next ==
  \/ \E r \in Requests : Arrive(r) \/ Timeout(r) \/ Disconnect(r) \/ Handle(r)
  \/ Tick
  \/ Refresh
  \/ Midnight
  \/ EditSource
  \/ Crash
  \/ Shutdown
  \/ Exit

Spec == Init /\ [][Next]_vars

(***************************************************************************)
(* Safety.                                                                 *)
(***************************************************************************)

(* What the ads shown so far (by this process) cost a campaign on a day.   *)
PaidBy(k) == {r \in Requests :
                /\ rpc[r] # "gone"
                /\ winner[r] # 0
                /\ KeyAt(r, winner[r]) = k}
Charged(k) == SumFunction([r \in PaidBy(k) |-> PriceAt(r, winner[r])])

(* The counters of today and yesterday hold exactly the prices of the ads  *)
(* shown: no request charges twice, charges a loser or shows an ad it did  *)
(* not charge, and no prune forgets a day a request may still charge.      *)
CountersMatchAds ==
  \A k \in Keys : k[2] >= day - 1 => Spent(k) = Charged(k)

(* An auction never takes a campaign's day beyond the daily budget of the  *)
(* snapshot it runs on, whatever reloads, prunes, midnights and other      *)
(* requests come in between (model.rs, "The most this campaign may spend   *)
(* per UTC day").                                                          *)
DailyBudgetHolds ==
  [][\A r \in Requests : winner'[r] # winner[r] =>
       (Charged(KeyAt(r, winner[r])) <= BudgetAt(r, winner[r]))']_vars

(* A candidate passed over for its budget could still not pay now: nothing *)
(* spent on a day is ever given back while requests may charge that day.   *)
SkippedStillCannotPay ==
  \A r \in Requests :
    rpc[r] # "gone" /\ today[r] >= day - 1 =>
      \A i \in 1..asked[r] : Spent(KeyAt(r, i)) + PriceAt(r, i) > BudgetAt(r, i)

(* The auctions answered, and with them those still on their way from       *)
(* record_auction to the response: they are in the counters already.       *)
Answered == {r \in Requests : rpc[r] \in {"respond", "done"} /\ answer[r] = "ok"}
Recorded == Answered \cup {r \in Requests : rpc[r] \in {"skips", "reply"}}

(* The counters GET /metrics reads agree with the answers given: one       *)
(* request per answer of any kind (none for a client that left), one       *)
(* outcome per auction, and every candidate that could not pay once.  An   *)
(* auction shows up in them before its answer is out and counted, first    *)
(* in the outcomes, then in the rejections, last in the requests.          *)
MetricsMatchAnswers ==
  /\ http = Cardinality({r \in Requests : rpc[r] = "done"})
  /\ wins = Cardinality({r \in Recorded : winner[r] # 0})
  /\ no_ads = Cardinality({r \in Recorded : winner[r] = 0})
  /\ rejections = SumFunction([r \in {s \in Recorded : rpc[s] # "skips"} |-> asked[r]])

(* Except between the two statements of publish, the gauges describe the   *)
(* index being served, after failed loads and restarts too.                *)
GaugesMatchIndex ==
  refresh # "measured" => gauge = (IF published = None THEN 0 ELSE Size[published])

(* Once ready, a process stays ready: no failed reload takes the index     *)
(* away (keep_index_fresh, "the previous snapshot keeps serving").         *)
ReadyStaysReady ==
  [][published # None => published' # None \/ Crash \/ Exit]_vars

(***************************************************************************)
(* Liveness.  Threads keep running, the ticker keeps ticking; nothing is   *)
(* assumed of the clock, of the file, of clients and of signals.           *)
(***************************************************************************)
Fairness ==
  /\ WF_vars(Tick)
  /\ WF_vars(Refresh)
  /\ WF_vars(Exit)
  /\ \A r \in Requests : WF_vars(Handle(r))

FairSpec == Spec /\ Fairness

(* Every accepted request is answered, a shutdown included; only a crash   *)
(* loses one, or the client who goes away.                                 *)
EveryRequestIsAnswered ==
  \A r \in Requests :
    rpc[r] = "body" ~> (rpc[r] \in {"done", "left"} \/ crashes > 0)

(* When the seed file settles on a table, that table ends up being served. *)
SettledSourceIsServed ==
  \A t \in Tables : <>[](source = t) => <>[](published = t)

(* The counter of a day before yesterday does not stay in the map, even if *)
(* no load ever succeeds (the comment at the end of keep_index_fresh).     *)
OldCountersGo ==
  \A k \in Keys : (spent[k] # Absent /\ k[2] < day - 1) ~> spent[k] = Absent

(***************************************************************************)
(* What state.rs says of the map, and what does not quite hold.            *)
(***************************************************************************)

(* "the in-memory map holds at most two days per campaign"                 *)
TwoDaysPerCampaign ==
  \A c \in Campaigns : Cardinality({d \in Days : spent[<<c, d>>] # Absent}) <= 2
=============================================================================
