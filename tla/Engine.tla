------------------------------- MODULE Engine --------------------------------
(***************************************************************************)
(* Snapshot::run of admatch-core/src/engine.rs: one auction at a time.     *)
(* The index has found each campaign's best keyword (KeywordIndex); the    *)
(* eligibility checks are applied match by match, the eligible ones are    *)
(* ranked, and the ranking is walked until a candidate pays.  Whether one  *)
(* can pay is the budget store's business: here try_spend answers          *)
(* anything, and an error counts as a refusal.                             *)
(*                                                                         *)
(* A match carries what the checks read of its campaign:                   *)
(*   campaign_id, bid, relevance, active, countries, age_buckets (or       *)
(*   AnyAge), audience_size (or Unmeasured), negative (a negative keyword  *)
(*   of it matches the query).                                             *)
(***************************************************************************)
EXTENDS GspAuction, SequencesExt

CONSTANTS
  MatchLists,         \* what best_matches may return
  Requests,           \* [country, personalized, age_bucket, debug]
  AgeBuckets,         \* the values of AgeBucket
  NoBucket,           \* a request without an age bucket
  AnyAge,             \* a campaign without age targeting
  Unmeasured,         \* a campaign without an audience size
  KTargeting,         \* EngineConfig.k_targeting
  DebugRankingLimit   \* DEBUG_RANKING_LIMIT

ASSUME EngineAssumption ==
  /\ KTargeting \in Nat /\ DebugRankingLimit \in Nat \ {0}
  /\ \A list \in MatchLists :
       /\ list \in Seq(ToSet(list))
       /\ \A i, j \in 1..Len(list) :
            /\ list[i].bid \in Int /\ list[i].relevance \in Nat \ {0}
            /\ list[i].campaign_id \in Int
            /\ list[i].active \in BOOLEAN /\ list[i].negative \in BOOLEAN
            /\ i # j => list[i].campaign_id # list[j].campaign_id
  /\ Requests \subseteq [country : {r.country : r \in Requests}, personalized : BOOLEAN,
                         age_bucket : AgeBuckets \cup {NoBucket}, debug : BOOLEAN]

VARIABLES
  request, matches,
  stage,      \* "filter", "walk" or "answered"
  checked,    \* how many matches have been through the eligibility checks
  eligible,   \* the candidates: in match order, then in rank order
  excluded,   \* the other matches, each with the reason
  asked,      \* how many candidates were asked to pay, from the top
  winner,     \* the candidate that paid, or 0
  refused,    \* the campaigns that were asked and could not pay, and
  paid,       \* the positions that paid with the price each was charged
              \* (only the properties read these two)
  ranking     \* the rows of the debug ranking; none unless asked for

vars == <<request, matches, stage, checked, eligible, excluded, asked, winner, refused, paid,
          ranking>>

(* A new call of run.                                                      *)
Init ==
  /\ request \in Requests /\ matches \in MatchLists
  /\ stage = "filter" /\ checked = 0
  /\ eligible = <<>> /\ excluded = <<>>
  /\ asked = 0 /\ winner = 0 /\ refused = {} /\ paid = {} /\ ranking = <<>>

(* Mutant: an audience of exactly k is large enough.                       *)
AgeAllowedAtThreshold(m, req) ==
  \/ m.age_buckets = AnyAge
  \/ /\ req.personalized
     /\ req.age_bucket # NoBucket
     /\ req.age_bucket \in m.age_buckets
     /\ m.audience_size # Unmeasured
     /\ m.audience_size >= KTargeting

(* Mutant: the age bucket counts although the request is not personalised. *)
AgeAllowedAnyway(m, req) ==
  \/ m.age_buckets = AnyAge
  \/ /\ req.age_bucket # NoBucket
     /\ req.age_bucket \in m.age_buckets
     /\ m.audience_size # Unmeasured
     /\ m.audience_size > KTargeting

(***************************************************************************)
(* eligibility: the first check that fails is the reason.                  *)
(***************************************************************************)
AgeAllowed(m, req) ==
  \/ m.age_buckets = AnyAge
  \/ /\ req.personalized
     /\ req.age_bucket # NoBucket
     /\ req.age_bucket \in m.age_buckets
     /\ m.audience_size # Unmeasured
     /\ m.audience_size > KTargeting

(* Mutant: no reserve check.                                               *)
EligibilityBelowReserve(m, req) ==
  CASE ~ m.active -> "paused"
    [] m.active /\ (req.country \notin m.countries \/ ~ AgeAllowed(m, req)) -> "targeting"
    [] m.active /\ req.country \in m.countries /\ AgeAllowed(m, req) ->
         IF m.negative THEN "negative_keyword" ELSE "eligible"

Eligibility(m, req) ==
  CASE ~ m.active -> "paused"
    [] m.active /\ (req.country \notin m.countries \/ ~ AgeAllowed(m, req)) -> "targeting"
    [] m.active /\ req.country \in m.countries /\ AgeAllowed(m, req) ->
         IF m.negative THEN "negative_keyword"
         ELSE IF m.bid < Reserve THEN "reserve" ELSE "eligible"

Filter ==
  /\ stage = "filter"
  /\ checked < Len(matches)
  /\ LET m == matches[checked + 1]
         verdict == Eligibility(m, request)
     IN  /\ eligible' = IF verdict = "eligible" THEN Append(eligible, m) ELSE eligible
         /\ excluded' = IF verdict \in {"paused", "eligible"} THEN excluded
                        ELSE Append(excluded,
                             [campaign_id |-> m.campaign_id, bid |-> m.bid,
                              relevance |-> m.relevance, reason |-> verdict])
  /\ checked' = checked + 1
  /\ UNCHANGED <<request, matches, stage, asked, winner, refused, paid, ranking>>

(* sort_by: an element's position follows from how many come before it     *)
(* (rank_order has no ties between campaigns).                             *)
Sorted(list) ==
  [n \in 1..Len(list) |->
     list[CHOOSE i \in 1..Len(list) :
            Cardinality({j \in 1..Len(list) : RanksBefore(list[j], list[i])}) = n - 1]]

(* Mutant: the candidates stay in the order of the matches.                *)
RankByPosition ==
  /\ stage = "filter"
  /\ checked = Len(matches)
  /\ stage' = "walk"
  /\ UNCHANGED <<request, matches, checked, eligible, excluded, asked, winner, refused, paid, ranking>>

Rank ==
  /\ stage = "filter"
  /\ checked = Len(matches)
  /\ eligible' = Sorted(eligible)
  /\ stage' = "walk"
  /\ UNCHANGED <<request, matches, checked, excluded, asked, winner, refused, paid, ranking>>

(* The walk of select_winner: the next candidate pays its price or not.    *)
TryPay ==
  /\ stage = "walk"
  /\ winner = 0 /\ asked < Len(eligible)
  /\ asked' = asked + 1
  /\ \/ /\ winner' = asked'
        /\ paid' = paid \cup {[position |-> asked', price |-> Price(eligible, asked')]}
        /\ UNCHANGED refused
     \/ /\ refused' = refused \cup {eligible[asked'].campaign_id}
        /\ UNCHANGED <<winner, paid>>
  /\ UNCHANGED <<request, matches, stage, checked, eligible, excluded, ranking>>

(* Selection::budget_skipped                                               *)
BudgetSkipped == IF winner # 0 THEN winner - 1 ELSE Len(eligible)

(* debug_ranking: the candidates in rank order, then the excluded matches  *)
(* by score, cut to the limit.  Prices are positive: 0 stands for none.    *)
NoPrice == 0
Row(id, would_pay, reason) == [campaign_id |-> id, would_pay |-> would_pay, excluded |-> reason]

(* Mutant: the winner's row gets a reason too.                             *)
CandidateRowsWithWinner ==
  [i \in 1..Len(eligible) |->
     Row(eligible[i].campaign_id, Price(eligible, i),
         IF i <= BudgetSkipped + 1 THEN "budget" ELSE "no")]

(* Mutant: the rows name the bids instead of the prices.                   *)
CandidateRowsWithBids ==
  [i \in 1..Len(eligible) |->
     Row(eligible[i].campaign_id, eligible[i].bid,
         IF i <= BudgetSkipped THEN "budget" ELSE "no")]

CandidateRows ==
  [i \in 1..Len(eligible) |->
     Row(eligible[i].campaign_id, Price(eligible, i),
         IF i <= BudgetSkipped THEN "budget" ELSE "no")]

(* Mutant: the excluded matches stay in the order of the matches.          *)
ExcludedRowsUnsorted ==
  [i \in 1..Len(excluded) |-> Row(excluded[i].campaign_id, NoPrice, excluded[i].reason)]

ExcludedRows ==
  LET sorted == Sorted(excluded)
  IN  [i \in 1..Len(sorted) |-> Row(sorted[i].campaign_id, NoPrice, sorted[i].reason)]

Truncated(rows) == SubSeq(rows, 1, IF Len(rows) < DebugRankingLimit THEN Len(rows) ELSE DebugRankingLimit)

(* Mutant: the excluded matches come first.                                *)
AnswerExcludedFirst ==
  /\ stage = "walk"
  /\ winner # 0 \/ asked = Len(eligible)
  /\ ranking' = IF request.debug THEN Truncated(ExcludedRows \o CandidateRows) ELSE <<>>
  /\ stage' = "answered"
  /\ UNCHANGED <<request, matches, checked, eligible, excluded, asked, winner, refused, paid>>

Answer ==
  /\ stage = "walk"
  /\ winner # 0 \/ asked = Len(eligible)
  /\ ranking' = IF request.debug THEN Truncated(CandidateRows \o ExcludedRows) ELSE <<>>
  /\ stage' = "answered"
  /\ UNCHANGED <<request, matches, checked, eligible, excluded, asked, winner, refused, paid>>

(* run has returned.                                                       *)
Returned == stage = "answered" /\ UNCHANGED vars

Next == Filter \/ Rank \/ TryPay \/ Answer \/ Returned

Spec == Init /\ [][Next]_vars

(***************************************************************************)
(* Properties                                                              *)
(***************************************************************************)

(* Whoever is charged, after filtering, sorting and walking, is running in *)
(* the request's country, is not blocked, bids the reserve or more, and if *)
(* it targets ages was shown to a personalised request of one of them with *)
(* more than k people to hide among (engine.rs, eligibility; the paying    *)
(* position is an index into the sorted list, not into the matches).       *)
ChargedAdMayBeShown ==
  winner # 0 =>
    LET m == eligible[winner]
    IN  /\ m \in ToSet(matches)
        /\ m.active /\ ~ m.negative
        /\ request.country \in m.countries
        /\ m.bid >= Reserve
        /\ m.age_buckets # AnyAge =>
             /\ request.personalized /\ request.age_bucket \in m.age_buckets
             /\ m.audience_size > KTargeting

(* The age bucket is "ignored unless personalized is true": a request that *)
(* is not personalised is answered as it would be with any other bucket.   *)
PrivateRequestsHideAge ==
  ~ request.personalized =>
    \A b \in AgeBuckets \cup {NoBucket} :
      LET other == [request EXCEPT !.age_bucket = b]
          seen == {matches[i] : i \in 1..checked}
      IN  /\ ToSet(eligible) = {m \in seen : Eligibility(m, other) = "eligible"}
          /\ {<<x.campaign_id, x.reason>> : x \in ToSet(excluded)} =
               {<<m.campaign_id, Eligibility(m, other)>> :
                  m \in {n \in seen : Eligibility(n, other) \notin {"paused", "eligible"}}}

(* The best candidate that can pay wins: everyone ranked above it refused, *)
(* and there is no winner only if every candidate refused.                 *)
BestPayerWins ==
  stage = "answered" =>
    \A m \in ToSet(eligible) :
      \/ m.campaign_id \in refused
      \/ winner # 0 /\ (m = eligible[winner] \/ RanksBefore(eligible[winner], m))

(* The debug ranking tells what happened.  It shows as many matches as     *)
(* fit, the best of them: whoever should stand above a row does,           *)
(* candidates above the excluded and each group in rank order.  A          *)
(* candidate's row says "budget" exactly if it was asked and could not     *)
(* pay, an excluded one gives its reason and no price, and the first row   *)
(* without a reason is the winner at the price it was charged.             *)
StandsAbove(m, n) ==
  \/ m \in ToSet(eligible) /\ n \in ToSet(excluded)
  \/ (m \in ToSet(eligible) <=> n \in ToSet(eligible)) /\ RanksBefore(m, n)

RankingExplainsTheOutcome ==
  stage = "answered" /\ request.debug =>
    LET total == Len(eligible) + Len(excluded)
        rows == 1..Len(ranking)
        clean == {i \in rows : ranking[i].excluded = "no"}
        Shows(i, m) == ranking[i].campaign_id = m.campaign_id
    IN  /\ Len(ranking) = IF total < DebugRankingLimit THEN total ELSE DebugRankingLimit
        /\ \A j \in rows : \A m, n \in ToSet(eligible) \cup ToSet(excluded) :
             Shows(j, n) /\ StandsAbove(m, n) => \E i \in 1..(j - 1) : Shows(i, m)
        /\ \A i \in rows :
             \/ \E m \in ToSet(eligible) :
                  /\ Shows(i, m)
                  /\ ranking[i].excluded = IF m.campaign_id \in refused THEN "budget" ELSE "no"
             \/ \E m \in ToSet(excluded) :
                  /\ Shows(i, m)
                  /\ ranking[i].excluded = m.reason /\ ranking[i].would_pay = NoPrice
        /\ \A i \in clean : (\A j \in clean : i <= j) =>
             \E p \in paid : /\ p.position = winner
                           /\ Shows(i, eligible[winner])
                           /\ ranking[i].would_pay = p.price

(* debug_ranking's comment: candidates come first "so the winner is always *)
(* visible".  It is not, once as many candidates as there are rows were    *)
(* skipped above it.                                                       *)
WinnerIsVisible ==
  stage = "answered" /\ request.debug /\ winner # 0 =>
    \E i \in 1..Len(ranking) : ranking[i].campaign_id = eligible[winner].campaign_id
=============================================================================
