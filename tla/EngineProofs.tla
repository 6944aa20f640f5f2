---------------------------- MODULE EngineProofs -----------------------------
(***************************************************************************)
(* Proofs about Snapshot::run, for every request, list of matches, reserve *)
(* and threshold: who is charged, what a private request reveals, who      *)
(* wins, and that the walk is SelectWinner's.                              *)
(***************************************************************************)
EXTENDS EngineSelection, FiniteSetTheorems, TLAPS

(***************************************************************************)
(* Sorting.                                                                *)
(***************************************************************************)
Rankable(m) == m.bid \in Int /\ m.relevance \in Nat \ {0} /\ m.campaign_id \in Int

Sortable(list) ==
  /\ Len(list) \in Nat
  /\ \A i \in 1..Len(list) : Rankable(list[i])
  /\ \A i, j \in 1..Len(list) : i # j => list[i].campaign_id # list[j].campaign_id

(* rank_order is a strict order, total on campaigns with different ids.    *)
LEMMA RankOrderFacts ==
  ASSUME NEW a, NEW b, NEW c, Rankable(a), Rankable(b), Rankable(c)
  PROVE  /\ ~ RanksBefore(a, a)
         /\ RanksBefore(a, b) => ~ RanksBefore(b, a)
         /\ RanksBefore(a, b) /\ RanksBefore(b, c) => RanksBefore(a, c)
         /\ a.campaign_id # b.campaign_id => RanksBefore(a, b) \/ RanksBefore(b, a)
  <1>1. \A x, y \in Int : x * y \in Int
    OBVIOUS
  <1>2. \A x \in {a, b, c} : x.bid \in Int /\ x.relevance \in Int /\ x.campaign_id \in Int
    BY DEF Rankable
  <1>3. \A x \in {a, b, c} : AsUnsigned(x.bid) \in Int
    BY <1>2 DEF AsUnsigned
  <1>4. \A x \in {a, b, c} : Score(x) \in Int
    BY <1>1, <1>2, <1>3 DEF Score
  <1> QED
    BY <1>2, <1>4 DEF RanksBefore

(* Sorting by counting who comes before puts every element at a position   *)
(* of its own, in rank order.                                              *)
LEMMA SortedFacts ==
  ASSUME NEW list, Sortable(list)
  PROVE  /\ Len(Sorted(list)) = Len(list)
         /\ DOMAIN Sorted(list) = 1..Len(list)
         /\ \A n \in 1..Len(list) : \E i \in 1..Len(list) : Sorted(list)[n] = list[i]
         /\ \A i \in 1..Len(list) : \E n \in 1..Len(list) : Sorted(list)[n] = list[i]
         /\ \A m, n \in 1..Len(list) : m < n => RanksBefore(Sorted(list)[m], Sorted(list)[n])
         /\ Sorted(list) = [n \in 1..Len(list) |-> Sorted(list)[n]]
  <1> DEFINE L == Len(list)
             S == 1..L
             Above(i) == {j \in S : RanksBefore(list[j], list[i])}
             count == [i \in S |-> Cardinality(Above(i))]
             place == [n \in S |-> CHOOSE i \in S : Cardinality(Above(i)) = n - 1]
  <1>1. /\ L \in Nat
        /\ IsFiniteSet(S) /\ Cardinality(S) = L
        /\ IsFiniteSet(0..(L - 1)) /\ Cardinality(0..(L - 1)) = L
    <2>1. L \in Nat
      BY DEF Sortable
    <2>2. 1 \in Int /\ L \in Int /\ 0 \in Int /\ L - 1 \in Int
      BY <2>1
    <2>3. IsFiniteSet(S) /\ Cardinality(S) = IF 1 > L THEN 0 ELSE L - 1 + 1
      BY <2>2, FS_Interval
    <2>4. IsFiniteSet(0..(L - 1)) /\ Cardinality(0..(L - 1)) = IF 0 > L - 1 THEN 0 ELSE (L - 1) - 0 + 1
      BY <2>2, FS_Interval
    <2> QED
      BY <2>1, <2>3, <2>4
  <1>2. \A i \in S : Rankable(list[i])
    BY DEF Sortable
  <1>3. \A i \in S : /\ Above(i) \in SUBSET S /\ i \notin Above(i)
                     /\ IsFiniteSet(Above(i)) /\ Cardinality(Above(i)) \in Nat
    <2> SUFFICES ASSUME NEW i \in S
                 PROVE  /\ Above(i) \in SUBSET S /\ i \notin Above(i)
                        /\ IsFiniteSet(Above(i)) /\ Cardinality(Above(i)) \in Nat
      OBVIOUS
    <2>1. Above(i) \in SUBSET S
      OBVIOUS
    <2>2. i \notin Above(i)
      BY <1>2, RankOrderFacts
    <2>3. IsFiniteSet(Above(i))
      BY <1>1, <2>1, FS_Subset
    <2> QED
      BY <2>1, <2>2, <2>3, FS_CardinalityType
  <1> DEFINE size(i) == Cardinality(Above(i))
  <1>4. \A i \in S : size(i) \in Nat /\ size(i) < L
    <2> SUFFICES ASSUME NEW i \in S PROVE size(i) \in Nat /\ size(i) < L
      OBVIOUS
    <2>1. Cardinality(Above(i)) <= L
      BY <1>1, <1>3, FS_Subset
    <2>2. Cardinality(Above(i)) # L
      BY <1>1, <1>3, FS_Subset
    <2>3. size(i) <= L /\ size(i) # L /\ size(i) \in Nat
      BY <1>3, <2>1, <2>2
    <2> HIDE DEF size
    <2> QED
      BY <1>1, <2>3
  <1>5. \A i, j \in S : RanksBefore(list[i], list[j]) => size(i) < size(j)
    <2> SUFFICES ASSUME NEW i \in S, NEW j \in S, RanksBefore(list[i], list[j])
                 PROVE  size(i) < size(j)
      OBVIOUS
    <2>1. Above(i) \in SUBSET Above(j)
      BY <1>2, RankOrderFacts
    <2>2. i \in Above(j)
      OBVIOUS
    <2>3. Above(i) # Above(j)
      BY <1>3, <2>2
    <2>4. size(i) <= size(j)
      BY <1>3, <2>1, FS_Subset
    <2>5. size(i) # size(j)
      BY <1>3, <2>1, <2>3, FS_Subset
    <2> HIDE DEF size
    <2> QED
      BY <1>4, <2>4, <2>5
  <1>6. \A i, j \in S : i # j => RanksBefore(list[i], list[j]) \/ RanksBefore(list[j], list[i])
    BY <1>2, RankOrderFacts DEF Sortable
  <1>7. \A n \in S : place[n] = CHOOSE i \in S : size(i) = n - 1
    OBVIOUS
  <1>8. Sorted(list) = [n \in S |-> list[place[n]]]
    BY DEF Sorted
  <1>9. count = [i \in S |-> size(i)]
    OBVIOUS
  <1> HIDE DEF size, place, count
  <1>10. \A i, j \in S : size(i) = size(j) => i = j
    BY <1>4, <1>5, <1>6
  <1>11. count \in Injection(S, 0..(L - 1))
    <2>1. count \in [S -> 0..(L - 1)]
      BY <1>1, <1>4, <1>9
    <2> QED
      BY <1>9, <1>10, <2>1 DEF Injection, IsInjective
  <1>12. count \in Surjection(S, 0..(L - 1))
    BY <1>1, <1>11, FS_Injection
  <1>13. \A n \in S : place[n] \in S /\ size(place[n]) = n - 1
    <2> SUFFICES ASSUME NEW n \in S PROVE place[n] \in S /\ size(place[n]) = n - 1
      OBVIOUS
    <2>1. n - 1 \in 0..(L - 1)
      BY <1>1
    <2>2. \E i \in S : count[i] = n - 1
      BY <1>12, <2>1 DEF Surjection
    <2>3. \E i \in S : size(i) = n - 1
      BY <1>9, <2>2
    <2> QED
      BY <1>7, <2>3
  <1>14. DOMAIN Sorted(list) = S /\ Len(Sorted(list)) = L
    BY <1>1, <1>8
  <1>15. \A i \in S : \E n \in S : place[n] = i
    <2> SUFFICES ASSUME NEW i \in S PROVE \E n \in S : place[n] = i
      OBVIOUS
    <2>1. size(i) + 1 \in S /\ (size(i) + 1) - 1 = size(i)
      BY <1>1, <1>4
    <2>2. place[size(i) + 1] \in S /\ size(place[size(i) + 1]) = size(i)
      BY <1>13, <2>1
    <2> QED
      BY <1>10, <2>1, <2>2
  <1>16. \A m, n \in S : m < n => RanksBefore(list[place[m]], list[place[n]])
    <2> SUFFICES ASSUME NEW m \in S, NEW n \in S, m < n
                 PROVE  RanksBefore(list[place[m]], list[place[n]])
      OBVIOUS
    <2>1. place[m] \in S /\ size(place[m]) = m - 1 /\ place[n] \in S /\ size(place[n]) = n - 1
      BY <1>13
    <2>2. ~ (size(place[n]) < size(place[m])) /\ size(place[n]) # size(place[m])
      BY <1>1, <2>1
    <2> QED
      BY <1>5, <1>6, <2>1, <2>2
  <1>17. \A n \in S : Sorted(list)[n] = list[place[n]]
    BY <1>8
  <1> HIDE DEF L
  <1>18. Sorted(list) = [n \in S |-> Sorted(list)[n]]
    BY <1>8, <1>17
  <1>19. \A n \in S : \E i \in S : Sorted(list)[n] = list[i]
    BY <1>13, <1>17
  <1>20. \A i \in S : \E n \in S : Sorted(list)[n] = list[i]
    BY <1>15, <1>17
  <1>21. \A m, n \in S : m < n => RanksBefore(Sorted(list)[m], Sorted(list)[n])
    BY <1>16, <1>17
  <1> QED
    BY <1>14, <1>18, <1>19, <1>20, <1>21 DEF L

(***************************************************************************)
(* The eligibility checks.                                                 *)
(***************************************************************************)

(* What each match is, whichever list it comes from.                       *)
LEMMA MatchFacts ==
  ASSUME NEW list \in MatchLists
  PROVE  /\ list \in Seq(ToSet(list)) /\ Len(list) \in Nat /\ DOMAIN list = 1..Len(list)
         /\ \A m \in ToSet(list) : Rankable(m) /\ m.active \in BOOLEAN /\ m.negative \in BOOLEAN
         /\ \A i, j \in 1..Len(list) : i # j => list[i].campaign_id # list[j].campaign_id
  <1>1. list \in Seq(ToSet(list))
    BY EngineAssumption
  <1>2. Len(list) \in Nat /\ DOMAIN list = 1..Len(list)
    BY <1>1
  <1>3. \A i \in 1..Len(list) :
          Rankable(list[i]) /\ list[i].active \in BOOLEAN /\ list[i].negative \in BOOLEAN
    BY EngineAssumption DEF Rankable
  <1>4. \A m \in ToSet(list) : \E i \in 1..Len(list) : m = list[i]
    BY <1>2 DEF ToSet
  <1>5. \A m \in ToSet(list) : Rankable(m) /\ m.active \in BOOLEAN /\ m.negative \in BOOLEAN
    BY <1>3, <1>4
  <1>6. \A i, j \in 1..Len(list) : i # j => list[i].campaign_id # list[j].campaign_id
    BY EngineAssumption
  <1> QED
    BY <1>1, <1>2, <1>5, <1>6

(* An eligible match has passed every check.                               *)
LEMMA EligibleMeans ==
  ASSUME NEW m, NEW req, Rankable(m), m.active \in BOOLEAN, m.negative \in BOOLEAN,
         Eligibility(m, req) = "eligible"
  PROVE  /\ m.active /\ ~ m.negative
         /\ req.country \in m.countries
         /\ AgeAllowed(m, req)
         /\ m.bid >= Reserve
  <1>1. m.active
    BY DEF Eligibility
  <1>2. req.country \in m.countries /\ AgeAllowed(m, req)
    BY <1>1 DEF Eligibility
  <1>3. ~ m.negative /\ ~ (m.bid < Reserve)
    BY <1>1, <1>2 DEF Eligibility
  <1>4. m.bid \in Int /\ Reserve \in Int
    BY PricingAssumption DEF Rankable
  <1> QED
    BY <1>1, <1>2, <1>3, <1>4

(* The age bucket of a request that is not personalised is never read.     *)
LEMMA PrivateEligibility ==
  ASSUME NEW m, NEW req \in Requests, ~ req.personalized, NEW b
  PROVE  Eligibility(m, [req EXCEPT !.age_bucket = b]) = Eligibility(m, req)
  <1> DEFINE other == [req EXCEPT !.age_bucket = b]
  <1>1. other.country = req.country /\ other.personalized = req.personalized
    BY EngineAssumption
  <1> HIDE DEF other
  <1>2. AgeAllowed(m, other) <=> AgeAllowed(m, req)
    BY <1>1 DEF AgeAllowed
  <1>3. Eligibility(m, other) = Eligibility(m, req)
    BY <1>1, <1>2 DEF Eligibility
  <1> QED
    BY <1>3 DEF other

LEMMA AppendFacts ==
  ASSUME NEW T, NEW s \in Seq(T), NEW x \in T
  PROVE  /\ Append(s, x) \in Seq(T)
         /\ Len(s) \in Nat /\ Len(Append(s, x)) = Len(s) + 1
         /\ \A i \in 1..Len(s) : Append(s, x)[i] = s[i]
         /\ Append(s, x)[Len(s) + 1] = x
         /\ ToSet(Append(s, x)) = ToSet(s) \cup {x}
  <1>1. /\ Append(s, x) \in Seq(T)
        /\ Len(s) \in Nat /\ Len(Append(s, x)) = Len(s) + 1
        /\ \A i \in 1..Len(s) : Append(s, x)[i] = s[i]
        /\ Append(s, x)[Len(s) + 1] = x
        /\ DOMAIN s = 1..Len(s) /\ DOMAIN Append(s, x) = 1..Len(s) + 1
    OBVIOUS
  <1>2. 1..Len(s) + 1 = 1..Len(s) \cup {Len(s) + 1}
    BY <1>1
  <1>3. ToSet(Append(s, x)) = ToSet(s) \cup {x}
    BY <1>1, <1>2 DEF ToSet
  <1> QED
    BY <1>1, <1>3

(***************************************************************************)
(* The invariant.                                                          *)
(***************************************************************************)
Seen == {matches[i] : i \in 1..checked}
Verdict(m) == Eligibility(m, request)
Report(m) == [campaign_id |-> m.campaign_id, bid |-> m.bid,
              relevance |-> m.relevance, reason |-> Verdict(m)]

TypeOK ==
  /\ request \in Requests
  /\ matches \in MatchLists
  /\ stage \in {"filter", "walk", "answered"}
  /\ checked \in 0..Len(matches)
  /\ eligible \in Seq(ToSet(matches))
  /\ excluded \in Seq({Report(m) : m \in ToSet(matches)})
  /\ asked \in 0..Len(eligible)
  /\ winner \in 0..Len(eligible)

(* Each match checked so far is where its verdict says; no campaign is in  *)
(* a list twice.                                                           *)
FilterInv ==
  /\ Len(eligible) <= checked
  /\ ToSet(eligible) = {m \in Seen : Verdict(m) = "eligible"}
  /\ ToSet(excluded) = {Report(m) : m \in {n \in Seen : Verdict(n) \notin {"paused", "eligible"}}}
  /\ \A i, j \in 1..Len(eligible) : i # j => eligible[i].campaign_id # eligible[j].campaign_id
  /\ \A i, j \in 1..Len(excluded) : i # j => excluded[i].campaign_id # excluded[j].campaign_id

(* The walk goes down a ranked list, and whoever it passed refused.        *)
WalkInv ==
  /\ stage = "filter" => asked = 0
  /\ stage # "filter" =>
       \A i, j \in 1..Len(eligible) : i < j => RanksBefore(eligible[i], eligible[j])
  /\ winner \in {0, asked}
  /\ refused = {eligible[i].campaign_id : i \in 1..(IF winner = 0 THEN asked ELSE asked - 1)}
  /\ paid = IF winner = 0 THEN {}
            ELSE {[position |-> winner, price |-> Price(eligible, winner)]}
  /\ stage = "answered" => winner # 0 \/ asked = Len(eligible)

EngineInv == TypeOK /\ FilterInv /\ WalkInv

(* What the types say of the lists.                                        *)
LEMMA ListFacts ==
  ASSUME TypeOK
  PROVE  /\ Len(matches) \in Nat
         /\ \A i \in 1..Len(matches) : matches[i] \in ToSet(matches)
         /\ Seen \subseteq ToSet(matches)
         /\ Len(eligible) \in Nat /\ DOMAIN eligible = 1..Len(eligible)
         /\ \A i \in 1..Len(eligible) : eligible[i] \in ToSet(matches) /\ eligible[i] \in ToSet(eligible)
         /\ \A m \in ToSet(eligible) : \E i \in 1..Len(eligible) : m = eligible[i]
         /\ \A m \in ToSet(matches) : Rankable(m) /\ m.active \in BOOLEAN /\ m.negative \in BOOLEAN
  <1>1. Len(matches) \in Nat /\ DOMAIN matches = 1..Len(matches)
    BY MatchFacts DEF TypeOK
  <1>2. \A i \in 1..Len(matches) : matches[i] \in ToSet(matches)
    BY <1>1 DEF ToSet
  <1>3. Seen \subseteq ToSet(matches)
    <2>1. 1..checked \subseteq 1..Len(matches)
      BY <1>1 DEF TypeOK
    <2> QED
      BY <1>2, <2>1 DEF Seen
  <1>4. Len(eligible) \in Nat /\ DOMAIN eligible = 1..Len(eligible)
    BY DEF TypeOK
  <1>5. \A i \in 1..Len(eligible) : eligible[i] \in ToSet(matches)
    BY DEF TypeOK
  <1>6. \A i \in 1..Len(eligible) : eligible[i] \in ToSet(eligible)
    BY <1>4 DEF ToSet
  <1>7. \A m \in ToSet(eligible) : \E i \in 1..Len(eligible) : m = eligible[i]
    BY <1>4 DEF ToSet
  <1>8. \A m \in ToSet(matches) : Rankable(m) /\ m.active \in BOOLEAN /\ m.negative \in BOOLEAN
    BY MatchFacts DEF TypeOK
  <1> QED
    BY <1>1, <1>2, <1>3, <1>4, <1>5, <1>6, <1>7, <1>8

LEMMA EngineStarts == Init => EngineInv
  <1> SUFFICES ASSUME Init PROVE EngineInv
    OBVIOUS
  <1>1. Len(matches) \in Nat
    BY MatchFacts DEF Init
  <1>2. TypeOK
    BY <1>1 DEF Init, TypeOK
  <1>3. Seen = {} /\ ToSet(eligible) = {} /\ ToSet(excluded) = {}
    BY DEF Init, Seen, ToSet
  <1>4. FilterInv
    BY <1>1, <1>3 DEF Init, FilterInv
  <1>5. WalkInv
    BY DEF Init, WalkInv
  <1> QED
    BY <1>2, <1>4, <1>5 DEF EngineInv

(* Filter: the next match goes to the list its verdict names.              *)
LEMMA FilterKeeps ==
  ASSUME EngineInv, Filter
  PROVE  EngineInv'
  <1> DEFINE m == matches[checked + 1]
  <1> USE DEF EngineInv
  <1>1. /\ checked \in Nat /\ checked + 1 \in 1..Len(matches) /\ m \in ToSet(matches)
        /\ checked' = checked + 1 /\ stage = "filter"
        /\ UNCHANGED <<request, matches, stage, asked, winner, refused, paid>>
    BY ListFacts DEF Filter, TypeOK
  <1>2. Seen' = Seen \cup {m}
    <2>1. 1..checked' = 1..checked \cup {checked + 1}
      BY <1>1
    <2> QED
      BY <1>1, <2>1 DEF Seen
  <1>3. \A x : Verdict(x)' = Verdict(x) /\ Report(x)' = Report(x)
    BY <1>1 DEF Verdict, Report, Eligibility, AgeAllowed
  <1>4. /\ eligible' = IF Verdict(m) = "eligible" THEN Append(eligible, m) ELSE eligible
        /\ excluded' = IF Verdict(m) \in {"paused", "eligible"} THEN excluded
                       ELSE Append(excluded, Report(m))
    BY DEF Filter, Verdict, Report
  <1>5. /\ eligible' \in Seq(ToSet(matches))
        /\ Len(eligible') \in Nat /\ Len(eligible') <= checked + 1
        /\ ToSet(eligible') = {x \in Seen' : Verdict(x) = "eligible"}
        /\ \A i, j \in 1..Len(eligible') : i # j => eligible'[i].campaign_id # eligible'[j].campaign_id
    <2>1. CASE Verdict(m) # "eligible"
      BY <1>1, <1>2, <1>4, <2>1, ListFacts DEF TypeOK, FilterInv
    <2>2. CASE Verdict(m) = "eligible"
      <3>1. /\ Append(eligible, m) \in Seq(ToSet(matches))
            /\ Len(Append(eligible, m)) = Len(eligible) + 1
            /\ \A i \in 1..Len(eligible) : Append(eligible, m)[i] = eligible[i]
            /\ Append(eligible, m)[Len(eligible) + 1] = m
            /\ ToSet(Append(eligible, m)) = ToSet(eligible) \cup {m}
        BY <1>1, AppendFacts DEF TypeOK
      <3>2. ToSet(eligible') = {x \in Seen' : Verdict(x) = "eligible"}
        BY <1>2, <1>4, <2>2, <3>1 DEF FilterInv
      <3>3. \A i \in 1..Len(eligible) : eligible[i].campaign_id # m.campaign_id
        <4> SUFFICES ASSUME NEW i \in 1..Len(eligible) PROVE eligible[i].campaign_id # m.campaign_id
          OBVIOUS
        <4>1. eligible[i] \in Seen
          BY ListFacts DEF FilterInv
        <4>2. PICK k \in 1..checked : eligible[i] = matches[k]
          BY <4>1 DEF Seen
        <4>3. k \in 1..Len(matches) /\ k # checked + 1
          BY <1>1, <4>2, ListFacts
        <4> QED
          BY <1>1, <4>2, <4>3, MatchFacts DEF TypeOK
      <3>4. \A i, j \in 1..Len(eligible') : i # j => eligible'[i].campaign_id # eligible'[j].campaign_id
        BY <1>4, <2>2, <3>1, <3>3, ListFacts DEF FilterInv
      <3> QED
        BY <1>1, <1>4, <2>2, <3>1, <3>2, <3>4, ListFacts DEF FilterInv
    <2> QED
      BY <2>1, <2>2
  <1>6. /\ excluded' \in Seq({Report(x) : x \in ToSet(matches)})
        /\ ToSet(excluded') = {Report(x) : x \in {n \in Seen' : Verdict(n) \notin {"paused", "eligible"}}}
        /\ \A i, j \in 1..Len(excluded') : i # j => excluded'[i].campaign_id # excluded'[j].campaign_id
    <2>1. CASE Verdict(m) \in {"paused", "eligible"}
      BY <1>2, <1>4, <2>1 DEF TypeOK, FilterInv
    <2>2. CASE Verdict(m) \notin {"paused", "eligible"}
      <3> DEFINE R == {Report(x) : x \in ToSet(matches)}
      <3>1. Report(m) \in R /\ excluded \in Seq(R)
        BY <1>1 DEF TypeOK
      <3> HIDE DEF R
      <3>2. /\ Append(excluded, Report(m)) \in Seq(R)
            /\ Len(excluded) \in Nat /\ Len(Append(excluded, Report(m))) = Len(excluded) + 1
            /\ \A i \in 1..Len(excluded) : Append(excluded, Report(m))[i] = excluded[i]
            /\ Append(excluded, Report(m))[Len(excluded) + 1] = Report(m)
            /\ ToSet(Append(excluded, Report(m))) = ToSet(excluded) \cup {Report(m)}
        BY <3>1, AppendFacts
      <3>3. ToSet(excluded') = {Report(x) : x \in {n \in Seen : Verdict(n) \notin {"paused", "eligible"}}} \cup {Report(m)}
        BY <1>4, <2>2, <3>2 DEF FilterInv
      <3>4. {n \in Seen' : Verdict(n) \notin {"paused", "eligible"}}
              = {n \in Seen : Verdict(n) \notin {"paused", "eligible"}} \cup {m}
        BY <1>2, <2>2
      <3>5. \A i \in 1..Len(excluded) : excluded[i].campaign_id # m.campaign_id
        <4> SUFFICES ASSUME NEW i \in 1..Len(excluded) PROVE excluded[i].campaign_id # m.campaign_id
          OBVIOUS
        <4>1. excluded[i] \in ToSet(excluded)
          BY <3>1 DEF ToSet
        <4>2. PICK x \in Seen : excluded[i] = Report(x)
          BY <4>1 DEF FilterInv
        <4>3. PICK k \in 1..checked : x = matches[k]
          BY DEF Seen
        <4>4. k \in 1..Len(matches) /\ k # checked + 1
          BY <1>1, <4>3, ListFacts
        <4>5. x.campaign_id # m.campaign_id
          BY <1>1, <4>3, <4>4, MatchFacts DEF TypeOK
        <4> QED
          BY <4>2, <4>5 DEF Report
      <3>6. Report(m).campaign_id = m.campaign_id
        BY DEF Report
      <3>7. \A i, j \in 1..Len(excluded') : i # j => excluded'[i].campaign_id # excluded'[j].campaign_id
        BY <1>4, <2>2, <3>2, <3>5, <3>6 DEF FilterInv
      <3> QED
        BY <1>4, <2>2, <3>2, <3>3, <3>4, <3>7 DEF R
    <2> QED
      BY <2>1, <2>2
  <1>7. asked = 0 /\ winner = 0 /\ refused = {}
    BY <1>1 DEF WalkInv
  <1>8. TypeOK'
    BY <1>1, <1>3, <1>5, <1>6, <1>7, ListFacts DEF TypeOK
  <1>9. FilterInv'
    BY <1>1, <1>3, <1>5, <1>6 DEF FilterInv
  <1>10. WalkInv'
    BY <1>1, <1>7 DEF WalkInv
  <1> QED
    BY <1>8, <1>9, <1>10

(* Rank: the same candidates, in rank order.                               *)
LEMMA RankKeeps ==
  ASSUME EngineInv, Rank
  PROVE  EngineInv'
  <1> USE DEF EngineInv
  <1>1. /\ stage = "filter" /\ stage' = "walk" /\ checked = Len(matches)
        /\ eligible' = Sorted(eligible)
        /\ UNCHANGED <<request, matches, checked, excluded, asked, winner, refused, paid>>
    BY DEF Rank
  <1>2. Sortable(eligible)
    BY ListFacts DEF Sortable, FilterInv
  <1> DEFINE L == Len(eligible)
  <1>3. /\ Len(eligible') = L /\ DOMAIN eligible' = 1..L
        /\ \A n \in 1..L : \E i \in 1..L : eligible'[n] = eligible[i]
        /\ \A i \in 1..L : \E n \in 1..L : eligible'[n] = eligible[i]
        /\ \A m, n \in 1..L : m < n => RanksBefore(eligible'[m], eligible'[n])
        /\ eligible' = [n \in 1..L |-> eligible'[n]]
    BY <1>1, <1>2, SortedFacts
  <1>4. L \in Nat /\ \A i \in 1..L : eligible[i] \in ToSet(matches)
    BY ListFacts
  <1>5. \A n \in 1..L : eligible'[n] \in ToSet(matches)
    BY <1>3, <1>4
  <1>6. eligible' \in [1..L -> ToSet(matches)]
    BY <1>3, <1>5
  <1>7. eligible' \in Seq(ToSet(matches))
    BY <1>4, <1>6
  <1>8. ToSet(eligible') = ToSet(eligible)
    <2>1. DOMAIN eligible = 1..L
      BY ListFacts
    <2> QED
      BY <1>3, <2>1 DEF ToSet
  <1>9. \A x : Verdict(x)' = Verdict(x) /\ Report(x)' = Report(x)
    BY <1>1 DEF Verdict, Report, Eligibility, AgeAllowed
  <1>10. Seen' = Seen
    BY <1>1 DEF Seen
  <1>11. \A i, j \in 1..Len(eligible') : i # j => eligible'[i].campaign_id # eligible'[j].campaign_id
    <2> SUFFICES ASSUME NEW i \in 1..L, NEW j \in 1..L, i # j,
                        eligible'[i].campaign_id = eligible'[j].campaign_id
                 PROVE  FALSE
      BY <1>3
    <2>1. PICK k \in 1..L : eligible'[i] = eligible[k]
      BY <1>3
    <2>2. PICK l \in 1..L : eligible'[j] = eligible[l]
      BY <1>3
    <2>3. k = l
      BY <2>1, <2>2 DEF FilterInv
    <2>4. RanksBefore(eligible[k], eligible[k])
      <3>1. i < j \/ j < i
        BY <1>4
      <3> QED
        BY <1>3, <2>1, <2>2, <2>3, <3>1
    <2>5. Rankable(eligible[k])
      BY ListFacts
    <2> QED
      BY <2>4, <2>5, RankOrderFacts
  <1>12. TypeOK'
    BY <1>1, <1>3, <1>7, <1>9 DEF TypeOK
  <1>13. FilterInv'
    BY <1>1, <1>3, <1>8, <1>9, <1>10, <1>11 DEF FilterInv
  <1>14. WalkInv'
    <2>1. asked = 0 /\ winner = 0 /\ refused = {} /\ paid = {}
      BY <1>1 DEF WalkInv
    <2>2. asked' = 0 /\ winner' = 0 /\ refused' = {} /\ paid' = {} /\ stage' = "walk"
      BY <1>1, <2>1
    <2>3. \A i, j \in 1..Len(eligible') : i < j => RanksBefore(eligible'[i], eligible'[j])
      BY <1>3
    <2> QED
      BY <2>2, <2>3 DEF WalkInv
  <1> QED
    BY <1>12, <1>13, <1>14

(* TryPay: one more candidate was asked, and won or refused.               *)
LEMMA TryPayKeeps ==
  ASSUME EngineInv, TryPay
  PROVE  EngineInv'
  <1> USE DEF EngineInv
  <1>1. /\ stage = "walk" /\ winner = 0 /\ asked < Len(eligible) /\ asked' = asked + 1
        /\ UNCHANGED <<request, matches, stage, checked, eligible, excluded>>
    BY DEF TryPay
  <1>2. asked \in Nat /\ Len(eligible) \in Nat /\ asked + 1 \in 1..Len(eligible)
    BY <1>1, ListFacts DEF TypeOK
  <1>3. \A x : Verdict(x)' = Verdict(x) /\ Report(x)' = Report(x)
    BY <1>1 DEF Verdict, Report, Eligibility, AgeAllowed
  <1>4. winner' \in {0, asked'}
    BY <1>1 DEF TryPay
  <1>5. TypeOK'
    BY <1>1, <1>2, <1>3, <1>4 DEF TypeOK
  <1>6. FilterInv'
    BY <1>1, <1>3 DEF FilterInv, Seen
  <1>7. refused' = {eligible[i].campaign_id : i \in 1..(IF winner' = 0 THEN asked' ELSE asked' - 1)}
    <2>1. refused = {eligible[i].campaign_id : i \in 1..asked}
      BY <1>1 DEF WalkInv
    <2>2. CASE winner' = asked' /\ UNCHANGED refused
      <3>1. winner' # 0 /\ asked' - 1 = asked
        BY <1>1, <1>2, <2>2
      <3> QED
        BY <2>1, <2>2, <3>1
    <2>3. CASE refused' = refused \cup {eligible[asked'].campaign_id} /\ UNCHANGED winner
      <3>1. 1..asked' = 1..asked \cup {asked'}
        BY <1>1, <1>2
      <3> QED
        BY <1>1, <2>1, <2>3, <3>1
    <2> QED
      BY <2>2, <2>3 DEF TryPay
  <1>8. paid' = IF winner' = 0 THEN {}
                ELSE {[position |-> winner', price |-> Price(eligible', winner')]}
    <2>1. paid = {}
      BY <1>1 DEF WalkInv
    <2>2. CASE UNCHANGED <<winner, paid>>
      BY <1>1, <2>1, <2>2
    <2>3. CASE /\ winner' = asked'
               /\ paid' = paid \cup {[position |-> asked', price |-> Price(eligible, asked')]}
      <3>1. winner' # 0
        BY <1>1, <1>2, <2>3
      <3> QED
        BY <1>1, <2>1, <2>3, <3>1
    <2> QED
      BY <2>2, <2>3 DEF TryPay
  <1>9. WalkInv'
    BY <1>1, <1>4, <1>7, <1>8 DEF WalkInv
  <1> QED
    BY <1>5, <1>6, <1>9

(* Answer, and after it: the lists stay as they are.                       *)
LEMMA AnswerKeeps ==
  ASSUME EngineInv, Answer \/ UNCHANGED vars
  PROVE  EngineInv'
  <1> USE DEF EngineInv
  <1>1. /\ stage' # stage => stage = "walk" /\ stage' = "answered" /\ (winner # 0 \/ asked = Len(eligible))
        /\ UNCHANGED <<request, matches, checked, eligible, excluded, asked, winner, refused, paid>>
    BY DEF Answer, vars
  <1>2. \A x : Verdict(x)' = Verdict(x) /\ Report(x)' = Report(x)
    BY <1>1 DEF Verdict, Report, Eligibility, AgeAllowed
  <1>3. TypeOK'
    BY <1>1, <1>2 DEF TypeOK
  <1>4. FilterInv'
    BY <1>1, <1>2 DEF FilterInv, Seen
  <1>5. WalkInv'
    BY <1>1 DEF WalkInv
  <1> QED
    BY <1>3, <1>4, <1>5

LEMMA EngineSteps == EngineInv /\ [Next]_vars => EngineInv'
  BY FilterKeeps, RankKeeps, TryPayKeeps, AnswerKeeps DEF Next, Returned

(* Types, where each match went, and how far the walk has come.            *)
THEOREM EngineInvariance == Spec => []EngineInv
  BY EngineStarts, EngineSteps, PTL DEF Spec

(* Only an ad that passes every check is charged, wherever the sort put    *)
(* it.                                                                     *)
THEOREM ChargedAdsMayBeShown == Spec => []ChargedAdMayBeShown
  <1>1. EngineInv => ChargedAdMayBeShown
    <2> SUFFICES ASSUME EngineInv, winner # 0
                 PROVE  LET m == eligible[winner]
                        IN  /\ m \in ToSet(matches)
                            /\ m.active /\ ~ m.negative
                            /\ request.country \in m.countries
                            /\ m.bid >= Reserve
                            /\ m.age_buckets # AnyAge =>
                                 /\ request.personalized /\ request.age_bucket \in m.age_buckets
                                 /\ m.audience_size > KTargeting
      BY DEF ChargedAdMayBeShown
    <2> DEFINE m == eligible[winner]
    <2>1. winner \in 1..Len(eligible)
      BY ListFacts DEF EngineInv, TypeOK
    <2>2. m \in ToSet(matches) /\ Eligibility(m, request) = "eligible"
      BY <2>1, ListFacts DEF EngineInv, FilterInv, Verdict
    <2>3. Rankable(m) /\ m.active \in BOOLEAN /\ m.negative \in BOOLEAN
      BY <2>2, ListFacts DEF EngineInv
    <2> HIDE DEF m
    <2>4. /\ m.active /\ ~ m.negative /\ request.country \in m.countries
          /\ AgeAllowed(m, request) /\ m.bid >= Reserve
      BY <2>2, <2>3, EligibleMeans
    <2> QED
      BY <2>2, <2>4 DEF m, AgeAllowed
  <1> QED
    BY <1>1, EngineInvariance, PTL

(* A request that is not personalised gets the verdicts it would get with  *)
(* any other age bucket, or none.                                          *)
THEOREM PrivateRequestsStayPrivate == Spec => []PrivateRequestsHideAge
  <1>1. EngineInv => PrivateRequestsHideAge
    <2> SUFFICES ASSUME EngineInv, ~ request.personalized, NEW b \in AgeBuckets \cup {NoBucket}
                 PROVE  LET other == [request EXCEPT !.age_bucket = b]
                            seen == {matches[i] : i \in 1..checked}
                        IN  /\ ToSet(eligible) = {m \in seen : Eligibility(m, other) = "eligible"}
                            /\ {<<x.campaign_id, x.reason>> : x \in ToSet(excluded)} =
                                 {<<m.campaign_id, Eligibility(m, other)>> :
                                    m \in {n \in seen : Eligibility(n, other) \notin {"paused", "eligible"}}}
      BY DEF PrivateRequestsHideAge
    <2> DEFINE other == [request EXCEPT !.age_bucket = b]
               out == {n \in Seen : Verdict(n) \notin {"paused", "eligible"}}
    <2>1. \A m : Eligibility(m, other) = Verdict(m)
      BY PrivateEligibility DEF EngineInv, TypeOK, Verdict
    <2> HIDE DEF other
    <2>2. ToSet(eligible) = {m \in Seen : Eligibility(m, other) = "eligible"}
      BY <2>1 DEF EngineInv, FilterInv
    <2>3. out = {n \in Seen : Eligibility(n, other) \notin {"paused", "eligible"}}
      BY <2>1
    <2>4. ToSet(excluded) = {Report(m) : m \in out}
      BY DEF EngineInv, FilterInv
    <2>5. \A m : Report(m).campaign_id = m.campaign_id /\ Report(m).reason = Eligibility(m, other)
      BY <2>1 DEF Report
    <2> HIDE DEF out
    <2>6. {<<x.campaign_id, x.reason>> : x \in ToSet(excluded)}
            = {<<m.campaign_id, Eligibility(m, other)>> : m \in out}
      BY <2>4, <2>5
    <2> QED
      BY <2>2, <2>3, <2>6 DEF Seen, other
  <1> QED
    BY <1>1, EngineInvariance, PTL

(* Everyone ranked above the winner was asked and refused, and without a   *)
(* winner everyone did.                                                    *)
THEOREM TheBestPayerWins == Spec => []BestPayerWins
  <1>1. EngineInv => BestPayerWins
    <2> SUFFICES ASSUME EngineInv, stage = "answered", NEW m \in ToSet(eligible)
                 PROVE  \/ m.campaign_id \in refused
                        \/ winner # 0 /\ (m = eligible[winner] \/ RanksBefore(eligible[winner], m))
      BY DEF BestPayerWins
    <2>1. PICK i \in 1..Len(eligible) : m = eligible[i]
      BY ListFacts DEF EngineInv
    <2>2. Len(eligible) \in Nat
      BY ListFacts DEF EngineInv
    <2>3. CASE winner = 0
      <3>1. asked = Len(eligible) /\ refused = {eligible[k].campaign_id : k \in 1..asked}
        BY <2>3 DEF EngineInv, WalkInv
      <3> QED
        BY <2>1, <3>1
    <2>4. CASE winner # 0
      <3>1. /\ asked = winner /\ winner \in 1..Len(eligible)
            /\ refused = {eligible[k].campaign_id : k \in 1..(winner - 1)}
        BY <2>2, <2>4 DEF EngineInv, WalkInv, TypeOK
      <3>2. i \in 1..(winner - 1) \/ i = winner \/ winner < i
        BY <2>2, <3>1
      <3>3. winner < i => RanksBefore(eligible[winner], eligible[i])
        BY <3>1 DEF EngineInv, WalkInv
      <3> QED
        BY <2>1, <2>4, <3>1, <3>2, <3>3
    <2> QED
      BY <2>3, <2>4
  <1> QED
    BY <1>1, EngineInvariance, PTL

(***************************************************************************)
(* The debug ranking.                                                      *)
(***************************************************************************)

(* Two lists of rows one after the other, cut to the limit.                *)
LEMMA TruncatedFacts ==
  ASSUME NEW S, NEW a \in Seq(S), NEW b \in Seq(S)
  PROVE  LET rows == Truncated(a \o b)
         IN  /\ Len(rows) \in Nat /\ Len(rows) <= Len(a) + Len(b)
             /\ Len(rows) = IF Len(a) + Len(b) < DebugRankingLimit THEN Len(a) + Len(b)
                            ELSE DebugRankingLimit
             /\ \A i \in 1..Len(rows) : rows[i] = IF i <= Len(a) THEN a[i] ELSE b[i - Len(a)]
  <1> DEFINE all == a \o b
             n == IF Len(all) < DebugRankingLimit THEN Len(all) ELSE DebugRankingLimit
  <1>1. /\ Len(a) \in Nat /\ Len(b) \in Nat
        /\ all \in Seq(S) /\ Len(all) = Len(a) + Len(b)
        /\ \A i \in 1..(Len(a) + Len(b)) : all[i] = IF i <= Len(a) THEN a[i] ELSE b[i - Len(a)]
    OBVIOUS
  <1> HIDE DEF all
  <1>2. DebugRankingLimit \in Nat
    BY EngineAssumption
  <1>3. /\ n \in 0..Len(all)
        /\ n = IF Len(a) + Len(b) < DebugRankingLimit THEN Len(a) + Len(b) ELSE DebugRankingLimit
    BY <1>1, <1>2
  <1> HIDE DEF n
  <1>4. /\ Len(SubSeq(all, 1, n)) = n
        /\ \A i \in 1..n : SubSeq(all, 1, n)[i] = all[i]
    BY <1>1, <1>3
  <1>5. Truncated(all) = SubSeq(all, 1, n)
    BY DEF Truncated, n
  <1> QED
    BY <1>1, <1>3, <1>4, <1>5 DEF all

(* The reasons a match is excluded for.                                    *)
LEMMA VerdictValues ==
  ASSUME NEW m, NEW req, m.active \in BOOLEAN, m.negative \in BOOLEAN
  PROVE  Eligibility(m, req) \in {"paused", "targeting", "negative_keyword", "reserve", "eligible"}
  <1>1. CASE ~ m.active
    BY <1>1 DEF Eligibility
  <1>2. CASE m.active /\ (req.country \notin m.countries \/ ~ AgeAllowed(m, req))
    BY <1>2 DEF Eligibility
  <1>3. CASE m.active /\ req.country \in m.countries /\ AgeAllowed(m, req)
    BY <1>3 DEF Eligibility
  <1> QED
    BY <1>1, <1>2, <1>3

(* What the walk left behind when it ended.                                *)
LEMMA WalkEnded ==
  ASSUME EngineInv, winner # 0 \/ asked = Len(eligible)
  PROVE  /\ BudgetSkipped \in 0..Len(eligible)
         /\ refused = {eligible[i].campaign_id : i \in 1..BudgetSkipped}
         /\ BudgetSkipped < Len(eligible) => winner = BudgetSkipped + 1
  <1>1. Len(eligible) \in Nat
    BY ListFacts DEF EngineInv
  <1>2. CASE winner = 0
    BY <1>1, <1>2 DEF EngineInv, WalkInv, BudgetSkipped
  <1>3. CASE winner # 0
    BY <1>1, <1>3 DEF EngineInv, TypeOK, WalkInv, BudgetSkipped
  <1> QED
    BY <1>2, <1>3

(* In a list in rank order, who ranks before another stands above it.      *)
LEMMA OrderTells ==
  ASSUME NEW list, NEW n \in Nat, \A i \in 1..n : Rankable(list[i]),
         \A i, j \in 1..n : i < j => RanksBefore(list[i], list[j]),
         NEW i \in 1..n, NEW j \in 1..n, RanksBefore(list[i], list[j])
  PROVE  i < j
  <1>1. i \in Nat /\ j \in Nat
    OBVIOUS
  <1>2. i # j
    BY RankOrderFacts
  <1>3. ~ (j < i)
    BY RankOrderFacts
  <1> QED
    BY <1>1, <1>2, <1>3

(* The excluded matches, in rank order: other campaigns than the           *)
(* candidates, each with a reason eligibility gives.                       *)
Outcasts == Sorted(excluded)

LEMMA OutcastFacts ==
  ASSUME EngineInv
  PROVE  /\ Len(excluded) \in Nat /\ Len(Outcasts) = Len(excluded)
         /\ \A m \in ToSet(excluded) : \E i \in 1..Len(excluded) : m = Outcasts[i]
         /\ \A i \in 1..Len(excluded) :
              /\ Outcasts[i] \in ToSet(excluded) /\ Rankable(Outcasts[i])
              /\ Outcasts[i].reason \notin {"budget", "no"}
              /\ \A j \in 1..Len(eligible) : Outcasts[i].campaign_id # eligible[j].campaign_id
         /\ \A i, j \in 1..Len(excluded) : i # j => Outcasts[i].campaign_id # Outcasts[j].campaign_id
         /\ \A i, j \in 1..Len(excluded) : i < j => RanksBefore(Outcasts[i], Outcasts[j])
  <1> USE DEF EngineInv
  <1> DEFINE L == Len(eligible)
             X == Len(excluded)
  <1>1. X \in Nat /\ DOMAIN excluded = 1..X /\ \A i \in 1..X : excluded[i] \in ToSet(excluded)
    <2>1. X \in Nat /\ DOMAIN excluded = 1..X
      BY DEF TypeOK
    <2> QED
      BY <2>1 DEF ToSet
  <1>2. \A i \in 1..X : \E m \in Seen : /\ excluded[i] = Report(m) /\ Verdict(m) \notin {"paused", "eligible"}
    BY <1>1 DEF FilterInv
  <1>3. \A m : /\ Report(m).campaign_id = m.campaign_id /\ Report(m).bid = m.bid
               /\ Report(m).relevance = m.relevance /\ Report(m).reason = Verdict(m)
    BY DEF Report
  <1>4. \A i \in 1..X : Rankable(excluded[i])
    <2> SUFFICES ASSUME NEW i \in 1..X PROVE Rankable(excluded[i])
      OBVIOUS
    <2>1. PICK m \in Seen : excluded[i] = Report(m)
      BY <1>2
    <2>2. Rankable(m)
      BY ListFacts
    <2> QED
      BY <1>3, <2>1, <2>2 DEF Rankable
  <1>5. \A i, j \in 1..X : i # j => excluded[i].campaign_id # excluded[j].campaign_id
    BY DEF FilterInv
  <1>6. Sortable(excluded)
    BY <1>1, <1>4, <1>5 DEF Sortable
  <1>7. /\ Len(Outcasts) = X
        /\ \A n \in 1..X : \E i \in 1..X : Outcasts[n] = excluded[i]
        /\ \A i \in 1..X : \E n \in 1..X : Outcasts[n] = excluded[i]
        /\ \A m, n \in 1..X : m < n => RanksBefore(Outcasts[m], Outcasts[n])
    BY <1>6, SortedFacts DEF Outcasts
  <1>8. \A m \in ToSet(excluded) : \E i \in 1..X : m = Outcasts[i]
    <2> SUFFICES ASSUME NEW m \in ToSet(excluded) PROVE \E i \in 1..X : m = Outcasts[i]
      OBVIOUS
    <2>1. PICK i \in 1..X : m = excluded[i]
      BY <1>1 DEF ToSet
    <2> QED
      BY <1>7, <2>1
  <1>9. ASSUME NEW i \in 1..X
        PROVE  /\ Outcasts[i] \in ToSet(excluded) /\ Rankable(Outcasts[i])
               /\ Outcasts[i].reason \notin {"budget", "no"}
               /\ \A j \in 1..L : Outcasts[i].campaign_id # eligible[j].campaign_id
    <2>1. PICK n \in 1..X : Outcasts[i] = excluded[n]
      BY <1>7
    <2>2. PICK m \in Seen : excluded[n] = Report(m) /\ Verdict(m) \notin {"paused", "eligible"}
      BY <1>2
    <2>3. Outcasts[i].campaign_id = m.campaign_id /\ Outcasts[i].reason = Verdict(m)
      BY <1>3, <2>1, <2>2
    <2>4. Verdict(m) \in {"paused", "targeting", "negative_keyword", "reserve", "eligible"}
      BY ListFacts, VerdictValues DEF Verdict
    <2>5. \A j \in 1..L : m.campaign_id # eligible[j].campaign_id
      <3> SUFFICES ASSUME NEW j \in 1..L, m.campaign_id = eligible[j].campaign_id PROVE FALSE
        OBVIOUS
      <3>1. eligible[j] \in Seen /\ Verdict(eligible[j]) = "eligible"
        BY ListFacts DEF FilterInv
      <3>2. PICK k \in 1..checked : m = matches[k]
        BY DEF Seen
      <3>3. PICK l \in 1..checked : eligible[j] = matches[l]
        BY <3>1 DEF Seen
      <3>4. k \in 1..Len(matches) /\ l \in 1..Len(matches)
        BY ListFacts DEF TypeOK
      <3>5. k = l
        BY <3>2, <3>3, <3>4, MatchFacts DEF TypeOK
      <3> QED
        BY <2>2, <3>1, <3>2, <3>3, <3>5
    <2> QED
      BY <1>1, <1>4, <2>1, <2>2, <2>3, <2>4, <2>5
  <1>10. \A i, j \in 1..X : i # j => Outcasts[i].campaign_id # Outcasts[j].campaign_id
    <2> SUFFICES ASSUME NEW i \in 1..X, NEW j \in 1..X, i < j,
                        Outcasts[i].campaign_id = Outcasts[j].campaign_id
                 PROVE  FALSE
      BY <1>1
    <2>1. PICK k \in 1..X : Outcasts[i] = excluded[k]
      BY <1>7
    <2>2. PICK l \in 1..X : Outcasts[j] = excluded[l]
      BY <1>7
    <2>3. k = l
      BY <1>5, <2>1, <2>2
    <2>4. RanksBefore(excluded[k], excluded[k])
      BY <1>7, <2>1, <2>2, <2>3
    <2> QED
      BY <1>4, <2>4, RankOrderFacts
  <1> QED
    BY <1>1, <1>7, <1>8, <1>9, <1>10

(* The rows of the candidates, then those of the excluded matches.         *)
LEMMA RowFacts ==
  ASSUME EngineInv
  PROVE  /\ Len(eligible) \in Nat
         /\ Len(CandidateRows) = Len(eligible) /\ Len(ExcludedRows) = Len(excluded)
         /\ \E S : CandidateRows \in Seq(S) /\ ExcludedRows \in Seq(S)
         /\ \A i \in 1..Len(eligible) :
              /\ CandidateRows[i].campaign_id = eligible[i].campaign_id
              /\ CandidateRows[i].excluded = IF i <= BudgetSkipped THEN "budget" ELSE "no"
              /\ CandidateRows[i].would_pay = Price(eligible, i)
         /\ \A i \in 1..Len(excluded) :
              /\ ExcludedRows[i].campaign_id = Outcasts[i].campaign_id
              /\ ExcludedRows[i].excluded = Outcasts[i].reason
              /\ ExcludedRows[i].would_pay = NoPrice
  <1> DEFINE L == Len(eligible)
             X == Len(excluded)
  <1>1. L \in Nat /\ X \in Nat /\ Len(Outcasts) = X
    BY ListFacts, OutcastFacts DEF EngineInv
  <1>2. /\ ExcludedRows = [i \in 1..X |-> Row(Outcasts[i].campaign_id, NoPrice, Outcasts[i].reason)]
        /\ CandidateRows = [i \in 1..L |-> Row(eligible[i].campaign_id, Price(eligible, i),
                                              IF i <= BudgetSkipped THEN "budget" ELSE "no")]
    BY <1>1 DEF ExcludedRows, CandidateRows, Outcasts
  <1> HIDE DEF L, X
  <1>3. Len(CandidateRows) = L /\ Len(ExcludedRows) = X
    BY <1>1, <1>2 DEF L, X
  <1>4. \E S : CandidateRows \in Seq(S) /\ ExcludedRows \in Seq(S)
    <2> DEFINE S == {CandidateRows[i] : i \in 1..L} \cup {ExcludedRows[i] : i \in 1..X}
    <2>1. CandidateRows \in [1..L -> S] /\ ExcludedRows \in [1..X -> S]
      BY <1>2
    <2> HIDE DEF S
    <2>2. CandidateRows \in Seq(S) /\ ExcludedRows \in Seq(S)
      BY <1>1, <2>1
    <2> QED
      BY <2>2
  <1>5. \A id, price, reason : /\ Row(id, price, reason).campaign_id = id
                               /\ Row(id, price, reason).would_pay = price
                               /\ Row(id, price, reason).excluded = reason
    BY DEF Row
  <1>6. \A i \in 1..L : /\ CandidateRows[i].campaign_id = eligible[i].campaign_id
                        /\ CandidateRows[i].excluded = IF i <= BudgetSkipped THEN "budget" ELSE "no"
                        /\ CandidateRows[i].would_pay = Price(eligible, i)
    BY <1>2, <1>5
  <1>7. \A i \in 1..X : /\ ExcludedRows[i].campaign_id = Outcasts[i].campaign_id
                        /\ ExcludedRows[i].excluded = Outcasts[i].reason
                        /\ ExcludedRows[i].would_pay = NoPrice
    BY <1>2, <1>5
  <1> QED
    BY <1>1, <1>3, <1>4, <1>6, <1>7 DEF L, X

(* The report is made once, from the outcome.                              *)
RankingInv ==
  stage = "answered" /\ request.debug => ranking = Truncated(CandidateRows \o ExcludedRows)

LEMMA RankingInvariance == Spec => []RankingInv
  <1>1. Init => RankingInv
    BY DEF Init, RankingInv
  <1>2. RankingInv /\ [Next]_vars => RankingInv'
    <2> SUFFICES ASSUME RankingInv, [Next]_vars PROVE RankingInv'
      OBVIOUS
    <2>1. CASE Filter \/ Rank \/ TryPay
      BY <2>1 DEF Filter, Rank, TryPay, RankingInv
    <2>2. CASE Answer
      BY <2>2 DEF Answer, RankingInv, CandidateRows, ExcludedRows, BudgetSkipped, Truncated
    <2>3. CASE UNCHANGED vars
      BY <2>3 DEF vars, RankingInv, CandidateRows, ExcludedRows, BudgetSkipped, Truncated
    <2> QED
      BY <2>1, <2>2, <2>3 DEF Next, Returned
  <1> QED
    BY <1>1, <1>2, PTL DEF Spec

(* The debug ranking shows as many matches as fit, best first and the      *)
(* candidates ahead of the excluded; it gives "budget" as the reason of    *)
(* exactly those who refused, and its first row without a reason is the    *)
(* winner's, at the price charged.                                         *)
THEOREM TheRankingExplains == Spec => []RankingExplainsTheOutcome
  <1>1. EngineInv /\ RankingInv => RankingExplainsTheOutcome
    <2> SUFFICES ASSUME EngineInv, RankingInv, stage = "answered", request.debug
                 PROVE  RankingExplainsTheOutcome
      BY DEF RankingExplainsTheOutcome
    <2> DEFINE L == Len(eligible)
               X == Len(excluded)
               skipped == BudgetSkipped
               N == Len(ranking)
    <2>1. PICK S : CandidateRows \in Seq(S) /\ ExcludedRows \in Seq(S)
      BY RowFacts
    <2>2. /\ L \in Nat /\ X \in Nat
          /\ Len(CandidateRows) = L /\ Len(ExcludedRows) = X
      BY RowFacts, OutcastFacts
    <2>3. ranking = Truncated(CandidateRows \o ExcludedRows)
      BY DEF RankingInv
    <2>4. N = IF L + X < DebugRankingLimit THEN L + X ELSE DebugRankingLimit
      BY <2>1, <2>2, <2>3, TruncatedFacts
    <2>5. /\ N \in Nat /\ N <= L + X
          /\ \A i \in 1..N : ranking[i] = IF i <= L THEN CandidateRows[i] ELSE ExcludedRows[i - L]
      BY <2>1, <2>2, <2>3, TruncatedFacts
    <2>6. /\ skipped \in 0..L
          /\ refused = {eligible[i].campaign_id : i \in 1..skipped}
          /\ skipped < L => winner = skipped + 1
      BY WalkEnded DEF EngineInv, WalkInv
    <2>7. \A i \in 1..L : /\ CandidateRows[i].campaign_id = eligible[i].campaign_id
                          /\ CandidateRows[i].excluded = IF i <= skipped THEN "budget" ELSE "no"
      BY RowFacts
    <2>8. \A i \in 1..L : CandidateRows[i].would_pay = Price(eligible, i)
      BY RowFacts
    <2>9. \A i \in 1..X : /\ ExcludedRows[i].campaign_id = Outcasts[i].campaign_id
                          /\ ExcludedRows[i].excluded = Outcasts[i].reason
                          /\ ExcludedRows[i].would_pay = NoPrice
      BY RowFacts
    <2>10. /\ \A i, j \in 1..L : i # j => eligible[i].campaign_id # eligible[j].campaign_id
           /\ \A i, j \in 1..L : i < j => RanksBefore(eligible[i], eligible[j])
           /\ \A i \in 1..L : Rankable(eligible[i]) /\ eligible[i] \in ToSet(eligible)
           /\ \A m \in ToSet(eligible) : \E i \in 1..L : m = eligible[i]
      BY ListFacts DEF EngineInv, FilterInv, WalkInv
    <2>11. /\ \A m \in ToSet(excluded) : \E i \in 1..X : m = Outcasts[i]
           /\ \A i \in 1..X : /\ Outcasts[i] \in ToSet(excluded) /\ Rankable(Outcasts[i])
                              /\ Outcasts[i].reason \notin {"budget", "no"}
                              /\ \A j \in 1..L : Outcasts[i].campaign_id # eligible[j].campaign_id
           /\ \A i, j \in 1..X : i # j => Outcasts[i].campaign_id # Outcasts[j].campaign_id
           /\ \A i, j \in 1..X : i < j => RanksBefore(Outcasts[i], Outcasts[j])
      BY OutcastFacts
    <2>12. winner # 0 => paid = {[position |-> winner, price |-> Price(eligible, winner)]}
      BY DEF EngineInv, WalkInv
    <2> HIDE DEF L, X, skipped, N
    <2>13. \A i \in 1..N :
             \/ i \in 1..L /\ ranking[i] = CandidateRows[i]
             \/ i - L \in 1..X /\ ranking[i] = ExcludedRows[i - L]
      BY <2>2, <2>5
    <2>14. /\ \A i \in 1..L : i <= N => i \in 1..N /\ ranking[i].campaign_id = eligible[i].campaign_id
           /\ \A i \in 1..X : L + i <= N =>
                L + i \in 1..N /\ ranking[L + i].campaign_id = Outcasts[i].campaign_id
      <3>1. ASSUME NEW i \in 1..L, i <= N
            PROVE  i \in 1..N /\ ranking[i].campaign_id = eligible[i].campaign_id
        BY <2>2, <2>5, <2>7, <3>1
      <3>2. ASSUME NEW i \in 1..X, L + i <= N
            PROVE  L + i \in 1..N /\ ranking[L + i].campaign_id = Outcasts[i].campaign_id
        <4>1. L + i \in 1..N /\ ~ (L + i <= L) /\ (L + i) - L = i
          BY <2>2, <2>5, <3>2
        <4>2. ranking[L + i] = ExcludedRows[i]
          BY <2>5, <4>1
        <4> QED
          BY <2>9, <4>1, <4>2
      <3> QED
        BY <3>1, <3>2
    <2>15. ASSUME NEW j \in 1..N, NEW n \in ToSet(eligible) \cup ToSet(excluded),
                  NEW m \in ToSet(eligible) \cup ToSet(excluded),
                  ranking[j].campaign_id = n.campaign_id, StandsAbove(m, n)
           PROVE  \E i \in 1..(j - 1) : ranking[i].campaign_id = m.campaign_id
      <3>1. ASSUME NEW x \in ToSet(excluded) PROVE x \notin ToSet(eligible)
        <4>1. PICK p \in 1..X : x = Outcasts[p]
          BY <2>11
        <4> QED
          BY <2>10, <2>11, <4>1
      <3>2. CASE j \in 1..L
        <4>1. ranking[j].campaign_id = eligible[j].campaign_id
          BY <2>2, <2>5, <2>14, <3>2
        <4>2. n \notin ToSet(excluded)
          <5> SUFFICES ASSUME n \in ToSet(excluded) PROVE FALSE
            OBVIOUS
          <5>1. PICK p \in 1..X : n = Outcasts[p]
            BY <2>11
          <5> QED
            BY <2>11, <2>15, <3>2, <4>1, <5>1
        <4>3. n \in ToSet(eligible) /\ n = eligible[j]
          <5>1. PICK p \in 1..L : n = eligible[p]
            BY <2>10, <4>2
          <5>2. p = j
            BY <2>10, <2>15, <3>2, <4>1, <5>1
          <5> QED
            BY <4>2, <5>1, <5>2
        <4>4. m \in ToSet(eligible) /\ RanksBefore(m, eligible[j])
          BY <2>15, <4>2, <4>3 DEF StandsAbove
        <4>5. PICK k \in 1..L : m = eligible[k]
          BY <2>10, <4>4
        <4>6. k < j
          BY <2>2, <2>10, <3>2, <4>4, <4>5, OrderTells
        <4>7. k \in 1..(j - 1) /\ k <= N
          BY <2>2, <2>5, <4>6
        <4> QED
          BY <2>14, <4>5, <4>7
      <3>3. CASE j - L \in 1..X
        <4> DEFINE p == j - L
        <4>1. p \in 1..X /\ j = L + p /\ L + p <= N
          BY <2>2, <2>5, <3>3
        <4> HIDE DEF p
        <4>2. ranking[j].campaign_id = Outcasts[p].campaign_id
          BY <2>14, <4>1
        <4>3. n \notin ToSet(eligible)
          <5> SUFFICES ASSUME n \in ToSet(eligible) PROVE FALSE
            OBVIOUS
          <5>1. PICK k \in 1..L : n = eligible[k]
            BY <2>10
          <5> QED
            BY <2>11, <2>15, <4>1, <4>2, <5>1
        <4>4. n = Outcasts[p]
          <5>1. PICK k \in 1..X : n = Outcasts[k]
            BY <2>11, <4>3
          <5>2. k = p
            BY <2>11, <2>15, <4>1, <4>2, <5>1
          <5> QED
            BY <5>1, <5>2
        <4>5. CASE m \in ToSet(eligible)
          <5>1. PICK k \in 1..L : m = eligible[k]
            BY <2>10, <4>5
          <5>2. k \in 1..(j - 1) /\ k <= N
            BY <2>2, <2>5, <4>1
          <5> QED
            BY <2>14, <5>1, <5>2
        <4>6. CASE m \notin ToSet(eligible)
          <5>1. RanksBefore(m, Outcasts[p])
            BY <2>15, <4>4, <4>6 DEF StandsAbove
          <5>2. PICK k \in 1..X : m = Outcasts[k]
            BY <2>11, <4>6
          <5>3. k < p
            BY <2>2, <2>11, <4>1, <5>1, <5>2, OrderTells
          <5>4. L + k \in 1..(j - 1) /\ L + k <= N
            BY <2>2, <2>5, <4>1, <5>3
          <5> QED
            BY <2>14, <5>2, <5>4
        <4> QED
          BY <4>5, <4>6
      <3> QED
        BY <2>13, <3>2, <3>3
    <2>16. ASSUME NEW i \in 1..N
           PROVE  \/ \E m \in ToSet(eligible) :
                       /\ ranking[i].campaign_id = m.campaign_id
                       /\ ranking[i].excluded = IF m.campaign_id \in refused THEN "budget" ELSE "no"
                  \/ \E m \in ToSet(excluded) :
                       /\ ranking[i].campaign_id = m.campaign_id
                       /\ ranking[i].excluded = m.reason /\ ranking[i].would_pay = NoPrice
      <3>1. CASE i \in 1..L /\ ranking[i] = CandidateRows[i]
        <4>1. 1..skipped \subseteq 1..L /\ (i \in 1..skipped <=> i <= skipped)
          BY <2>2, <2>6, <3>1
        <4>2. eligible[i].campaign_id \in refused <=> i \in 1..skipped
          BY <2>6, <2>10, <3>1, <4>1
        <4>3. ranking[i].excluded = IF eligible[i].campaign_id \in refused THEN "budget" ELSE "no"
          BY <2>7, <3>1, <4>1, <4>2
        <4> QED
          BY <2>7, <2>10, <3>1, <4>3
      <3>2. CASE i - L \in 1..X /\ ranking[i] = ExcludedRows[i - L]
        BY <2>9, <2>11, <3>2
      <3> QED
        BY <2>13, <3>1, <3>2
    <2>17. ASSUME NEW i \in 1..N, ranking[i].excluded = "no",
                  \A j \in {k \in 1..N : ranking[k].excluded = "no"} : i <= j
           PROVE  \E p \in paid : /\ p.position = winner
                                  /\ ranking[i].campaign_id = eligible[winner].campaign_id
                                  /\ ranking[i].would_pay = p.price
      <3>1. i \in 1..L /\ ranking[i] = CandidateRows[i]
        <4> SUFFICES ASSUME i - L \in 1..X, ranking[i] = ExcludedRows[i - L] PROVE FALSE
          BY <2>13
        <4>1. Outcasts[i - L].reason # "no"
          BY <2>11
        <4> QED
          BY <2>9, <2>17, <4>1
      <3>2. ~ (i <= skipped)
        BY <2>7, <2>17, <3>1
      <3>3. skipped + 1 \in 1..L /\ skipped + 1 <= i /\ skipped + 1 \in 1..N /\ skipped < L
        BY <2>2, <2>5, <2>6, <3>1, <3>2
      <3>4. ranking[skipped + 1] = CandidateRows[skipped + 1]
        BY <2>2, <2>5, <3>3
      <3>5. ~ (skipped + 1 <= skipped)
        BY <2>2, <2>6
      <3>6. ranking[skipped + 1].excluded = "no"
        BY <2>7, <3>3, <3>4, <3>5
      <3>7. i <= skipped + 1
        BY <2>17, <3>3, <3>6
      <3>8. winner = i /\ winner # 0
        BY <2>2, <2>6, <3>1, <3>3, <3>7
      <3> DEFINE p == [position |-> winner, price |-> Price(eligible, winner)]
      <3>9. p \in paid /\ p.position = winner /\ p.price = Price(eligible, winner)
        BY <2>12, <3>8
      <3>10. /\ ranking[i].campaign_id = eligible[winner].campaign_id
             /\ ranking[i].would_pay = Price(eligible, winner)
        BY <2>7, <2>8, <3>1, <3>8
      <3> QED
        BY <3>9, <3>10
    <2> QED
      BY <2>4, <2>15, <2>16, <2>17 DEF RankingExplainsTheOutcome, L, X, N
  <1> QED
    BY <1>1, EngineInvariance, RankingInvariance, PTL

(***************************************************************************)
(* The refinement.                                                         *)
(***************************************************************************)
Bids(list) == [i \in 1..Len(list) |-> AsBidder(list[i])]

(* A strictly ranked list of bids at or above the reserve is what          *)
(* select_winner expects.                                                  *)
LEMMA BidsAreRanked ==
  ASSUME NEW matched \in MatchLists, NEW list,
         Len(list) \in Nat, Len(list) <= Len(matched),
         \A i \in 1..Len(list) : list[i] \in ToSet(matched) /\ list[i].bid >= Reserve,
         \A i, j \in 1..Len(list) : i # j => list[i].campaign_id # list[j].campaign_id,
         \A i, j \in 1..Len(list) : i < j => RanksBefore(list[i], list[j])
  PROVE  Bids(list) \in Walk!Rankings
  <1> DEFINE n == Len(list)
  <1>1. n \in 0..LongestList
    <2>1. Len(matched) <= LongestList /\ LongestList \in Nat /\ Len(matched) \in Nat
      BY LongestAssumption, MatchFacts
    <2> QED
      BY <2>1
  <1>2. \A i \in 1..n : AsBidder(list[i]) \in AllBidders
    <2> SUFFICES ASSUME NEW i \in 1..n PROVE AsBidder(list[i]) \in AllBidders
      OBVIOUS
    <2>1. list[i] \in UNION {ToSet(l) : l \in MatchLists}
      OBVIOUS
    <2>2. AsBidder(list[i]).bid >= Reserve
      BY DEF AsBidder
    <2> QED
      BY <2>1, <2>2 DEF AllBidders
  <1>3. Bids(list) \in [1..n -> AllBidders] /\ Len(Bids(list)) = n
    BY <1>2 DEF Bids
  <1>4. \A i \in 1..n : Bids(list)[i] = AsBidder(list[i])
    BY DEF Bids
  <1>5. \A i, j \in 1..n : i # j => Bids(list)[i].campaign_id # Bids(list)[j].campaign_id
    <2>1. \A m : AsBidder(m).campaign_id = m.campaign_id
      BY DEF AsBidder
    <2>2. \A i \in 1..n : Bids(list)[i].campaign_id = list[i].campaign_id
      BY <1>4, <2>1
    <2> QED
      BY <2>2
  <1>6. \A i, j \in 1..n : i < j => ~ Walk!RanksBefore(Bids(list)[j], Bids(list)[i])
    <2> SUFFICES ASSUME NEW i \in 1..n, NEW j \in 1..n, i < j
                 PROVE  ~ Walk!RanksBefore(AsBidder(list[j]), AsBidder(list[i]))
      BY <1>4
    <2>1. Rankable(list[i]) /\ Rankable(list[j])
      BY MatchFacts
    <2>2. ~ RanksBefore(list[j], list[i])
      BY <2>1, RankOrderFacts
    <2> QED
      BY <2>2 DEF Walk!RanksBefore, Walk!Score, Walk!AsUnsigned, RanksBefore, Score, AsUnsigned, AsBidder
  <1>7. Walk!IsRanked(Bids(list))
    BY <1>3, <1>6 DEF Walk!IsRanked
  <1> HIDE DEF n
  <1> QED
    BY <1>1, <1>3, <1>5, <1>7 DEF Walk!Rankings

LEMMA RankedOutsideFilter ==
  ASSUME EngineInv, stage # "filter"
  PROVE  Ranked = Bids(eligible) /\ Len(Ranked) = Len(eligible)
  <1>1. Len(eligible) \in Nat
    BY ListFacts DEF EngineInv
  <1> QED
    BY <1>1 DEF Ranked, Bids

LEMMA WalkStarts == Init => Walk!Init
  <1> SUFFICES ASSUME Init PROVE Walk!Init
    OBVIOUS
  <1>1. Ranked = <<>>
    BY DEF Init, Ranked
  <1>2. <<>> \in Walk!Rankings
    <2>1. 0 \in 0..LongestList
      BY LongestAssumption
    <2>2. <<>> \in [1..0 -> AllBidders] /\ Len(<<>>) = 0
      OBVIOUS
    <2>3. Walk!IsRanked(<<>>) /\ \A i, j \in 1..0 : i # j => <<>>[i].campaign_id # <<>>[j].campaign_id
      BY DEF Walk!IsRanked
    <2> QED
      BY <2>1, <2>2, <2>3 DEF Walk!Rankings
  <1> QED
    BY <1>1, <1>2 DEF Init, Walk!Init

(* Rank is the start of a walk, TryPay its step, and the rest stutters.    *)
LEMMA WalkSteps ==
  ASSUME EngineInv, EngineInv', [Next]_vars
  PROVE  [Walk!Next]_(Walk!vars)
  <1>1. CASE Filter
    <2>1. stage = "filter" /\ UNCHANGED <<stage, asked, winner, paid>>
      BY <1>1 DEF Filter
    <2>2. Ranked' = Ranked /\ winner = 0
      BY <2>1 DEF Ranked, EngineInv, WalkInv
    <2> QED
      BY <2>1, <2>2 DEF Walk!vars
  <1>2. CASE Rank
    <2>1. /\ stage = "filter" /\ stage' = "walk" /\ UNCHANGED <<matches, request, asked, winner, paid>>
      BY <1>2 DEF Rank
    <2>2. asked = 0 /\ winner = 0 /\ paid = {} /\ Ranked = <<>>
      BY <2>1 DEF EngineInv, WalkInv, Ranked
    <2>3. Ranked' = Bids(eligible')
      BY <2>1 DEF Ranked, Bids
    <2>4. Bids(eligible') \in Walk!Rankings
      <3>1. /\ matches' \in MatchLists /\ Len(eligible') \in Nat /\ DOMAIN eligible' = 1..Len(eligible')
            /\ \A i \in 1..Len(eligible') : eligible'[i] \in ToSet(matches')
        BY DEF EngineInv, TypeOK
      <3>2. Len(eligible') <= Len(matches')
        <4>1. Len(eligible') <= checked' /\ checked' \in 0..Len(matches') /\ Len(matches') \in Nat
          BY <3>1, MatchFacts DEF EngineInv, FilterInv, TypeOK
        <4> QED
          BY <3>1, <4>1
      <3>3. \A i \in 1..Len(eligible') : eligible'[i].bid >= Reserve
        <4> SUFFICES ASSUME NEW i \in 1..Len(eligible') PROVE eligible'[i].bid >= Reserve
          OBVIOUS
        <4>1. eligible'[i] \in ToSet(eligible')
          BY <3>1 DEF ToSet
        <4>2. Eligibility(eligible'[i], request') = "eligible"
          BY <4>1 DEF EngineInv, FilterInv, Verdict
        <4>3. Rankable(eligible'[i]) /\ eligible'[i].active \in BOOLEAN /\ eligible'[i].negative \in BOOLEAN
          BY <3>1, MatchFacts
        <4> QED
          BY <4>2, <4>3, EligibleMeans
      <3>4. /\ \A i, j \in 1..Len(eligible') : i # j => eligible'[i].campaign_id # eligible'[j].campaign_id
            /\ \A i, j \in 1..Len(eligible') : i < j => RanksBefore(eligible'[i], eligible'[j])
        BY <2>1 DEF EngineInv, FilterInv, WalkInv
      <3> QED
        BY <3>1, <3>2, <3>3, <3>4, BidsAreRanked
    <2>5. Walk!Restart
      BY <2>1, <2>2, <2>3, <2>4 DEF Walk!Restart, Walk!Finished
    <2> QED
      BY <2>5 DEF Walk!Next
  <1>3. CASE TryPay
    <2>1. /\ stage = "walk" /\ winner = 0 /\ asked < Len(eligible) /\ asked' = asked + 1
          /\ UNCHANGED <<stage, eligible>>
          /\ \/ /\ winner' = asked'
                /\ paid' = paid \cup {[position |-> asked', price |-> Price(eligible, asked')]}
             \/ UNCHANGED <<winner, paid>>
      BY <1>3 DEF TryPay
    <2>2. Ranked' = Ranked /\ Len(Ranked) = Len(eligible)
      <3>1. Ranked' = Ranked
        BY <2>1 DEF Ranked
      <3> QED
        BY <2>1, <3>1, RankedOutsideFilter
    <2>3. asked \in Nat /\ Len(eligible) \in Nat /\ asked' # 0 /\ asked # Len(eligible)
      <3>1. Len(eligible) \in Nat /\ asked \in 0..Len(eligible)
        BY ListFacts DEF EngineInv, TypeOK
      <3> QED
        BY <2>1, <3>1
    <2>4. ~ Walk!Finished
      BY <2>1, <2>2, <2>3 DEF Walk!Finished
    <2>5. Walk!Price(Ranked, asked') = Price(eligible, asked')
      <3>1. asked' \in 1..Len(eligible) /\ Ranked = Bids(eligible)
        BY <2>1, <2>3, RankedOutsideFilter
      <3>2. \A i \in 1..Len(eligible) : Ranked[i].bid = eligible[i].bid /\ Ranked[i].relevance = eligible[i].relevance
        BY <3>1 DEF Bids, AsBidder
      <3>3. asked' < Len(eligible) => asked' + 1 \in 1..Len(eligible)
        BY <2>1, <2>3
      <3> QED
        BY <2>2, <3>1, <3>2, <3>3
           DEF Walk!Price, Walk!Capped, Walk!PriceToBeat, Walk!AtLeast, Walk!DivCeil, Walk!Score,
               Walk!AsUnsigned, Price, Capped, PriceToBeat, AtLeast, DivCeil, Score, AsUnsigned
    <2> QED
      BY <2>1, <2>2, <2>4, <2>5 DEF Walk!TryPay, Walk!Next
  <1>4. CASE Answer \/ Returned \/ UNCHANGED vars
    <2>1. /\ UNCHANGED <<eligible, asked, winner, paid>>
          /\ (stage = "filter") = (stage' = "filter")
      BY <1>4 DEF Answer, Returned, vars
    <2>2. Ranked' = Ranked
      BY <2>1 DEF Ranked
    <2> QED
      BY <2>1, <2>2 DEF Walk!vars
  <1> QED
    BY <1>1, <1>2, <1>3, <1>4 DEF Next

(* run hands select_winner a ranked list of distinct campaigns that bid    *)
(* the reserve at least, and charges nobody outside its walk: what         *)
(* SelectWinnerProofs proves of prices and payers holds of the engine.     *)
THEOREM EngineRunsTheWalk == Spec => ImplementsSelectWinner
  BY WalkStarts, WalkSteps, EngineInvariance, PTL DEF Spec, ImplementsSelectWinner, Walk!Spec

=============================================================================
