------------------------- MODULE SelectWinnerProofs --------------------------
(***************************************************************************)
(* Proofs about ranking, pricing and the walk, for every reserve,          *)
(* increment, set of bidders and list length.                              *)
(***************************************************************************)
EXTENDS SelectWinner, DataLemmas, SequenceTheorems

(* Rounding up reaches the dividend, and by less than one divisor.         *)
LEMMA DivCeilFacts ==
  ASSUME NEW a \in Nat, NEW b \in Nat \ {0}
  PROVE  /\ DivCeil(a, b) \in Nat
         /\ DivCeil(a, b) * b >= a
         /\ (DivCeil(a, b) - 1) * b < a
  <1> DEFINE q == (a + b - 1) \div b
             r == (a + b - 1) % b
  <1>1. q \in Nat /\ r \in 0..(b - 1)
    OBVIOUS
  <1>2. a + b - 1 = b * q + r
    OBVIOUS
  <1> HIDE DEF q, r
  <1>3. q * b >= a
    BY <1>1, <1>2
  <1>4. (q - 1) * b < a
    BY <1>1, <1>2
  <1> QED
    BY <1>1, <1>3, <1>4 DEF q, DivCeil

(* Multiplication by a positive factor keeps the order.                    *)
LEMMA TimesMonotone ==
  ASSUME NEW x \in Int, NEW y \in Int, NEW m \in Nat, x <= y
  PROVE  x * m <= y * m
  OBVIOUS

LEMMA BidderFacts ==
  ASSUME NEW b \in Bidders
  PROVE  /\ b.campaign_id \in Int
         /\ b.bid \in Nat
         /\ b.bid >= Reserve
         /\ b.relevance \in Nat \ {0}
         /\ Score(b) \in Nat
         /\ Score(b) = b.bid * b.relevance
         /\ AsUnsigned(b.bid) = b.bid
  <1>1. b.bid \in Nat /\ b.bid >= Reserve /\ b.relevance \in Nat \ {0} /\ b.campaign_id \in Int
    BY BidderAssumption, PricingAssumption
  <1>2. AsUnsigned(b.bid) = b.bid
    BY <1>1 DEF AsUnsigned
  <1>3. Score(b) = b.bid * b.relevance
    BY <1>2 DEF Score
  <1>4. b.bid * b.relevance \in Nat
    BY <1>1
  <1> QED
    BY <1>1, <1>2, <1>3, <1>4

(* rank_order is a strict total order on candidates with distinct ids, so  *)
(* the order of the ranking never depends on the order of the input.       *)
THEOREM RankOrderIsTotal ==
  ASSUME NEW a \in Bidders, NEW b \in Bidders, NEW c \in Bidders
  PROVE  /\ ~ RanksBefore(a, a)
         /\ RanksBefore(a, b) => ~ RanksBefore(b, a)
         /\ RanksBefore(a, b) /\ RanksBefore(b, c) => RanksBefore(a, c)
         /\ a.campaign_id # b.campaign_id => RanksBefore(a, b) \/ RanksBefore(b, a)
  <1>1. \A x \in {a, b, c} : Score(x) \in Nat /\ x.bid \in Nat /\ x.campaign_id \in Int
    BY BidderFacts
  <1> QED
    BY <1>1 DEF RanksBefore

LEMMA RankingFacts ==
  ASSUME NEW list \in Rankings
  PROVE  /\ Len(list) \in Nat
         /\ \A i \in 1..Len(list) : list[i] \in Bidders
         /\ IsRanked(list)
  <1>1. PICK n \in 0..MaxCandidates : list \in [1..n -> Bidders] /\ IsRanked(list)
    BY DEF Rankings
  <1>2. n \in Nat
    BY <1>1, BidderAssumption
  <1>3. list \in Seq(Bidders)
    BY <1>1, <1>2
  <1>4. Len(list) = n
    BY <1>1, <1>2
  <1> QED
    BY <1>1, <1>2, <1>3, <1>4, ElementOfSeq

(* What the next candidate makes a bidder pay, before the cap.             *)
LEMMA PriceToBeatFacts ==
  ASSUME NEW b \in Bidders, NEW next \in Bidders
  PROVE  /\ PriceToBeat(b, next) \in Nat
         /\ PriceToBeat(b, next) >= Reserve
         /\ PriceToBeat(b, next) * b.relevance >= Score(next)
         /\ PriceToBeat(b, next) > Reserve
              => (PriceToBeat(b, next) - Increment - 1) * b.relevance < Score(next)
  <1> DEFINE q == DivCeil(Score(next), b.relevance)
  <1>1. b.relevance \in Nat \ {0} /\ Score(next) \in Nat
    BY BidderFacts
  <1>2. AtLeast(1, b.relevance) = b.relevance
    BY <1>1 DEF AtLeast
  <1>3. q \in Nat /\ q * b.relevance >= Score(next) /\ (q - 1) * b.relevance < Score(next)
    BY <1>1, DivCeilFacts
  <1>4. PriceToBeat(b, next) = AtLeast(Reserve, q + Increment)
    BY <1>2 DEF PriceToBeat
  <1> HIDE DEF q
  <1>5. /\ PriceToBeat(b, next) \in Nat
        /\ PriceToBeat(b, next) >= Reserve
        /\ PriceToBeat(b, next) >= q
        /\ PriceToBeat(b, next) > Reserve => PriceToBeat(b, next) = q + Increment
    BY <1>3, <1>4, PricingAssumption DEF AtLeast
  <1>6. q * b.relevance <= PriceToBeat(b, next) * b.relevance
    BY <1>1, <1>3, <1>5, TimesMonotone
  <1>7. PriceToBeat(b, next) * b.relevance \in Int /\ q * b.relevance \in Int
    BY <1>1, <1>3, <1>5
  <1>8. PriceToBeat(b, next) * b.relevance >= Score(next)
    BY <1>1, <1>3, <1>6, <1>7
  <1>9. PriceToBeat(b, next) > Reserve => PriceToBeat(b, next) - Increment - 1 = q - 1
    BY <1>3, <1>5, PricingAssumption
  <1> QED
    BY <1>3, <1>5, <1>8, <1>9

(* The price of a position: its cap, or what the next candidate requires.  *)
LEMMA PriceFacts ==
  ASSUME NEW list \in Rankings, NEW i \in 1..Len(list)
  PROVE  /\ Price(list, i) \in Nat
         /\ Reserve <= Price(list, i)
         /\ Price(list, i) <= list[i].bid
         /\ i < Len(list) =>
              \/ Price(list, i) = list[i].bid /\ list[i].bid <= PriceToBeat(list[i], list[i + 1])
              \/ Price(list, i) = PriceToBeat(list[i], list[i + 1])
  <1>1. /\ list[i] \in Bidders
        /\ i < Len(list) => list[i + 1] \in Bidders
    BY RankingFacts
  <1>2. /\ list[i].bid \in Nat
        /\ list[i].bid >= Reserve
        /\ AsUnsigned(list[i].bid) = list[i].bid
    BY <1>1, BidderFacts
  <1>3. i < Len(list) => /\ PriceToBeat(list[i], list[i + 1]) \in Nat
                         /\ PriceToBeat(list[i], list[i + 1]) >= Reserve
    BY <1>1, PriceToBeatFacts
  <1> QED
    BY <1>2, <1>3, PricingAssumption DEF Price, Capped

(* Every price lies between the reserve and the bid.                       *)
LEMMA WithinBounds ==
  ASSUME NEW list \in Rankings, NEW i \in 1..Len(list)
  PROVE  Reserve <= Price(list, i) /\ Price(list, i) <= list[i].bid
  BY PriceFacts

(* At its price a position still scores what the next one does.            *)
LEMMA KeepsTheRanking ==
  ASSUME NEW list \in Rankings, NEW i \in 1..Len(list), i < Len(list)
  PROVE  Price(list, i) * list[i].relevance >= Score(list[i + 1])
  <1>1. /\ list[i] \in Bidders
        /\ list[i + 1] \in Bidders
        /\ ~ RanksBefore(list[i + 1], list[i])
    BY RankingFacts DEF IsRanked
  <1>2. CASE Price(list, i) = PriceToBeat(list[i], list[i + 1])
    BY <1>1, <1>2, PriceToBeatFacts
  <1>3. CASE Price(list, i) = list[i].bid
    <2>1. Score(list[i]) >= Score(list[i + 1])
      BY <1>1, BidderFacts DEF RanksBefore
    <2> QED
      BY <1>1, <1>3, <2>1, BidderFacts
  <1> QED
    BY <1>2, <1>3, PriceFacts

(* And a micro less than the second price would lose to the next one.      *)
LEMMA IsASecondPrice ==
  ASSUME NEW list \in Rankings, NEW i \in 1..Len(list), i < Len(list), Price(list, i) > Reserve
  PROVE  (Price(list, i) - Increment - 1) * list[i].relevance < Score(list[i + 1])
  <1> DEFINE b == list[i]
             p == PriceToBeat(list[i], list[i + 1])
  <1>1. b \in Bidders /\ list[i + 1] \in Bidders
    BY RankingFacts
  <1>2. b.relevance \in Nat /\ Score(list[i + 1]) \in Nat
    BY <1>1, BidderFacts
  <1>3. Price(list, i) \in Nat /\ p \in Nat /\ Price(list, i) <= p
    BY <1>1, PriceFacts, PriceToBeatFacts
  <1>4. (p - Increment - 1) * b.relevance < Score(list[i + 1])
    BY <1>1, <1>3, PriceToBeatFacts, PricingAssumption
  <1>5. (Price(list, i) - Increment - 1) * b.relevance <= (p - Increment - 1) * b.relevance
    <2> HIDE DEF b, p
    <2>1. Price(list, i) - Increment - 1 \in Int /\ p - Increment - 1 \in Int
      BY <1>3, PricingAssumption
    <2>2. Price(list, i) - Increment - 1 <= p - Increment - 1
      BY <1>3, PricingAssumption
    <2> QED
      BY <1>2, <2>1, <2>2, TimesMonotone
  <1> DEFINE low == (Price(list, i) - Increment - 1) * b.relevance
             high == (p - Increment - 1) * b.relevance
  <1>6. low \in Int /\ high \in Int
    BY <1>2, <1>3, PricingAssumption
  <1>7. low <= high /\ high < Score(list[i + 1])
    BY <1>4, <1>5
  <1>8. low < Score(list[i + 1])
    <2> HIDE DEF low, high
    <2> QED
      BY <1>2, <1>6, <1>7
  <1> QED
    BY <1>8

(***************************************************************************)
(* The walk.                                                               *)
(***************************************************************************)
LEMMA WalkInvariance == Spec => []AuctionInv
  <1>1. Init => AuctionInv
    <2> SUFFICES ASSUME Init PROVE AuctionInv
      OBVIOUS
    <2>1. Len(ranked) \in Nat
      BY RankingFacts DEF Init
    <2> QED
      BY <2>1 DEF Init, AuctionInv, TypeOK, OnlyTheWinnerPays, Finished, BudgetSkipped
  <1>2. AuctionInv /\ [Next]_vars => AuctionInv'
    <2> SUFFICES ASSUME AuctionInv, [Next]_vars PROVE AuctionInv'
      OBVIOUS
    <2>0. Len(ranked) \in Nat
      BY RankingFacts DEF AuctionInv, TypeOK
    <2>1. CASE TryPay
      <3>1. ranked' = ranked /\ asked' = asked + 1 /\ winner = 0 /\ paid = {}
        BY <2>1 DEF TryPay, Finished, AuctionInv, OnlyTheWinnerPays
      <3>2. asked' \in 1..Len(ranked)
        BY <2>0, <2>1, <3>1 DEF TryPay, Finished, AuctionInv, TypeOK
      <3>3. CASE winner' = asked' /\ paid' = paid \cup {[position |-> asked', price |-> Price(ranked, asked')]}
        <4>1. paid' = {[position |-> winner', price |-> Price(ranked', winner')]}
          BY <3>1, <3>3
        <4>2. winner' \in 1..Len(ranked') /\ ranked' \in Rankings /\ asked' \in 0..Len(ranked')
          BY <2>0, <3>1, <3>2, <3>3 DEF AuctionInv, TypeOK
        <4>3. \A p \in paid' : p.position = winner'
          BY <4>1
        <4>4. TypeOK'
          BY <4>2, <4>3 DEF TypeOK
        <4>5. asked' = winner' /\ winner' # 0 /\ winner' \in Int /\ asked' \in Int
          BY <2>0, <3>2, <3>3
        <4>6. PICK n \in Int : n = winner'
          BY <4>5
        <4>7. BudgetSkipped' = n - 1
          BY <4>5, <4>6 DEF BudgetSkipped
        <4>8. n = BudgetSkipped' + 1
          BY <4>7
        <4>9. asked' = BudgetSkipped' + 1
          BY <4>5, <4>6, <4>8, Zenon
        <4>10. paid' = IF winner' = 0 THEN {}
                      ELSE {[position |-> winner', price |-> Price(ranked', winner')]}
          BY <4>1, <4>5
        <4>11. OnlyTheWinnerPays'
          BY <4>5, <4>10, <4>9 DEF OnlyTheWinnerPays
        <4> QED
          BY <4>4, <4>11 DEF AuctionInv
      <3>4. CASE UNCHANGED <<winner, paid>>
        BY <2>0, <3>1, <3>2, <3>4 DEF AuctionInv, TypeOK, OnlyTheWinnerPays, Finished, BudgetSkipped
      <3> QED
        BY <2>1, <3>3, <3>4 DEF TryPay
    <2>2. CASE Restart
      <3>1. Len(ranked') \in Nat
        BY <2>2, RankingFacts DEF Restart
      <3> QED
        BY <2>2, <3>1 DEF Restart, AuctionInv, TypeOK, OnlyTheWinnerPays, Finished, BudgetSkipped
    <2>3. CASE UNCHANGED vars
      BY <2>3 DEF vars, AuctionInv, TypeOK, OnlyTheWinnerPays, Finished, BudgetSkipped
    <2> QED
      BY <2>1, <2>2, <2>3 DEF Next
  <1> QED
    BY <1>1, <1>2, PTL DEF Spec

(* Only the winner is charged, its own price, once; the skipped positions  *)
(* are exactly those above it.                                             *)
THEOREM WinnerPaysAlone == Spec => []OnlyTheWinnerPays
  <1>1. AuctionInv => OnlyTheWinnerPays
    BY DEF AuctionInv
  <1> QED
    BY <1>1, WalkInvariance, PTL

(* gsp_price: at least the reserve, at most the bid, at every position.    *)
THEOREM PricesAreBounded == Spec => []PricesWithinBounds
  <1>1. AuctionInv => PricesWithinBounds
    BY WithinBounds DEF AuctionInv, TypeOK, PricesWithinBounds
  <1> QED
    BY <1>1, WalkInvariance, PTL

(* gsp_price: the payer still scores at least what the next one does.      *)
THEOREM PricesRespectTheRanking == Spec => []PricesKeepTheRanking
  <1>1. AuctionInv => PricesKeepTheRanking
    BY KeepsTheRanking DEF AuctionInv, TypeOK, PricesKeepTheRanking
  <1> QED
    BY <1>1, WalkInvariance, PTL

(* gsp_price: nobody pays more than the second price plus the increment.   *)
THEOREM PricesAreMinimal == Spec => []PricesAreSecondPrices
  <1>1. AuctionInv => PricesAreSecondPrices
    BY IsASecondPrice DEF AuctionInv, TypeOK, PricesAreSecondPrices
  <1> QED
    BY <1>1, WalkInvariance, PTL

(***************************************************************************)
(* The ranking is unique.                                                  *)
(***************************************************************************)

(* A campaign is in a list once.                                           *)
LEMMA RankedIdsDiffer ==
  ASSUME NEW list \in Rankings
  PROVE  \A i, j \in 1..Len(list) : i # j => list[i].campaign_id # list[j].campaign_id
  <1>1. PICK n \in 0..MaxCandidates :
          /\ list \in [1..n -> Bidders]
          /\ \A i, j \in 1..n : i # j => list[i].campaign_id # list[j].campaign_id
    BY DEF Rankings
  <1>2. n \in Nat
    BY <1>1, BidderAssumption
  <1>3. Len(list) = n
    BY <1>1, <1>2
  <1> QED
    BY <1>1, <1>3

(* A list as long as the ranking, with the same candidates, has each once. *)
LEMMA NoneTwice ==
  ASSUME NEW list \in Rankings,
         NEW other \in [1..Len(list) -> {list[i] : i \in 1..Len(list)}],
         {other[i] : i \in 1..Len(list)} = {list[i] : i \in 1..Len(list)}
  PROVE  \A i, j \in 1..Len(list) : other[i] = other[j] => i = j
  <1> DEFINE S == 1..Len(list)
             C == {list[i] : i \in S}
             at == [i \in S |-> list[i]]
  <1>1. IsFiniteSet(S)
    BY RankingFacts, FS_Interval
  <1>2. at \in Surjection(S, C)
    BY DEF Surjection
  <1>3. at \in Injection(S, C)
    BY RankedIdsDiffer DEF Injection, IsInjective
  <1>4. IsFiniteSet(C) /\ Cardinality(C) = Cardinality(S)
    BY <1>1, <1>2, <1>3, FS_Surjection
  <1>5. other \in Surjection(S, C)
    BY DEF Surjection
  <1>6. other \in Injection(S, C)
    BY <1>1, <1>4, <1>5, FS_Surjection
  <1> QED
    BY <1>6 DEF Injection, IsInjective

(* Where two ranked lists of the same candidates first differed, each      *)
(* candidate of one would be further down in the other, so each would rank *)
(* before the other.                                                       *)
LEMMA SameCandidatesSameList ==
  ASSUME NEW list \in Rankings,
         NEW other \in [1..Len(list) -> {list[i] : i \in 1..Len(list)}],
         IsRanked(other),
         {other[i] : i \in 1..Len(list)} = {list[i] : i \in 1..Len(list)}
  PROVE  other = list
  <1> DEFINE n == Len(list)
             S == 1..n
             differ == {i \in S : other[i] # list[i]}
  <1>1. /\ n \in Nat /\ IsRanked(list)
        /\ \A i \in S : list[i] \in Bidders
        /\ \A i, j \in S : i # j => list[i].campaign_id # list[j].campaign_id
    BY RankingFacts, RankedIdsDiffer
  <1>2. list = [i \in S |-> list[i]] /\ other = [i \in S |-> other[i]] /\ Len(other) = n
    <2>1. PICK k \in 0..MaxCandidates : list \in [1..k -> Bidders]
      BY DEF Rankings
    <2>2. k \in Nat /\ Len(list) = k
      BY <2>1, BidderAssumption
    <2> QED
      BY <2>1, <2>2
  <1>3. SUFFICES ASSUME differ # {} PROVE FALSE
    <2> SUFFICES ASSUME differ = {} PROVE other = list
      BY <1>3
    <2>1. \A i \in S : other[i] = list[i]
      OBVIOUS
    <2> QED
      BY <1>2, <2>1
  <1>4. PICK k \in differ : \A i \in differ : k <= i
    <2>1. differ \subseteq Nat
      BY <1>1
    <2> QED
      BY <1>3, <2>1, LeastNatural
  <1>5. k \in S /\ other[k] # list[k] /\ \A i \in S : i < k => other[i] = list[i]
    <2>1. k \in S /\ other[k] # list[k]
      BY <1>4
    <2>2. ASSUME NEW i \in S, i < k PROVE other[i] = list[i]
      <3>1. k \in Int /\ i \in Int /\ ~ (k <= i)
        BY <1>1, <2>1, <2>2
      <3> QED
        BY <1>4, <3>1
    <2> QED
      BY <2>1, <2>2
  <1>6. PICK m \in S : other[k] = list[m]
    BY <1>5
  <1>7. PICK l \in S : other[l] = list[k]
    BY <1>5
  <1>8. k < m
    <2>1. m # k
      BY <1>5, <1>6
    <2>2. ASSUME m < k PROVE FALSE
      <3>1. other[m] = other[k]
        BY <1>5, <1>6, <2>2
      <3> QED
        BY <1>5, <2>1, <3>1, NoneTwice
    <2> QED
      BY <1>1, <1>5, <2>1, <2>2
  <1>9. k < l
    <2>1. l # k
      BY <1>5, <1>7
    <2>2. ASSUME l < k PROVE FALSE
      <3>1. list[l] = list[k]
        BY <1>5, <1>7, <2>2
      <3> QED
        BY <1>1, <1>5, <2>1, <3>1
    <2> QED
      BY <1>1, <1>5, <2>1, <2>2
  <1>10. ~ RanksBefore(list[m], list[k])
    BY <1>1, <1>5, <1>8 DEF IsRanked
  <1>11. ~ RanksBefore(list[k], list[m])
    BY <1>2, <1>5, <1>6, <1>7, <1>9 DEF IsRanked
  <1> QED
    BY <1>1, <1>5, <1>8, <1>10, <1>11, RankOrderIsTotal

(* rank_order leaves nothing open: the order in which the index offered    *)
(* the candidates, or the sort met them, does not show in the ranking.     *)
THEOREM OneRanking == Spec => []RankingIsUnique
  <1>1. AuctionInv => RankingIsUnique
    BY SameCandidatesSameList DEF AuctionInv, TypeOK, RankingIsUnique
  <1> QED
    BY <1>1, WalkInvariance, PTL
=============================================================================
