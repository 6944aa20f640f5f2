---------------------------- MODULE SelectWinner -----------------------------
(***************************************************************************)
(* select_winner of admatch-core/src/auction.rs: the walk down a ranked    *)
(* list, asking each candidate in turn to pay its price.  Whether one can  *)
(* pay is decided elsewhere (budget.rs, and by concurrent auctions), so    *)
(* here try_pay answers anything.                                          *)
(***************************************************************************)
EXTENDS GspAuction

CONSTANTS
  Bidders,        \* the candidates a list may hold
  MaxCandidates   \* bound on a list's length

(* What Snapshot::run ranks: i64 bids at or above the reserve, relevances  *)
(* of at least one basis point.                                            *)
ASSUME BidderAssumption ==
  /\ MaxCandidates \in Nat
  /\ \A b \in Bidders : /\ b.campaign_id \in Int
                        /\ b.bid \in Int
                        /\ b.relevance \in Nat \ {0}
                        /\ b.bid >= Reserve

VARIABLES
  ranked,   \* the ranked list
  asked,    \* how many positions were asked to pay, from the top
  winner,   \* the position that paid, or 0
  paid      \* the positions that paid, with the price each was charged

vars == <<ranked, asked, winner, paid>>

(* One list per query: a campaign enters with its best keyword only.       *)
Rankings ==
  UNION {{list \in [1..n -> Bidders] :
            /\ IsRanked(list)
            /\ \A i, j \in 1..n : i # j => list[i].campaign_id # list[j].campaign_id}
         : n \in 0..MaxCandidates}

Init ==
  /\ ranked \in Rankings
  /\ asked = 0
  /\ winner = 0
  /\ paid = {}

(* Mutant: the walk goes on after a candidate has paid.                    *)
AllAsked == asked = Len(ranked)

Finished == winner # 0 \/ asked = Len(ranked)

TryPay ==
  /\ ~ Finished
  /\ asked' = asked + 1
  /\ \/ /\ winner' = asked'
        /\ paid' = paid \cup {[position |-> asked', price |-> Price(ranked, asked')]}
     \/ UNCHANGED <<winner, paid>>
  /\ UNCHANGED ranked

(* The next auction.                                                       *)
Restart ==
  /\ Finished
  /\ ranked' \in Rankings
  /\ asked' = 0
  /\ winner' = 0
  /\ paid' = {}

Next == TryPay \/ Restart

Spec == Init /\ [][Next]_vars

BudgetSkipped == IF winner # 0 THEN winner - 1 ELSE Len(ranked)

TypeOK ==
  /\ ranked \in Rankings
  /\ asked \in 0..Len(ranked)
  /\ winner \in 0..Len(ranked)
  /\ \A p \in paid : p.position \in 1..Len(ranked)

(* Whoever would win, at whatever position the walk stops, pays at least   *)
(* the reserve and at most its bid (gsp_price, "Never above the bid and    *)
(* [...] never below the reserve").                                        *)
PricesWithinBounds ==
  \A i \in 1..Len(ranked) :
    /\ Reserve <= Price(ranked, i)
    /\ Price(ranked, i) <= ranked[i].bid

(* At the price it pays a position still scores at least as high as the    *)
(* next one: rounding and the cap never sell an ad below what the          *)
(* runner-up offered.                                                      *)
PricesKeepTheRanking ==
  \A i \in 1..Len(ranked) : i < Len(ranked) =>
    Price(ranked, i) * ranked[i].relevance >= Score(ranked[i + 1])

(* Nor does it pay for more than the runner-up plus the increment: one     *)
(* micro less, before the increment, would lose to the next position.      *)
PricesAreSecondPrices ==
  \A i \in 1..Len(ranked) : i < Len(ranked) /\ Price(ranked, i) > Reserve =>
    (Price(ranked, i) - Increment - 1) * ranked[i].relevance < Score(ranked[i + 1])

(* Exactly the winner is charged, exactly its price, once, and everyone    *)
(* above it was asked and could not pay; nobody below it was asked.        *)
OnlyTheWinnerPays ==
  /\ paid = IF winner = 0 THEN {}
            ELSE {[position |-> winner, price |-> Price(ranked, winner)]}
  /\ Finished => asked = IF winner = 0 THEN BudgetSkipped ELSE BudgetSkipped + 1

(* The order of equal campaigns does not depend on how the list was        *)
(* built: two ranked lists of the same candidates are the same list.       *)
RankingIsUnique ==
  LET candidates == {ranked[i] : i \in 1..Len(ranked)}
  IN  \A other \in [1..Len(ranked) -> candidates] :
        IsRanked(other) /\ {other[i] : i \in 1..Len(ranked)} = candidates
          => other = ranked

AuctionInv ==
  /\ TypeOK
  /\ OnlyTheWinnerPays
=============================================================================
