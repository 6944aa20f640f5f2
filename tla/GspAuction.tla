----------------------------- MODULE GspAuction ------------------------------
(***************************************************************************)
(* Ranking and second-price rules of admatch-core/src/auction.rs, with     *)
(* score and broad relevance of index.rs.  Amounts are in micros.          *)
(***************************************************************************)
EXTENDS Integers, Sequences

CONSTANTS
  Reserve,    \* EngineConfig.reserve: minimum price of a tap
  Increment   \* EngineConfig.increment: added to the second price

(* Config rejects a reserve below 1 and a negative increment.              *)
ASSUME PricingAssumption == Reserve \in Nat \ {0} /\ Increment \in Nat

(* u128::try_from(m).unwrap_or(0)                                          *)
AsUnsigned(m) == IF m < 0 THEN 0 ELSE m

AtLeast(low, x) == IF x < low THEN low ELSE x

(* Mutant: the quotient plus one, exact or not.                            *)
DivNext(a, b) == (a \div b) + 1

DivCeil(a, b) == (a + b - 1) \div b

(* Below 2^95 for i64 bids and u32 relevances: the u128 never overflows.   *)
Score(b) == AsUnsigned(b.bid) * b.relevance

(* Mutant: no tie-break by campaign id.                                    *)
RanksBeforeByScore(a, b) ==
  \/ Score(a) > Score(b)
  \/ Score(a) = Score(b) /\ a.bid > b.bid

(* rank_order: best score, then best bid, then lowest campaign id.         *)
RanksBefore(a, b) ==
  \/ Score(a) > Score(b)
  \/ Score(a) = Score(b) /\ a.bid > b.bid
  \/ Score(a) = Score(b) /\ a.bid = b.bid /\ a.campaign_id < b.campaign_id

(* A list sorted with rank_order: nobody ranks before someone above it.    *)
IsRanked(list) ==
  \A i, j \in 1..Len(list) : i < j => ~ RanksBefore(list[j], list[i])

(* Mutant: the next candidate's bid, without weighing the relevances.      *)
PlainSecondPrice(b, next) ==
  AtLeast(Reserve, DivCeil(Score(next), AtLeast(1, next.relevance)) + Increment)

(* The price to beat the next candidate, before the cap at the bid.        *)
PriceToBeat(b, next) ==
  AtLeast(Reserve, DivCeil(Score(next), AtLeast(1, b.relevance)) + Increment)

(* Mutant: no cap at the bid.                                              *)
Uncapped(b, price) == price

Capped(b, price) == IF price < AsUnsigned(b.bid) THEN price ELSE b.bid

(* gsp_price of position i: against the next position, or the reserve if   *)
(* it is the last.                                                         *)
Price(list, i) ==
  Capped(list[i], IF i < Len(list) THEN PriceToBeat(list[i], list[i + 1]) ELSE Reserve)
=============================================================================
