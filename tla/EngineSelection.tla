--------------------------- MODULE EngineSelection ---------------------------
(***************************************************************************)
(* The call Snapshot::run makes to select_winner: Engine implements        *)
(* SelectWinner.                                                           *)
(***************************************************************************)
EXTENDS Engine

CONSTANT LongestList   \* no list of matches is longer

ASSUME LongestAssumption ==
  LongestList \in Nat /\ \A list \in MatchLists : Len(list) <= LongestList

(* run gives select_winner what it expects, a ranked list of bids at or    *)
(* above the reserve with one entry per campaign, and charges nobody       *)
(* outside that walk.                                                      *)
AsBidder(m) == [campaign_id |-> m.campaign_id, bid |-> m.bid, relevance |-> m.relevance]
Ranked == IF stage = "filter" THEN <<>> ELSE [i \in 1..Len(eligible) |-> AsBidder(eligible[i])]
AllBidders ==
  {b \in {AsBidder(m) : m \in UNION {ToSet(list) : list \in MatchLists}} : b.bid >= Reserve}

Walk == INSTANCE SelectWinner WITH
  Bidders <- AllBidders,
  MaxCandidates <- LongestList,
  ranked <- Ranked

ImplementsSelectWinner == Walk!Spec
=============================================================================
