---------------------------- MODULE MCSelectWinner ---------------------------
(* Instances of SelectWinner for TLC: every bid from the reserve up, and   *)
(* relevances that make products and quotients round.                      *)
EXTENDS SelectWinner

MCBidders == [campaign_id : {1, 2, 3}, bid : Reserve..(Reserve + 2), relevance : {1, 2, 3}]
=============================================================================
