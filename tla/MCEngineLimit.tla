---------------------------- MODULE MCEngineLimit ----------------------------
(* The instance of Engine for the real DEBUG_RANKING_LIMIT.                *)
EXTENDS Engine

(* Eleven candidates with the same bid and relevance.                      *)
MCElevenCandidates ==
  {[i \in 1..11 |->
      [campaign_id |-> i, bid |-> 2, relevance |-> 1, active |-> TRUE, countries |-> {"IN"},
       age_buckets |-> AnyAge, audience_size |-> Unmeasured, negative |-> FALSE]]}

MCDebugRequest ==
  {[country |-> "IN", personalized |-> FALSE, age_bucket |-> NoBucket, debug |-> TRUE]}
=============================================================================
