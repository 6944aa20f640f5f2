------------------------------ MODULE MCEngine -------------------------------
(* Instances of Engine for TLC.                                            *)
EXTENDS EngineSelection

(* A campaign anyone may see, and one variation per check.                 *)
Open(id, bid, relevance) ==
  [campaign_id |-> id, bid |-> bid, relevance |-> relevance, active |-> TRUE,
   countries |-> {"IN"}, age_buckets |-> AnyAge, audience_size |-> Unmeasured,
   negative |-> FALSE]

Targeted(m, size) == [m EXCEPT !.age_buckets = {"young"}, !.audience_size = size]

Variations(m) ==
  {m, [m EXCEPT !.active = FALSE], [m EXCEPT !.countries = {"US"}],
   [m EXCEPT !.negative = TRUE], Targeted(m, Unmeasured),
   Targeted(m, KTargeting), Targeted(m, KTargeting + 1)}

(* Three matches whose ids are not in rank order; the first two vary, and  *)
(* their bids lie below, at and above the reserve of 2.                    *)
MCMatchLists ==
  {<<m, n, Open(2, 3, 2)>> :
     m \in UNION {Variations(Open(3, b, 2)) : b \in {1, 2, 3}},
     n \in UNION {Variations(Open(1, b, 3)) : b \in {1, 2}}}

MCRequests ==
  [country : {"IN"}, personalized : BOOLEAN, age_bucket : {"young", "old", NoBucket},
   debug : BOOLEAN]
=============================================================================
