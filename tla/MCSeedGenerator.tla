--------------------------- MODULE MCSeedGenerator ---------------------------
EXTENDS SeedGenerator

CONSTANTS photo, video, music, long, zor, US, NZ, Young, Older, anyAge, none

(* Cells of 9, 3, 3 and 1 people.                                          *)
MCCountryWeights == <<[of |-> US, weight |-> 3], [of |-> NZ, weight |-> 1]>>
MCBucketWeights == <<[of |-> Young, weight |-> 3], [of |-> Older, weight |-> 1]>>

MCVocabulary == {photo, video, music}
MCPhrases == {<<photo>>, <<photo, video>>}
MCNonsense == {zor}

(* Texts: one word, none, a repeated word, as many as allowed, one too     *)
(* many, and one with too many characters.                                 *)
tooLong == <<long>>
MCLongTexts == {tooLong}
Texts == {<<photo>>, <<>>, <<photo, photo>>, <<photo, video, music>>, tooLong}

Proposal(budget, countries, buckets, text, bid, negative) ==
  [daily_budget |-> budget, countries |-> countries, age_buckets |-> buckets,
   keywords |-> <<[text |-> <<video>>, match_type |-> "broad", max_cpt_bid |-> 1],
                  [text |-> text, match_type |-> "exact", max_cpt_bid |-> bid]>>,
   negative_keywords |-> IF negative = <<video>> THEN <<>>
                         ELSE <<[text |-> negative, match_type |-> "exact"]>>]

Complete == {Proposal(1, co, bu, <<photo>>, 1, <<video>>) :
               co \in {<<NZ>>, <<NZ, NZ>>, <<US, NZ>>, <<US>>},
               bu \in {anyAge, <<Older>>, <<Older, Older>>, <<Young, Older>>, <<Young>>}}

MCProposals ==
  Complete
  \cup {Proposal(1, <<US>>, anyAge, t, bid, n) : t \in Texts, bid \in 0..1, n \in Texts \cup {<<video>>}}
  \cup {Proposal(bg, co, bu, <<photo>>, 1, <<video>>) :
          bg \in {-1, 0}, co \in {<<>>, <<US>>}, bu \in {<<>>, <<Young>>}}
  \cup {Proposal(1, co, bu, <<photo>>, 1, <<video>>) : co \in {<<>>, <<US>>}, bu \in {anyAge, <<>>}}
  \cup {[x EXCEPT !.keywords = <<>>] : x \in Complete}
=============================================================================
