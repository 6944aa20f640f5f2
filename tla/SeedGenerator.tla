---------------------------- MODULE SeedGenerator -----------------------------
(***************************************************************************)
(* generate() of admatch-server/src/seedgen.rs: the audience table, then   *)
(* the campaigns, each drawn at random and kept only if it is valid, then  *)
(* the request lines.  A random draw is a choice; a draw that is thrown    *)
(* away and repeated is a step that changes nothing.                       *)
(*                                                                         *)
(* Left out, because no property depends on them: the distributions,       *)
(* names, statuses, and of a request its country, user and age bucket.     *)
(* Bids and budgets are always positive.  A query is the set of its words: *)
(* they are shuffled, and matching ignores order and repeats.              *)
(***************************************************************************)
EXTENDS CampaignValidation

CONSTANTS
  CountryWeights,  \* COUNTRY_WEIGHTS: a sequence of [of, weight]
  BucketWeights,   \* BUCKET_WEIGHTS
  Population,      \* POPULATION
  Vocabulary,      \* VOCABULARY
  Phrases,         \* the texts random_phrase may return: distinct words each
  Nonsense,        \* the words of queries that should match nothing
  KTargetings,     \* the values of --k-targeting
  CampaignDraws,   \* --campaigns
  RequestDraws,    \* --requests
  KeywordCounts,   \* how many keywords a campaign may get (5..20)
  MaxNegatives,    \* negative keywords are drawn at most this often (3)
  MaxTargets,      \* at most so many countries, at most so many buckets (3)
  SmallCountries,  \* the countries and buckets of narrow campaigns
  OlderBuckets,
  Unmeasured       \* no audience size

CountriesWeighed == {w.of : w \in ToSet(CountryWeights)}
BucketsWeighed == {w.of : w \in ToSet(BucketWeights)}
Kinds == {"exact", "broad", "negative", "no_match"}
Codes == {"invalid_budget", "no_countries", "no_keywords", "invalid_keyword",
          "invalid_bid", "empty_age_buckets", "audience_too_small"}

ASSUME GeneratorAssumption ==
  /\ Phrases \subseteq Seq(Vocabulary) \ {<<>>}
  /\ Nonsense \cap Vocabulary = {}
  /\ CampaignDraws \in Nat /\ RequestDraws \in Nat /\ MaxNegatives \in Nat
  /\ KeywordCounts \subseteq Nat
  /\ KTargetings \subseteq Int
  /\ MaxTargets \in Nat \ {0}
  /\ CountryWeights \in Seq(ToSet(CountryWeights))
  /\ BucketWeights \in Seq(ToSet(BucketWeights))

VARIABLES
  stage,            \* "table", "campaigns", "keywords", "negatives",
                    \* "validate", "requests"
  k,                \* --k-targeting
  counts,           \* the audience table
  filled,           \* how many cells are in it
  campaigns,        \* the accepted campaigns
  next_keyword_id,
  rejected,         \* the others, counted by code
  draws,            \* how many campaigns were drawn
  draft,            \* the campaign being drawn
  requests_by_kind,
  line              \* the last request line

table == <<k, counts, filled>>
outcome == <<campaigns, next_keyword_id, rejected>>
requests == <<requests_by_kind, line>>
vars == <<stage, table, outcome, draws, draft, requests>>

NoDraft == [id |-> 0, target |-> 0, keywords |-> <<>>, negative_keywords |-> <<>>,
            daily_budget |-> 1, countries |-> <<>>, age_buckets |-> AnyAge,
            audience_size |-> Unmeasured]
NoLine == [kind |-> "none", campaign |-> 0, keyword |-> 0, words |-> {}]

Init ==
  /\ stage = "table"
  /\ k \in KTargetings
  /\ counts = NoCounts /\ filled = 0
  /\ campaigns = <<>> /\ next_keyword_id = 1
  /\ rejected = [code \in Codes |-> 0]
  /\ draws = 0 /\ draft = NoDraft
  /\ requests_by_kind = [kind \in Kinds |-> 0]
  /\ line = NoLine

(***************************************************************************)
(* audience_cells and audience_table                                       *)
(***************************************************************************)
TotalWeight(weights) == FoldLeft(LAMBDA total, w : total + w.weight, 0, weights)

Cells ==
  FlattenSeq([i \in DOMAIN CountryWeights |-> [j \in DOMAIN BucketWeights |->
    [at |-> <<CountryWeights[i].of, BucketWeights[j].of>>,
     users |-> (Population * CountryWeights[i].weight * BucketWeights[j].weight)
                 \div (TotalWeight(CountryWeights) * TotalWeight(BucketWeights))]]])

(* The whole population is far below the largest i64: no audience that     *)
(* random_campaign may choose stops there.                                 *)
ASSUME PopulationAssumption ==
  \A cell \in ToSet(Cells) : cell.users \in Nat /\ MaxTargets * MaxTargets * cell.users <= I64Max

FillCell ==
  /\ stage = "table"
  /\ filled < Len(Cells)
  /\ filled' = filled + 1
  /\ counts' = Inserted(counts, Cells[filled'].at, Cells[filled'].users)
  /\ UNCHANGED <<stage, k, outcome, draws, draft, requests>>

TableFilled ==
  /\ stage = "table"
  /\ filled = Len(Cells)
  /\ stage' = "campaigns"
  /\ UNCHANGED <<table, outcome, draws, draft, requests>>

(***************************************************************************)
(* random_campaign                                                         *)
(***************************************************************************)

(* Mutant: the id counts the draws, not the accepted campaigns.            *)
StartCountingDraws ==
  /\ stage = "campaigns" /\ draws < CampaignDraws
  /\ \E target \in KeywordCounts :
       draft' = [NoDraft EXCEPT !.id = draws + 1, !.target = target]
  /\ draws' = draws + 1
  /\ stage' = "keywords"
  /\ UNCHANGED <<table, outcome, requests>>

StartCampaign ==
  /\ stage = "campaigns" /\ draws < CampaignDraws
  /\ \E target \in KeywordCounts :
       draft' = [NoDraft EXCEPT !.id = Len(campaigns) + 1, !.target = target]
  /\ draws' = draws + 1
  /\ stage' = "keywords"
  /\ UNCHANGED <<table, outcome, requests>>

(* A text the campaign already has is drawn again.                         *)
AddKeyword ==
  /\ stage = "keywords"
  /\ Len(draft.keywords) < draft.target
  /\ \E text \in Phrases, match_type \in {"exact", "broad"} :
       /\ \A kw \in ToSet(draft.keywords) : kw.text # text
       /\ draft' = [draft EXCEPT !.keywords =
                      Append(@, [id |-> next_keyword_id + Len(@), text |-> text,
                                 match_type |-> match_type, max_cpt_bid |-> 1])]
  /\ UNCHANGED <<stage, table, outcome, draws, requests>>

KeywordsDrawn ==
  /\ stage = "keywords"
  /\ Len(draft.keywords) = draft.target
  /\ stage' = "negatives"
  /\ UNCHANGED <<table, outcome, draws, draft, requests>>

(* Mutant: only whole keyword texts are avoided, not their words.          *)
OwnTexts == {kw.text[1] : kw \in {x \in ToSet(draft.keywords) : Len(x.text) = 1}}

OwnWords == UNION {Words(kw.text) : kw \in ToSet(draft.keywords)}

(* A word of one of its keywords, or one it already blocks, is skipped.    *)
AddNegative ==
  /\ stage = "negatives"
  /\ Len(draft.negative_keywords) < MaxNegatives
  /\ \E word \in Vocabulary \ OwnWords, match_type \in {"exact", "broad"} :
       /\ \A n \in ToSet(draft.negative_keywords) : n.text # <<word>>
       /\ draft' = [draft EXCEPT !.negative_keywords =
                      Append(@, [text |-> <<word>>, match_type |-> match_type])]
  /\ UNCHANGED <<stage, table, outcome, draws, requests>>

NonEmptyUpTo(n, S) == {T \in SUBSET S : Cardinality(T) \in 1..n}

(* Any countries, with or without any age buckets; or one small country    *)
(* and one older bucket.                                                   *)
ChooseAudience ==
  /\ stage = "negatives"
  /\ \/ \E C \in NonEmptyUpTo(MaxTargets, CountriesWeighed) :
          \/ draft' = [draft EXCEPT !.countries = SetToSeq(C)]
          \/ \E B \in NonEmptyUpTo(MaxTargets, BucketsWeighed) :
               draft' = [draft EXCEPT !.countries = SetToSeq(C), !.age_buckets = SetToSeq(B)]
     \/ \E c \in SmallCountries, b \in OlderBuckets :
          draft' = [draft EXCEPT !.countries = <<c>>, !.age_buckets = <<b>>]
  /\ stage' = "validate"
  /\ UNCHANGED <<table, outcome, draws, requests>>

(***************************************************************************)
(* generate: a valid campaign is kept with its audience size and its       *)
(* keyword ids are used up; an invalid one is only counted.                *)
(***************************************************************************)
DraftVerdict == Verdict(draft, counts, k)

(* Mutant: the keyword ids of an accepted campaign are not used up.        *)
AcceptKeepingIds ==
  /\ stage = "validate" /\ DraftVerdict = "accepted"
  /\ campaigns' = Append(campaigns,
       [draft EXCEPT !.audience_size = SizeToStore(draft, counts, Unmeasured)])
  /\ next_keyword_id' = next_keyword_id + 1
  /\ draft' = NoDraft
  /\ stage' = "campaigns"
  /\ UNCHANGED <<table, rejected, draws, requests>>

Accept ==
  /\ stage = "validate" /\ DraftVerdict = "accepted"
  /\ campaigns' = Append(campaigns,
       [draft EXCEPT !.audience_size = SizeToStore(draft, counts, Unmeasured)])
  /\ next_keyword_id' = next_keyword_id + Len(draft.keywords)
  /\ draft' = NoDraft
  /\ stage' = "campaigns"
  /\ UNCHANGED <<table, rejected, draws, requests>>

Reject ==
  /\ stage = "validate" /\ DraftVerdict # "accepted"
  /\ rejected' = [rejected EXCEPT ![DraftVerdict] = @ + 1]
  /\ draft' = NoDraft
  /\ stage' = "campaigns"
  /\ UNCHANGED <<table, campaigns, next_keyword_id, draws, requests>>

CampaignsDrawn ==
  /\ stage = "campaigns" /\ draws = CampaignDraws
  /\ stage' = "requests"
  /\ UNCHANGED <<table, outcome, draws, draft, requests>>

(***************************************************************************)
(* random_requests                                                         *)
(***************************************************************************)
Pool == UNION {{c} \X DOMAIN campaigns[c].keywords : c \in DOMAIN campaigns}
Requested == SumFunction(requests_by_kind)

Emit(kind, c, i, words) ==
  /\ line' = [kind |-> kind, campaign |-> c, keyword |-> i, words |-> words]
  /\ requests_by_kind' = [requests_by_kind EXCEPT ![kind] = @ + 1]

(* Mutant: the words of a request that should match nothing are ordinary.  *)
RequestOrdinary ==
  /\ stage = "requests" /\ Requested < RequestDraws
  /\ \E words \in NonEmptyUpTo(3, Nonsense \cup Vocabulary) : Emit("no_match", 0, 0, words)
  /\ UNCHANGED <<stage, table, outcome, draws, draft>>

(* Also what every kind turns into when there is no keyword to draw.       *)
RequestNothing ==
  /\ stage = "requests" /\ Requested < RequestDraws
  /\ \E words \in NonEmptyUpTo(3, Nonsense) : Emit("no_match", 0, 0, words)
  /\ UNCHANGED <<stage, table, outcome, draws, draft>>

(* A keyword's words; one or two more for a broad request; a negative      *)
(* keyword's word for a negative one, which counts as broad if the         *)
(* campaign has none.                                                      *)
RequestKeyword ==
  /\ stage = "requests" /\ Requested < RequestDraws
  /\ \E at \in Pool :
       LET c == campaigns[at[1]]
           own == Words(c.keywords[at[2]].text)
       IN  \/ Emit("exact", at[1], at[2], own)
           \/ \E more \in NonEmptyUpTo(2, Vocabulary) : Emit("broad", at[1], at[2], own \cup more)
           \/ \E n \in ToSet(c.negative_keywords) :
                Emit("negative", at[1], at[2], own \cup Words(n.text))
           \/ /\ c.negative_keywords = <<>>
              /\ Emit("broad", at[1], at[2], own)
  /\ UNCHANGED <<stage, table, outcome, draws, draft>>

Next ==
  \/ FillCell
  \/ TableFilled
  \/ StartCampaign
  \/ AddKeyword
  \/ KeywordsDrawn
  \/ AddNegative
  \/ ChooseAudience
  \/ Accept
  \/ Reject
  \/ CampaignsDrawn
  \/ RequestNothing
  \/ RequestKeyword

Spec == Init /\ [][Next]_vars

(***************************************************************************)
(* Properties                                                              *)
(***************************************************************************)
TypeOK ==
  /\ stage \in {"table", "campaigns", "keywords", "negatives", "validate", "requests"}
  /\ filled \in 0..Len(Cells)
  /\ draws \in 0..CampaignDraws
  /\ next_keyword_id \in Nat \ {0}
  /\ rejected \in [Codes -> Nat]
  /\ requests_by_kind \in [Kinds -> Nat]

(* Rejections and keywords that were thrown away leave no gap and no       *)
(* duplicate: campaign ids count from 1 in order, keyword ids run on from  *)
(* campaign to campaign, every draw is in the list or counted as rejected, *)
(* and Snapshot::build accepts the file (the test                          *)
(* ids_are_unique_and_contiguous).                                         *)
IdsAreContiguous ==
  /\ \A c \in 1..Len(campaigns) : campaigns[c].id = c
  /\ LET all == KeywordsOf(campaigns)
     IN  /\ \A i \in 1..Len(all) : all[i].id = i
         /\ next_keyword_id = Len(all) + 1
  /\ Buildable(campaigns)
  /\ stage \in {"campaigns", "requests"} =>
       draws = Len(campaigns) + SumFunction(rejected)

(* The people a campaign can single out, counted one by one.               *)
PeopleIn(countries, buckets) ==
  UNION {{cell} \X (1..counts[cell]) :
           cell \in {x \in DOMAIN counts : x[1] \in ToSet(countries) /\ x[2] \in ToSet(buckets)}}

(* An age-targeted campaign in the file reaches more than k people, and    *)
(* the size stored with it is how many (the server trusts that number); a  *)
(* contextual campaign stores none.                                        *)
StoredAudiencesAreTrue ==
  \A c \in ToSet(campaigns) :
    IF c.age_buckets = AnyAge THEN c.audience_size = Unmeasured
    ELSE LET people == Cardinality(PeopleIn(c.countries, c.age_buckets))
         IN  people > k /\ c.audience_size = people

(* No campaign blocks its own keywords: the words of any of its keywords,  *)
(* searched for, match it and none of its negative keywords ("Negative     *)
(* keywords never reuse one of the campaign's own keyword words").         *)
OwnKeywordsStayOpen ==
  \A c \in ToSet(campaigns) : \A kw \in ToSet(c.keywords) :
    /\ MatchesWords(kw, Words(kw.text))
    /\ ~ \E n \in ToSet(c.negative_keywords) : MatchesWords(n, Words(kw.text))

(* A request does what its kind says, as far as random_requests ensures    *)
(* it: an exact one finds its keyword and is not blocked, a broad one      *)
(* finds it if the keyword is broad, one that should match nothing matches *)
(* no campaign at all, and every line is counted under its kind.           *)
RequestsMeanTheirKind ==
  /\ line.kind = "no_match" => \A kw \in ToSet(KeywordsOf(campaigns)) : ~ MatchesWords(kw, line.words)
  /\ line.kind \in {"exact", "broad", "negative"} =>
       LET c == campaigns[line.campaign]
           kw == c.keywords[line.keyword]
       IN  /\ line.kind = "exact" \/ kw.match_type = "broad" => MatchesWords(kw, line.words)
           /\ line.kind = "exact" => ~ \E n \in ToSet(c.negative_keywords) : MatchesWords(n, line.words)
  /\ line.kind \notin {"none", "no_match"} => campaigns # <<>>

(* random_requests: "10% queries that hit a negative keyword".  An exact   *)
(* negative keyword is not hit: the query holds the keyword's words too.   *)
NegativeRequestsAreBlocked ==
  line.kind = "negative" =>
    \E n \in ToSet(campaigns[line.campaign].negative_keywords) : MatchesWords(n, line.words)

(***************************************************************************)
(* validate_campaign, as its callers may use it: on any campaign (the      *)
(* admin API will pass what it is sent) and any table, a partly filled one *)
(* included.                                                               *)
(***************************************************************************)
CONSTANT Proposals

ASSUME ProposalAssumption ==
  \A c \in Proposals :
    /\ c.daily_budget \in Int
    /\ c.countries \in Seq(ToSet(c.countries))
    /\ Targeted(c) => c.age_buckets \in Seq(ToSet(c.age_buckets))
    /\ c.keywords \in Seq(ToSet(c.keywords))
    /\ c.negative_keywords \in Seq(ToSet(c.negative_keywords))
    /\ \A kw \in ToSet(c.keywords) : kw.max_cpt_bid \in Int
    /\ \A item \in ToSet(c.keywords) \cup ToSet(c.negative_keywords) :
         item.text \in Seq(ToSet(item.text)) /\ item.match_type \in {"exact", "broad"}

(* Among complete campaigns the privacy rule refuses exactly those whose   *)
(* targeting reaches k people or fewer, whatever is listed twice, missing  *)
(* from the table, or too large to add up.                                 *)
SmallAudiencesAreRefused ==
  stage = "table" => \A c \in Proposals :
    LET people == Cardinality(PeopleIn(c.countries, c.age_buckets))
    IN  /\ Targeted(c) /\ Verdict(c, counts, k) = "accepted" => people > k
        /\ Verdict(c, counts, k) = "audience_too_small" => people <= k \/ I64Max <= k

(* What is accepted can serve: there is a country, every keyword's own     *)
(* text is a valid query that matches it, and at a positive price; and no  *)
(* negative keyword is dead text.                                          *)
AcceptedCampaignsCanServe ==
  stage = "table" => \A c \in Proposals :
    Verdict(c, counts, k) = "accepted" =>
      /\ c.countries # <<>> /\ c.keywords # <<>> /\ c.daily_budget > 0
      /\ Targeted(c) => c.age_buckets # <<>>
      /\ \A kw \in ToSet(c.keywords) :
           Normalizes(kw.text) /\ MatchesWords(kw, Words(kw.text)) /\ kw.max_cpt_bid > 0
      /\ \A n \in ToSet(c.negative_keywords) : MatchesWords(n, Words(n.text))
=============================================================================
