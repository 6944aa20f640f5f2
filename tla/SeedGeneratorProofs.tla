------------------------- MODULE SeedGeneratorProofs --------------------------
(***************************************************************************)
(* Proofs about the seed generator and validate_campaign, for any weights, *)
(* vocabulary, phrases, thresholds and numbers of draws.                   *)
(***************************************************************************)
EXTENDS SeedGenerator, DataLemmas

(***************************************************************************)
(* Validation.                                                             *)
(***************************************************************************)
LEMMA MinOfRules ==
  ASSUME NEW S, S \subseteq 1..7, S # {}
  PROVE  Min(S) \in S
  <1>1. S \subseteq Nat
    OBVIOUS
  <1>2. \E x \in S : \A y \in S : x <= y
    BY <1>1, LeastNatural
  <1> QED
    BY <1>2 DEF Min

(* The first rule broken gives the verdict, and each rule has its code.    *)
LEMMA VerdictFacts ==
  ASSUME NEW c, NEW sizes, NEW threshold
  PROVE  /\ Verdict(c, sizes, threshold) # "accepted" => Verdict(c, sizes, threshold) \in Codes
         /\ Verdict(c, sizes, threshold) = "accepted" =>
              \A i \in 1..7 : ~ Rules(c, sizes, threshold)[i].broken
         /\ Verdict(c, sizes, threshold) = "audience_too_small" =>
              Rules(c, sizes, threshold)[7].broken
  <1> DEFINE rules == Rules(c, sizes, threshold)
             bad == Broken(c, sizes, threshold)
             verdict == Verdict(c, sizes, threshold)
  <1>1. /\ rules[1].code = "invalid_budget" /\ rules[2].code = "no_countries"
        /\ rules[3].code = "no_keywords" /\ rules[4].code = "invalid_keyword"
        /\ rules[5].code = "invalid_bid" /\ rules[6].code = "empty_age_buckets"
        /\ rules[7].code = "audience_too_small"
    BY DEF Rules
  <1>2. /\ \A i \in 1..7 : rules[i].code \in Codes /\ rules[i].code # "accepted"
        /\ \A i \in 1..7 : rules[i].code = "audience_too_small" => i = 7
    <2> HIDE DEF rules
    <2>1. \A i \in 1..7 : i = 1 \/ i = 2 \/ i = 3 \/ i = 4 \/ i = 5 \/ i = 6 \/ i = 7
      OBVIOUS
    <2> QED
      BY <1>1, <2>1 DEF Codes
  <1>3. bad = {i \in 1..7 : rules[i].broken}
    BY DEF Broken
  <1>4. verdict = IF bad = {} THEN "accepted" ELSE rules[Min(bad)].code
    BY DEF Verdict
  <1>5. bad # {} => Min(bad) \in bad
    BY <1>3, MinOfRules
  <1> HIDE DEF rules, bad, verdict
  <1>6. bad # {} => Min(bad) \in 1..7 /\ rules[Min(bad)].broken
    BY <1>3, <1>5
  <1>7. verdict # "accepted" => verdict \in Codes
    BY <1>2, <1>4, <1>6
  <1>8. verdict = "accepted" => bad = {}
    BY <1>2, <1>4, <1>6
  <1>9. verdict = "audience_too_small" => rules[7].broken
    BY <1>2, <1>4, <1>6
  <1> QED
    BY <1>3, <1>7, <1>8, <1>9 DEF rules, verdict

LEMMA AcceptedBreaksNoRule ==
  ASSUME NEW c, NEW sizes, NEW threshold, Verdict(c, sizes, threshold) = "accepted"
  PROVE  /\ ~ (c.daily_budget <= 0) /\ c.countries # <<>> /\ c.keywords # <<>>
         /\ \A item \in ToSet(c.keywords) \cup ToSet(c.negative_keywords) : TextAllowed(item)
         /\ \A kw \in ToSet(c.keywords) : ~ (kw.max_cpt_bid <= 0)
         /\ Targeted(c) =>
              c.age_buckets # <<>> /\ LargeEnough(AudienceSize(sizes, c.countries, c.age_buckets), threshold)
  <1> DEFINE rules == Rules(c, sizes, threshold)
  <1>1. /\ ~ rules[1].broken /\ ~ rules[2].broken /\ ~ rules[3].broken /\ ~ rules[4].broken
        /\ ~ rules[5].broken /\ ~ rules[6].broken /\ ~ rules[7].broken
    <2> HIDE DEF rules
    <2>1. \A i \in 1..7 : ~ rules[i].broken
      BY VerdictFacts DEF rules
    <2> QED
      BY <2>1
  <1> QED
    BY <1>1 DEF Rules

(***************************************************************************)
(* Audiences.                                                              *)
(***************************************************************************)

(* The table holds counts of people for pairs of a country and a bucket.   *)
TableInv ==
  /\ \A cell \in DOMAIN counts : counts[cell] \in Nat /\ cell = <<cell[1], cell[2]>>

(* The cells an audience adds up are the people it reaches.                *)
LEMMA AudienceIsCount ==
  ASSUME TableInv, NEW countries, NEW buckets,
         IsFiniteSet(ToSet(countries)), IsFiniteSet(ToSet(buckets))
  PROVE  LET cells == ToSet(countries) \X ToSet(buckets)
             sum == SumFunction([cell \in cells |-> UsersIn(counts, cell)])
         IN  /\ sum = Cardinality(PeopleIn(countries, buckets)) /\ sum \in Nat
             /\ AudienceSize(counts, countries, buckets) = (IF sum > I64Max THEN I64Max ELSE sum)
             /\ \A n \in Nat : (\A cell \in DOMAIN counts : counts[cell] <= n) =>
                  sum <= Cardinality(ToSet(countries)) * Cardinality(ToSet(buckets)) * n
  <1> DEFINE A == ToSet(countries)
             B == ToSet(buckets)
             cells == A \X B
             fun == [cell \in cells |-> UsersIn(counts, cell)]
             sum == SumFunction(fun)
             people == PeopleIn(countries, buckets)
  <1>1. IsFiniteSet(cells) /\ Cardinality(cells) = Cardinality(A) * Cardinality(B)
        /\ Cardinality(A) \in Nat /\ Cardinality(B) \in Nat
    BY FS_Product, FS_CardinalityType
  <1>2. \A x \in cells : fun[x] \in Nat
    BY DEF UsersIn, TableInv
  <1>3. sum = SumFunctionOnSet(fun, cells)
    BY DEF SumFunction
  <1>4. Units(fun, cells) = people
    BY DEF Units, PeopleIn, UsersIn, TableInv
  <1>5. sum = Cardinality(people) /\ sum \in Nat
    <2> HIDE DEF fun, cells, sum, people
    <2>1. SumFunctionOnSet(fun, cells) = Cardinality(Units(fun, cells))
      BY <1>1, <1>2, SumIsCount
    <2>2. SumFunctionOnSet(fun, cells) \in Nat
      BY <1>1, <1>2, SumFacts
    <2> QED
      BY <1>3, <1>4, <2>1, <2>2
  <1>6. AudienceSize(counts, countries, buckets) = (IF sum > I64Max THEN I64Max ELSE sum)
    BY DEF AudienceSize
  <1>7. ASSUME NEW n \in Nat, \A cell \in DOMAIN counts : counts[cell] <= n
        PROVE  sum <= Cardinality(A) * Cardinality(B) * n
    <2>1. \A x \in cells : fun[x] <= n
      BY <1>7 DEF UsersIn
    <2> HIDE DEF fun, cells
    <2>2. SumFunctionOnSet(fun, cells) <= Cardinality(cells) * n
      BY <1>1, <1>2, <2>1, SumBound
    <2> QED
      BY <1>1, <1>3, <2>2
  <1> HIDE DEF fun, cells
  <1> QED
    BY <1>5, <1>6, <1>7 DEF fun, cells

LEMMA CellFacts ==
  /\ Len(Cells) \in Nat
  /\ \A n \in 1..Len(Cells) :
       /\ Cells[n].at = <<Cells[n].at[1], Cells[n].at[2]>>
       /\ Cells[n].users \in Nat /\ MaxTargets * MaxTargets * Cells[n].users <= I64Max
  <1> DEFINE I == DOMAIN CountryWeights
             J == DOMAIN BucketWeights
             users(i, j) == (Population * CountryWeights[i].weight * BucketWeights[j].weight)
                              \div (TotalWeight(CountryWeights) * TotalWeight(BucketWeights))
             cell(i, j) == [at |-> <<CountryWeights[i].of, BucketWeights[j].of>>, users |-> users(i, j)]
             X == {cell(i, j) : i \in I, j \in J}
             row(i) == [j \in J |-> cell(i, j)]
             rows == [i \in I |-> row(i)]
  <1>1. /\ I = 1..Len(CountryWeights) /\ Len(CountryWeights) \in Nat
        /\ J = 1..Len(BucketWeights) /\ Len(BucketWeights) \in Nat
    BY GeneratorAssumption
  <1>2. Cells = FlattenSeq(rows)
    BY DEF Cells
  <1>3. \A x \in X : x.at = <<x.at[1], x.at[2]>>
    OBVIOUS
  <1> HIDE DEF users
  <1>4. \A i \in I, j \in J : cell(i, j) \in X
    OBVIOUS
  <1> HIDE DEF I, J, cell, X
  <1>5. \A i \in I : row(i) \in Seq(X)
    BY <1>1, <1>4
  <1> HIDE DEF row
  <1>6. rows \in Seq(Seq(X))
    BY <1>1, <1>5
  <1> HIDE DEF rows
  <1>7. Cells \in Seq(X)
    <2>1. <<>> \in Seq(X)
      OBVIOUS
    <2> QED
      BY <1>2, <1>6, <2>1, FlattenAppend
  <1>8. /\ Len(Cells) \in Nat
        /\ \A n \in 1..Len(Cells) : Cells[n] \in X /\ Cells[n] \in ToSet(Cells)
    BY <1>7 DEF ToSet
  <1> QED
    BY <1>3, <1>8, PopulationAssumption

(***************************************************************************)
(* The inductive invariant.                                                *)
(***************************************************************************)
MatchTypes == {"exact", "broad"}
Keyword == [id : Nat, text : Phrases, match_type : MatchTypes, max_cpt_bid : {1}]
Negative == [text : {<<word>> : word \in Vocabulary}, match_type : MatchTypes]
Countries == CountriesWeighed \cup SmallCountries
Buckets == BucketsWeighed \cup OlderBuckets
Campaign ==
  [id : Nat, target : Nat, keywords : Seq(Keyword), negative_keywords : Seq(Negative),
   daily_budget : {1}, countries : Seq(Countries), age_buckets : Seq(Buckets) \cup {AnyAge},
   audience_size : Nat \cup {Unmeasured}]

Drawing == stage \in {"keywords", "negatives", "validate"}

(* No audience that may be drawn reaches the largest i64.                  *)
CountsInv == TableInv /\ \A cell \in DOMAIN counts : MaxTargets * MaxTargets * counts[cell] <= I64Max

(* The counters fit together: every draw so far is in the list, rejected,  *)
(* or being drawn.                                                         *)
DrawsInv ==
  /\ Drawing => draws >= 1
  /\ draws = Len(campaigns) + SumFunction(rejected) + (IF Drawing THEN 1 ELSE 0)

(* No negative keyword shares a word with a keyword.                       *)
IsOpen(c) ==
  \A kw \in ToSet(c.keywords) : \A n \in ToSet(c.negative_keywords) : Words(n.text) \cap Words(kw.text) = {}

(* Few enough countries, or buckets.                                       *)
IsShort(list) == IsFiniteSet(ToSet(list)) /\ Cardinality(ToSet(list)) <= MaxTargets

DraftInv ==
  /\ draft \in Campaign
  /\ draft.audience_size = Unmeasured
  /\ IsOpen(draft)
  /\ IsShort(draft.countries)
  /\ Targeted(draft) => IsShort(draft.age_buckets)
  /\ \A i \in 1..Len(draft.keywords) : draft.keywords[i].id = next_keyword_id + i - 1
  /\ Drawing => draft.id = Len(campaigns) + 1
  /\ stage = "keywords" => draft.negative_keywords = <<>>

CampaignsInv ==
  /\ campaigns \in Seq(Campaign)
  /\ stage = "table" => campaigns = <<>>
  /\ stage # "requests" => line = NoLine
  /\ \A c \in ToSet(campaigns) : IsOpen(c)
  /\ \A c \in 1..Len(campaigns) : campaigns[c].id = c
  /\ KeywordsOf(campaigns) \in Seq(Keyword)
  /\ \A i \in 1..Len(KeywordsOf(campaigns)) : KeywordsOf(campaigns)[i].id = i
  /\ next_keyword_id = Len(KeywordsOf(campaigns)) + 1
  /\ StoredAudiencesAreTrue
  /\ RequestsMeanTheirKind

GeneratorInv == k \in Int /\ TypeOK /\ CountsInv /\ DrawsInv /\ DraftInv /\ CampaignsInv

LEMMA ShortLists ==
  /\ IsShort(<<>>)
  /\ \A x : IsShort(<<x>>)
  /\ \A S, T : T \in NonEmptyUpTo(MaxTargets, S) /\ IsFiniteSet(S) =>
       SetToSeq(T) \in Seq(S) /\ IsShort(SetToSeq(T))
  <1>1. ToSet(<<>>) = {} 
    BY DEF ToSet
  <1>2. MaxTargets \in Nat \ {0}
    BY GeneratorAssumption
  <1>3. IsShort(<<>>)
    BY <1>1, <1>2, FS_EmptySet DEF IsShort
  <1>4. ASSUME NEW x PROVE IsShort(<<x>>)
    <2>1. ToSet(<<x>>) = {x}
      BY DEF ToSet
    <2>2. IsFiniteSet({x}) /\ Cardinality({x}) = 1
      BY FS_Singleton
    <2> QED
      BY <1>2, <2>1, <2>2 DEF IsShort
  <1>5. ASSUME NEW S, NEW T, T \in NonEmptyUpTo(MaxTargets, S), IsFiniteSet(S)
        PROVE  SetToSeq(T) \in Seq(S) /\ IsShort(SetToSeq(T))
    <2>1. T \subseteq S /\ Cardinality(T) <= MaxTargets
      BY <1>2, <1>5 DEF NonEmptyUpTo
    <2>2. IsFiniteSet(T)
      BY <1>5, <2>1, FS_Subset
    <2>3. SetToSeq(T) \in Seq(T) /\ ToSet(SetToSeq(T)) = T
      BY <2>2, SequenceOfSet
    <2>4. SetToSeq(T) \in Seq(S)
      BY <2>1, <2>3
    <2> QED
      BY <2>1, <2>2, <2>3, <2>4 DEF IsShort
  <1> QED
    BY <1>3, <1>4, <1>5

LEMMA NoDraftFacts ==
  /\ NoDraft \in Campaign /\ NoDraft.keywords = <<>> /\ NoDraft.negative_keywords = <<>>
  /\ NoDraft.audience_size = Unmeasured /\ NoDraft.countries = <<>> /\ ~ Targeted(NoDraft)
  /\ IsOpen(NoDraft)
  <1>1. ToSet(<<>>) = {}
    BY DEF ToSet
  <1>2. <<>> \in Seq(Keyword) /\ <<>> \in Seq(Negative) /\ <<>> \in Seq(Countries)
    OBVIOUS
  <1> QED
    BY <1>1, <1>2 DEF NoDraft, Campaign, Targeted, IsOpen

LEMMA RejectedFacts ==
  ASSUME rejected \in [Codes -> Nat]
  PROVE  /\ IsFiniteSet(Codes) /\ SumFunction(rejected) \in Nat
         /\ SumFunction(rejected) = SumFunctionOnSet(rejected, Codes)
  <1>1. IsFiniteSet(Codes)
    <2> DEFINE list == <<"invalid_budget", "no_countries", "no_keywords", "invalid_keyword",
                         "invalid_bid", "empty_age_buckets", "audience_too_small">>
    <2>1. list \in Seq(Codes) /\ ToSet(list) = Codes
      BY DEF Codes, ToSet
    <2> QED
      BY <2>1, ListIsFinite
  <1>2. SumFunction(rejected) = SumFunctionOnSet(rejected, Codes)
    BY DEF SumFunction
  <1> QED
    BY <1>1, <1>2, SumFacts

LEMMA NothingFlattens == KeywordsOf(<<>>) = <<>>
  BY DEF KeywordsOf, FlattenSeq

LEMMA GeneratorStarts == Init => GeneratorInv
  <1> SUFFICES ASSUME Init PROVE GeneratorInv
    OBVIOUS
  <1> USE DEF Init
  <1>1. TypeOK /\ k \in Int
    BY CellFacts, GeneratorAssumption DEF TypeOK
  <1>2. CountsInv
    BY DEF CountsInv, TableInv, NoCounts
  <1>3. DrawsInv
    <2>1. \A x \in Codes : rejected[x] = 0
      OBVIOUS
    <2>2. SumFunction(rejected) <= Cardinality(Codes) * 0 /\ SumFunction(rejected) \in Nat
      BY <2>1, RejectedFacts, SumBound
    <2>3. Cardinality(Codes) * 0 = 0
      BY RejectedFacts, FS_CardinalityType
    <2> QED
      BY <2>2, <2>3 DEF DrawsInv, Drawing
  <1>4. DraftInv
    BY NoDraftFacts, ShortLists DEF DraftInv, Drawing
  <1>5. CampaignsInv
    <2>1. ToSet(campaigns) = {} /\ Len(campaigns) = 0 /\ campaigns \in Seq(Campaign)
      BY DEF ToSet
    <2>2. /\ KeywordsOf(campaigns) \in Seq(Keyword) /\ Len(KeywordsOf(campaigns)) = 0
          /\ ToSet(KeywordsOf(campaigns)) = {}
      <3> DEFINE all == KeywordsOf(campaigns)
      <3>1. all = <<>>
        BY NothingFlattens
      <3> HIDE DEF all
      <3>2. all \in Seq(Keyword) /\ Len(all) = 0 /\ ToSet(all) = {}
        BY <3>1 DEF ToSet
      <3> QED
        BY <3>2 DEF all
    <2>3. RequestsMeanTheirKind
      BY <2>2 DEF RequestsMeanTheirKind, NoLine
    <2>4. StoredAudiencesAreTrue
      BY <2>1 DEF StoredAudiencesAreTrue
    <2>5. line = NoLine /\ next_keyword_id = 1 /\ campaigns = <<>>
      OBVIOUS
    <2>6. /\ \A c \in 1..Len(campaigns) : campaigns[c].id = c
          /\ \A c \in ToSet(campaigns) : IsOpen(c)
      BY <2>1
    <2>7. /\ \A i \in 1..Len(KeywordsOf(campaigns)) : KeywordsOf(campaigns)[i].id = i
          /\ next_keyword_id = Len(KeywordsOf(campaigns)) + 1
      BY <2>2, <2>5
    <2> HIDE DEF Init
    <2> QED
      BY <2>1, <2>2, <2>3, <2>4, <2>5, <2>6, <2>7 DEF CampaignsInv
  <1> QED
    BY <1>1, <1>2, <1>3, <1>4, <1>5 DEF GeneratorInv

(***************************************************************************)
(* The table, the types and the counters.                                  *)
(***************************************************************************)
LEMMA GeneratorTypes == GeneratorInv /\ [Next]_vars => TypeOK' /\ k' \in Int
  <1> SUFFICES ASSUME GeneratorInv, [Next]_vars PROVE TypeOK' /\ k' \in Int
    OBVIOUS
  <1> USE DEF GeneratorInv, TypeOK, table, outcome, requests
  <1>1. CASE FillCell
    BY <1>1, CellFacts DEF FillCell
  <1>2. CASE StartCampaign
    BY <1>2, GeneratorAssumption DEF StartCampaign
  <1>3. CASE Accept
    <2>1. Len(draft.keywords) \in Nat
      BY DEF DraftInv, Campaign
    <2> QED
      BY <1>3, <2>1 DEF Accept
  <1>4. CASE Reject
    <2>1. DraftVerdict \in Codes
      BY <1>4, VerdictFacts DEF Reject, DraftVerdict
    <2> QED
      BY <1>4, <2>1 DEF Reject
  <1>5. CASE RequestNothing \/ RequestKeyword
    <2>1. \E kind \in Kinds : requests_by_kind' = [requests_by_kind EXCEPT ![kind] = @ + 1]
      BY <1>5 DEF RequestNothing, RequestKeyword, Emit, Kinds
    <2>2. UNCHANGED <<stage, table, outcome, draws, draft>>
      BY <1>5 DEF RequestNothing, RequestKeyword
    <2> QED
      BY <2>1, <2>2
  <1>6. CASE TableFilled \/ AddKeyword \/ KeywordsDrawn \/ AddNegative \/ ChooseAudience \/ CampaignsDrawn
    BY <1>6 DEF TableFilled, AddKeyword, KeywordsDrawn, AddNegative, ChooseAudience, CampaignsDrawn
  <1>7. CASE UNCHANGED vars
    BY <1>7 DEF vars
  <1> QED
    BY <1>1, <1>2, <1>3, <1>4, <1>5, <1>6, <1>7 DEF Next

(* The table does not change any more once it is filled.                   *)
LEMMA TableStands == [Next]_vars /\ stage # "table" => UNCHANGED <<k, counts>>
  BY DEF Next, vars, table, FillCell, TableFilled, StartCampaign, AddKeyword, KeywordsDrawn, AddNegative,
         ChooseAudience, Accept, Reject, CampaignsDrawn, RequestNothing, RequestKeyword

LEMMA CountsAreKept == GeneratorInv /\ [Next]_vars => CountsInv'
  <1> SUFFICES ASSUME GeneratorInv, [Next]_vars PROVE CountsInv'
    OBVIOUS
  <1>1. CASE FillCell
    <2> DEFINE n == filled + 1
               cell == Cells[n].at
               users == Cells[n].users
    <2>1. n \in 1..Len(Cells) /\ counts' = Inserted(counts, cell, users)
      BY <1>1, CellFacts DEF FillCell, GeneratorInv, TypeOK
    <2>2. /\ cell = <<cell[1], cell[2]>> /\ users \in Nat
          /\ MaxTargets * MaxTargets * users <= I64Max
      BY <2>1, CellFacts
    <2> HIDE DEF cell, users
    <2>3. DOMAIN counts' = DOMAIN counts \cup {cell}
      BY <2>1 DEF Inserted
    <2>4. \A x \in DOMAIN counts' : counts'[x] = IF x = cell THEN users ELSE counts[x]
      BY <2>1 DEF Inserted
    <2> QED
      BY <2>2, <2>3, <2>4 DEF GeneratorInv, CountsInv, TableInv
  <1>2. CASE UNCHANGED counts
    BY <1>2 DEF GeneratorInv, CountsInv, TableInv
  <1>3. ~ FillCell => UNCHANGED counts
    BY DEF Next, vars, table, TableFilled, StartCampaign, AddKeyword, KeywordsDrawn, AddNegative,
           ChooseAudience, Accept, Reject, CampaignsDrawn, RequestNothing, RequestKeyword
  <1> QED
    BY <1>1, <1>2, <1>3

LEMMA DrawsAreKept == GeneratorInv /\ [Next]_vars => DrawsInv'
  <1> SUFFICES ASSUME GeneratorInv, [Next]_vars PROVE DrawsInv'
    OBVIOUS
  <1> DEFINE sum == SumFunction(rejected)
  <1>1. draws \in Nat /\ Len(campaigns) \in Nat /\ sum \in Nat /\ rejected \in [Codes -> Nat]
    BY GeneratorAssumption, RejectedFacts DEF GeneratorInv, TypeOK, CampaignsInv
  <1>2. CASE StartCampaign
    BY <1>1, <1>2 DEF StartCampaign, GeneratorInv, DrawsInv, Drawing, outcome
  <1>3. CASE Accept
    <2>1. Len(campaigns') = Len(campaigns) + 1 /\ Drawing /\ ~ Drawing' /\ UNCHANGED <<draws, rejected>>
      BY <1>3 DEF Accept, Drawing, GeneratorInv, CampaignsInv
    <2> QED
      BY <1>1, <2>1 DEF GeneratorInv, DrawsInv
  <1>4. CASE Reject
    <2>1. DraftVerdict \in Codes
      BY <1>4, VerdictFacts DEF Reject, DraftVerdict
    <2>2. PICK code \in Codes : rejected' = [rejected EXCEPT ![code] = @ + 1]
      BY <1>4, <2>1 DEF Reject
    <2> DEFINE new == rejected'
               others == Codes \ {code}
    <2>3. /\ rejected' \in [Codes -> Nat] /\ new[code] = rejected[code] + 1
          /\ \A x \in others : new[x] = rejected[x] /\ rejected[x] \in Nat
      BY <1>1, <2>2
    <2>4. IsFiniteSet(Codes) /\ IsFiniteSet(others)
      BY <1>1, RejectedFacts, FS_RemoveElement
    <2>5. SumFunctionOnSet(rejected, Codes) = rejected[code] + SumFunctionOnSet(rejected, others)
      BY <1>1, <2>4, SumFacts
    <2>6. SumFunctionOnSet(new, Codes) = new[code] + SumFunctionOnSet(new, others)
      <3> HIDE DEF new
      <3> QED
        BY <2>3, <2>4, SumFacts DEF new
    <2>7. SumFunctionOnSet(new, others) = SumFunctionOnSet(rejected, others)
      <3> HIDE DEF new
      <3> QED
        BY <2>3, <2>4, SumsAgree
    <2>8. SumFunctionOnSet(rejected, others) \in Nat /\ rejected[code] \in Nat
      BY <1>1, <2>3, <2>4, SumFacts
    <2>9. sum = SumFunctionOnSet(rejected, Codes) /\ SumFunction(rejected)' = SumFunctionOnSet(new, Codes)
      <3>1. DOMAIN rejected = Codes /\ DOMAIN rejected' = Codes
        BY <1>1, <2>3
      <3> QED
        BY <3>1 DEF SumFunction
    <2>10. SumFunction(rejected)' = sum + 1
      BY <2>3, <2>5, <2>6, <2>7, <2>8, <2>9
    <2>11. Drawing /\ ~ Drawing' /\ UNCHANGED <<draws, campaigns>>
      BY <1>4 DEF Reject, Drawing
    <2> HIDE DEF sum
    <2> QED
      BY <1>1, <2>10, <2>11 DEF GeneratorInv, DrawsInv, sum
  <1>5. CASE FillCell \/ TableFilled \/ AddKeyword \/ KeywordsDrawn \/ AddNegative \/ ChooseAudience
               \/ CampaignsDrawn \/ RequestNothing \/ RequestKeyword \/ UNCHANGED vars
    <2>1. UNCHANGED <<draws, campaigns, rejected>>
      BY <1>5 DEF FillCell, TableFilled, AddKeyword, KeywordsDrawn, AddNegative, ChooseAudience,
                  CampaignsDrawn, RequestNothing, RequestKeyword, vars, outcome
    <2>2. \/ UNCHANGED stage
          \/ stage \notin {"keywords", "negatives", "validate"}
             /\ stage' \notin {"keywords", "negatives", "validate"}
          \/ stage \in {"keywords", "negatives"} /\ stage' \in {"negatives", "validate"}
      BY <1>5 DEF FillCell, TableFilled, AddKeyword, KeywordsDrawn, AddNegative, ChooseAudience,
                  CampaignsDrawn, RequestNothing, RequestKeyword, vars
    <2>3. Drawing' <=> Drawing
      BY <2>2 DEF Drawing
    <2> HIDE DEF sum
    <2>4. (IF Drawing THEN 1 ELSE 0)' = IF Drawing THEN 1 ELSE 0
      BY <2>3
    <2>5. SumFunction(rejected)' = SumFunction(rejected)
      BY <2>1
    <2> QED
      BY <2>1, <2>3, <2>4, <2>5 DEF GeneratorInv, DrawsInv
  <1> QED
    BY <1>2, <1>3, <1>4, <1>5 DEF Next

(***************************************************************************)
(* The campaign being drawn.                                               *)
(***************************************************************************)
LEMMA WeighedAreFinite == IsFiniteSet(CountriesWeighed) /\ IsFiniteSet(BucketsWeighed)
  <1>1. ASSUME NEW weights, weights \in Seq(ToSet(weights)), NEW named,
               named = {w.of : w \in ToSet(weights)}
        PROVE  IsFiniteSet(named)
    <2> DEFINE of == [i \in 1..Len(weights) |-> weights[i].of]
    <2>1. ToSet(weights) = {weights[i] : i \in 1..Len(weights)} /\ Len(weights) \in Nat
      BY <1>1, ListIsFinite
    <2>2. \A i \in 1..Len(weights) : weights[i].of \in named
      BY <1>1, <2>1
    <2>3. of \in Seq(named)
      BY <2>1, <2>2
    <2>4. ToSet(of) = named
      BY <1>1, <2>1 DEF ToSet
    <2> QED
      BY <2>3, <2>4, ListIsFinite
  <1> QED
    BY <1>1, GeneratorAssumption DEF CountriesWeighed, BucketsWeighed

LEMMA DraftIsKept == GeneratorInv /\ [Next]_vars => DraftInv'
  <1> SUFFICES ASSUME GeneratorInv, [Next]_vars PROVE DraftInv'
    OBVIOUS
  <1>1. /\ DraftInv /\ next_keyword_id \in Nat \ {0} /\ Len(campaigns) \in Nat
        /\ draft \in Campaign /\ draft.keywords \in Seq(Keyword)
        /\ draft.negative_keywords \in Seq(Negative)
    BY DEF GeneratorInv, TypeOK, CampaignsInv, DraftInv, Campaign
  <1>2. CASE draft' = NoDraft /\ ~ Drawing'
    <2>1. stage' # "keywords"
      BY <1>2 DEF Drawing
    <2> QED
      BY <1>2, <2>1, NoDraftFacts, ShortLists DEF DraftInv
  <1>3. CASE StartCampaign
    <2>1. PICK target \in KeywordCounts :
            draft' = [NoDraft EXCEPT !.id = Len(campaigns) + 1, !.target = target]
      BY <1>3 DEF StartCampaign
    <2>2. target \in Nat /\ UNCHANGED <<campaigns, next_keyword_id>>
      BY <1>3, GeneratorAssumption DEF StartCampaign, outcome
    <2>3. /\ draft' \in Campaign /\ draft'.keywords = <<>> /\ draft'.negative_keywords = <<>>
          /\ draft'.audience_size = Unmeasured /\ draft'.countries = <<>>
          /\ draft'.age_buckets = NoDraft.age_buckets /\ draft'.id = Len(campaigns) + 1
      <3> DEFINE first == NoDraft
                 n == Len(campaigns) + 1
      <3>1. n \in Nat /\ first \in Campaign /\ first.keywords = <<>> /\ first.negative_keywords = <<>>
            /\ first.audience_size = Unmeasured /\ first.countries = <<>>
        BY <1>1, NoDraftFacts
      <3>2. draft' = [first EXCEPT !.id = n, !.target = target]
        BY <2>1
      <3>3. first.age_buckets = NoDraft.age_buckets
        OBVIOUS
      <3> HIDE DEF first, n
      <3>4. draft' \in Campaign
        BY <2>2, <3>1, <3>2 DEF Campaign
      <3>5. /\ draft'.keywords = first.keywords /\ draft'.negative_keywords = first.negative_keywords
            /\ draft'.audience_size = first.audience_size /\ draft'.countries = first.countries
            /\ draft'.age_buckets = first.age_buckets /\ draft'.id = n
        BY <2>2, <3>1, <3>2 DEF Campaign
      <3> QED
        BY <3>1, <3>3, <3>4, <3>5 DEF n
    <2>4. ToSet(<<>>) = {}
      BY DEF ToSet
    <2>5. IsOpen(draft') /\ ~ Targeted(draft')
      BY <2>3, <2>4, NoDraftFacts DEF IsOpen, Targeted
    <2> QED
      BY <2>2, <2>3, <2>5, ShortLists DEF DraftInv
  <1>4. CASE AddKeyword
    <2>1. PICK text \in Phrases, match_type \in MatchTypes :
            draft' = [draft EXCEPT !.keywords =
                       Append(@, [id |-> next_keyword_id + Len(@), text |-> text,
                                  match_type |-> match_type, max_cpt_bid |-> 1])]
      BY <1>4 DEF AddKeyword, MatchTypes
    <2> DEFINE n == Len(draft.keywords)
               kw == [id |-> next_keyword_id + n, text |-> text,
                      match_type |-> match_type, max_cpt_bid |-> 1]
               list == Append(draft.keywords, kw)
    <2>2. n \in Nat /\ kw \in Keyword /\ kw.id = next_keyword_id + n
      BY <1>1 DEF Keyword
    <2>3. draft' = [draft EXCEPT !.keywords = list]
      BY <2>1
    <2> HIDE DEF kw
    <2>4. list \in Seq(Keyword) /\ Len(list) = n + 1 /\ list[n + 1] = kw
          /\ \A i \in 1..n : list[i] = draft.keywords[i]
      BY <1>1, <2>2
    <2>5. UNCHANGED <<stage, campaigns, next_keyword_id>> /\ stage = "keywords"
      BY <1>4 DEF AddKeyword, outcome
    <2> HIDE DEF list
    <2>6. /\ draft' \in Campaign /\ draft'.keywords = list
          /\ draft'.negative_keywords = draft.negative_keywords
          /\ draft'.audience_size = draft.audience_size /\ draft'.countries = draft.countries
          /\ draft'.age_buckets = draft.age_buckets /\ draft'.id = draft.id
      BY <1>1, <2>3, <2>4 DEF Campaign
    <2>7. draft'.negative_keywords = <<>>
      BY <1>1, <2>5, <2>6 DEF DraftInv
    <2>8. IsOpen(draft')
      <3>1. ToSet(<<>>) = {}
        BY DEF ToSet
      <3> QED
        BY <2>7, <3>1 DEF IsOpen
    <2>9. \A i \in 1..Len(draft'.keywords) : draft'.keywords[i].id = next_keyword_id' + i - 1
      <3>1. ASSUME NEW i \in 1..n + 1 PROVE list[i].id = next_keyword_id + i - 1
        <4>1. CASE i = n + 1
          BY <1>1, <2>2, <2>4, <4>1
        <4>2. CASE i \in 1..n
          BY <1>1, <2>4, <4>2 DEF DraftInv
        <4> QED
          BY <2>2, <4>1, <4>2
      <3> QED
        BY <2>4, <2>5, <2>6, <3>1
    <2>10. Drawing' => draft'.id = Len(campaigns') + 1
      BY <1>1, <2>5, <2>6 DEF DraftInv, Drawing
    <2>11. Targeted(draft') <=> Targeted(draft)
      BY <2>6 DEF Targeted
    <2> QED
      BY <1>1, <2>6, <2>7, <2>8, <2>9, <2>10, <2>11 DEF DraftInv
  <1>5. CASE AddNegative
    <2>1. PICK word \in Vocabulary \ OwnWords, match_type \in MatchTypes :
            draft' = [draft EXCEPT !.negative_keywords =
                       Append(@, [text |-> <<word>>, match_type |-> match_type])]
      BY <1>5 DEF AddNegative, MatchTypes
    <2> DEFINE n == [text |-> <<word>>, match_type |-> match_type]
               list == Append(draft.negative_keywords, n)
    <2>2. n \in Negative /\ n.text = <<word>>
      BY <2>1 DEF Negative
    <2>3. draft' = [draft EXCEPT !.negative_keywords = list]
      BY <2>1
    <2>4. Words(n.text) = {word}
      BY <2>2 DEF Words, ToSet
    <2> HIDE DEF n
    <2>5. list \in Seq(Negative) /\ ToSet(list) = ToSet(draft.negative_keywords) \cup {n}
      BY <1>1, <2>2, AppendedSet
    <2>6. UNCHANGED <<stage, campaigns, next_keyword_id>> /\ stage = "negatives"
      BY <1>5 DEF AddNegative, outcome
    <2> HIDE DEF list
    <2>7. /\ draft' \in Campaign /\ draft'.keywords = draft.keywords
          /\ draft'.negative_keywords = list
          /\ draft'.audience_size = draft.audience_size /\ draft'.countries = draft.countries
          /\ draft'.age_buckets = draft.age_buckets /\ draft'.id = draft.id
      BY <1>1, <2>3, <2>5 DEF Campaign
    <2>8. \A kw \in ToSet(draft.keywords) : Words(n.text) \cap Words(kw.text) = {}
      BY <2>1, <2>4 DEF OwnWords
    <2>9. IsOpen(draft')
      BY <1>1, <2>5, <2>7, <2>8 DEF IsOpen, DraftInv
    <2>10. Targeted(draft') <=> Targeted(draft)
      BY <2>7 DEF Targeted
    <2>11. Drawing' => draft'.id = Len(campaigns') + 1
      BY <1>1, <2>6, <2>7 DEF DraftInv, Drawing
    <2>12. \A i \in 1..Len(draft'.keywords) : draft'.keywords[i].id = next_keyword_id' + i - 1
      BY <1>1, <2>6, <2>7 DEF DraftInv
    <2> QED
      BY <1>1, <2>6, <2>7, <2>9, <2>10, <2>11, <2>12 DEF DraftInv
  <1>6. CASE ChooseAudience
    <2>1. \E C \in Seq(Countries), B \in Seq(Buckets) \cup {AnyAge} :
            /\ draft' = [draft EXCEPT !.countries = C, !.age_buckets = B]
            /\ IsShort(C) /\ (B # AnyAge => IsShort(B))
      <3>1. ASSUME NEW C \in NonEmptyUpTo(MaxTargets, CountriesWeighed)
            PROVE  SetToSeq(C) \in Seq(Countries) /\ IsShort(SetToSeq(C))
        BY <3>1, ShortLists, WeighedAreFinite DEF Countries
      <3>2. ASSUME NEW B \in NonEmptyUpTo(MaxTargets, BucketsWeighed)
            PROVE  SetToSeq(B) \in Seq(Buckets) /\ IsShort(SetToSeq(B))
        BY <3>2, ShortLists, WeighedAreFinite DEF Buckets
      <3>3. CASE \E C \in NonEmptyUpTo(MaxTargets, CountriesWeighed) :
                   draft' = [draft EXCEPT !.countries = SetToSeq(C)]
        <4>1. PICK C \in NonEmptyUpTo(MaxTargets, CountriesWeighed) :
                draft' = [draft EXCEPT !.countries = SetToSeq(C)]
          BY <3>3
        <4> DEFINE list == SetToSeq(C)
        <4>2. list \in Seq(Countries) /\ IsShort(list)
          BY <3>1
        <4> HIDE DEF list
        <4>3. draft' = [draft EXCEPT !.countries = list, !.age_buckets = draft.age_buckets]
          BY <1>1, <4>1 DEF Campaign, list
        <4> QED
          BY <1>1, <4>2, <4>3 DEF DraftInv, Campaign, Targeted
      <3>4. CASE \E C \in NonEmptyUpTo(MaxTargets, CountriesWeighed),
                    B \in NonEmptyUpTo(MaxTargets, BucketsWeighed) :
                   draft' = [draft EXCEPT !.countries = SetToSeq(C), !.age_buckets = SetToSeq(B)]
        BY <3>1, <3>2, <3>4
      <3>5. CASE \E c \in SmallCountries, b \in OlderBuckets :
                   draft' = [draft EXCEPT !.countries = <<c>>, !.age_buckets = <<b>>]
        <4>1. PICK c \in SmallCountries, b \in OlderBuckets :
                draft' = [draft EXCEPT !.countries = <<c>>, !.age_buckets = <<b>>]
          BY <3>5
        <4>2. <<c>> \in Seq(Countries) /\ <<b>> \in Seq(Buckets)
          BY DEF Countries, Buckets
        <4> QED
          BY <4>1, <4>2, ShortLists
      <3> QED
        BY <1>6, <3>3, <3>4, <3>5 DEF ChooseAudience
    <2>2. PICK C \in Seq(Countries), B \in Seq(Buckets) \cup {AnyAge} :
            /\ draft' = [draft EXCEPT !.countries = C, !.age_buckets = B]
            /\ IsShort(C) /\ (B # AnyAge => IsShort(B))
      BY <2>1
    <2>3. UNCHANGED <<campaigns, next_keyword_id>> /\ stage = "negatives" /\ stage' = "validate"
      BY <1>6 DEF ChooseAudience, outcome
    <2>4. /\ draft' \in Campaign /\ draft'.keywords = draft.keywords
          /\ draft'.negative_keywords = draft.negative_keywords
          /\ draft'.audience_size = draft.audience_size /\ draft'.countries = C
          /\ draft'.age_buckets = B /\ draft'.id = draft.id
      BY <1>1, <2>2 DEF Campaign
    <2>5. IsOpen(draft')
      BY <1>1, <2>4 DEF IsOpen, DraftInv
    <2>6. Targeted(draft') => IsShort(draft'.age_buckets)
      BY <2>2, <2>4 DEF Targeted
    <2>7. draft'.id = Len(campaigns') + 1
      BY <1>1, <2>3, <2>4 DEF DraftInv, Drawing
    <2>8. \A i \in 1..Len(draft'.keywords) : draft'.keywords[i].id = next_keyword_id' + i - 1
      BY <1>1, <2>3, <2>4 DEF DraftInv
    <2> QED
      BY <1>1, <2>2, <2>3, <2>4, <2>5, <2>6, <2>7, <2>8 DEF DraftInv
  <1>7. CASE FillCell \/ TableFilled \/ KeywordsDrawn \/ CampaignsDrawn
               \/ RequestNothing \/ RequestKeyword \/ UNCHANGED vars
    <2>1. UNCHANGED <<draft, campaigns, next_keyword_id>>
      BY <1>7 DEF FillCell, TableFilled, KeywordsDrawn, CampaignsDrawn, RequestNothing, RequestKeyword,
                  vars, outcome
    <2>2. (Drawing' => Drawing) /\ (stage' = "keywords" => stage = "keywords")
      BY <1>7 DEF FillCell, TableFilled, KeywordsDrawn, CampaignsDrawn, RequestNothing, RequestKeyword,
                  vars, Drawing
    <2>3. /\ IsOpen(draft') <=> IsOpen(draft)
          /\ Targeted(draft') <=> Targeted(draft)
          /\ IsShort(draft'.countries) <=> IsShort(draft.countries)
          /\ IsShort(draft'.age_buckets) <=> IsShort(draft.age_buckets)
      BY <2>1
    <2> QED
      BY <1>1, <2>1, <2>2, <2>3 DEF DraftInv
  <1>8. Accept \/ Reject => draft' = NoDraft /\ ~ Drawing'
    BY DEF Accept, Reject, Drawing
  <1> QED
    BY <1>2, <1>3, <1>4, <1>5, <1>6, <1>7, <1>8 DEF Next

(***************************************************************************)
(* The accepted campaigns.                                                 *)
(***************************************************************************)
LEMMA KeywordsAppend ==
  ASSUME NEW list \in Seq(Campaign), NEW c \in Campaign
  PROVE  /\ KeywordsOf(list) \in Seq(Keyword)
         /\ KeywordsOf(Append(list, c)) = KeywordsOf(list) \o c.keywords
  <1> DEFINE longer == Append(list, c)
             n == Len(list)
             rows == [i \in DOMAIN list |-> list[i].keywords]
             all == [i \in DOMAIN longer |-> longer[i].keywords]
  <1>1. /\ n \in Nat /\ DOMAIN list = 1..n /\ DOMAIN longer = 1..n + 1 /\ longer[n + 1] = c
        /\ \A i \in 1..n : longer[i] = list[i] /\ list[i] \in Campaign
    OBVIOUS
  <1>2. \A x \in Campaign : x.keywords \in Seq(Keyword)
    BY DEF Campaign
  <1> HIDE DEF n, longer
  <1>3. rows = [i \in 1..n |-> list[i].keywords] /\ all = [i \in 1..n + 1 |-> longer[i].keywords]
    BY <1>1
  <1> HIDE DEF rows, all
  <1> DEFINE Texts == Seq(Keyword)
  <1>4. c.keywords \in Texts /\ \A i \in 1..n : list[i].keywords \in Texts
    BY <1>1, <1>2
  <1> HIDE DEF Texts
  <1>5. rows \in Seq(Texts)
    BY <1>1, <1>3, <1>4
  <1>6. all = Append(rows, c.keywords)
    <2>1. /\ Append(rows, c.keywords) \in Seq(Texts) /\ Len(Append(rows, c.keywords)) = n + 1
          /\ Append(rows, c.keywords)[n + 1] = c.keywords
          /\ \A i \in 1..n : Append(rows, c.keywords)[i] = rows[i]
      BY <1>1, <1>3, <1>4, <1>5
    <2>2. all \in Seq(Texts) /\ Len(all) = n + 1
      BY <1>1, <1>3, <1>4
    <2>3. \A i \in 1..n + 1 : all[i] = Append(rows, c.keywords)[i]
      BY <1>1, <1>3, <2>1
    <2> QED
      BY <2>1, <2>2, <2>3
  <1>7. FlattenSeq(rows) \in Seq(Keyword) /\ FlattenSeq(all) = FlattenSeq(rows) \o c.keywords
    BY <1>4, <1>5, <1>6, FlattenAppend DEF Texts
  <1> QED
    BY <1>7 DEF KeywordsOf, rows, all, longer

LEMMA SmallFactor ==
  ASSUME NEW d \in Nat \ {0}, NEW c \in Nat, NEW q \in Nat, d * c < d * (q + 1)
  PROVE  c <= q
  <1> SUFFICES ASSUME c > q PROVE FALSE
    OBVIOUS
  <1>1. PICK e \in Nat : c = q + 1 + e
    <2>1. c - (q + 1) \in Nat /\ c = q + 1 + (c - (q + 1))
      OBVIOUS
    <2> QED
      BY <2>1
  <1>2. d * c = d * (q + 1) + d * e /\ d * e \in Nat /\ d * (q + 1) \in Nat
    BY <1>1
  <1> QED
    BY <1>2

LEMMA Quotient ==
  ASSUME NEW d \in Nat \ {0}, NEW n \in Nat
  PROVE  \E q \in Nat : d * q <= n /\ n < d * (q + 1)
  <1> DEFINE T == {q \in Nat : n < d * (q + 1)}
  <1>1. n \in T
    <2>1. d - 1 \in Nat /\ d = 1 + (d - 1)
      OBVIOUS
    <2>2. d * (n + 1) = (n + 1) + (d - 1) * (n + 1) /\ (d - 1) * (n + 1) \in Nat
      BY <2>1
    <2> QED
      BY <2>2
  <1>2. PICK q \in T : \A x \in T : q <= x
    BY <1>1, LeastNatural
  <1>3. d * q <= n
    <2>1. CASE q = 0
      BY <2>1
    <2>2. CASE q # 0
      <3>1. q - 1 \in Nat /\ (q - 1) + 1 = q
        BY <2>2
      <3>2. q - 1 \notin T
        BY <1>2, <3>1
      <3>3. ~ (n < d * ((q - 1) + 1))
        BY <3>1, <3>2
      <3>4. d * q \in Nat
        OBVIOUS
      <3> QED
        BY <3>1, <3>3, <3>4
    <2> QED
      BY <2>1, <2>2
  <1> QED
    BY <1>2, <1>3

LEMMA ProductsGrow ==
  ASSUME NEW a \in Nat, NEW b \in Nat, NEW m \in Nat, a <= m, b <= m, NEW q \in Nat
  PROVE  a * b * q <= m * m * q
  <1>1. a * b <= m * b
    <2>1. m = a + (m - a) /\ m - a \in Nat
      OBVIOUS
    <2>2. m * b = a * b + (m - a) * b /\ (m - a) * b \in Nat /\ a * b \in Nat
      BY <2>1
    <2> QED
      BY <2>2
  <1>2. m * b <= m * m
    <2>1. m = b + (m - b) /\ m - b \in Nat
      OBVIOUS
    <2>2. m * m = m * b + m * (m - b) /\ m * (m - b) \in Nat /\ m * b \in Nat
      BY <2>1
    <2> QED
      BY <2>2
  <1> DEFINE x == a * b
             y == m * m
  <1>3. x \in Nat /\ y \in Nat /\ x <= y
    BY <1>1, <1>2
  <1> HIDE DEF x, y
  <1>4. x * q <= y * q
    <2>1. y = x + (y - x) /\ y - x \in Nat
      BY <1>3
    <2>2. y * q = x * q + (y - x) * q /\ (y - x) * q \in Nat /\ x * q \in Nat
      BY <1>3, <2>1
    <2> QED
      BY <2>2
  <1> QED
    BY <1>4 DEF x, y

(* A short audience is measured exactly: it cannot reach the largest i64.  *)
LEMMA ShortAudience ==
  ASSUME CountsInv, NEW countries, NEW buckets, IsShort(countries), IsShort(buckets)
  PROVE  /\ AudienceSize(counts, countries, buckets) = Cardinality(PeopleIn(countries, buckets))
         /\ AudienceSize(counts, countries, buckets) \in Nat
  <1> DEFINE a == Cardinality(ToSet(countries))
             b == Cardinality(ToSet(buckets))
             d == MaxTargets * MaxTargets
             size == Cardinality(PeopleIn(countries, buckets))
  <1>1. a \in Nat /\ b \in Nat /\ a <= MaxTargets /\ b <= MaxTargets /\ MaxTargets \in Nat \ {0}
    BY FS_CardinalityType, GeneratorAssumption DEF IsShort
  <1>2. d \in Nat \ {0}
    BY <1>1
  <1>3. I64Max \in Nat
    BY ValidationAssumption
  <1>4. PICK q \in Nat : d * q <= I64Max /\ I64Max < d * (q + 1)
    BY <1>2, <1>3, Quotient
  <1>5. \A cell \in DOMAIN counts : counts[cell] <= q
    <2> SUFFICES ASSUME NEW cell \in DOMAIN counts PROVE counts[cell] <= q
      OBVIOUS
    <2>1. counts[cell] \in Nat /\ d * counts[cell] <= I64Max
      BY DEF CountsInv, TableInv
    <2> HIDE DEF d
    <2>2. d * counts[cell] < d * (q + 1)
      BY <1>2, <1>3, <1>4, <2>1
    <2> QED
      BY <1>2, <1>4, <2>1, <2>2, SmallFactor
  <1> HIDE DEF a, b, size
  <1>6. /\ size \in Nat /\ size <= a * b * q
        /\ AudienceSize(counts, countries, buckets) = IF size > I64Max THEN I64Max ELSE size
    <2>1. TableInv /\ IsFiniteSet(ToSet(countries)) /\ IsFiniteSet(ToSet(buckets))
      BY DEF CountsInv, IsShort
    <2> DEFINE cells == ToSet(countries) \X ToSet(buckets)
               sum == SumFunction([cell \in cells |-> UsersIn(counts, cell)])
    <2>2. /\ sum = size /\ sum \in Nat
          /\ AudienceSize(counts, countries, buckets) = (IF sum > I64Max THEN I64Max ELSE sum)
          /\ \A n \in Nat : (\A cell \in DOMAIN counts : counts[cell] <= n) => sum <= a * b * n
      BY <2>1, AudienceIsCount DEF a, b, size
    <2> HIDE DEF sum
    <2> QED
      BY <1>4, <1>5, <2>2
  <1>7. a * b * q <= d * q
    BY <1>1, <1>4, ProductsGrow
  <1>8. a * b * q \in Nat /\ d * q \in Nat
    BY <1>1, <1>2, <1>4
  <1>9. size <= I64Max
    <2> HIDE DEF d
    <2> QED
      BY <1>3, <1>4, <1>6, <1>7, <1>8
  <1> QED
    BY <1>3, <1>6, <1>9 DEF size

(* What a request line must mean, of any list, line and index.             *)
LEMMA WordsOfItems ==
  /\ \A kw \in Keyword : Words(kw.text) # {} /\ Words(kw.text) \subseteq Vocabulary
                          /\ kw.match_type \in MatchTypes
  /\ \A n \in Negative : Words(n.text) # {}
  <1>1. ASSUME NEW text \in Phrases PROVE Words(text) # {} /\ Words(text) \subseteq Vocabulary
    <2>1. text \in Seq(Vocabulary) /\ text # <<>>
      BY GeneratorAssumption
    <2>2. Len(text) \in Nat /\ Len(text) # 0
      BY <2>1
    <2>3. 1 \in DOMAIN text
      BY <2>1, <2>2
    <2> QED
      BY <2>1, <2>3 DEF Words, ToSet
  <1>2. ASSUME NEW word PROVE Words(<<word>>) # {}
    BY DEF Words, ToSet
  <1>3. ASSUME NEW kw \in Keyword
        PROVE  Words(kw.text) # {} /\ Words(kw.text) \subseteq Vocabulary /\ kw.match_type \in MatchTypes
    BY <1>1 DEF Keyword
  <1>4. ASSUME NEW n \in Negative PROVE Words(n.text) # {}
    BY <1>2 DEF Negative
  <1> QED
    BY <1>3, <1>4

(* Accepting a campaign keeps the ids running on, and stores its audience. *)
LEMMA AcceptKeepsCampaigns == GeneratorInv /\ Accept => CampaignsInv'
  <1> SUFFICES ASSUME GeneratorInv, Accept PROVE CampaignsInv'
    OBVIOUS
  <1> DEFINE size == SizeToStore(draft, counts, Unmeasured)
             new == [draft EXCEPT !.audience_size = size]
             all == KeywordsOf(campaigns)
             n == Len(campaigns)
             m == Len(all)
  <1>1. /\ CampaignsInv /\ CountsInv /\ DraftInv /\ draft \in Campaign /\ campaigns \in Seq(Campaign)
        /\ n \in Nat /\ all \in Seq(Keyword) /\ m \in Nat
        /\ draft.keywords \in Seq(Keyword) /\ Len(draft.keywords) \in Nat
    <2>1. CampaignsInv /\ CountsInv /\ DraftInv
      BY DEF GeneratorInv
    <2>2. draft \in Campaign /\ campaigns \in Seq(Campaign) /\ all \in Seq(Keyword)
      BY <2>1 DEF CampaignsInv, DraftInv
    <2>3. draft.keywords \in Seq(Keyword)
      BY <2>2 DEF Campaign
    <2>4. n \in Nat /\ m \in Nat /\ Len(draft.keywords) \in Nat
      BY <2>2, <2>3
    <2> QED
      BY <2>1, <2>2, <2>3, <2>4
  <1>2. /\ campaigns' = Append(campaigns, new) /\ next_keyword_id' = next_keyword_id + Len(draft.keywords)
        /\ stage' = "campaigns" /\ stage = "validate" /\ UNCHANGED <<k, counts, line>>
        /\ Verdict(draft, counts, k) = "accepted"
    BY DEF Accept, table, requests, DraftVerdict
  <1>3. /\ Targeted(draft) =>
             /\ size = Cardinality(PeopleIn(draft.countries, draft.age_buckets))
             /\ size \in Nat /\ size > k
        /\ ~ Targeted(draft) => size = Unmeasured
    <2>1. CASE Targeted(draft)
      <3>1. IsShort(draft.countries) /\ IsShort(draft.age_buckets)
        BY <1>1, <2>1 DEF DraftInv
      <3>2. size = AudienceSize(counts, draft.countries, draft.age_buckets)
        BY <2>1 DEF SizeToStore
      <3>3. LargeEnough(AudienceSize(counts, draft.countries, draft.age_buckets), k)
        BY <1>2, <2>1, AcceptedBreaksNoRule
      <3> HIDE DEF size
      <3> QED
        BY <1>1, <2>1, <3>1, <3>2, <3>3, ShortAudience DEF LargeEnough
    <2>2. CASE ~ Targeted(draft)
      BY <2>2 DEF SizeToStore
    <2> QED
      BY <2>1, <2>2
  <1> HIDE DEF size
  <1>4. /\ new \in Campaign /\ new.audience_size = size /\ new.id = n + 1
        /\ new.keywords = draft.keywords /\ new.negative_keywords = draft.negative_keywords
        /\ new.countries = draft.countries /\ new.age_buckets = draft.age_buckets
    <2>1. size \in Nat \cup {Unmeasured}
      BY <1>3
    <2>2. draft.id = n + 1
      BY <1>1, <1>2 DEF DraftInv, Drawing
    <2> QED
      BY <1>1, <2>1, <2>2 DEF Campaign
  <1> HIDE DEF new
  <1>5. campaigns' \in Seq(Campaign) /\ ToSet(campaigns') = ToSet(campaigns) \cup {new}
    BY <1>1, <1>2, <1>4, AppendedSet
  <1>6. Len(campaigns') = n + 1 /\ campaigns'[n + 1] = new /\ \A c \in 1..n : campaigns'[c] = campaigns[c]
    BY <1>1, <1>2, <1>4
  <1>7. KeywordsOf(campaigns)' \in Seq(Keyword) /\ KeywordsOf(campaigns)' = all \o draft.keywords
    <2>1. KeywordsOf(campaigns)' = KeywordsOf(campaigns')
      BY DEF KeywordsOf
    <2>2. KeywordsOf(Append(campaigns, new)) = all \o draft.keywords
      BY <1>1, <1>4, KeywordsAppend
    <2> HIDE DEF all
    <2>3. all \o draft.keywords \in Seq(Keyword)
      BY <1>1
    <2> QED
      BY <1>2, <2>1, <2>2, <2>3
  <1>8. IsOpen(new)
    BY <1>1, <1>4 DEF IsOpen, DraftInv
  <1>9. \A c \in ToSet(campaigns') : IsOpen(c)
    BY <1>1, <1>5, <1>8 DEF CampaignsInv
  <1>10. \A c \in 1..Len(campaigns') : campaigns'[c].id = c
    BY <1>1, <1>4, <1>6 DEF CampaignsInv
  <1>11. /\ \A i \in 1..Len(KeywordsOf(campaigns)') : KeywordsOf(campaigns)'[i].id = i
         /\ next_keyword_id' = Len(KeywordsOf(campaigns)') + 1
    <2> DEFINE both == all \o draft.keywords
               l == Len(draft.keywords)
    <2>1. /\ next_keyword_id = m + 1
          /\ \A i \in 1..m : all[i].id = i
          /\ \A i \in 1..l : draft.keywords[i].id = m + i
      BY <1>1 DEF CampaignsInv, DraftInv
    <2> HIDE DEF all
    <2>2. /\ Len(both) = m + l
          /\ \A i \in 1..m : both[i] = all[i]
          /\ \A i \in m + 1..m + l : both[i] = draft.keywords[i - m] /\ i - m \in 1..l
      BY <1>1
    <2> HIDE DEF both, m, l
    <2>3. \A i \in 1..m + l : both[i].id = i
      <3> SUFFICES ASSUME NEW i \in 1..m + l PROVE both[i].id = i
        OBVIOUS
      <3>1. CASE i \in 1..m
        BY <2>1, <2>2, <3>1
      <3>2. CASE i \in m + 1..m + l
        <4>1. draft.keywords[i - m].id = m + (i - m)
          BY <2>1, <2>2, <3>2
        <4> QED
          BY <1>1, <2>2, <3>2, <4>1
      <3> QED
        BY <1>1, <3>1, <3>2 DEF l
    <2>4. next_keyword_id' = m + l + 1
      <3>1. next_keyword_id' = next_keyword_id + l /\ l \in Nat /\ m \in Nat
        BY <1>1, <1>2 DEF l
      <3> QED
        BY <2>1, <3>1
    <2> QED
      BY <1>7, <2>2, <2>3, <2>4 DEF both
  <1>12. StoredAudiencesAreTrue'
    <2>1. \A countries, buckets : PeopleIn(countries, buckets)' = PeopleIn(countries, buckets)
      BY <1>2 DEF PeopleIn
    <2>2. ASSUME NEW c \in ToSet(campaigns')
          PROVE  IF c.age_buckets = AnyAge THEN c.audience_size = Unmeasured
                 ELSE LET people == Cardinality(PeopleIn(c.countries, c.age_buckets))
                      IN  people > k /\ c.audience_size = people
      <3>1. CASE c \in ToSet(campaigns)
        BY <1>1, <3>1 DEF CampaignsInv, StoredAudiencesAreTrue
      <3>2. CASE c = new
        BY <1>3, <1>4, <3>2 DEF Targeted
      <3> QED
        BY <1>5, <3>1, <3>2
    <2> QED
      BY <1>2, <2>1, <2>2 DEF StoredAudiencesAreTrue
  <1>13. line' = NoLine
    BY <1>1, <1>2 DEF CampaignsInv
  <1>14. RequestsMeanTheirKind'
    BY <1>13 DEF RequestsMeanTheirKind, NoLine
  <1> QED
    BY <1>2, <1>5, <1>7, <1>9, <1>10, <1>11, <1>12, <1>13, <1>14 DEF CampaignsInv

(* A request line means what its kind says, when it is written.            *)
LEMMA RequestsKeepMeaning ==
  GeneratorInv /\ (RequestNothing \/ RequestKeyword) => RequestsMeanTheirKind'
  <1> SUFFICES ASSUME GeneratorInv, RequestNothing \/ RequestKeyword PROVE RequestsMeanTheirKind'
    OBVIOUS
  <1> DEFINE all == KeywordsOf(campaigns)
  <1>1. /\ campaigns \in Seq(Campaign) /\ all \in Seq(Keyword)
        /\ \A c \in ToSet(campaigns) : IsOpen(c)
    BY DEF GeneratorInv, CampaignsInv
  <1>2. UNCHANGED campaigns
    BY DEF RequestNothing, RequestKeyword, outcome
  <1>3. all' = all
    BY <1>2 DEF KeywordsOf
  <1>4. CASE RequestNothing
    <2>1. PICK words \in NonEmptyUpTo(3, Nonsense) : Emit("no_match", 0, 0, words)
      BY <1>4 DEF RequestNothing
    <2>2. line'.kind = "no_match" /\ line'.words = words /\ words \subseteq Nonsense
      BY <2>1 DEF Emit, NonEmptyUpTo
    <2>3. ToSet(all) \subseteq Keyword
      <3> HIDE DEF all
      <3> QED
        BY <1>1, ListIsFinite
    <2> HIDE DEF all
    <2>4. ASSUME NEW kw \in ToSet(all) PROVE ~ MatchesWords(kw, words)
      <3>1. Words(kw.text) # {} /\ Words(kw.text) \cap words = {}
        BY <2>2, <2>3, WordsOfItems, GeneratorAssumption
      <3> QED
        BY <3>1 DEF MatchesWords
    <2> QED
      BY <1>3, <2>2, <2>4 DEF RequestsMeanTheirKind, all
  <1>5. CASE RequestKeyword
    <2> HIDE DEF all
    <2>1. PICK at \in Pool :
            LET c == campaigns[at[1]]
                own == Words(c.keywords[at[2]].text)
            IN  \/ Emit("exact", at[1], at[2], own)
                \/ \E more \in NonEmptyUpTo(2, Vocabulary) : Emit("broad", at[1], at[2], own \cup more)
                \/ \E n \in ToSet(c.negative_keywords) :
                     Emit("negative", at[1], at[2], own \cup Words(n.text))
                \/ /\ c.negative_keywords = <<>>
                   /\ Emit("broad", at[1], at[2], own)
      BY <1>5 DEF RequestKeyword
    <2> DEFINE c == campaigns[at[1]]
               kw == c.keywords[at[2]]
               own == Words(kw.text)
    <2>2. at[1] \in DOMAIN campaigns /\ at[2] \in DOMAIN c.keywords
      BY DEF Pool
    <2>3. c \in Campaign /\ c \in ToSet(campaigns)
      BY <1>1, <2>2 DEF ToSet
    <2>4. c.keywords \in Seq(Keyword) /\ c.negative_keywords \in Seq(Negative)
      <3> HIDE DEF c
      <3> QED
        BY <2>3 DEF Campaign
    <2>5. kw \in Keyword /\ kw \in ToSet(c.keywords) /\ ToSet(c.negative_keywords) \subseteq Negative
      <3> HIDE DEF c
      <3> QED
        BY <2>2, <2>4, ListIsFinite DEF ToSet
    <2>6. \A n \in ToSet(c.negative_keywords) : Words(n.text) # {} /\ Words(n.text) \cap own = {}
      BY <1>1, <2>3, <2>5, WordsOfItems DEF IsOpen
    <2>7. own # {} /\ kw.match_type \in MatchTypes
      BY <2>5, WordsOfItems
    <2>8. PICK kind, words :
            /\ kind \in {"exact", "broad", "negative"} /\ Emit(kind, at[1], at[2], words)
            /\ own \subseteq words /\ (kind = "exact" => words = own)
      <3>1. CASE Emit("exact", at[1], at[2], own)
        BY <3>1
      <3>2. CASE Emit("broad", at[1], at[2], own)
        BY <3>2
      <3>3. CASE \E more : Emit("broad", at[1], at[2], own \cup more)
        <4>1. PICK more : Emit("broad", at[1], at[2], own \cup more)
          BY <3>3
        <4>2. own \subseteq own \cup more
          OBVIOUS
        <4> QED
          BY <4>1, <4>2
      <3>4. CASE \E n : Emit("negative", at[1], at[2], own \cup Words(n.text))
        <4>1. PICK n : Emit("negative", at[1], at[2], own \cup Words(n.text))
          BY <3>4
        <4>2. own \subseteq own \cup Words(n.text)
          OBVIOUS
        <4> QED
          BY <4>1, <4>2
      <3> QED
        BY <2>1, <3>1, <3>2, <3>3, <3>4
    <2>9. line' = [kind |-> kind, campaign |-> at[1], keyword |-> at[2], words |-> words]
      BY <2>8 DEF Emit
    <2>10. campaigns'[line'.campaign] = c /\ campaigns' # <<>>
      BY <1>2, <2>2, <2>9
    <2>11. c.keywords[line'.keyword] = kw
      BY <2>9
    <2> HIDE DEF c, kw
    <2>12. kind = "exact" \/ kw.match_type = "broad" => MatchesWords(kw, words)
      BY <2>7, <2>8 DEF MatchesWords, MatchTypes
    <2>13. kind = "exact" => ~ \E n \in ToSet(c.negative_keywords) : MatchesWords(n, words)
      BY <2>6, <2>7, <2>8 DEF MatchesWords
    <2>14. line'.kind = kind /\ line'.words = words /\ kind # "no_match"
      BY <2>8, <2>9
    <2> QED
      BY <2>10, <2>11, <2>12, <2>13, <2>14 DEF RequestsMeanTheirKind
  <1> QED
    BY <1>4, <1>5

LEMMA CampaignsAreKept == GeneratorInv /\ [Next]_vars => CampaignsInv'
  <1> SUFFICES ASSUME GeneratorInv, [Next]_vars PROVE CampaignsInv'
    OBVIOUS
  <1>1. CampaignsInv
    BY DEF GeneratorInv
  <1>2. CASE Accept
    BY <1>2, AcceptKeepsCampaigns
  <1>3. CASE ~ Accept
    <2>1. UNCHANGED <<campaigns, next_keyword_id>>
      BY <1>3 DEF Next, vars, outcome, FillCell, TableFilled, StartCampaign, AddKeyword, KeywordsDrawn,
                  AddNegative, ChooseAudience, Reject, CampaignsDrawn, RequestNothing, RequestKeyword
    <2>2. stage' = "table" => stage = "table"
      BY <1>3 DEF Next, vars, FillCell, TableFilled, StartCampaign, AddKeyword, KeywordsDrawn,
                  AddNegative, ChooseAudience, Reject, CampaignsDrawn, RequestNothing, RequestKeyword
    <2>3. \/ RequestNothing \/ RequestKeyword
          \/ UNCHANGED line /\ (stage' # "requests" => stage # "requests")
      BY <1>3 DEF Next, vars, requests, FillCell, TableFilled, StartCampaign, AddKeyword, KeywordsDrawn,
                  AddNegative, ChooseAudience, Reject, CampaignsDrawn
    <2>4. RequestNothing \/ RequestKeyword => stage' = "requests"
      BY DEF RequestNothing, RequestKeyword
    <2>5. stage' # "requests" => line' = NoLine
      BY <1>1, <2>3, <2>4 DEF CampaignsInv
    <2>6. KeywordsOf(campaigns)' = KeywordsOf(campaigns)
      BY <2>1 DEF KeywordsOf
    <2>7. RequestsMeanTheirKind'
      <3>1. CASE RequestNothing \/ RequestKeyword
        BY <3>1, RequestsKeepMeaning
      <3>2. CASE UNCHANGED line
        BY <1>1, <2>1, <2>6, <3>2 DEF CampaignsInv, RequestsMeanTheirKind
      <3> QED
        BY <2>3, <3>1, <3>2
    <2>8. StoredAudiencesAreTrue'
      <3>1. CASE stage = "table"
        <4>1. ToSet(campaigns') = {}
          BY <1>1, <2>1, <3>1 DEF CampaignsInv, ToSet
        <4> QED
          BY <4>1 DEF StoredAudiencesAreTrue
      <3>2. CASE stage # "table"
        <4>1. UNCHANGED <<k, counts>>
          BY <3>2, TableStands
        <4>2. \A countries, buckets : PeopleIn(countries, buckets)' = PeopleIn(countries, buckets)
          BY <4>1 DEF PeopleIn
        <4> QED
          BY <1>1, <2>1, <4>1, <4>2 DEF CampaignsInv, StoredAudiencesAreTrue
      <3> QED
        BY <3>1, <3>2
    <2>9. \A c \in ToSet(campaigns') : IsOpen(c)
      BY <1>1, <2>1 DEF CampaignsInv
    <2> QED
      BY <1>1, <2>1, <2>2, <2>5, <2>6, <2>7, <2>8, <2>9 DEF CampaignsInv
  <1> QED
    BY <1>2, <1>3

(***************************************************************************)
(* The theorems.                                                           *)
(***************************************************************************)

(* The generator's table, counters, draft, campaigns and request line fit  *)
(* together in every state, whatever is drawn.                             *)
THEOREM GeneratorInvariance == Spec => []GeneratorInv
  <1>1. GeneratorInv /\ [Next]_vars => GeneratorInv'
    BY GeneratorTypes, CountsAreKept, DrawsAreKept, DraftIsKept, CampaignsAreKept DEF GeneratorInv
  <1> QED
    BY GeneratorStarts, <1>1, PTL DEF Spec

(* Campaign and keyword ids run on without a gap or a repeat, whatever was *)
(* rejected or drawn again in between, and every draw is kept or counted.  *)
THEOREM IdsRunOn == Spec => []IdsAreContiguous
  <1>1. GeneratorInv => IdsAreContiguous
    <2> SUFFICES ASSUME GeneratorInv PROVE IdsAreContiguous
      OBVIOUS
    <2> DEFINE all == KeywordsOf(campaigns)
    <2>1. /\ \A c \in 1..Len(campaigns) : campaigns[c].id = c
          /\ \A i \in 1..Len(all) : all[i].id = i
          /\ next_keyword_id = Len(all) + 1
      BY DEF GeneratorInv, CampaignsInv
    <2>2. stage \in {"campaigns", "requests"} => draws = Len(campaigns) + SumFunction(rejected)
      <3>1. Len(campaigns) \in Nat /\ SumFunction(rejected) \in Nat
        BY RejectedFacts DEF GeneratorInv, CampaignsInv, TypeOK
      <3> QED
        BY <3>1 DEF GeneratorInv, DrawsInv, Drawing
    <2> HIDE DEF all
    <2>3. HasUniqueIds(campaigns) /\ HasUniqueIds(all)
      BY <2>1 DEF HasUniqueIds
    <2> QED
      BY <2>1, <2>2, <2>3 DEF IdsAreContiguous, Buildable, all
  <1> QED
    BY GeneratorInvariance, <1>1, PTL

(* The size stored with an age-targeted campaign is the number of people   *)
(* it reaches, and above the threshold.                                    *)
THEOREM StoredSizesAreTrue == Spec => []StoredAudiencesAreTrue
  <1>1. GeneratorInv => StoredAudiencesAreTrue
    BY DEF GeneratorInv, CampaignsInv
  <1> QED
    BY GeneratorInvariance, <1>1, PTL

(* No campaign's negative keywords block its own keywords' texts.          *)
THEOREM KeywordsStayOpen == Spec => []OwnKeywordsStayOpen
  <1>1. GeneratorInv => OwnKeywordsStayOpen
    <2> SUFFICES ASSUME GeneratorInv, NEW c \in ToSet(campaigns), NEW kw \in ToSet(c.keywords)
                 PROVE  /\ MatchesWords(kw, Words(kw.text))
                        /\ ~ \E n \in ToSet(c.negative_keywords) : MatchesWords(n, Words(kw.text))
      BY DEF OwnKeywordsStayOpen
    <2>1. c \in Campaign /\ IsOpen(c)
      BY ListIsFinite DEF GeneratorInv, CampaignsInv
    <2>2. c.keywords \in Seq(Keyword) /\ c.negative_keywords \in Seq(Negative)
      BY <2>1 DEF Campaign
    <2>3. kw \in Keyword /\ ToSet(c.negative_keywords) \subseteq Negative
      BY <2>2, ListIsFinite
    <2>4. Words(kw.text) # {} /\ kw.match_type \in MatchTypes
      BY <2>3, WordsOfItems
    <2>5. \A n \in ToSet(c.negative_keywords) : Words(n.text) # {} /\ Words(n.text) \cap Words(kw.text) = {}
      BY <2>1, <2>3, WordsOfItems DEF IsOpen
    <2> QED
      BY <2>4, <2>5 DEF MatchesWords, MatchTypes
  <1> QED
    BY GeneratorInvariance, <1>1, PTL

(* Every request line finds, or misses, what its kind promises.            *)
THEOREM RequestsDoAsTheySay == Spec => []RequestsMeanTheirKind
  <1>1. GeneratorInv => RequestsMeanTheirKind
    BY DEF GeneratorInv, CampaignsInv
  <1> QED
    BY GeneratorInvariance, <1>1, PTL

(* On every state of the table, validate_campaign accepts an age-targeted  *)
(* campaign only if it reaches more than k people, and refuses one as too  *)
(* small only if it does not, or if sizes cannot exceed the threshold.     *)
THEOREM ValidationKeepsPrivacy == Spec => []SmallAudiencesAreRefused
  <1>1. GeneratorInv => SmallAudiencesAreRefused
    <2> SUFFICES ASSUME GeneratorInv, NEW c \in Proposals
                 PROVE  LET people == Cardinality(PeopleIn(c.countries, c.age_buckets))
                        IN  /\ Targeted(c) /\ Verdict(c, counts, k) = "accepted" => people > k
                            /\ Verdict(c, counts, k) = "audience_too_small" => people <= k \/ I64Max <= k
      BY DEF SmallAudiencesAreRefused
    <2> DEFINE people == Cardinality(PeopleIn(c.countries, c.age_buckets))
               size == AudienceSize(counts, c.countries, c.age_buckets)
    <2>1. /\ Verdict(c, counts, k) = "accepted" /\ Targeted(c) => size > k
          /\ Verdict(c, counts, k) = "audience_too_small" => Targeted(c) /\ ~ (size > k)
      <3>1. Verdict(c, counts, k) = "accepted" /\ Targeted(c) => LargeEnough(size, k)
        BY AcceptedBreaksNoRule
      <3>2. Verdict(c, counts, k) = "audience_too_small" => Rules(c, counts, k)[7].broken
        BY VerdictFacts
      <3>3. Rules(c, counts, k)[7].broken => Targeted(c) /\ ~ LargeEnough(size, k)
        BY DEF Rules
      <3> HIDE DEF size
      <3> QED
        BY <3>1, <3>2, <3>3 DEF LargeEnough
    <2>2. Targeted(c) => people \in Nat /\ size = IF people > I64Max THEN I64Max ELSE people
      <3> SUFFICES ASSUME Targeted(c) PROVE people \in Nat /\ size = IF people > I64Max THEN I64Max ELSE people
        OBVIOUS
      <3>1. IsFiniteSet(ToSet(c.countries)) /\ IsFiniteSet(ToSet(c.age_buckets))
        BY ProposalAssumption, ListIsFinite
      <3> DEFINE cells == ToSet(c.countries) \X ToSet(c.age_buckets)
                 sum == SumFunction([cell \in cells |-> UsersIn(counts, cell)])
      <3>2. /\ sum = people /\ sum \in Nat
            /\ size = (IF sum > I64Max THEN I64Max ELSE sum)
        BY <3>1, AudienceIsCount DEF GeneratorInv, CountsInv
      <3> HIDE DEF sum, people, size
      <3> QED
        BY <3>2
    <2>3. k \in Int /\ I64Max \in Nat
      BY ValidationAssumption DEF GeneratorInv
    <2> HIDE DEF people, size
    <2>4. /\ Targeted(c) /\ Verdict(c, counts, k) = "accepted" => people > k
          /\ Verdict(c, counts, k) = "audience_too_small" => people <= k \/ I64Max <= k
      BY <2>1, <2>2, <2>3
    <2> QED
      BY <2>4 DEF people
  <1> QED
    BY GeneratorInvariance, <1>1, PTL

(* What validate_campaign accepts, of any campaigns and with any table,    *)
(* can serve: each keyword's own text is a valid query that finds it at a  *)
(* positive price, and no negative keyword is dead text.                   *)
THEOREM AcceptedCanServe == Spec => []AcceptedCampaignsCanServe
  <1>1. AcceptedCampaignsCanServe
    <2> SUFFICES ASSUME NEW c \in Proposals, Verdict(c, counts, k) = "accepted"
                 PROVE  /\ c.countries # <<>> /\ c.keywords # <<>> /\ c.daily_budget > 0
                        /\ Targeted(c) => c.age_buckets # <<>>
                        /\ \A kw \in ToSet(c.keywords) :
                             Normalizes(kw.text) /\ MatchesWords(kw, Words(kw.text)) /\ kw.max_cpt_bid > 0
                        /\ \A n \in ToSet(c.negative_keywords) : MatchesWords(n, Words(n.text))
      BY DEF AcceptedCampaignsCanServe
    <2>1. /\ ~ (c.daily_budget <= 0) /\ c.countries # <<>> /\ c.keywords # <<>>
          /\ \A item \in ToSet(c.keywords) \cup ToSet(c.negative_keywords) : TextAllowed(item)
          /\ \A kw \in ToSet(c.keywords) : ~ (kw.max_cpt_bid <= 0)
          /\ Targeted(c) => c.age_buckets # <<>>
      BY AcceptedBreaksNoRule
    <2>2. c.daily_budget \in Int /\ \A kw \in ToSet(c.keywords) : kw.max_cpt_bid \in Int
      BY ProposalAssumption
    <2>3. ASSUME NEW item \in ToSet(c.keywords) \cup ToSet(c.negative_keywords)
          PROVE  Normalizes(item.text) /\ MatchesWords(item, Words(item.text))
      <3>1. item.text \in Seq(ToSet(item.text)) /\ item.match_type \in {"exact", "broad"}
        BY ProposalAssumption
      <3>2. Normalizes(item.text) /\ Len(item.text) \in 1..MaxQueryTokens
        BY <2>1 DEF TextAllowed, Normalizes
      <3>3. 1 \in DOMAIN item.text
        BY <3>1, <3>2, ValidationAssumption
      <3>4. Words(item.text) # {}
        BY <3>3 DEF Words, ToSet
      <3> QED
        BY <3>1, <3>2, <3>4 DEF MatchesWords
    <2> QED
      BY <2>1, <2>2, <2>3
  <1> QED
    BY <1>1, PTL
=============================================================================
