-------------------------- MODULE CampaignValidation --------------------------
(***************************************************************************)
(* validate_campaign (admatch-server/src/validate.rs) and what it calls:   *)
(* the audience size of privacy.rs, with its threshold, and the limits     *)
(* normalize puts on a text.  Every operator is pure.                      *)
(*                                                                         *)
(* A campaign is a record of what validation reads: daily_budget,          *)
(* countries and age_buckets (lists, possibly with repeats, age_buckets    *)
(* possibly AnyAge), keywords (text, max_cpt_bid) and negative_keywords    *)
(* (text).                                                                 *)
(***************************************************************************)
EXTENDS CampaignTexts, FiniteSets, FiniteSetsExt

CONSTANTS
  AnyAge,          \* a campaign without age targeting
  LongTexts,       \* the texts of more than MAX_QUERY_CHARS characters
  MaxQueryTokens,  \* MAX_QUERY_TOKENS
  I64Max           \* the largest i64, smaller in the instances

ASSUME ValidationAssumption ==
  /\ MaxQueryTokens \in Nat \ {0}
  /\ I64Max \in Nat

(***************************************************************************)
(* AudienceCounts: a function from the (country, age bucket) cells set so  *)
(* far to user counts.                                                     *)
(***************************************************************************)
NoCounts == [cell \in {} |-> 0]
Inserted(counts, cell, users) ==
  [c \in DOMAIN counts \cup {cell} |-> IF c = cell THEN users ELSE counts[c]]
UsersIn(counts, cell) == IF cell \in DOMAIN counts THEN counts[cell] ELSE 0

(* Mutant: a country or bucket listed twice is counted twice.              *)
SizeWithRepeats(counts, countries, buckets) ==
  FoldLeft(LAMBDA total, i :
             FoldLeft(LAMBDA t, j : t + UsersIn(counts, <<i, j>>), total, buckets),
           0, countries)

(* audience_size: the sum over distinct cells, stopping at the largest     *)
(* i64.  No count is negative, so only that end saturates.                 *)
AudienceSize(counts, countries, buckets) ==
  LET sum == SumFunction([cell \in ToSet(countries) \X ToSet(buckets) |-> UsersIn(counts, cell)])
  IN  IF sum > I64Max THEN I64Max ELSE sum

(* Mutant: an audience as large as the threshold is enough.                *)
LargeEnoughAt(size, k) == size >= k

(* check_targeting: strictly more than the threshold.                      *)
LargeEnough(size, k) == size > k

(* normalize(text).is_ok()                                                 *)
Normalizes(text) == text \notin LongTexts /\ Len(text) \in 1..MaxQueryTokens

(***************************************************************************)
(* validate_campaign: the first rule broken, in this order, is the answer. *)
(***************************************************************************)
Targeted(c) == c.age_buckets # AnyAge

(* Mutant: the request limits are not applied to keywords.                 *)
HasWords(item) == Len(item.text) > 0

TextAllowed(item) == Normalizes(item.text)

Rules(c, counts, k) == <<
  [code |-> "invalid_budget", broken |-> c.daily_budget <= 0],
  [code |-> "no_countries", broken |-> c.countries = <<>>],
  [code |-> "no_keywords", broken |-> c.keywords = <<>>],
  [code |-> "invalid_keyword",
   broken |-> \E item \in ToSet(c.keywords) \cup ToSet(c.negative_keywords) : ~ TextAllowed(item)],
  [code |-> "invalid_bid", broken |-> \E kw \in ToSet(c.keywords) : kw.max_cpt_bid <= 0],
  [code |-> "empty_age_buckets", broken |-> Targeted(c) /\ c.age_buckets = <<>>],
  [code |-> "audience_too_small",
   broken |-> Targeted(c) /\ ~ LargeEnough(AudienceSize(counts, c.countries, c.age_buckets), k)] >>

Broken(c, counts, k) == {i \in 1..7 : Rules(c, counts, k)[i].broken}

Verdict(c, counts, k) ==
  IF Broken(c, counts, k) = {} THEN "accepted"
  ELSE Rules(c, counts, k)[Min(Broken(c, counts, k))].code

(* Ok(Some(size)) for a targeted campaign, Ok(None) for a contextual one.  *)
SizeToStore(c, counts, unmeasured) ==
  IF Targeted(c) THEN AudienceSize(counts, c.countries, c.age_buckets) ELSE unmeasured
=============================================================================
