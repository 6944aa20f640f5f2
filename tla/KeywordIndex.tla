---------------------------- MODULE KeywordIndex -----------------------------
(***************************************************************************)
(* The inverted keyword index of admatch-core/src/index.rs: built once     *)
(* from the campaigns (after Snapshot::build has checked their ids), then  *)
(* asked for the best keyword of every campaign that matches a query, and  *)
(* for the campaigns whose negative keywords match it.                     *)
(*                                                                         *)
(* A token id is a word's position in the vocabulary.  Hits are offered in *)
(* any order: best_matches walks a HashMap.                                *)
(***************************************************************************)
EXTENDS CampaignTexts, FiniteSets

CONSTANTS
  Corpora,     \* the campaign lists a snapshot may be built from
  QueryTexts,  \* normalised queries: non-empty sequences of words
  MaxTokenId   \* the largest TokenId: u32::MAX, smaller in the instances

ASSUME KeywordIndexAssumption ==
  /\ MaxTokenId \in Nat
  /\ \A text \in QueryTexts : text \in Seq(Words(text)) \ {<<>>}
  /\ \A list \in Corpora : list \in Seq(ToSet(list)) /\ \A c \in ToSet(list) :
       /\ c.keywords \in Seq(ToSet(c.keywords)) /\ c.negatives \in Seq(ToSet(c.negatives))
       /\ \A item \in ToSet(c.keywords) \cup ToSet(c.negatives) :
            item.text \in Seq(Words(item.text)) /\ item.match_type \in {"exact", "broad"}
       /\ \A kw \in ToSet(c.keywords) : kw.id \in Int /\ kw.bid \in Int

ExactRelevance == 10000
BroadWeight == 7000
MinRelevance == 1

VARIABLES
  campaigns,  \* the list the snapshot is built from
  pc,         \* "check", "build", "rejected", "ready", "prepared", "offering"
  at,         \* build: the campaign and the keyword (then negative) it is at
  vocab,      \* the words interned so far
  keywords,   \* every indexed keyword, with its token ids
  exact,      \* the exact keywords: token set and position, in insertion order
  broad,      \* the posting lists: token and position, in insertion order
  negatives,  \* per campaign, its negatives with their token ids
  query,      \* the query's words
  known,      \* the ids of its words that are in the vocabulary
  offers,     \* positions whose hits are complete, not yet offered
  best        \* per campaign, its best match so far

index == <<vocab, keywords, exact, broad, negatives>>
asking == <<query, known, offers, best>>
vars == <<campaigns, pc, at, index, asking>>

NoMatch == [keyword_id |-> 0, match_type |-> "none", bid |-> 0, relevance |-> 0]

IdsIn(v, text) == {i \in 1..Len(v) : v[i] \in Words(text)}

(***************************************************************************)
(* Relevance and preference.                                               *)
(***************************************************************************)
Clamp(x, low, high) == IF x < low THEN low ELSE IF x > high THEN high ELSE x
BroadRelevance(kw, q) == Clamp((BroadWeight * kw) \div q, MinRelevance, BroadWeight)

(* A negative bid scores 0.                                                *)
MatchScore(m) == (IF m.bid < 0 THEN 0 ELSE m.bid) * m.relevance

Beats(m, other) ==
  \/ MatchScore(m) > MatchScore(other)
  \/ MatchScore(m) = MatchScore(other) /\ m.bid > other.bid
  \/ MatchScore(m) = MatchScore(other) /\ m.bid = other.bid /\ m.keyword_id < other.keyword_id

Init ==
  /\ campaigns \in Corpora
  /\ pc = "check"
  /\ at = [campaign |-> 1, item |-> 1]
  /\ vocab = <<>> /\ keywords = <<>> /\ exact = <<>> /\ broad = <<>> /\ negatives = <<>>
  /\ query = <<>> /\ known = {} /\ offers = {} /\ best = <<>>

(***************************************************************************)
(* Snapshot::build: ids are unique, or there is no snapshot.               *)
(***************************************************************************)
CheckIds ==
  /\ pc = "check"
  /\ pc' = IF Buildable(campaigns) THEN "build" ELSE "rejected"
  /\ UNCHANGED <<campaigns, at, index, asking>>

(***************************************************************************)
(* KeywordIndex::build                                                     *)
(***************************************************************************)

(* Mutant: a known word gets a new id.                                     *)
InternedAgain(text) == vocab \o text

(* intern_set: each new word gets the next id.  The id is computed, and    *)
(* may be refused, before the word is looked up.                           *)
Interned(text) ==
  FoldLeft(LAMBDA v, w : IF Contains(v, w) THEN v ELSE Append(v, w), vocab, text)
InternFails(text) ==
  \E n \in 1..Len(text) : Len(Interned(SubSeq(text, 1, n - 1))) > MaxTokenId

Building == pc = "build" /\ at.campaign <= Len(campaigns)
Items == LET c == campaigns[at.campaign] IN c.keywords \o c.negatives
AtKeyword == at.item <= Len(campaigns[at.campaign].keywords)

(* More words than token ids: build returns an error.                      *)
VocabularyFull ==
  /\ Building
  /\ at.item <= Len(Items)
  /\ InternFails(Items[at.item].text)
  /\ pc' = "rejected"
  /\ UNCHANGED <<campaigns, at, index, asking>>

(* A keyword without any token is skipped.                                 *)
AddKeyword ==
  /\ Building
  /\ at.item <= Len(Items) /\ AtKeyword
  /\ LET item == Items[at.item]
         tokens == IdsIn(Interned(item.text), item.text)
         pos == Len(keywords) + 1
     IN  /\ ~ InternFails(item.text)
         /\ vocab' = Interned(item.text)
         /\ IF tokens = {}
            THEN UNCHANGED <<keywords, exact, broad>>
            ELSE /\ keywords' = Append(keywords,
                      [campaign |-> at.campaign, id |-> item.id, bid |-> item.bid,
                       match_type |-> item.match_type, tokens |-> tokens])
                 /\ exact' = IF item.match_type = "exact"
                             THEN Append(exact, [tokens |-> tokens, pos |-> pos])
                             ELSE exact
                 /\ broad' = IF item.match_type = "broad"
                             THEN broad \o SetToSeq({[token |-> t, pos |-> pos] : t \in tokens})
                             ELSE broad
  /\ at' = [at EXCEPT !.item = @ + 1]
  /\ UNCHANGED <<campaigns, pc, negatives, asking>>

NegativesSoFar == IF Len(negatives) = at.campaign THEN negatives[at.campaign] ELSE <<>>

(* So is a negative: as a broad one it would block every query.            *)
AddNegative ==
  /\ Building
  /\ at.item <= Len(Items) /\ ~ AtKeyword
  /\ LET item == Items[at.item]
         tokens == IdsIn(Interned(item.text), item.text)
         kept == IF tokens = {} THEN NegativesSoFar
                 ELSE Append(NegativesSoFar, [match_type |-> item.match_type, tokens |-> tokens])
     IN  /\ ~ InternFails(item.text)
         /\ vocab' = Interned(item.text)
         /\ negatives' = Append(SubSeq(negatives, 1, at.campaign - 1), kept)
  /\ at' = [at EXCEPT !.item = @ + 1]
  /\ UNCHANGED <<campaigns, pc, keywords, exact, broad, asking>>

NextCampaign ==
  /\ Building
  /\ at.item > Len(Items)
  /\ negatives' = Append(SubSeq(negatives, 1, at.campaign - 1), NegativesSoFar)
  /\ at' = [campaign |-> at.campaign + 1, item |-> 1]
  /\ UNCHANGED <<campaigns, pc, vocab, keywords, exact, broad, asking>>

Built ==
  /\ pc = "build"
  /\ at.campaign > Len(campaigns)
  /\ pc' = "ready"
  /\ UNCHANGED <<campaigns, at, index, asking>>

(***************************************************************************)
(* prepare and best_matches                                                *)
(***************************************************************************)
Prepare ==
  /\ pc = "ready"
  /\ \E text \in QueryTexts :
       /\ query' = text
       /\ known' = IdsIn(vocab, text)
  /\ best' = [c \in 1..Len(campaigns) |-> NoMatch]
  /\ pc' = "prepared"
  /\ UNCHANGED <<campaigns, at, index, offers>>

Distinct == Cardinality(Words(query))
(* Mutant: exact matches although the query has words nobody knows.        *)
UnknownIgnored == TRUE

AllKnown == Cardinality(known) = Distinct

(* Mutant: the last keyword offered replaces the best.                     *)
LastOffered(old, pos, relevance) ==
  LET kw == keywords[pos]
  IN  [old EXCEPT ![kw.campaign] =
         [keyword_id |-> kw.id, match_type |-> kw.match_type, bid |-> kw.bid,
          relevance |-> relevance]]

(* offer: the campaign keeps the better of the two.                        *)
Better(old, pos, relevance) ==
  LET kw == keywords[pos]
      m == [keyword_id |-> kw.id, match_type |-> kw.match_type, bid |-> kw.bid,
            relevance |-> relevance]
  IN  [old EXCEPT ![kw.campaign] = IF @ = NoMatch \/ Beats(m, @) THEN m ELSE @]

(* Broad keywords are found by counting, over the known words, how often a *)
(* position occurs in their posting lists.                                 *)
Hits(pos) == Cardinality({i \in 1..Len(broad) : broad[i].pos = pos /\ broad[i].token \in known})

Lookup ==
  /\ pc = "prepared"
  /\ best' = FoldLeft(LAMBDA b, e : IF AllKnown /\ e.tokens = known
                                    THEN Better(b, e.pos, ExactRelevance) ELSE b, best, exact)
  /\ offers' = {pos \in 1..Len(keywords) :
                  Hits(pos) > 0 /\ Hits(pos) = Cardinality(keywords[pos].tokens)}
  /\ pc' = "offering"
  /\ UNCHANGED <<campaigns, at, index, query, known>>

Offer ==
  /\ pc = "offering"
  /\ \E pos \in offers :
       /\ best' = Better(best, pos, BroadRelevance(Cardinality(keywords[pos].tokens), Distinct))
       /\ offers' = offers \ {pos}
  /\ UNCHANGED <<campaigns, pc, at, index, query, known>>

(* Every hit has been offered: best is what best_matches returns.          *)
Answered == pc = "offering" /\ offers = {}

(* negative_matches, for the campaign at position c.                       *)
NegativeMatches(c) ==
  \E i \in 1..Len(negatives[c]) :
    LET n == negatives[c][i]
    IN  \/ n.match_type = "exact" /\ AllKnown /\ n.tokens = known
        \/ n.match_type = "broad" /\ n.tokens \subseteq known

(* The snapshot answers the next query.                                    *)
NextQuery ==
  /\ Answered
  /\ pc' = "ready"
  /\ query' = <<>> /\ known' = {} /\ offers' = {} /\ best' = <<>>
  /\ UNCHANGED <<campaigns, at, index>>

Next ==
  \/ CheckIds
  \/ VocabularyFull
  \/ AddKeyword
  \/ AddNegative
  \/ NextCampaign
  \/ Built
  \/ Prepare
  \/ Lookup
  \/ Offer
  \/ NextQuery

Spec == Init /\ [][Next]_vars

(***************************************************************************)
(* The matching rules themselves, read off the texts, without an index     *)
(* (the module comment of index.rs, and the brute-force matcher its tests  *)
(* compare the index with).                                                *)
(***************************************************************************)
TextMatches(item) == MatchesWords(item, Words(query))

MatchOf(kw) ==
  [keyword_id |-> kw.id, match_type |-> kw.match_type, bid |-> kw.bid,
   relevance |-> IF kw.match_type = "exact" THEN ExactRelevance
                 ELSE BroadRelevance(Cardinality(Words(kw.text)), Distinct)]

MatchesOf(c) == {MatchOf(kw) : kw \in {k \in ToSet(campaigns[c].keywords) : TextMatches(k)}}

(***************************************************************************)
(* Properties                                                              *)
(***************************************************************************)

(* Counting hits over posting lists finds exactly the keywords the rules   *)
(* match, and whatever the order of the hash map each campaign enters with *)
(* its one best keyword.                                                   *)
IndexFindsTheBest ==
  Answered => \A c \in 1..Len(campaigns) :
    IF MatchesOf(c) = {} THEN best[c] = NoMatch
    ELSE /\ best[c] \in MatchesOf(c)
         /\ \A m \in MatchesOf(c) : m # best[c] => Beats(best[c], m)

(* A negative keyword blocks exactly the queries it matches: never all of  *)
(* them because its text is empty, never fewer because of unknown words.   *)
NegativesBlockExactly ==
  pc \in {"prepared", "offering"} => \A c \in 1..Len(campaigns) :
    NegativeMatches(c) <=> \E n \in ToSet(campaigns[c].negatives) : TextMatches(n)

(* A word has one id and an id one word, so comparing ids is comparing     *)
(* words; a full vocabulary is refused before an id would be reused.       *)
InterningIsFaithful ==
  /\ \A i, j \in 1..Len(vocab) : vocab[i] = vocab[j] => i = j
  /\ Len(vocab) <= MaxTokenId + 1
  /\ \A i \in 1..Len(keywords) :
       \E kw \in ToSet(campaigns[keywords[i].campaign].keywords) :
         /\ kw.id = keywords[i].id
         /\ {vocab[t] : t \in keywords[i].tokens} = Words(kw.text)
=============================================================================
