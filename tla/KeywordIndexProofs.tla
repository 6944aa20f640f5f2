-------------------------- MODULE KeywordIndexProofs ---------------------------
(***************************************************************************)
(* Proofs about the keyword index, for any lists of campaigns and queries. *)
(***************************************************************************)
EXTENDS KeywordIndex, DataLemmas

(***************************************************************************)
(* The inductive invariant.  Its parts take the state they speak of as     *)
(* parameters: lemmas about them then speak of the next state as well.     *)
(***************************************************************************)
MatchTypes == {"exact", "broad"}
AllItems == UNION {UNION {ToSet(c.keywords) \cup ToSet(c.negatives) : c \in ToSet(list)} : list \in Corpora}
Word == UNION {Words(item.text) : item \in AllItems}

IndexedKeyword == [campaign : Nat, id : Int, bid : Int, match_type : MatchTypes, tokens : SUBSET Nat]
IndexedNegative == [match_type : MatchTypes, tokens : SUBSET Nat]
Match == [keyword_id : Int, match_type : MatchTypes, bid : Int, relevance : Nat \ {0}]

(* A word has one id.                                                      *)
Faithful(v) == v \in Seq(Word) /\ \A i, j \in 1..Len(v) : v[i] = v[j] => i = j

(* What is indexed of a text: the ids of its words, and there are some.    *)
IsEntry(v, e, item) ==
  /\ e.match_type = item.match_type
  /\ e.tokens # {} /\ e.tokens \subseteq 1..Len(v)
  /\ {v[t] : t \in e.tokens} = Words(item.text)
IsKeyword(v, e, kw) == IsEntry(v, e, kw) /\ e.id = kw.id /\ e.bid = kw.bid

(* How far build has come.                                                 *)
KwDone(a, c, i) == c < a.campaign \/ (c = a.campaign /\ i < a.item)
NegDone(list, a, c, j) == c < a.campaign \/ (c = a.campaign /\ Len(list[c].keywords) + j < a.item)

AtInv(list, a) ==
  /\ a \in [campaign : Nat \ {0}, item : Nat \ {0}]
  /\ a.campaign <= Len(list) + 1
  /\ a.campaign <= Len(list) =>
       a.item <= Len(list[a.campaign].keywords) + Len(list[a.campaign].negatives) + 1

(* What is indexed is a keyword of its campaign, and a keyword with any    *)
(* word is indexed.                                                        *)
KeywordsSound(list, v, ks) ==
  /\ ks \in Seq(IndexedKeyword)
  /\ \A p \in 1..Len(ks) :
       /\ ks[p].campaign \in 1..Len(list)
       /\ \E i \in 1..Len(list[ks[p].campaign].keywords) :
            IsKeyword(v, ks[p], list[ks[p].campaign].keywords[i])
KeywordsComplete(list, a, v, ks) ==
  \A c \in 1..Len(list) : \A i \in 1..Len(list[c].keywords) :
    KwDone(a, c, i) /\ Words(list[c].keywords[i].text) # {} =>
      \E p \in 1..Len(ks) : ks[p].campaign = c /\ IsKeyword(v, ks[p], list[c].keywords[i])

(* The exact keywords, and the posting lists of the broad ones, in which   *)
(* nothing is entered twice.                                               *)
ExactInv(ks, ex) ==
  /\ ex \in Seq([tokens : SUBSET Nat, pos : Nat])
  /\ \A i \in 1..Len(ex) :
       /\ ex[i].pos \in 1..Len(ks)
       /\ ks[ex[i].pos].match_type = "exact" /\ ks[ex[i].pos].tokens = ex[i].tokens
  /\ \A p \in 1..Len(ks) : ks[p].match_type = "exact" => \E i \in 1..Len(ex) : ex[i].pos = p
BroadInv(ks, br) ==
  /\ br \in Seq([token : Nat, pos : Nat])
  /\ \A i \in 1..Len(br) :
       /\ br[i].pos \in 1..Len(ks)
       /\ ks[br[i].pos].match_type = "broad" /\ br[i].token \in ks[br[i].pos].tokens
  /\ \A p \in 1..Len(ks) : ks[p].match_type = "broad" =>
       \A t \in ks[p].tokens : \E i \in 1..Len(br) : br[i].pos = p /\ br[i].token = t
  /\ \A i, j \in 1..Len(br) : br[i].pos = br[j].pos /\ br[i].token = br[j].token => i = j

NegativesSound(list, v, ns) ==
  /\ ns \in Seq(Seq(IndexedNegative))
  /\ Len(ns) <= Len(list)
  /\ \A c \in 1..Len(ns) : \A i \in 1..Len(ns[c]) :
       \E j \in 1..Len(list[c].negatives) : IsEntry(v, ns[c][i], list[c].negatives[j])
NegativesComplete(list, a, v, ns) ==
  \A c \in 1..Len(list) : \A j \in 1..Len(list[c].negatives) :
    NegDone(list, a, c, j) /\ Words(list[c].negatives[j].text) # {} =>
      c <= Len(ns) /\ \E i \in 1..Len(ns[c]) : IsEntry(v, ns[c][i], list[c].negatives[j])

BuildInv ==
  /\ campaigns \in Corpora
  /\ pc \notin {"check", "rejected"} => Buildable(campaigns)
  /\ AtInv(campaigns, at)
  /\ Faithful(vocab) /\ Len(vocab) <= MaxTokenId + 1
  /\ KeywordsSound(campaigns, vocab, keywords) /\ KeywordsComplete(campaigns, at, vocab, keywords)
  /\ ExactInv(keywords, exact) /\ BroadInv(keywords, broad)
  /\ NegativesSound(campaigns, vocab, negatives) /\ NegativesComplete(campaigns, at, vocab, negatives)
  /\ Len(negatives) \in {at.campaign - 1, at.campaign}
  /\ pc \in {"ready", "prepared", "offering"} =>
       at.campaign = Len(campaigns) + 1 /\ Len(negatives) = Len(campaigns)

QueryInv == pc \in {"prepared", "offering"} => query \in QueryTexts /\ known = IdsIn(vocab, query)

(* The match a position stands for, the entries a query hits, and the best *)
(* of some matches.                                                        *)
MatchAt(ks, p, distinct) ==
  [keyword_id |-> ks[p].id, match_type |-> ks[p].match_type, bid |-> ks[p].bid,
   relevance |-> IF ks[p].match_type = "exact" THEN ExactRelevance
                 ELSE BroadRelevance(Cardinality(ks[p].tokens), distinct)]
Hit(e) == IF e.match_type = "exact" THEN AllKnown /\ e.tokens = known ELSE e.tokens \subseteq known
IsBest(b, M) == IF M = {} THEN b = NoMatch ELSE b \in M /\ \A m \in M : m # b => Beats(b, m)

MatchesAt(ks, places, c, distinct) == {MatchAt(ks, p, distinct) : p \in {q \in places : ks[q].campaign = c}}
Offered == {p \in 1..Len(keywords) : Hit(keywords[p]) /\ p \notin offers}

BestInv ==
  /\ pc = "prepared" => best = [c \in 1..Len(campaigns) |-> NoMatch]
  /\ pc = "offering" =>
       /\ offers \subseteq {p \in 1..Len(keywords) : Hit(keywords[p]) /\ keywords[p].match_type = "broad"}
       /\ best \in [1..Len(campaigns) -> Match \cup {NoMatch}]
       /\ \A c \in 1..Len(campaigns) : IsBest(best[c], MatchesAt(keywords, Offered, c, Distinct))

IndexInv == BuildInv /\ QueryInv /\ BestInv

(***************************************************************************)
(* The campaigns.                                                          *)
(***************************************************************************)
LEMMA ItemFacts ==
  ASSUME NEW list \in Corpora, NEW c \in ToSet(list),
         NEW item \in ToSet(c.keywords) \cup ToSet(c.negatives)
  PROVE  item \in AllItems /\ item.match_type \in MatchTypes /\ item.text \in Seq(Word) /\ Words(item.text) \subseteq Word
  <1>1. item \in AllItems
    BY DEF AllItems
  <1>2. item.text \in Seq(Words(item.text)) /\ item.match_type \in MatchTypes
    BY KeywordIndexAssumption DEF MatchTypes
  <1>3. Words(item.text) \subseteq Word
    BY <1>1 DEF Word
  <1> QED
    BY <1>1, <1>2, <1>3

LEMMA CorpusFacts ==
  ASSUME NEW list \in Corpora
  PROVE  /\ Len(list) \in Nat
         /\ \A c \in 1..Len(list) :
              /\ Len(list[c].keywords) \in Nat /\ Len(list[c].negatives) \in Nat
              /\ list[c].keywords \in Seq(AllItems) /\ list[c].negatives \in Seq(AllItems)
              /\ \A i \in 1..Len(list[c].keywords) :
                   /\ list[c].keywords[i].id \in Int /\ list[c].keywords[i].bid \in Int
                   /\ list[c].keywords[i].match_type \in MatchTypes
                   /\ list[c].keywords[i].text \in Seq(Word)
              /\ \A j \in 1..Len(list[c].negatives) :
                   /\ list[c].negatives[j].match_type \in MatchTypes
                   /\ list[c].negatives[j].text \in Seq(Word)
  <1>1. list \in Seq(ToSet(list))
    BY KeywordIndexAssumption
  <1>2. Len(list) \in Nat /\ DOMAIN list = 1..Len(list)
    BY <1>1
  <1>3. ASSUME NEW n \in 1..Len(list), NEW c, c = list[n]
        PROVE  /\ c.keywords \in Seq(AllItems) /\ c.negatives \in Seq(AllItems)
               /\ \A i \in 1..Len(c.keywords) :
                    /\ c.keywords[i].id \in Int /\ c.keywords[i].bid \in Int
                    /\ c.keywords[i].match_type \in MatchTypes
                    /\ c.keywords[i].text \in Seq(Word)
               /\ \A j \in 1..Len(c.negatives) :
                    /\ c.negatives[j].match_type \in MatchTypes
                    /\ c.negatives[j].text \in Seq(Word)
    <2>1. c \in ToSet(list)
      BY <1>2, <1>3 DEF ToSet
    <2>2. c.keywords \in Seq(ToSet(c.keywords)) /\ c.negatives \in Seq(ToSet(c.negatives))
      BY <2>1, KeywordIndexAssumption
    <2>3. \A kw \in ToSet(c.keywords) : kw.id \in Int /\ kw.bid \in Int
      BY <2>1, KeywordIndexAssumption
    <2>4. \A item \in ToSet(c.keywords) \cup ToSet(c.negatives) :
            item \in AllItems /\ item.match_type \in MatchTypes /\ item.text \in Seq(Word)
      BY <2>1, ItemFacts
    <2>5. /\ \A i \in 1..Len(c.keywords) : c.keywords[i] \in ToSet(c.keywords)
          /\ \A j \in 1..Len(c.negatives) : c.negatives[j] \in ToSet(c.negatives)
      BY <2>2
    <2>6. c.keywords \in Seq(AllItems) /\ c.negatives \in Seq(AllItems)
      <3>1. ToSet(c.keywords) \subseteq AllItems /\ ToSet(c.negatives) \subseteq AllItems
        BY <2>4
      <3> QED
        BY <2>2, <3>1
    <2> QED
      BY <2>3, <2>4, <2>5, <2>6
  <1>4. \A n \in 1..Len(list) :
          /\ list[n].keywords \in Seq(AllItems) /\ list[n].negatives \in Seq(AllItems)
          /\ Len(list[n].keywords) \in Nat /\ Len(list[n].negatives) \in Nat
    <2>1. \A s \in Seq(AllItems) : Len(s) \in Nat
      OBVIOUS
    <2> QED
      BY <1>3, <2>1
  <1> QED
    BY <1>2, <1>3, <1>4

(* A checked list has no keyword id twice in a campaign.                   *)
LEMMA KeywordIdsDiffer ==
  ASSUME NEW list \in Corpora, Buildable(list), NEW c \in 1..Len(list),
         NEW i \in 1..Len(list[c].keywords), NEW j \in 1..Len(list[c].keywords),
         list[c].keywords[i].id = list[c].keywords[j].id
  PROVE  i = j
  <1> DEFINE rows == [n \in DOMAIN list |-> list[n].keywords]
             all == FlattenSeq(rows)
             Rows == Seq(AllItems)
  <1>1. list \in Seq(ToSet(list)) /\ DOMAIN list = 1..Len(list) /\ Len(list) \in Nat
    BY KeywordIndexAssumption
  <1>2. \A n \in 1..Len(list) : list[n].keywords \in Rows /\ Len(list[n].keywords) \in Nat
    BY CorpusFacts
  <1> HIDE DEF Rows
  <1>3. rows \in Seq(Rows) /\ Len(rows) = Len(list) /\ rows[c] = list[c].keywords
    BY <1>1, <1>2
  <1> HIDE DEF rows
  <1>4. PICK start \in [1..Len(rows) -> Nat] :
          \A d \in 1..Len(rows) : \A n \in 1..Len(rows[d]) :
             start[d] + n \in 1..Len(all) /\ all[start[d] + n] = rows[d][n]
    BY <1>3, FlattenPlaces DEF Rows
  <1>5. HasUniqueIds(all)
    BY DEF Buildable, KeywordsOf, rows
  <1> HIDE DEF all
  <1>6. start[c] \in Nat /\ start[c] + i \in 1..Len(all) /\ start[c] + j \in 1..Len(all)
        /\ all[start[c] + i].id = all[start[c] + j].id
    <2>1. c \in 1..Len(rows) /\ i \in 1..Len(rows[c]) /\ j \in 1..Len(rows[c])
      BY <1>3
    <2>2. /\ start[c] + i \in 1..Len(all) /\ all[start[c] + i] = rows[c][i]
          /\ start[c] + j \in 1..Len(all) /\ all[start[c] + j] = rows[c][j]
      BY <1>4, <2>1
    <2>3. start[c] \in Nat
      BY <2>1
    <2> QED
      BY <1>3, <2>2, <2>3
  <1>7. start[c] + i = start[c] + j
    BY <1>5, <1>6 DEF HasUniqueIds
  <1> QED
    BY <1>6, <1>7

(***************************************************************************)
(* Interning: the vocabulary grows word by word.                           *)
(***************************************************************************)
Learn(v, w) == IF Contains(v, w) THEN v ELSE Append(v, w)
Learns(f, v, text, n) == f[0] = v /\ \A i \in 1..n : f[i] = Learn(f[i - 1], text[i])
Grows(v, w) == Len(v) <= Len(w) /\ \A i \in 1..Len(v) : w[i] = v[i]

LEMMA InternChain ==
  ASSUME vocab \in Seq(Word), NEW text \in Seq(Word)
  PROVE  \E f : Learns(f, vocab, text, Len(text)) /\ Interned(text) = f[Len(text)]
  <1> DEFINE n == Len(text)
             S == 1..n
             V == Seq(Word)
             Step(g, s) == IF s = {} THEN vocab ELSE LET x == Max(s) IN Learn(g[s \ {x}], text[x])
             iter == CHOOSE g : g = [s \in SUBSET S |-> Step(g, s)]
             pick == [s \in SUBSET S |-> Max(s)]
             step == [a \in (SUBSET S) \X V |-> Learn(a[2], text[Max(a[1])])]
  <1>1. n \in Nat /\ DOMAIN text = S /\ IsFiniteSet(S)
    BY FS_Interval
  <1>2. Interned(text) = iter[S]
    BY <1>1 DEF Interned, FoldLeft, MapThenFoldSet, Learn
  <1>3. \A s \in SUBSET S : s # {} => pick[s] \in s
    BY <1>1, MaxOfInterval
  <1>4. \A s \in SUBSET S : s # {} => \A v \in V : step[<<s, v>>] \in V /\ step[<<s, v>>] = Learn(v, text[pick[s]])
    <2> SUFFICES ASSUME NEW s \in SUBSET S, s # {}, NEW v \in V
                 PROVE  step[<<s, v>>] \in V /\ step[<<s, v>>] = Learn(v, text[pick[s]])
      OBVIOUS
    <2>1. step[<<s, v>>] = Learn(v, text[pick[s]])
      BY DEF Learn
    <2> HIDE DEF step, pick
    <2>2. text[pick[s]] \in Word
      <3>1. pick[s] \in s
        BY <1>3
      <3> QED
        BY <1>1, <3>1
    <2>3. Learn(v, text[pick[s]]) \in V
      BY <2>2 DEF Learn
    <2> QED
      BY <2>1, <2>3
  <1> HIDE DEF step
  <1>5. PICK g \in [SUBSET S -> V] : Folds(g, SUBSET S, pick, vocab, step)
    <2> HIDE DEF pick, V, S
    <2>1. vocab \in V
      BY DEF V
    <2> QED
      BY <1>1, <1>3, <1>4, <2>1, FoldExists
  <1>6. g = [s \in SUBSET S |-> Step(g, s)]
    <2>1. ASSUME NEW s \in SUBSET S PROVE g[s] = Step(g, s)
      <3>1. CASE s = {}
        BY <1>5, <3>1 DEF Folds
      <3>2. CASE s # {}
        <4>1. g[s] = step[<<s, g[s \ {pick[s]}]>>]
          BY <1>5, <3>2 DEF Folds
        <4>2. g[s \ {pick[s]}] \in V
          <5>1. s \ {pick[s]} \in SUBSET S
            OBVIOUS
          <5> HIDE DEF V, pick
          <5> QED
            BY <1>5, <5>1
        <4>3. g[s] = Learn(g[s \ {pick[s]}], text[pick[s]])
          BY <1>4, <3>2, <4>1, <4>2
        <4>4. pick[s] = Max(s)
          OBVIOUS
        <4> HIDE DEF pick
        <4> QED
          BY <3>2, <4>3, <4>4
      <3> QED
        BY <3>1, <3>2
    <2> HIDE DEF S
    <2> QED
      BY <2>1
  <1>7. iter = [s \in SUBSET S |-> Step(iter, s)]
    BY <1>6
  <1> HIDE DEF iter
  <1> DEFINE f == [i \in 0..n |-> iter[1..i]]
  <1>8. f[0] = vocab
    <2>1. 1..0 = {} /\ {} \in SUBSET S /\ 0 \in 0..n
      BY <1>1
    <2>2. f[0] = iter[{}]
      BY <2>1
    <2> HIDE DEF f
    <2> QED
      BY <1>7, <2>1, <2>2
  <1>9. ASSUME NEW i \in 1..n PROVE f[i] = Learn(f[i - 1], text[i])
    <2>1. 1..i \in SUBSET S /\ 1..i # {} /\ (1..i) \ {i} = 1..(i - 1) /\ i \in 0..n /\ i - 1 \in 0..n
      BY <1>1, Intervals
    <2>2. Max(1..i) = i
      BY <1>1, Intervals
    <2>3. iter[1..i] = Step(iter, 1..i)
      BY <1>7, <2>1
    <2>4. iter[1..i] = Learn(iter[1..(i - 1)], text[i])
      BY <2>1, <2>2, <2>3
    <2>5. f[i] = iter[1..i] /\ f[i - 1] = iter[1..(i - 1)]
      BY <2>1
    <2> HIDE DEF f
    <2> QED
      BY <2>4, <2>5
  <1>10. f[n] = iter[S]
    BY <1>1
  <1> HIDE DEF f, S
  <1> QED
    BY <1>2, <1>8, <1>9, <1>10 DEF Learns

LEMMA LearnFacts ==
  ASSUME NEW v, Faithful(v), NEW w \in Word
  PROVE  /\ Faithful(Learn(v, w)) /\ Grows(v, Learn(v, w)) /\ Len(Learn(v, w)) <= Len(v) + 1
         /\ \E i \in 1..Len(Learn(v, w)) : Learn(v, w)[i] = w
  <1>1. v \in Seq(Word) /\ Len(v) \in Nat
    BY DEF Faithful
  <1>2. CASE Contains(v, w)
    <2>1. Learn(v, w) = v
      BY <1>2 DEF Learn
    <2> QED
      BY <1>1, <1>2, <2>1 DEF Contains, Grows
  <1>3. CASE ~ Contains(v, w)
    <2> DEFINE new == Learn(v, w)
               n == Len(v)
    <2>1. new = Append(v, w)
      BY <1>3 DEF Learn
    <2>2. new \in Seq(Word) /\ Len(new) = n + 1 /\ new[n + 1] = w /\ \A i \in 1..n : new[i] = v[i]
      BY <1>1, <2>1
    <2>3. \A i \in 1..n : v[i] # w
      BY <1>3 DEF Contains
    <2>4. \A i, j \in 1..n : v[i] = v[j] => i = j
      BY DEF Faithful
    <2> HIDE DEF new, n
    <2>5. \A i, j \in 1..n + 1 : new[i] = new[j] => i = j
      <3>1. n \in Nat
        BY <1>1 DEF n
      <3>2. \A i \in 1..n + 1 : i \in 1..n \/ i = n + 1
        BY <3>1
      <3> QED
        BY <2>2, <2>3, <2>4, <3>2
    <2>6. n \in Nat /\ n + 1 \in 1..n + 1 /\ n <= n + 1
      BY <1>1 DEF n
    <2> QED
      BY <2>2, <2>5, <2>6 DEF Faithful, Grows, new, n
  <1> QED
    BY <1>2, <1>3

LEMMA GrowsOn ==
  ASSUME NEW u \in Seq(Word), NEW v \in Seq(Word), NEW w \in Seq(Word), Grows(u, v), Grows(v, w)
  PROVE  Grows(u, w)
  <1>1. Len(u) \in Nat /\ Len(v) \in Nat /\ Len(w) \in Nat
    OBVIOUS
  <1> QED
    BY <1>1 DEF Grows

LEMMA LearnsFacts ==
  ASSUME NEW v, Faithful(v), NEW text \in Seq(Word), NEW f, Learns(f, v, text, Len(text))
  PROVE  \A n \in 0..Len(text) :
           /\ Faithful(f[n]) /\ Grows(v, f[n])
           /\ \A i \in 1..n : \E j \in 1..Len(f[n]) : f[n][j] = text[i]
  <1> DEFINE Good(n) == /\ Faithful(f[n]) /\ Grows(v, f[n])
                        /\ \A i \in 1..n : \E j \in 1..Len(f[n]) : f[n][j] = text[i]
             T == {n \in Nat : n <= Len(text) => Good(n)}
  <1>1. 0 \in T
    <2>1. f[0] = v /\ Len(v) \in Nat
      BY DEF Learns, Faithful
    <2>2. Grows(v, v)
      BY <2>1 DEF Grows
    <2>3. 1..0 = {}
      OBVIOUS
    <2>4. Good(0)
      BY <2>1, <2>2, <2>3
    <2> HIDE DEF Good
    <2> QED
      BY <2>4
  <1>2. ASSUME NEW n \in Nat, n \in T PROVE n + 1 \in T
    <2> SUFFICES ASSUME n + 1 <= Len(text) PROVE Good(n + 1)
      <3> HIDE DEF Good
      <3> QED
        OBVIOUS
    <2>1. Len(text) \in Nat /\ n + 1 \in 1..Len(text) /\ text[n + 1] \in Word /\ (n + 1) - 1 = n
      OBVIOUS
    <2>2. Good(n)
      <3> HIDE DEF Good
      <3> QED
        BY <1>2, <2>1
    <2>3. f[n + 1] = Learn(f[n], text[n + 1])
      BY <2>1 DEF Learns
    <2> DEFINE a == f[n]
               b == f[n + 1]
    <2>4. /\ Faithful(b) /\ Grows(a, b) /\ \E j \in 1..Len(b) : b[j] = text[n + 1]
      <3>1. Faithful(a) /\ b = Learn(a, text[n + 1]) /\ text[n + 1] \in Word
        BY <2>1, <2>2, <2>3
      <3> HIDE DEF a, b
      <3> QED
        BY <3>1, LearnFacts
    <2>5. a \in Seq(Word) /\ b \in Seq(Word) /\ v \in Seq(Word)
      BY <2>2, <2>4 DEF Faithful
    <2>6. Grows(v, b)
      BY <2>2, <2>4, <2>5, GrowsOn
    <2>7. ASSUME NEW i \in 1..n + 1 PROVE \E j \in 1..Len(b) : b[j] = text[i]
      <3>1. CASE i = n + 1
        BY <2>4, <3>1
      <3>2. CASE i \in 1..n
        <4>1. PICK j \in 1..Len(a) : a[j] = text[i]
          BY <2>2, <3>2
        <4>2. j \in 1..Len(b) /\ b[j] = a[j]
          <5>1. Len(a) \in Nat /\ Len(b) \in Nat
            BY <2>5
          <5> HIDE DEF a, b
          <5> QED
            BY <2>4, <4>1, <5>1 DEF Grows
        <4> QED
          BY <4>1, <4>2
      <3> QED
        BY <2>1, <3>1, <3>2
    <2> QED
      BY <2>4, <2>6, <2>7
  <1> HIDE DEF T
  <1>3. Nat \subseteq T
    BY <1>1, <1>2, SetInduction
  <1>4. Len(text) \in Nat
    OBVIOUS
  <1> QED
    BY <1>3, <1>4 DEF T

(* A prefix of a text is learnt the same way.                              *)
LEMMA LearnsUnique ==
  ASSUME NEW v, NEW text, NEW other, NEW L \in Nat, \A i \in 1..L : other[i] = text[i],
         NEW f, Learns(f, v, text, L), NEW g, Learns(g, v, other, L)
  PROVE  f[L] = g[L]
  <1> DEFINE T == {n \in Nat : n <= L => f[n] = g[n]}
  <1>1. 0 \in T
    BY DEF Learns
  <1>2. ASSUME NEW n \in Nat, n \in T PROVE n + 1 \in T
    <2> SUFFICES ASSUME n + 1 <= L PROVE f[n + 1] = g[n + 1]
      OBVIOUS
    <2>1. n + 1 \in 1..L /\ (n + 1) - 1 = n /\ f[n] = g[n]
      BY <1>2
    <2> QED
      BY <2>1 DEF Learns
  <1> HIDE DEF T
  <1>3. Nat \subseteq T
    BY <1>1, <1>2, SetInduction
  <1> QED
    BY <1>3 DEF T

LEMMA InternedFacts ==
  ASSUME Faithful(vocab), Len(vocab) <= MaxTokenId + 1, NEW text \in Seq(Word), ~ InternFails(text)
  PROVE  /\ Faithful(Interned(text)) /\ Grows(vocab, Interned(text))
         /\ Words(text) \subseteq {Interned(text)[t] : t \in 1..Len(Interned(text))}
         /\ Len(Interned(text)) <= MaxTokenId + 1
  <1> DEFINE n == Len(text)
             all == Interned(text)
  <1>1. n \in Nat /\ DOMAIN text = 1..n /\ vocab \in Seq(Word) /\ Len(vocab) \in Nat
    BY DEF Faithful
  <1>2. PICK f : Learns(f, vocab, text, n) /\ all = f[n]
    BY <1>1, InternChain
  <1> HIDE DEF all
  <1>3. \A m \in 0..n :
           /\ Faithful(f[m]) /\ Grows(vocab, f[m])
           /\ \A i \in 1..m : \E j \in 1..Len(f[m]) : f[m][j] = text[i]
    <2>1. Faithful(vocab) /\ Learns(f, vocab, text, Len(text))
      BY <1>2
    <2> HIDE DEF n
    <2> QED
      BY <2>1, LearnsFacts DEF n
  <1>4. n \in 0..n
    BY <1>1
  <1>5. Words(text) \subseteq {all[t] : t \in 1..Len(all)}
    <2>1. Words(text) = {text[i] : i \in 1..n}
      BY <1>1 DEF Words, ToSet
    <2> HIDE DEF n
    <2> QED
      BY <1>2, <1>3, <1>4, <2>1, SMTT(30)
  <1>6. Len(all) <= MaxTokenId + 1
    <2>1. CASE n = 0
      <3>1. all = vocab
        BY <1>2, <2>1 DEF Learns
      <3> QED
        BY <3>1
    <2>2. CASE n # 0
      <3> DEFINE m == n - 1
                 prefix == SubSeq(text, 1, m)
      <3>1. n \in 1..n /\ m \in 0..n /\ m \in Nat /\ 1..m \subseteq 1..n
        BY <1>1, <2>2
      <3>2. Len(Interned(prefix)) <= MaxTokenId \/ ~ (Len(Interned(prefix)) \in Nat)
        <4>1. ~ (Len(Interned(SubSeq(text, 1, n - 1))) > MaxTokenId)
          BY <3>1 DEF InternFails
        <4> DEFINE l == Len(Interned(prefix))
        <4>2. ~ (l > MaxTokenId)
          BY <4>1
        <4> HIDE DEF l
        <4>3. l <= MaxTokenId \/ ~ (l \in Nat)
          BY <4>2, KeywordIndexAssumption
        <4> QED
          BY <4>3 DEF l
      <3>3. prefix \in Seq(Word) /\ Len(prefix) = m /\ \A i \in 1..m : prefix[i] = text[i]
        <4>1. m \in 0..Len(text)
          BY <3>1
        <4> HIDE DEF m
        <4> QED
          BY <4>1, PrefixFacts
      <3> HIDE DEF prefix
      <3>4. PICK g : Learns(g, vocab, prefix, m) /\ Interned(prefix) = g[m]
        BY <1>1, <3>3, InternChain
      <3>5. Learns(f, vocab, text, m)
        BY <1>2, <3>1 DEF Learns
      <3>6. f[m] = g[m]
        BY <3>1, <3>3, <3>4, <3>5, LearnsUnique, SMTT(30)
      <3>7. f[n] = Learn(f[m], text[n])
        BY <1>2, <3>1 DEF Learns
      <3>8. text[n] \in Word
        BY <1>1, <3>1
      <3>9. Faithful(f[m])
        BY <1>3, <3>1
      <3>10. Len(f[n]) <= Len(f[m]) + 1
        <4> HIDE DEF n, m
        <4> QED
          BY <3>7, <3>8, <3>9, LearnFacts
      <3>11. Len(f[m]) \in Nat /\ Len(f[n]) \in Nat
        BY <1>3, <1>4, <3>9 DEF Faithful
      <3>12. Len(f[m]) <= MaxTokenId
        BY <3>2, <3>4, <3>6, <3>11
      <3> HIDE DEF m, n
      <3> QED
        BY <1>2, <3>10, <3>11, <3>12, KeywordIndexAssumption
    <2> QED
      BY <2>1, <2>2
  <1> QED
    BY <1>2, <1>3, <1>4, <1>5, <1>6 DEF all

(* The ids of a text all of whose words are known are the ids of exactly   *)
(* those words.                                                            *)
LEMMA TokensFacts ==
  ASSUME NEW v \in Seq(Word), NEW text, Words(text) \subseteq {v[t] : t \in 1..Len(v)}
  PROVE  /\ IdsIn(v, text) \subseteq 1..Len(v) /\ IdsIn(v, text) \in SUBSET Nat
         /\ {v[t] : t \in IdsIn(v, text)} = Words(text)
         /\ IdsIn(v, text) = {} <=> Words(text) = {}
  BY DEF IdsIn

(***************************************************************************)
(* A growing vocabulary keeps what is indexed.                             *)
(***************************************************************************)
LEMMA EntriesGrow ==
  ASSUME NEW v \in Seq(Word), NEW w \in Seq(Word), Grows(v, w), NEW e, NEW item, IsEntry(v, e, item)
  PROVE  IsEntry(w, e, item)
  <1>1. Len(v) \in Nat /\ Len(w) \in Nat
    OBVIOUS
  <1>2. e.tokens \subseteq 1..Len(w) /\ \A t \in e.tokens : w[t] = v[t]
    BY <1>1 DEF Grows, IsEntry
  <1> QED
    BY <1>2 DEF IsEntry

LEMMA IndexGrows ==
  ASSUME NEW list, NEW a, NEW v \in Seq(Word), NEW w \in Seq(Word), Grows(v, w), NEW ks, NEW ns,
         KeywordsSound(list, v, ks), KeywordsComplete(list, a, v, ks),
         NegativesSound(list, v, ns), NegativesComplete(list, a, v, ns)
  PROVE  /\ KeywordsSound(list, w, ks) /\ KeywordsComplete(list, a, w, ks)
         /\ NegativesSound(list, w, ns) /\ NegativesComplete(list, a, w, ns)
  <1>1. \A e, item : IsEntry(v, e, item) => IsEntry(w, e, item)
    BY EntriesGrow
  <1>2. \A e, kw : IsKeyword(v, e, kw) => IsKeyword(w, e, kw)
    BY <1>1 DEF IsKeyword
  <1>3. KeywordsSound(list, w, ks)
    BY <1>2 DEF KeywordsSound
  <1>4. KeywordsComplete(list, a, w, ks)
    BY <1>2 DEF KeywordsComplete
  <1>5. NegativesSound(list, w, ns)
    BY <1>1 DEF NegativesSound
  <1>6. NegativesComplete(list, a, w, ns)
    BY <1>1 DEF NegativesComplete
  <1> QED
    BY <1>3, <1>4, <1>5, <1>6

(***************************************************************************)
(* One more keyword, or one more negative.                                 *)
(***************************************************************************)
LEMMA KeywordAppended ==
  ASSUME NEW list, NEW a, NEW b, NEW v, NEW ks,
         KeywordsSound(list, v, ks), KeywordsComplete(list, a, v, ks),
         NEW c \in 1..Len(list), NEW i \in 1..Len(list[c].keywords),
         NEW e \in IndexedKeyword, e.campaign = c, IsKeyword(v, e, list[c].keywords[i]),
         \A d \in 1..Len(list) : \A j \in 1..Len(list[d].keywords) :
           KwDone(b, d, j) => KwDone(a, d, j) \/ (d = c /\ j = i)
  PROVE  KeywordsSound(list, v, Append(ks, e)) /\ KeywordsComplete(list, b, v, Append(ks, e))
  <1> DEFINE new == Append(ks, e)
             n == Len(ks)
  <1>1. ks \in Seq(IndexedKeyword) /\ n \in Nat
    BY DEF KeywordsSound
  <1>2. /\ new \in Seq(IndexedKeyword) /\ Len(new) = n + 1 /\ new[n + 1] = e
        /\ \A p \in 1..n : new[p] = ks[p]
    BY <1>1
  <1>3. /\ \A p \in 1..n + 1 : p \in 1..n \/ p = n + 1
        /\ \A p \in 1..n : p \in 1..n + 1
        /\ n + 1 \in 1..n + 1
    BY <1>1
  <1> HIDE DEF new
  <1>4. KeywordsSound(list, v, new)
    <2>1. ASSUME NEW p \in 1..n + 1
          PROVE  /\ new[p].campaign \in 1..Len(list)
                 /\ \E j \in 1..Len(list[new[p].campaign].keywords) :
                      IsKeyword(v, new[p], list[new[p].campaign].keywords[j])
      <3>1. CASE p = n + 1
        BY <1>2, <3>1
      <3>2. CASE p \in 1..n
        BY <1>2, <3>2 DEF KeywordsSound
      <3> QED
        BY <1>3, <3>1, <3>2
    <2> HIDE DEF n
    <2> QED
      BY <1>2, <2>1 DEF KeywordsSound
  <1>5. KeywordsComplete(list, b, v, new)
    <2> SUFFICES ASSUME NEW d \in 1..Len(list), NEW j \in 1..Len(list[d].keywords),
                        KwDone(b, d, j), Words(list[d].keywords[j].text) # {}
                 PROVE  \E p \in 1..Len(new) : new[p].campaign = d /\ IsKeyword(v, new[p], list[d].keywords[j])
      BY DEF KeywordsComplete
    <2>1. CASE d = c /\ j = i
      BY <1>2, <1>3, <2>1
    <2>2. CASE KwDone(a, d, j)
      <3>1. PICK p \in 1..n : ks[p].campaign = d /\ IsKeyword(v, ks[p], list[d].keywords[j])
        BY <2>2 DEF KeywordsComplete
      <3> QED
        BY <1>2, <1>3, <3>1
    <2> QED
      BY <2>1, <2>2
  <1> QED
    BY <1>4, <1>5 DEF new

LEMMA ExactKept ==
  ASSUME NEW ks \in Seq(IndexedKeyword), NEW e \in IndexedKeyword, NEW ex, ExactInv(ks, ex), NEW new,
         new = IF e.match_type = "exact" THEN Append(ex, [tokens |-> e.tokens, pos |-> Len(ks) + 1]) ELSE ex
  PROVE  ExactInv(Append(ks, e), new)
  <1> DEFINE more == Append(ks, e)
             n == Len(ks)
             m == Len(ex)
             x == [tokens |-> e.tokens, pos |-> n + 1]
             X == [tokens : SUBSET Nat, pos : Nat]
  <1>1. n \in Nat /\ ex \in Seq(X) /\ m \in Nat
    BY DEF ExactInv
  <1>2. Len(more) = n + 1 /\ more[n + 1] = e /\ \A p \in 1..n : more[p] = ks[p]
    OBVIOUS
  <1>3. /\ \A p \in 1..n + 1 : p \in 1..n \/ p = n + 1
        /\ \A p \in 1..n : p \in 1..n + 1
        /\ n + 1 \in 1..n + 1
    BY <1>1
  <1>4. /\ \A i \in 1..m : /\ ex[i].pos \in 1..n
                         /\ ks[ex[i].pos].match_type = "exact" /\ ks[ex[i].pos].tokens = ex[i].tokens
        /\ \A p \in 1..n : ks[p].match_type = "exact" => \E i \in 1..m : ex[i].pos = p
    BY DEF ExactInv
  <1>5. e.tokens \in SUBSET Nat
    BY DEF IndexedKeyword
  <1> HIDE DEF more
  <1>6. CASE e.match_type = "exact"
    <2>1. x \in X /\ x.pos = n + 1 /\ x.tokens = e.tokens
      BY <1>1, <1>5
    <2>2. new = Append(ex, x)
      BY <1>6
    <2> HIDE DEF x, X
    <2>3. new \in Seq(X) /\ Len(new) = m + 1 /\ new[m + 1] = x /\ \A i \in 1..m : new[i] = ex[i]
      BY <1>1, <2>1, <2>2
    <2>4. /\ \A i \in 1..m + 1 : i \in 1..m \/ i = m + 1
          /\ \A i \in 1..m : i \in 1..m + 1
          /\ m + 1 \in 1..m + 1
      BY <1>1
    <2> HIDE DEF m, n
    <2>5. ASSUME NEW i \in 1..m + 1
          PROVE  /\ new[i].pos \in 1..n + 1
                 /\ more[new[i].pos].match_type = "exact" /\ more[new[i].pos].tokens = new[i].tokens
      <3>1. CASE i = m + 1
        BY <1>2, <1>3, <1>6, <2>1, <2>3, <3>1
      <3>2. CASE i \in 1..m
        BY <1>2, <1>3, <1>4, <2>3, <3>2
      <3> QED
        BY <2>4, <3>1, <3>2
    <2>6. ASSUME NEW p \in 1..n + 1, more[p].match_type = "exact" PROVE \E i \in 1..m + 1 : new[i].pos = p
      <3>1. CASE p = n + 1
        BY <2>1, <2>3, <2>4, <3>1
      <3>2. CASE p \in 1..n
        <4>1. PICK i \in 1..m : ex[i].pos = p
          BY <1>2, <1>4, <2>6, <3>2
        <4> QED
          BY <2>3, <2>4, <4>1
      <3> QED
        BY <1>3, <3>1, <3>2
    <2> QED
      <3>1. Len(more) = n + 1 /\ Len(new) = m + 1 /\ new \in Seq([tokens : SUBSET Nat, pos : Nat])
        BY <1>2, <2>3 DEF X
      <3>2. ExactInv(more, new)
        BY <2>5, <2>6, <3>1 DEF ExactInv
      <3> QED
        BY <3>2 DEF more
  <1>7. CASE e.match_type # "exact"
    <2>1. new = ex
      BY <1>7
    <2> HIDE DEF n, m, x, X
    <2>2. \A i \in 1..m : /\ ex[i].pos \in 1..n + 1
                          /\ more[ex[i].pos].match_type = "exact" /\ more[ex[i].pos].tokens = ex[i].tokens
      BY <1>2, <1>3, <1>4
    <2>3. \A p \in 1..n + 1 : more[p].match_type = "exact" => \E i \in 1..m : ex[i].pos = p
      BY <1>2, <1>3, <1>4, <1>7
    <2> QED
      BY <1>1, <1>2, <2>1, <2>2, <2>3 DEF ExactInv, X, m
  <1> QED
    BY <1>6, <1>7 DEF more

(* The posting lists with those of the next keyword.                       *)
Posting == [token : Nat, pos : Nat]
Postings(e, p) == {[token |-> t, pos |-> p] : t \in e.tokens}

LEMMA PostingFacts ==
  ASSUME NEW e \in IndexedKeyword, IsFiniteSet(e.tokens), NEW p \in Nat
  PROVE  /\ IsFiniteSet(Postings(e, p)) /\ Postings(e, p) \subseteq Posting
         /\ \A x \in Postings(e, p) : x.pos = p /\ x.token \in e.tokens
         /\ \A t \in e.tokens : \E x \in Postings(e, p) : x.token = t
         /\ \A x, y \in Postings(e, p) : x.token = y.token => x = y
  <1> DEFINE S == Postings(e, p)
             f == [t \in e.tokens |-> [token |-> t, pos |-> p]]
  <1>1. f \in Surjection(e.tokens, S)
    BY DEF Surjection, Postings
  <1>2. S \subseteq Posting
    BY DEF Postings, Posting, IndexedKeyword
  <1>3. /\ \A x \in S : x.pos = p /\ x.token \in e.tokens
        /\ \A t \in e.tokens : \E x \in S : x.token = t
        /\ \A x, y \in S : x.token = y.token => x = y
    <2>1. ASSUME NEW x \in S PROVE x.token \in e.tokens /\ x.pos = p /\ x = [token |-> x.token, pos |-> p]
      <3>1. PICK t \in e.tokens : x = [token |-> t, pos |-> p]
        BY DEF Postings
      <3> QED
        BY <3>1
    <2>2. ASSUME NEW t \in e.tokens PROVE \E x \in S : x.token = t
      <3>1. [token |-> t, pos |-> p] \in S
        BY DEF Postings
      <3> QED
        BY <3>1
    <2> HIDE DEF S
    <2> QED
      BY <2>1, <2>2
  <1> HIDE DEF S, f
  <1>4. IsFiniteSet(S)
    BY <1>1, FS_Surjection
  <1> QED
    BY <1>2, <1>3, <1>4 DEF S

LEMMA PostingsAppended ==
  ASSUME NEW ks \in Seq(IndexedKeyword), NEW e \in IndexedKeyword, e.match_type = "broad",
         NEW br, BroadInv(ks, br), NEW tl \in Seq(Posting),
         \A i \in 1..Len(tl) : tl[i].pos = Len(ks) + 1 /\ tl[i].token \in e.tokens,
         \A t \in e.tokens : \E i \in 1..Len(tl) : tl[i].token = t,
         \A i, j \in 1..Len(tl) : tl[i].token = tl[j].token => i = j
  PROVE  BroadInv(Append(ks, e), br \o tl)
  <1> DEFINE more == Append(ks, e)
             new == br \o tl
             n == Len(ks)
             m == Len(br)
             l == Len(tl)
  <1>1. n \in Nat /\ br \in Seq(Posting) /\ m \in Nat /\ l \in Nat
    BY DEF BroadInv, Posting
  <1>2. Len(more) = n + 1 /\ more[n + 1] = e /\ \A p \in 1..n : more[p] = ks[p]
    OBVIOUS
  <1>3. /\ \A p \in 1..n + 1 : p \in 1..n \/ p = n + 1
        /\ \A p \in 1..n : p \in 1..n + 1 /\ p # n + 1
        /\ n + 1 \in 1..n + 1
    BY <1>1
  <1>4. /\ \A i \in 1..m : /\ br[i].pos \in 1..n
                         /\ ks[br[i].pos].match_type = "broad" /\ br[i].token \in ks[br[i].pos].tokens
        /\ \A p \in 1..n : ks[p].match_type = "broad" =>
             \A t \in ks[p].tokens : \E i \in 1..m : br[i].pos = p /\ br[i].token = t
        /\ \A i, j \in 1..m : br[i].pos = br[j].pos /\ br[i].token = br[j].token => i = j
    BY DEF BroadInv
  <1>5. /\ new \in Seq(Posting) /\ Len(new) = m + l
        /\ \A i \in 1..m : new[i] = br[i] /\ i \in 1..Len(new)
        /\ \A j \in 1..l : new[m + j] = tl[j] /\ m + j \in 1..Len(new)
        /\ \A i \in 1..Len(new) : i \in 1..m \/ \E j \in 1..l : i = m + j
    BY <1>1, JoinedPlaces
  <1>6. /\ \A j \in 1..l : tl[j].pos = n + 1 /\ tl[j].token \in e.tokens
        /\ \A t \in e.tokens : \E j \in 1..l : tl[j].token = t
        /\ \A i, j \in 1..l : tl[i].token = tl[j].token => i = j
    OBVIOUS
  <1> HIDE DEF more, new, n, m, l
  <1>7. ASSUME NEW i \in 1..Len(new)
        PROVE  /\ new[i].pos \in 1..Len(more)
               /\ more[new[i].pos].match_type = "broad" /\ new[i].token \in more[new[i].pos].tokens
    <2>1. CASE i \in 1..m
      BY <1>2, <1>3, <1>4, <1>5, <2>1
    <2>2. CASE \E j \in 1..l : i = m + j
      <3>1. PICK j \in 1..l : i = m + j
        BY <2>2
      <3>2. new[i] = tl[j]
        BY <1>5, <3>1
      <3>3. new[i].pos = n + 1 /\ new[i].token \in e.tokens
        BY <1>6, <3>2
      <3>4. new[i].pos \in 1..n + 1
        BY <1>3, <3>3
      <3>5. more[new[i].pos] = e
        BY <1>2, <3>3
      <3> QED
        BY <1>2, <3>3, <3>4, <3>5
    <2> QED
      BY <1>5, <2>1, <2>2
  <1>8. ASSUME NEW p \in 1..Len(more), more[p].match_type = "broad", NEW t \in more[p].tokens
        PROVE  \E i \in 1..Len(new) : new[i].pos = p /\ new[i].token = t
    <2>1. CASE p = n + 1
      <3>1. PICK j \in 1..l : tl[j].token = t
        BY <1>2, <1>6, <1>8, <2>1
      <3> QED
        BY <1>5, <1>6, <2>1, <3>1
    <2>2. CASE p \in 1..n
      <3>1. more[p] = ks[p]
        BY <1>2, <2>2
      <3>2. ks[p].match_type = "broad" /\ t \in ks[p].tokens
        BY <1>8, <3>1
      <3>3. PICK i \in 1..m : br[i].pos = p /\ br[i].token = t
        BY <1>4, <2>2, <3>2, ZenonT(40)
      <3> QED
        BY <1>5, <3>3
    <2> QED
      BY <1>2, <1>3, <2>1, <2>2
  <1>9. ASSUME NEW i \in 1..Len(new), NEW j \in 1..Len(new),
               new[i].pos = new[j].pos, new[i].token = new[j].token
        PROVE  i = j
    <2>1. CASE i \in 1..m /\ j \in 1..m
      BY <1>4, <1>5, <1>9, <2>1
    <2>2. CASE (\E x \in 1..l : i = m + x) /\ (\E y \in 1..l : j = m + y)
      <3>1. PICK x \in 1..l, y \in 1..l : i = m + x /\ j = m + y
        BY <2>2
      <3>2. tl[x].token = tl[y].token
        BY <1>5, <1>9, <3>1
      <3> QED
        BY <1>6, <3>1, <3>2
    <2>3. CASE i \in 1..m /\ \E y \in 1..l : j = m + y
      BY <1>3, <1>4, <1>5, <1>6, <1>9, <2>3
    <2>4. CASE j \in 1..m /\ \E y \in 1..l : i = m + y
      BY <1>3, <1>4, <1>5, <1>6, <1>9, <2>4
    <2> QED
      BY <1>5, <2>1, <2>2, <2>3, <2>4
  <1> QED
    BY <1>5, <1>7, <1>8, <1>9 DEF BroadInv, Posting, more, new

LEMMA BroadKept ==
  ASSUME NEW ks \in Seq(IndexedKeyword), NEW e \in IndexedKeyword, IsFiniteSet(e.tokens),
         NEW br, BroadInv(ks, br)
  PROVE  /\ e.match_type = "broad" =>
              BroadInv(Append(ks, e), br \o SetToSeq(Postings(e, Len(ks) + 1)))
         /\ e.match_type # "broad" => BroadInv(Append(ks, e), br)
  <1> DEFINE n == Len(ks)
             S == Postings(e, n + 1)
             tl == SetToSeq(S)
             more == Append(ks, e)
  <1>1. n \in Nat /\ n + 1 \in Nat
    OBVIOUS
  <1>2. CASE e.match_type = "broad"
    <2>1. /\ IsFiniteSet(S) /\ S \subseteq Posting
          /\ \A x \in S : x.pos = n + 1 /\ x.token \in e.tokens
          /\ \A t \in e.tokens : \E x \in S : x.token = t
          /\ \A x, y \in S : x.token = y.token => x = y
      BY <1>1, PostingFacts
    <2> HIDE DEF S
    <2>2. tl \in Seq(S) /\ ToSet(tl) = S /\ \A i, j \in 1..Len(tl) : tl[i] = tl[j] => i = j
      BY <2>1, SequenceOfSet
    <2> HIDE DEF tl
    <2>3. tl \in Seq(Posting) /\ S = {tl[i] : i \in 1..Len(tl)}
      <3>1. ToSet(tl) = {tl[i] : i \in 1..Len(tl)}
        BY <2>2, ListIsFinite
      <3>2. tl \in Seq(Posting)
        BY <2>1, <2>2
      <3> QED
        BY <2>2, <3>1, <3>2
    <2>4. /\ \A i \in 1..Len(tl) : tl[i].pos = n + 1 /\ tl[i].token \in e.tokens
          /\ \A t \in e.tokens : \E i \in 1..Len(tl) : tl[i].token = t
          /\ \A i, j \in 1..Len(tl) : tl[i].token = tl[j].token => i = j
      <3> DEFINE l == Len(tl)
      <3>1. (\A i \in 1..l : tl[i] \in S) /\ \A x \in S : \E i \in 1..l : tl[i] = x
        BY <2>3
      <3>2. \A i, j \in 1..l : tl[i] = tl[j] => i = j
        BY <2>2
      <3> HIDE DEF l, n
      <3>3. ASSUME NEW t \in e.tokens PROVE \E i \in 1..l : tl[i].token = t
        <4>1. PICK x \in S : x.token = t
          BY <2>1
        <4> QED
          BY <3>1, <4>1
      <3>4. ASSUME NEW i \in 1..l, NEW j \in 1..l, tl[i].token = tl[j].token PROVE i = j
        <4>1. tl[i] = tl[j]
          BY <2>1, <3>1, <3>4
        <4> QED
          BY <3>2, <4>1
      <3>5. \A i \in 1..l : tl[i].pos = n + 1 /\ tl[i].token \in e.tokens
        BY <2>1, <3>1
      <3> QED
        BY <3>3, <3>4, <3>5 DEF l, n
    <2>5. BroadInv(more, br \o tl)
      BY <1>2, <2>3, <2>4, PostingsAppended
    <2> QED
      BY <1>2, <2>5 DEF S, tl
  <1>3. CASE e.match_type # "broad"
    <2>1. Len(more) = n + 1 /\ more[n + 1] = e /\ \A p \in 1..n : more[p] = ks[p]
      OBVIOUS
    <2>2. /\ \A p \in 1..n + 1 : p \in 1..n \/ p = n + 1
          /\ \A p \in 1..n : p \in 1..n + 1
      BY <1>1
    <2> HIDE DEF more
    <2>3. /\ br \in Seq(Posting)
          /\ \A i \in 1..Len(br) : /\ br[i].pos \in 1..n /\ ks[br[i].pos].match_type = "broad"
                                 /\ br[i].token \in ks[br[i].pos].tokens
          /\ \A p \in 1..n : ks[p].match_type = "broad" =>
               \A t \in ks[p].tokens : \E i \in 1..Len(br) : br[i].pos = p /\ br[i].token = t
          /\ \A i, j \in 1..Len(br) : br[i].pos = br[j].pos /\ br[i].token = br[j].token => i = j
      BY DEF BroadInv, Posting
    <2> HIDE DEF n
    <2>4. \A i \in 1..Len(br) : /\ br[i].pos \in 1..n + 1 /\ more[br[i].pos].match_type = "broad"
                                /\ br[i].token \in more[br[i].pos].tokens
      BY <2>1, <2>2, <2>3
    <2>5. \A p \in 1..n + 1 : more[p].match_type = "broad" =>
            \A t \in more[p].tokens : \E i \in 1..Len(br) : br[i].pos = p /\ br[i].token = t
      <3> SUFFICES ASSUME NEW p \in 1..n + 1, more[p].match_type = "broad"
                   PROVE  \A t \in more[p].tokens : \E i \in 1..Len(br) : br[i].pos = p /\ br[i].token = t
        OBVIOUS
      <3>1. p \in 1..n /\ more[p] = ks[p]
        BY <1>3, <2>1, <2>2
      <3>2. ks[p].match_type = "broad"
        BY <3>1
      <3>3. \A t \in ks[p].tokens : \E i \in 1..Len(br) : br[i].pos = p /\ br[i].token = t
        BY <2>3, <3>1, <3>2
      <3> QED
        BY <3>1, <3>3
    <2>6. BroadInv(more, br)
      BY <2>1, <2>3, <2>4, <2>5 DEF BroadInv, Posting
    <2> QED
      BY <1>3, <2>6 DEF more
  <1> QED
    BY <1>2, <1>3

(* The negatives of the campaign build is at.                              *)
RowAt(ns, c) == IF Len(ns) = c THEN ns[c] ELSE <<>>
RowSound(list, v, c, row) ==
  /\ row \in Seq(IndexedNegative)
  /\ \A i \in 1..Len(row) : \E j \in 1..Len(list[c].negatives) : IsEntry(v, row[i], list[c].negatives[j])
RowComplete(list, a, v, c, row) ==
  \A j \in 1..Len(list[c].negatives) :
    NegDone(list, a, c, j) /\ Words(list[c].negatives[j].text) # {} =>
      \E i \in 1..Len(row) : IsEntry(v, row[i], list[c].negatives[j])

LEMMA RowFacts ==
  ASSUME NEW list, NEW a, NEW v, NEW ns, NEW c \in 1..Len(list), Len(list) \in Nat, Len(ns) \in {c - 1, c},
         NegativesSound(list, v, ns), NegativesComplete(list, a, v, ns)
  PROVE  RowSound(list, v, c, RowAt(ns, c)) /\ RowComplete(list, a, v, c, RowAt(ns, c))
  <1>1. ns \in Seq(Seq(IndexedNegative)) /\ Len(ns) \in Nat
    BY DEF NegativesSound
  <1>2. CASE Len(ns) = c
    <2>1. c \in 1..Len(ns) /\ RowAt(ns, c) = ns[c]
      BY <1>2 DEF RowAt
    <2>2. ns[c] \in Seq(IndexedNegative)
      BY <1>1, <2>1
    <2>3. RowSound(list, v, c, ns[c])
      BY <2>1, <2>2 DEF NegativesSound, RowSound
    <2>4. RowComplete(list, a, v, c, ns[c])
      BY DEF NegativesComplete, RowComplete
    <2> QED
      BY <2>1, <2>3, <2>4
  <1>3. CASE Len(ns) # c
    <2>1. RowAt(ns, c) = <<>> /\ <<>> \in Seq(IndexedNegative) /\ Len(<<>>) = 0 /\ 1..0 = {}
      BY <1>3 DEF RowAt
    <2>2. ~ (c <= Len(ns))
      BY <1>1, <1>3
    <2>3. RowSound(list, v, c, <<>>)
      BY <2>1 DEF RowSound
    <2>4. RowComplete(list, a, v, c, <<>>)
      BY <2>2 DEF NegativesComplete, RowComplete
    <2> QED
      BY <2>1, <2>3, <2>4
  <1> QED
    BY <1>2, <1>3

LEMMA RowKept ==
  ASSUME NEW list, NEW a, NEW b, NEW v, NEW ns, NEW c \in 1..Len(list), Len(list) \in Nat, Len(ns) \in {c - 1, c},
         NegativesSound(list, v, ns), NegativesComplete(list, a, v, ns),
         NEW row, RowSound(list, v, c, row), RowComplete(list, b, v, c, row),
         \A d \in 1..Len(list) : \A j \in 1..Len(list[d].negatives) :
           NegDone(list, b, d, j) => d = c \/ (d < c /\ NegDone(list, a, d, j))
  PROVE  /\ NegativesSound(list, v, Append(SubSeq(ns, 1, c - 1), row))
         /\ NegativesComplete(list, b, v, Append(SubSeq(ns, 1, c - 1), row))
         /\ Len(Append(SubSeq(ns, 1, c - 1), row)) = c
  <1> DEFINE R == Seq(IndexedNegative)
             before == SubSeq(ns, 1, c - 1)
             new == Append(before, row)
  <1>1. ns \in Seq(R) /\ Len(ns) \in Nat /\ row \in R /\ c - 1 \in 0..Len(ns)
    BY DEF NegativesSound, RowSound
  <1> HIDE DEF R
  <1>2. before \in Seq(R) /\ Len(before) = c - 1 /\ \A i \in 1..(c - 1) : before[i] = ns[i]
    BY <1>1, PrefixFacts
  <1> HIDE DEF before
  <1>3. /\ new \in Seq(R) /\ Len(new) = (c - 1) + 1 /\ new[(c - 1) + 1] = row
        /\ \A i \in 1..(c - 1) : new[i] = before[i]
    BY <1>1, <1>2
  <1> HIDE DEF new
  <1>4. Len(new) = c /\ new[c] = row /\ \A d \in 1..Len(list) : d < c => new[d] = ns[d] /\ d \in 1..Len(ns)
    BY <1>1, <1>2, <1>3
  <1>5. NegativesSound(list, v, new)
    <2>1. ASSUME NEW d \in 1..c, NEW i \in 1..Len(new[d])
          PROVE  \E j \in 1..Len(list[d].negatives) : IsEntry(v, new[d][i], list[d].negatives[j])
      <3>1. CASE d = c
        BY <1>4, <2>1, <3>1 DEF RowSound
      <3>2. CASE d < c
        <4>1. d \in 1..Len(list) /\ d \in 1..Len(ns) /\ new[d] = ns[d]
          BY <1>4, <3>2
        <4>2. \A k \in 1..Len(ns[d]) : \E j \in 1..Len(list[d].negatives) : IsEntry(v, ns[d][k], list[d].negatives[j])
          BY <4>1 DEF NegativesSound
        <4> QED
          BY <4>1, <4>2
      <3> QED
        BY <3>1, <3>2
    <2>2. Len(new) = c /\ c <= Len(list) /\ new \in Seq(Seq(IndexedNegative))
      BY <1>3, <1>4 DEF R
    <2> QED
      BY <2>1, <2>2 DEF NegativesSound
  <1>6. NegativesComplete(list, b, v, new)
    <2> SUFFICES ASSUME NEW d \in 1..Len(list), NEW j \in 1..Len(list[d].negatives),
                        NegDone(list, b, d, j), Words(list[d].negatives[j].text) # {}
                 PROVE  d <= Len(new) /\ \E i \in 1..Len(new[d]) : IsEntry(v, new[d][i], list[d].negatives[j])
      BY DEF NegativesComplete
    <2>1. CASE d = c
      <3>1. \E i \in 1..Len(row) : IsEntry(v, row[i], list[c].negatives[j])
        BY <2>1 DEF RowComplete
      <3>2. Len(new) = c /\ new[d] = row /\ d <= c
        BY <1>4, <2>1
      <3> QED
        BY <2>1, <3>1, <3>2
    <2>2. CASE d < c /\ NegDone(list, a, d, j)
      <3>1. \E i \in 1..Len(ns[d]) : IsEntry(v, ns[d][i], list[d].negatives[j])
        BY <2>2 DEF NegativesComplete
      <3> QED
        BY <1>4, <2>2, <3>1
    <2> QED
      BY <2>1, <2>2
  <1> QED
    BY <1>4, <1>5, <1>6 DEF new, before

LEMMA RowExtended ==
  ASSUME NEW list, NEW a, NEW b, NEW v, NEW c, NEW row,
         RowSound(list, v, c, row), RowComplete(list, a, v, c, row),
         NEW j0 \in 1..Len(list[c].negatives),
         \A j \in 1..Len(list[c].negatives) : NegDone(list, b, c, j) => NegDone(list, a, c, j) \/ j = j0
  PROVE  /\ Words(list[c].negatives[j0].text) = {} => RowComplete(list, b, v, c, row)
         /\ \A e \in IndexedNegative : IsEntry(v, e, list[c].negatives[j0]) =>
              RowSound(list, v, c, Append(row, e)) /\ RowComplete(list, b, v, c, Append(row, e))
  <1>1. ASSUME Words(list[c].negatives[j0].text) = {} PROVE RowComplete(list, b, v, c, row)
    BY <1>1 DEF RowComplete
  <1>2. ASSUME NEW e \in IndexedNegative, IsEntry(v, e, list[c].negatives[j0])
        PROVE  RowSound(list, v, c, Append(row, e)) /\ RowComplete(list, b, v, c, Append(row, e))
    <2> DEFINE new == Append(row, e)
               n == Len(row)
    <2>1. row \in Seq(IndexedNegative) /\ n \in Nat
      BY DEF RowSound
    <2>2. /\ new \in Seq(IndexedNegative) /\ Len(new) = n + 1 /\ new[n + 1] = e
          /\ \A i \in 1..n : new[i] = row[i]
      BY <2>1
    <2>3. /\ \A i \in 1..n + 1 : i \in 1..n \/ i = n + 1
          /\ \A i \in 1..n : i \in 1..n + 1
          /\ n + 1 \in 1..n + 1
      BY <2>1
    <2> HIDE DEF new
    <2>4. \A i \in 1..n : \E j \in 1..Len(list[c].negatives) : IsEntry(v, row[i], list[c].negatives[j])
      BY DEF RowSound
    <2> HIDE DEF n
    <2>5. RowSound(list, v, c, new)
      <3>1. \A i \in 1..n + 1 : \E j \in 1..Len(list[c].negatives) : IsEntry(v, new[i], list[c].negatives[j])
        BY <1>2, <2>2, <2>3, <2>4
      <3> QED
        BY <2>2, <3>1 DEF RowSound
    <2>6. RowComplete(list, b, v, c, new)
      <3> SUFFICES ASSUME NEW j \in 1..Len(list[c].negatives), NegDone(list, b, c, j),
                          Words(list[c].negatives[j].text) # {}
                   PROVE  \E i \in 1..n + 1 : IsEntry(v, new[i], list[c].negatives[j])
        BY <2>2 DEF RowComplete
      <3>1. CASE j = j0
        BY <1>2, <2>2, <2>3, <3>1
      <3>2. CASE NegDone(list, a, c, j)
        <4>1. PICK i \in 1..n : IsEntry(v, row[i], list[c].negatives[j])
          BY <3>2 DEF RowComplete, n
        <4> QED
          BY <2>2, <2>3, <4>1
      <3> QED
        BY <3>1, <3>2
    <2> QED
      BY <2>5, <2>6 DEF new
  <1> QED
    BY <1>1, <1>2

(* The places build passes.                                                *)
LEMMA ItemDone ==
  ASSUME NEW list \in Corpora, NEW a, AtInv(list, a), a.campaign <= Len(list),
         a.item <= Len(list[a.campaign].keywords) + Len(list[a.campaign].negatives),
         NEW b, b \in [campaign : Nat \ {0}, item : Nat \ {0}], b.campaign = a.campaign, b.item = a.item + 1
  PROVE  /\ AtInv(list, b) /\ b.campaign = a.campaign /\ a.campaign \in 1..Len(list)
         /\ \A d \in 1..Len(list) : \A i \in 1..Len(list[d].keywords) :
              KwDone(b, d, i) => KwDone(a, d, i) \/ (d = a.campaign /\ i = a.item)
         /\ \A d \in 1..Len(list) : \A j \in 1..Len(list[d].negatives) :
              NegDone(list, b, d, j) =>
                \/ NegDone(list, a, d, j)
                \/ d = a.campaign /\ j = a.item - Len(list[d].keywords)
  <1> DEFINE c == a.campaign
             K == Len(list[c].keywords)
             N == Len(list[c].negatives)
  <1>1. Len(list) \in Nat /\ c \in 1..Len(list) /\ a.item \in Nat \ {0} /\ c \in Nat \ {0}
    BY CorpusFacts DEF AtInv
  <1>2. \A d \in 1..Len(list) : Len(list[d].keywords) \in Nat /\ Len(list[d].negatives) \in Nat
    BY CorpusFacts
  <1>3. b.campaign = c /\ b.item = a.item + 1 /\ b \in [campaign : Nat \ {0}, item : Nat \ {0}]
    OBVIOUS
  <1>4. AtInv(list, b)
    <2>1. K \in Nat /\ N \in Nat /\ a.item <= K + N
      BY <1>1, <1>2
    <2>2. b.campaign <= Len(list) + 1
      BY <1>1, <1>3
    <2> HIDE DEF K, N
    <2>3. b.item <= K + N + 1
      BY <1>1, <1>3, <2>1
    <2> QED
      BY <1>3, <2>2, <2>3 DEF AtInv, K, N
  <1>5. ASSUME NEW d \in 1..Len(list), NEW i \in 1..Len(list[d].keywords), KwDone(b, d, i)
        PROVE  KwDone(a, d, i) \/ (d = c /\ i = a.item)
    BY <1>1, <1>2, <1>3, <1>5 DEF KwDone
  <1>6. ASSUME NEW d \in 1..Len(list), NEW j \in 1..Len(list[d].negatives), NegDone(list, b, d, j)
        PROVE  NegDone(list, a, d, j) \/ (d = c /\ j = a.item - Len(list[d].keywords))
    <2> DEFINE k == Len(list[d].keywords)
               l == Len(list[d].negatives)
    <2>1. k \in Nat /\ l \in Nat /\ j \in 1..l
      BY <1>2
    <2>2. d < c \/ (d = c /\ k + j < a.item + 1)
      BY <1>3, <1>6 DEF NegDone
    <2> HIDE DEF k, l
    <2>3. d < c \/ (d = c /\ k + j < a.item) \/ (d = c /\ j = a.item - k)
      BY <1>1, <2>1, <2>2
    <2> QED
      BY <2>3 DEF NegDone, k
  <1> QED
    BY <1>1, <1>3, <1>4, <1>5, <1>6

(* The same of a step of build: it has now passed one item more.           *)
LEMMA PlaceMoves ==
  ASSUME campaigns \in Corpora, AtInv(campaigns, at), at.campaign <= Len(campaigns),
         at.item <= Len(campaigns[at.campaign].keywords) + Len(campaigns[at.campaign].negatives),
         at' = [at EXCEPT !.item = @ + 1]
  PROVE  /\ AtInv(campaigns, at') /\ at'.campaign = at.campaign
         /\ \A d \in 1..Len(campaigns) : \A i \in 1..Len(campaigns[d].keywords) :
              KwDone(at', d, i) => KwDone(at, d, i) \/ (d = at.campaign /\ i = at.item)
         /\ \A d \in 1..Len(campaigns) : \A j \in 1..Len(campaigns[d].negatives) :
              NegDone(campaigns, at', d, j) =>
                \/ NegDone(campaigns, at, d, j)
                \/ d = at.campaign /\ j = at.item - Len(campaigns[d].keywords)
  <1> DEFINE list == campaigns
             a == at
             b == at'
  <1>1. /\ list \in Corpora /\ AtInv(list, a) /\ a.campaign <= Len(list)
        /\ a.item <= Len(list[a.campaign].keywords) + Len(list[a.campaign].negatives)
    OBVIOUS
  <1>2. /\ b \in [campaign : Nat \ {0}, item : Nat \ {0}]
        /\ b.campaign = a.campaign /\ b.item = a.item + 1
    BY DEF AtInv
  <1> HIDE DEF list, a, b
  <1>3. AtInv(list, b) /\ b.campaign = a.campaign
    BY <1>1, <1>2, ItemDone, ZenonT(60)
  <1>4. \A d \in 1..Len(list) : \A i \in 1..Len(list[d].keywords) :
          KwDone(b, d, i) => KwDone(a, d, i) \/ (d = a.campaign /\ i = a.item)
    BY <1>1, <1>2, ItemDone, ZenonT(60)
  <1>5. \A d \in 1..Len(list) : \A j \in 1..Len(list[d].negatives) :
          NegDone(list, b, d, j) =>
            \/ NegDone(list, a, d, j)
            \/ d = a.campaign /\ j = a.item - Len(list[d].keywords)
    BY <1>1, <1>2, ItemDone, ZenonT(60)
  <1> QED
    BY <1>3, <1>4, <1>5 DEF list, a, b

LEMMA CampaignDone ==
  ASSUME NEW list \in Corpora, NEW a, AtInv(list, a), a.campaign <= Len(list),
         a.item > Len(list[a.campaign].keywords) + Len(list[a.campaign].negatives),
         NEW b, b = [campaign |-> a.campaign + 1, item |-> 1]
  PROVE  /\ AtInv(list, b) /\ b.campaign = a.campaign + 1 /\ a.campaign \in 1..Len(list)
         /\ \A d \in 1..Len(list) : \A i \in 1..Len(list[d].keywords) : KwDone(b, d, i) => KwDone(a, d, i)
         /\ \A d \in 1..Len(list) : \A j \in 1..Len(list[d].negatives) :
              NegDone(list, b, d, j) => NegDone(list, a, d, j) /\ d <= a.campaign
  <1> DEFINE c == a.campaign
  <1>1. Len(list) \in Nat /\ c \in 1..Len(list) /\ a.item \in Nat \ {0} /\ c \in Nat \ {0}
    BY CorpusFacts DEF AtInv
  <1>2. \A d \in 1..Len(list) : Len(list[d].keywords) \in Nat /\ Len(list[d].negatives) \in Nat
    BY CorpusFacts
  <1>3. b.campaign = c + 1 /\ b.item = 1 /\ b \in [campaign : Nat \ {0}, item : Nat \ {0}]
    BY <1>1
  <1>4. AtInv(list, b)
    <2>1. b.campaign <= Len(list) + 1
      BY <1>1, <1>3
    <2>2. b.campaign <= Len(list) =>
            b.item <= Len(list[b.campaign].keywords) + Len(list[b.campaign].negatives) + 1
      <3>1. ASSUME b.campaign <= Len(list) PROVE b.campaign \in 1..Len(list)
        BY <1>1, <1>3, <3>1
      <3> DEFINE K == Len(list[b.campaign].keywords)
                 N == Len(list[b.campaign].negatives)
      <3>2. ASSUME b.campaign <= Len(list) PROVE K \in Nat /\ N \in Nat
        BY <1>2, <3>1, <3>2
      <3> HIDE DEF K, N
      <3>3. ASSUME b.campaign <= Len(list) PROVE b.item <= K + N + 1
        BY <1>3, <3>2, <3>3
      <3> QED
        BY <3>3 DEF K, N
    <2> QED
      BY <1>3, <2>1, <2>2 DEF AtInv
  <1>5. ASSUME NEW d \in 1..Len(list), NEW i \in 1..Len(list[d].keywords), KwDone(b, d, i)
        PROVE  KwDone(a, d, i)
    <2> DEFINE k == Len(list[d].keywords)
               l == Len(list[d].negatives)
    <2>1. k \in Nat /\ l \in Nat /\ i \in 1..k
      BY <1>2
    <2>2. d < c + 1 \/ (d = c + 1 /\ i < 1)
      BY <1>3, <1>5 DEF KwDone
    <2>3. d = c => a.item > k + l
      OBVIOUS
    <2> HIDE DEF k, l
    <2>4. d < c \/ (d = c /\ i < a.item)
      BY <1>1, <2>1, <2>2, <2>3
    <2> QED
      BY <2>4 DEF KwDone
  <1>6. ASSUME NEW d \in 1..Len(list), NEW j \in 1..Len(list[d].negatives), NegDone(list, b, d, j)
        PROVE  NegDone(list, a, d, j) /\ d <= c
    <2> DEFINE k == Len(list[d].keywords)
               l == Len(list[d].negatives)
    <2>1. k \in Nat /\ l \in Nat /\ j \in 1..l
      BY <1>2
    <2>2. d < c + 1 \/ (d = c + 1 /\ k + j < 1)
      BY <1>3, <1>6 DEF NegDone
    <2>3. d = c => a.item > k + l
      OBVIOUS
    <2> HIDE DEF k, l
    <2>4. d <= c /\ (d < c \/ (d = c /\ k + j < a.item))
      BY <1>1, <2>1, <2>2, <2>3
    <2> QED
      BY <2>4 DEF NegDone, k
  <1> QED
    BY <1>1, <1>3, <1>4, <1>5, <1>6

(***************************************************************************)
(* Building keeps the invariant.                                           *)
(***************************************************************************)
LEMMA ItemsFacts ==
  ASSUME campaigns \in Corpora, AtInv(campaigns, at), at.campaign <= Len(campaigns)
  PROVE  /\ at.campaign \in 1..Len(campaigns) /\ at.item \in Nat \ {0}
         /\ Len(campaigns[at.campaign].keywords) \in Nat /\ Len(campaigns[at.campaign].negatives) \in Nat
         /\ Len(Items) = Len(campaigns[at.campaign].keywords) + Len(campaigns[at.campaign].negatives)
         /\ \A i \in 1..Len(campaigns[at.campaign].keywords) : Items[i] = campaigns[at.campaign].keywords[i]
         /\ \A j \in 1..Len(campaigns[at.campaign].negatives) :
              Items[Len(campaigns[at.campaign].keywords) + j] = campaigns[at.campaign].negatives[j]
  <1> DEFINE ks == campaigns[at.campaign].keywords
             ns == campaigns[at.campaign].negatives
  <1>1. at.campaign \in 1..Len(campaigns) /\ at.item \in Nat \ {0}
    BY CorpusFacts DEF AtInv
  <1>2. ks \in Seq(AllItems) /\ ns \in Seq(AllItems) /\ Len(ks) \in Nat /\ Len(ns) \in Nat
    BY <1>1, CorpusFacts
  <1>3. Items = ks \o ns
    BY DEF Items
  <1> HIDE DEF ks, ns
  <1>4. /\ Len(Items) = Len(ks) + Len(ns)
        /\ \A i \in 1..Len(ks) : Items[i] = ks[i]
        /\ \A j \in 1..Len(ns) : Items[Len(ks) + j] = ns[j]
    BY <1>2, <1>3, JoinedPlaces
  <1> QED
    BY <1>1, <1>2, <1>4 DEF ks, ns

LEMMA BuildStart == Init => BuildInv
  <1> SUFFICES ASSUME Init PROVE BuildInv
    OBVIOUS
  <1>1. campaigns \in Corpora /\ at = [campaign |-> 1, item |-> 1] /\ pc = "check"
    BY DEF Init
  <1>2. vocab = <<>> /\ keywords = <<>> /\ exact = <<>> /\ broad = <<>> /\ negatives = <<>>
    BY DEF Init
  <1>3. Len(campaigns) \in Nat
    BY <1>1, CorpusFacts
  <1>4. \A c \in 1..Len(campaigns) : Len(campaigns[c].keywords) \in Nat /\ Len(campaigns[c].negatives) \in Nat
    BY <1>1, CorpusFacts
  <1>5. AtInv(campaigns, at)
    <2>1. at.campaign = 1 /\ at.item = 1 /\ at \in [campaign : Nat \ {0}, item : Nat \ {0}]
      BY <1>1
    <2> DEFINE K == Len(campaigns[1].keywords)
               N == Len(campaigns[1].negatives)
    <2>2. ASSUME 1 <= Len(campaigns) PROVE K \in Nat /\ N \in Nat
      BY <1>3, <1>4, <2>2
    <2> HIDE DEF K, N
    <2>3. ASSUME 1 <= Len(campaigns) PROVE 1 <= K + N + 1
      BY <2>2, <2>3
    <2> DEFINE L(c) == Len(campaigns[c].keywords) + Len(campaigns[c].negatives) + 1
    <2>4. ASSUME 1 <= Len(campaigns) PROVE 1 <= L(1)
      BY <2>3, <2>4 DEF K, N
    <2> HIDE DEF L
    <2>5. at.campaign <= Len(campaigns) + 1 /\ (at.campaign <= Len(campaigns) => at.item <= L(at.campaign))
      BY <1>3, <2>1, <2>4
    <2> QED
      BY <2>1, <2>5 DEF AtInv, L
  <1>6. <<>> \in Seq(Word) /\ Len(<<>>) = 0 /\ 1..0 = {}
    OBVIOUS
  <1>7. Faithful(<<>>) /\ 0 <= MaxTokenId + 1
    BY <1>6, KeywordIndexAssumption DEF Faithful
  <1>8. KeywordsSound(campaigns, <<>>, <<>>) /\ ExactInv(<<>>, <<>>) /\ BroadInv(<<>>, <<>>)
    BY <1>6 DEF KeywordsSound, ExactInv, BroadInv
  <1>9. KeywordsComplete(campaigns, at, <<>>, <<>>)
    <2> SUFFICES ASSUME NEW c \in 1..Len(campaigns), NEW i \in 1..Len(campaigns[c].keywords), KwDone(at, c, i)
                 PROVE  FALSE
      BY DEF KeywordsComplete
    <2> QED
      BY <1>1, <1>3, <1>4 DEF KwDone
  <1>10. NegativesComplete(campaigns, at, <<>>, <<>>)
    <2> SUFFICES ASSUME NEW c \in 1..Len(campaigns), NEW j \in 1..Len(campaigns[c].negatives),
                        NegDone(campaigns, at, c, j)
                 PROVE  FALSE
      BY DEF NegativesComplete
    <2> DEFINE K == Len(campaigns[c].keywords)
    <2>1. K \in Nat /\ j \in Nat \ {0} /\ c \in Nat \ {0}
      BY <1>3, <1>4
    <2>2. c < 1 \/ (c = 1 /\ K + j < 1)
      BY <1>1 DEF NegDone
    <2> HIDE DEF K
    <2> QED
      BY <2>1, <2>2
  <1>11. NegativesSound(campaigns, <<>>, <<>>)
    BY <1>3, <1>6 DEF NegativesSound
  <1> QED
    BY <1>1, <1>2, <1>5, <1>6, <1>7, <1>8, <1>9, <1>10, <1>11 DEF BuildInv

(* What the steps of build have in common: the next item, interned.        *)
LEMMA NextItem ==
  ASSUME BuildInv, Building, at.item <= Len(Items), ~ InternFails(Items[at.item].text)
  PROVE  LET item == Items[at.item]
             w == Interned(item.text)
             tokens == IdsIn(w, item.text)
         IN  /\ item.text \in Seq(Word) /\ item.match_type \in MatchTypes
             /\ vocab \in Seq(Word) /\ w \in Seq(Word) /\ Faithful(w) /\ Len(w) <= MaxTokenId + 1
             /\ tokens \subseteq 1..Len(w) /\ tokens \in SUBSET Nat /\ IsFiniteSet(tokens)
             /\ {w[t] : t \in tokens} = Words(item.text)
             /\ tokens = {} <=> Words(item.text) = {}
             /\ KeywordsSound(campaigns, w, keywords) /\ KeywordsComplete(campaigns, at, w, keywords)
             /\ NegativesSound(campaigns, w, negatives) /\ NegativesComplete(campaigns, at, w, negatives)
  <1> DEFINE item == Items[at.item]
             text == item.text
             w == Interned(text)
             tokens == IdsIn(w, text)
             K == Len(campaigns[at.campaign].keywords)
             N == Len(campaigns[at.campaign].negatives)
  <1>1. campaigns \in Corpora /\ AtInv(campaigns, at) /\ at.campaign <= Len(campaigns)
    BY DEF BuildInv, Building
  <1>2. /\ at.campaign \in 1..Len(campaigns) /\ at.item \in Nat \ {0} /\ K \in Nat /\ N \in Nat /\ at.item <= K + N
        /\ \A i \in 1..K : Items[i] = campaigns[at.campaign].keywords[i]
        /\ \A j \in 1..N : Items[K + j] = campaigns[at.campaign].negatives[j]
    BY <1>1, ItemsFacts
  <1>3. text \in Seq(Word) /\ item.match_type \in MatchTypes
    <2>1. CASE at.item <= K
      <3>1. at.item \in 1..K
        BY <1>2, <2>1
      <3>2. item = campaigns[at.campaign].keywords[at.item]
        BY <1>2, <3>1
      <3> QED
        BY <1>1, <1>2, <3>1, <3>2, CorpusFacts
    <2>2. CASE at.item > K
      <3> DEFINE j == at.item - K
      <3>1. j \in 1..N /\ K + j = at.item
        <4> HIDE DEF K, N
        <4> QED
          BY <1>2, <2>2
      <3>2. item = campaigns[at.campaign].negatives[j]
        <4> HIDE DEF K, N, j
        <4> QED
          BY <1>2, <3>1
      <3> QED
        BY <1>1, <1>2, <3>1, <3>2, CorpusFacts
    <2> QED
      BY <1>2, <2>1, <2>2
  <1> HIDE DEF item
  <1>4. Faithful(vocab) /\ Len(vocab) <= MaxTokenId + 1 /\ ~ InternFails(text)
    BY DEF BuildInv, item
  <1> HIDE DEF text
  <1>5. /\ Faithful(w) /\ Grows(vocab, w) /\ Len(w) <= MaxTokenId + 1
        /\ Words(text) \subseteq {w[t] : t \in 1..Len(w)}
    BY <1>3, <1>4, InternedFacts
  <1> HIDE DEF w
  <1>6. vocab \in Seq(Word) /\ w \in Seq(Word) /\ Len(w) \in Nat
    BY <1>4, <1>5 DEF Faithful
  <1>7. /\ tokens \subseteq 1..Len(w) /\ tokens \in SUBSET Nat
        /\ {w[t] : t \in tokens} = Words(text) /\ (tokens = {} <=> Words(text) = {})
    BY <1>5, <1>6, TokensFacts
  <1> HIDE DEF tokens
  <1>8. IsFiniteSet(tokens)
    <2>1. IsFiniteSet(1..Len(w))
      BY <1>6, FS_Interval
    <2> QED
      BY <1>7, <2>1, FS_Subset
  <1>9. /\ KeywordsSound(campaigns, w, keywords) /\ KeywordsComplete(campaigns, at, w, keywords)
        /\ NegativesSound(campaigns, w, negatives) /\ NegativesComplete(campaigns, at, w, negatives)
    <2>1. /\ KeywordsSound(campaigns, vocab, keywords) /\ KeywordsComplete(campaigns, at, vocab, keywords)
          /\ NegativesSound(campaigns, vocab, negatives) /\ NegativesComplete(campaigns, at, vocab, negatives)
      BY DEF BuildInv
    <2> QED
      BY <1>5, <1>6, <2>1, IndexGrows
  <1> QED
    BY <1>3, <1>5, <1>6, <1>7, <1>8, <1>9 DEF item, text, w, tokens

LEMMA AddKeywordKept ==
  ASSUME BuildInv, AddKeyword
  PROVE  BuildInv'
  <1> DEFINE item == Items[at.item]
             text == item.text
             w == Interned(text)
             tokens == IdsIn(w, text)
             c == at.campaign
             K == Len(campaigns[c].keywords)
             N == Len(campaigns[c].negatives)
             e == [campaign |-> c, id |-> item.id, bid |-> item.bid,
                   match_type |-> item.match_type, tokens |-> tokens]
  <1>1. /\ Building /\ at.item <= Len(Items) /\ AtKeyword /\ ~ InternFails(text)
        /\ vocab' = w /\ at' = [at EXCEPT !.item = @ + 1]
        /\ campaigns' = campaigns /\ pc' = pc /\ negatives' = negatives
    BY DEF AddKeyword
  <1>2. campaigns \in Corpora /\ AtInv(campaigns, at) /\ at.campaign <= Len(campaigns) /\ pc = "build"
    BY <1>1 DEF BuildInv, Building
  <1>3. /\ c \in 1..Len(campaigns) /\ at.item \in Nat \ {0} /\ K \in Nat /\ N \in Nat
        /\ at.item <= K + N /\ at.item \in 1..K
        /\ item = campaigns[c].keywords[at.item]
    <2>1. at.item <= K
      BY <1>1 DEF AtKeyword
    <2>2. /\ c \in 1..Len(campaigns) /\ at.item \in Nat \ {0} /\ K \in Nat /\ N \in Nat
          /\ Len(Items) = K + N /\ \A i \in 1..K : Items[i] = campaigns[c].keywords[i]
      BY <1>2, ItemsFacts
    <2>3. at.item <= Len(Items)
      BY <1>1
    <2> HIDE DEF K, N
    <2>4. at.item \in 1..K /\ at.item <= K + N
      BY <2>1, <2>2, <2>3
    <2> QED
      BY <2>2, <2>4
  <1>4. item.id \in Int /\ item.bid \in Int
    BY <1>2, <1>3, CorpusFacts
  <1>5. /\ item.match_type \in MatchTypes
        /\ w \in Seq(Word) /\ Faithful(w) /\ Len(w) <= MaxTokenId + 1
        /\ tokens \in SUBSET Nat /\ tokens \subseteq 1..Len(w) /\ IsFiniteSet(tokens)
        /\ {w[t] : t \in tokens} = Words(text) /\ (tokens = {} <=> Words(text) = {})
        /\ KeywordsSound(campaigns, w, keywords) /\ KeywordsComplete(campaigns, at, w, keywords)
        /\ NegativesSound(campaigns, w, negatives) /\ NegativesComplete(campaigns, at, w, negatives)
    BY <1>1, NextItem
  <1>6. /\ AtInv(campaigns, at') /\ at'.campaign = c
        /\ \A d \in 1..Len(campaigns) : \A i \in 1..Len(campaigns[d].keywords) :
             KwDone(at', d, i) => KwDone(at, d, i) \/ (d = c /\ i = at.item)
        /\ \A d \in 1..Len(campaigns) : \A j \in 1..Len(campaigns[d].negatives) :
             NegDone(campaigns, at', d, j) =>
               \/ NegDone(campaigns, at, d, j)
               \/ d = c /\ j = at.item - Len(campaigns[d].keywords)
    BY <1>1, <1>2, <1>3, PlaceMoves
  <1>7. NegativesComplete(campaigns, at', w, negatives)
    <2> SUFFICES ASSUME NEW d \in 1..Len(campaigns), NEW j \in 1..Len(campaigns[d].negatives),
                        NegDone(campaigns, at', d, j)
                 PROVE  NegDone(campaigns, at, d, j)
      BY <1>5 DEF NegativesComplete
    <2>1. ~ (d = c /\ j = at.item - Len(campaigns[d].keywords))
      <3> SUFFICES ASSUME d = c, j = at.item - K PROVE FALSE
        OBVIOUS
      <3>1. j \in 1..N
        OBVIOUS
      <3> HIDE DEF K, N
      <3> QED
        BY <1>3, <3>1
    <2> QED
      BY <1>6, <2>1
  <1>8. ExactInv(keywords, exact) /\ BroadInv(keywords, broad)
    BY DEF BuildInv
  <1>9. /\ KeywordsSound(campaigns, w, keywords') /\ KeywordsComplete(campaigns, at', w, keywords')
        /\ ExactInv(keywords', exact') /\ BroadInv(keywords', broad')
    <2>1. CASE tokens = {}
      <3>1. keywords' = keywords /\ exact' = exact /\ broad' = broad
        BY <2>1 DEF AddKeyword
      <3>2. Words(campaigns[c].keywords[at.item].text) = {}
        BY <1>3, <1>5, <2>1
      <3>3. KeywordsComplete(campaigns, at', w, keywords)
        <4> SUFFICES ASSUME NEW d \in 1..Len(campaigns), NEW i \in 1..Len(campaigns[d].keywords),
                            KwDone(at', d, i), Words(campaigns[d].keywords[i].text) # {}
                     PROVE  KwDone(at, d, i)
          BY <1>5 DEF KeywordsComplete
        <4> QED
          BY <1>6, <3>2
      <3> QED
        BY <1>5, <1>8, <3>1, <3>3
    <2>2. CASE tokens # {}
      <3>1. /\ keywords' = Append(keywords, e)
            /\ exact' = IF e.match_type = "exact"
                        THEN Append(exact, [tokens |-> e.tokens, pos |-> Len(keywords) + 1]) ELSE exact
            /\ broad' = IF e.match_type = "broad"
                        THEN broad \o SetToSeq(Postings(e, Len(keywords) + 1)) ELSE broad
        BY <2>2 DEF AddKeyword, Postings
      <3>2. e \in IndexedKeyword /\ e.campaign = c /\ e.tokens = tokens
        <4>1. c \in Nat
          BY <1>3
        <4> HIDE DEF c, item, tokens
        <4> QED
          BY <1>4, <1>5, <4>1 DEF IndexedKeyword
      <3>3. IsKeyword(w, e, campaigns[c].keywords[at.item])
        BY <1>3, <1>5, <2>2 DEF IsKeyword, IsEntry
      <3> HIDE DEF e, w, tokens, item
      <3>4. keywords \in Seq(IndexedKeyword)
        BY <1>5 DEF KeywordsSound
      <3>5. KeywordsSound(campaigns, w, keywords') /\ KeywordsComplete(campaigns, at', w, keywords')
        BY <1>3, <1>5, <1>6, <3>1, <3>2, <3>3, KeywordAppended
      <3>6. ExactInv(keywords', exact')
        BY <1>8, <3>1, <3>2, <3>4, ExactKept
      <3>7. BroadInv(keywords', broad')
        BY <1>5, <1>8, <3>1, <3>2, <3>4, BroadKept
      <3> QED
        BY <3>5, <3>6, <3>7
    <2> QED
      BY <2>1, <2>2
  <1> HIDE DEF w
  <1> QED
    BY <1>1, <1>2, <1>5, <1>6, <1>7, <1>9 DEF BuildInv

LEMMA AddNegativeKept ==
  ASSUME BuildInv, AddNegative
  PROVE  BuildInv'
  <1> DEFINE item == Items[at.item]
             text == item.text
             w == Interned(text)
             tokens == IdsIn(w, text)
             c == at.campaign
             K == Len(campaigns[c].keywords)
             N == Len(campaigns[c].negatives)
             j0 == at.item - K
             row == RowAt(negatives, c)
             e == [match_type |-> item.match_type, tokens |-> tokens]
             kept == IF tokens = {} THEN row ELSE Append(row, e)
  <1>1. /\ Building /\ at.item <= Len(Items) /\ ~ AtKeyword /\ ~ InternFails(text)
        /\ vocab' = w /\ at' = [at EXCEPT !.item = @ + 1]
        /\ campaigns' = campaigns /\ pc' = pc
        /\ keywords' = keywords /\ exact' = exact /\ broad' = broad
        /\ negatives' = Append(SubSeq(negatives, 1, c - 1), kept)
    BY DEF AddNegative, NegativesSoFar, RowAt
  <1>2. campaigns \in Corpora /\ AtInv(campaigns, at) /\ at.campaign <= Len(campaigns) /\ pc = "build"
    BY <1>1 DEF BuildInv, Building
  <1>3. /\ c \in 1..Len(campaigns) /\ at.item \in Nat \ {0} /\ K \in Nat /\ N \in Nat
        /\ at.item <= K + N /\ at.item > K
        /\ \A j \in 1..N : Items[K + j] = campaigns[c].negatives[j]
    <2>1. /\ c \in 1..Len(campaigns) /\ at.item \in Nat \ {0} /\ K \in Nat /\ N \in Nat
          /\ Len(Items) = K + N /\ \A j \in 1..N : Items[K + j] = campaigns[c].negatives[j]
      BY <1>2, ItemsFacts
    <2>2. at.item <= Len(Items) /\ ~ (at.item <= K)
      BY <1>1 DEF AtKeyword
    <2> HIDE DEF K, N
    <2>3. at.item <= K + N /\ at.item > K
      BY <2>1, <2>2
    <2> QED
      BY <2>1, <2>3
  <1>4. j0 \in 1..N /\ K + j0 = at.item
    <2> HIDE DEF K, N
    <2> QED
      BY <1>3
  <1>5. item = campaigns[c].negatives[j0]
    BY <1>3, <1>4
  <1>6. /\ item.match_type \in MatchTypes
        /\ w \in Seq(Word) /\ Faithful(w) /\ Len(w) <= MaxTokenId + 1
        /\ tokens \in SUBSET Nat /\ tokens \subseteq 1..Len(w)
        /\ {w[t] : t \in tokens} = Words(text) /\ (tokens = {} <=> Words(text) = {})
        /\ KeywordsSound(campaigns, w, keywords) /\ KeywordsComplete(campaigns, at, w, keywords)
        /\ NegativesSound(campaigns, w, negatives) /\ NegativesComplete(campaigns, at, w, negatives)
    BY <1>1, NextItem
  <1>7. /\ AtInv(campaigns, at') /\ at'.campaign = c
        /\ \A d \in 1..Len(campaigns) : \A i \in 1..Len(campaigns[d].keywords) :
             KwDone(at', d, i) => KwDone(at, d, i) \/ (d = c /\ i = at.item)
        /\ \A d \in 1..Len(campaigns) : \A j \in 1..Len(campaigns[d].negatives) :
             NegDone(campaigns, at', d, j) =>
               \/ NegDone(campaigns, at, d, j)
               \/ d = c /\ j = at.item - Len(campaigns[d].keywords)
    BY <1>1, <1>2, <1>3, PlaceMoves
  <1>8. KeywordsComplete(campaigns, at', w, keywords)
    <2> SUFFICES ASSUME NEW d \in 1..Len(campaigns), NEW i \in 1..Len(campaigns[d].keywords), KwDone(at', d, i)
                 PROVE  KwDone(at, d, i)
      BY <1>6 DEF KeywordsComplete
    <2>1. ~ (d = c /\ i = at.item)
      <3> SUFFICES ASSUME d = c, i = at.item PROVE FALSE
        OBVIOUS
      <3>1. i \in 1..K
        OBVIOUS
      <3> HIDE DEF K, N
      <3> QED
        BY <1>3, <3>1
    <2> QED
      BY <1>7, <2>1
  <1>9. Len(campaigns) \in Nat /\ Len(negatives) \in {c - 1, c}
    BY <1>2, CorpusFacts DEF BuildInv
  <1>10. RowSound(campaigns, w, c, row) /\ RowComplete(campaigns, at, w, c, row)
    <2> HIDE DEF w, row
    <2> QED
      BY <1>3, <1>6, <1>9, RowFacts DEF row
  <1>11. \A j \in 1..Len(campaigns[c].negatives) :
           NegDone(campaigns, at', c, j) => NegDone(campaigns, at, c, j) \/ j = j0
    BY <1>3, <1>7
  <1>12. RowSound(campaigns, w, c, kept) /\ RowComplete(campaigns, at', w, c, kept)
    <2>1. CASE tokens = {}
      <3>1. kept = row /\ Words(campaigns[c].negatives[j0].text) = {}
        BY <1>5, <1>6, <2>1
      <3> HIDE DEF w, row, kept, j0
      <3> QED
        BY <1>4, <1>10, <1>11, <3>1, RowExtended
    <2>2. CASE tokens # {}
      <3>1. kept = Append(row, e)
        BY <2>2
      <3>2. e \in IndexedNegative /\ IsEntry(w, e, campaigns[c].negatives[j0])
        BY <1>5, <1>6, <2>2 DEF IndexedNegative, IsEntry
      <3> HIDE DEF w, row, kept, j0, e
      <3> QED
        BY <1>4, <1>10, <1>11, <3>1, <3>2, RowExtended
    <2> QED
      BY <2>1, <2>2
  <1>13. \A d \in 1..Len(campaigns) : \A j \in 1..Len(campaigns[d].negatives) :
           NegDone(campaigns, at', d, j) => d = c \/ (d < c /\ NegDone(campaigns, at, d, j))
    <2> SUFFICES ASSUME NEW d \in 1..Len(campaigns), NEW j \in 1..Len(campaigns[d].negatives),
                        NegDone(campaigns, at', d, j)
                 PROVE  d = c \/ (d < c /\ NegDone(campaigns, at, d, j))
      OBVIOUS
    <2>1. d < c \/ d = c
      BY <1>7 DEF NegDone
    <2> QED
      BY <1>7, <2>1
  <1>14. /\ NegativesSound(campaigns, w, negatives') /\ NegativesComplete(campaigns, at', w, negatives')
         /\ Len(negatives') = c
    <2> DEFINE b == at'
    <2> HIDE DEF w, kept, c, K, N, j0
    <2>1. c \in 1..Len(campaigns) /\ NegativesSound(campaigns, w, negatives) /\ NegativesComplete(campaigns, at, w, negatives)
      BY <1>3, <1>6
    <2>2. RowComplete(campaigns, b, w, c, kept)
      BY <1>12
    <2>3. \A d \in 1..Len(campaigns) : \A j \in 1..Len(campaigns[d].negatives) :
            NegDone(campaigns, b, d, j) => d = c \/ (d < c /\ NegDone(campaigns, at, d, j))
      BY <1>13
    <2> HIDE DEF b
    <2>4. /\ NegativesSound(campaigns, w, Append(SubSeq(negatives, 1, c - 1), kept))
          /\ NegativesComplete(campaigns, b, w, Append(SubSeq(negatives, 1, c - 1), kept))
          /\ Len(Append(SubSeq(negatives, 1, c - 1), kept)) = c
      BY <1>9, <1>12, <2>1, <2>2, <2>3, RowKept
    <2> QED
      BY <1>1, <2>4 DEF b
  <1>15. ExactInv(keywords, exact) /\ BroadInv(keywords, broad)
    BY DEF BuildInv
  <1> HIDE DEF w, kept
  <1> QED
    BY <1>1, <1>2, <1>6, <1>7, <1>8, <1>9, <1>14, <1>15 DEF BuildInv

LEMMA NextCampaignKept ==
  ASSUME BuildInv, NextCampaign
  PROVE  BuildInv'
  <1> DEFINE c == at.campaign
             K == Len(campaigns[c].keywords)
             N == Len(campaigns[c].negatives)
             row == RowAt(negatives, c)
  <1>1. /\ Building /\ at.item > Len(Items)
        /\ at' = [campaign |-> c + 1, item |-> 1]
        /\ campaigns' = campaigns /\ pc' = pc /\ vocab' = vocab
        /\ keywords' = keywords /\ exact' = exact /\ broad' = broad
        /\ negatives' = Append(SubSeq(negatives, 1, c - 1), row)
    BY DEF NextCampaign, NegativesSoFar, RowAt
  <1>2. campaigns \in Corpora /\ AtInv(campaigns, at) /\ at.campaign <= Len(campaigns) /\ pc = "build"
    BY <1>1 DEF BuildInv, Building
  <1>3. /\ c \in 1..Len(campaigns) /\ K \in Nat /\ N \in Nat /\ at.item > K + N
    BY <1>1, <1>2, ItemsFacts
  <1>4. /\ AtInv(campaigns, at') /\ at'.campaign = c + 1
        /\ \A d \in 1..Len(campaigns) : \A i \in 1..Len(campaigns[d].keywords) :
             KwDone(at', d, i) => KwDone(at, d, i)
        /\ \A d \in 1..Len(campaigns) : \A j \in 1..Len(campaigns[d].negatives) :
             NegDone(campaigns, at', d, j) => NegDone(campaigns, at, d, j) /\ d <= c
    BY <1>1, <1>2, <1>3, CampaignDone
  <1>5. /\ KeywordsSound(campaigns, vocab, keywords) /\ KeywordsComplete(campaigns, at, vocab, keywords)
        /\ NegativesSound(campaigns, vocab, negatives) /\ NegativesComplete(campaigns, at, vocab, negatives)
    BY DEF BuildInv
  <1>6. KeywordsComplete(campaigns, at', vocab, keywords)
    BY <1>4, <1>5 DEF KeywordsComplete
  <1>7. Len(campaigns) \in Nat /\ Len(negatives) \in {c - 1, c}
    BY <1>2, CorpusFacts DEF BuildInv
  <1>8. RowSound(campaigns, vocab, c, row) /\ RowComplete(campaigns, at, vocab, c, row)
    <2> HIDE DEF c, row, K, N
    <2> QED
      BY <1>3, <1>5, <1>7, RowFacts DEF row
  <1> HIDE DEF row
  <1>9. RowComplete(campaigns, at', vocab, c, row)
    BY <1>3, <1>4, <1>8 DEF RowComplete
  <1>10. \A d \in 1..Len(campaigns) : \A j \in 1..Len(campaigns[d].negatives) :
           NegDone(campaigns, at', d, j) => d = c \/ (d < c /\ NegDone(campaigns, at, d, j))
    BY <1>3, <1>4
  <1>11. /\ NegativesSound(campaigns, vocab, negatives') /\ NegativesComplete(campaigns, at', vocab, negatives')
         /\ Len(negatives') = c
    <2> DEFINE b == at'
    <2> HIDE DEF c, K, N
    <2>1. RowComplete(campaigns, b, vocab, c, row)
      BY <1>9
    <2>2. \A d \in 1..Len(campaigns) : \A j \in 1..Len(campaigns[d].negatives) :
            NegDone(campaigns, b, d, j) => d = c \/ (d < c /\ NegDone(campaigns, at, d, j))
      BY <1>10
    <2> HIDE DEF b
    <2>3. /\ NegativesSound(campaigns, vocab, Append(SubSeq(negatives, 1, c - 1), row))
          /\ NegativesComplete(campaigns, b, vocab, Append(SubSeq(negatives, 1, c - 1), row))
          /\ Len(Append(SubSeq(negatives, 1, c - 1), row)) = c
      BY <1>3, <1>5, <1>7, <1>8, <2>1, <2>2, RowKept
    <2> QED
      BY <1>1, <2>3 DEF b
  <1>12. Len(negatives') = at'.campaign - 1
    BY <1>3, <1>4, <1>11
  <1> QED
    BY <1>1, <1>2, <1>4, <1>5, <1>6, <1>11, <1>12 DEF BuildInv

LEMMA BuildKept ==
  ASSUME BuildInv, [Next]_vars
  PROVE  BuildInv'
  <1>1. CASE CheckIds
    <2>1. /\ campaigns' = campaigns /\ at' = at /\ vocab' = vocab /\ keywords' = keywords /\ exact' = exact
          /\ broad' = broad /\ negatives' = negatives
          /\ (pc' = "build" /\ Buildable(campaigns)) \/ pc' = "rejected"
      BY <1>1 DEF CheckIds, index
    <2> QED
      BY <2>1 DEF BuildInv
  <1>2. CASE VocabularyFull
    <2>1. /\ campaigns' = campaigns /\ at' = at /\ vocab' = vocab /\ keywords' = keywords /\ exact' = exact
          /\ broad' = broad /\ negatives' = negatives /\ pc' = "rejected"
      BY <1>2 DEF VocabularyFull, index
    <2> QED
      BY <2>1 DEF BuildInv
  <1>3. CASE AddKeyword
    BY <1>3, AddKeywordKept
  <1>4. CASE AddNegative
    BY <1>4, AddNegativeKept
  <1>5. CASE NextCampaign
    BY <1>5, NextCampaignKept
  <1>6. CASE Built
    <2>1. /\ campaigns' = campaigns /\ at' = at /\ vocab' = vocab /\ keywords' = keywords /\ exact' = exact
          /\ broad' = broad /\ negatives' = negatives
          /\ pc = "build" /\ at.campaign > Len(campaigns) /\ pc' = "ready"
      BY <1>6 DEF Built, index
    <2>2. AtInv(campaigns, at) /\ campaigns \in Corpora /\ Len(negatives) \in {at.campaign - 1, at.campaign}
      BY DEF BuildInv
    <2>3. Len(campaigns) \in Nat /\ at.campaign = Len(campaigns) + 1
      BY <2>1, <2>2, CorpusFacts DEF AtInv
    <2>4. Len(negatives) = Len(campaigns)
      <3>1. Len(negatives) <= Len(campaigns)
        BY DEF BuildInv, NegativesSound
      <3> QED
        BY <2>2, <2>3, <3>1
    <2> QED
      BY <2>1, <2>3, <2>4 DEF BuildInv
  <1>7. CASE Prepare \/ Lookup \/ Offer \/ NextQuery
    <2>1. /\ campaigns' = campaigns /\ at' = at /\ vocab' = vocab /\ keywords' = keywords /\ exact' = exact
          /\ broad' = broad /\ negatives' = negatives
          /\ pc \in {"ready", "prepared", "offering"} /\ pc' \in {"ready", "prepared", "offering"}
      BY <1>7 DEF Prepare, Lookup, Offer, NextQuery, Answered, index
    <2> QED
      BY <2>1 DEF BuildInv
  <1>8. CASE UNCHANGED vars
    <2>1. /\ campaigns' = campaigns /\ pc' = pc /\ at' = at /\ vocab' = vocab /\ keywords' = keywords
          /\ exact' = exact /\ broad' = broad /\ negatives' = negatives
      BY <1>8 DEF vars, index
    <2> QED
      BY <2>1 DEF BuildInv
  <1> QED
    BY <1>1, <1>2, <1>3, <1>4, <1>5, <1>6, <1>7, <1>8 DEF Next

(***************************************************************************)
(* Comparing ids is comparing words.                                       *)
(***************************************************************************)
LEMMA ImageSize ==
  ASSUME NEW S, IsFiniteSet(S), NEW f, \A x, y \in S : f[x] = f[y] => x = y
  PROVE  /\ IsFiniteSet({f[x] : x \in S})
         /\ Cardinality({f[x] : x \in S}) = Cardinality(S)
  <1> DEFINE T == {f[x] : x \in S}
             g == [x \in S |-> f[x]]
  <1>1. g \in Bijection(S, T)
    BY DEF Bijection, Injection, Surjection, IsInjective
  <1>2. ExistsBijection(S, T)
    BY <1>1 DEF ExistsBijection
  <1> HIDE DEF T
  <1> QED
    BY <1>2, FS_Bijection DEF T

LEMMA EntryFacts ==
  ASSUME NEW v, Faithful(v), NEW e, NEW item, IsEntry(v, e, item)
  PROVE  /\ IsFiniteSet(e.tokens) /\ Cardinality(e.tokens) = Cardinality(Words(item.text))
         /\ Words(item.text) # {} /\ IsFiniteSet(Words(item.text)) /\ Cardinality(e.tokens) \in Nat
         /\ \A d : IsEntry(v, d, item) => d.tokens = e.tokens
  <1> DEFINE T == e.tokens
  <1>1. /\ T \subseteq 1..Len(v) /\ T # {} /\ {v[t] : t \in T} = Words(item.text)
        /\ \A i, j \in 1..Len(v) : v[i] = v[j] => i = j
    BY DEF IsEntry, Faithful
  <1>2. IsFiniteSet(T)
    <2>1. Len(v) \in Nat
      BY DEF Faithful
    <2>2. IsFiniteSet(1..Len(v))
      BY <2>1, FS_Interval
    <2> QED
      BY <1>1, <2>2, FS_Subset
  <1>3. IsFiniteSet(Words(item.text)) /\ Cardinality(Words(item.text)) = Cardinality(T)
    <2>1. \A x, y \in T : v[x] = v[y] => x = y
      BY <1>1
    <2> HIDE DEF T
    <2>2. IsFiniteSet({v[t] : t \in T}) /\ Cardinality({v[t] : t \in T}) = Cardinality(T)
      BY <1>2, <2>1, ImageSize
    <2> QED
      BY <1>1, <2>2
  <1>4. ASSUME NEW d, IsEntry(v, d, item) PROVE d.tokens = T
    <2>1. d.tokens \subseteq 1..Len(v) /\ {v[t] : t \in d.tokens} = Words(item.text)
      BY <1>4 DEF IsEntry
    <2> DEFINE U == d.tokens
    <2>2. U \subseteq 1..Len(v) /\ {v[t] : t \in U} = {v[t] : t \in T}
      BY <1>1, <2>1
    <2> HIDE DEF T, U
    <2>3. ASSUME NEW t \in T PROVE t \in U
      <3>1. v[t] \in {v[u] : u \in U}
        BY <2>2
      <3>2. PICK u \in U : v[u] = v[t]
        BY <3>1
      <3> QED
        BY <1>1, <2>2, <3>2
    <2>4. ASSUME NEW u \in U PROVE u \in T
      <3>1. v[u] \in {v[t] : t \in T}
        BY <2>2
      <3>2. PICK t \in T : v[t] = v[u]
        BY <3>1
      <3> QED
        BY <1>1, <2>2, <3>2
    <2> QED
      BY <2>3, <2>4 DEF U
  <1>5. Cardinality(T) \in Nat
    BY <1>2, FS_CardinalityType
  <1>6. Words(item.text) # {}
    BY <1>1
  <1> QED
    BY <1>2, <1>3, <1>4, <1>5, <1>6

LEMMA KnownFacts ==
  ASSUME NEW v, Faithful(v), NEW text, text \in Seq(Words(text)), NEW e, NEW item, IsEntry(v, e, item)
  PROVE  LET k == IdsIn(v, text)
         IN  /\ e.tokens \subseteq k <=> Words(item.text) \subseteq Words(text)
             /\ (Cardinality(k) = Cardinality(Words(text)) /\ e.tokens = k) <=> Words(item.text) = Words(text)
  <1> DEFINE k == IdsIn(v, text)
             T == e.tokens
             W == Words(item.text)
             Q == Words(text)
             image == {v[t] : t \in k}
  <1>1. /\ T \subseteq 1..Len(v) /\ {v[t] : t \in T} = W
        /\ \A i, j \in 1..Len(v) : v[i] = v[j] => i = j
    BY DEF IsEntry, Faithful
  <1>2. k = {t \in 1..Len(v) : v[t] \in Q}
    BY DEF IdsIn
  <1>3. Cardinality(T) = Cardinality(W)
    BY EntryFacts
  <1>4. IsFiniteSet(Q)
    BY ListIsFinite DEF Words
  <1>5. IsFiniteSet(k)
    <2>1. Len(v) \in Nat
      BY DEF Faithful
    <2>2. IsFiniteSet(1..Len(v))
      BY <2>1, FS_Interval
    <2> HIDE DEF k
    <2> QED
      BY <1>2, <2>2, FS_Subset
  <1> HIDE DEF k, T, W, Q
  <1>6. image \subseteq Q /\ Cardinality(image) = Cardinality(k)
    <2>1. \A x, y \in k : v[x] = v[y] => x = y
      BY <1>1, <1>2
    <2> QED
      BY <1>2, <1>5, <2>1, ImageSize
  <1>7. T \subseteq k <=> W \subseteq Q
    BY <1>1, <1>2
  <1>8. ASSUME Cardinality(k) = Cardinality(Q), T = k PROVE W = Q
    <2>1. image = W
      BY <1>1, <1>8
    <2>2. Cardinality(image) = Cardinality(Q)
      BY <1>6, <1>8
    <2> HIDE DEF image
    <2>3. image = Q
      BY <1>4, <1>6, <2>2, FS_Subset
    <2> QED
      BY <2>1, <2>3
  <1>9. ASSUME W = Q PROVE Cardinality(k) = Cardinality(Q) /\ T = k
    <2>1. T \subseteq k
      BY <1>7, <1>9
    <2>2. ASSUME NEW t \in k PROVE t \in T
      <3>1. t \in 1..Len(v) /\ v[t] \in W
        BY <1>2, <1>9
      <3>2. PICK u \in T : v[u] = v[t]
        BY <1>1, <3>1
      <3> QED
        BY <1>1, <3>1, <3>2
    <2> QED
      BY <1>3, <1>9, <2>1, <2>2
  <1> QED
    BY <1>7, <1>8, <1>9 DEF k, T, W, Q

LEMMA QueryFacts ==
  ASSUME BuildInv, QueryInv, pc \in {"prepared", "offering"}
  PROVE  /\ query \in Seq(Words(query)) /\ known = IdsIn(vocab, query)
         /\ IsFiniteSet(known) /\ Distinct \in Nat \ {0}
  <1>1. query \in QueryTexts /\ known = IdsIn(vocab, query) /\ Len(vocab) \in Nat
    BY DEF BuildInv, QueryInv, Faithful
  <1>2. query \in Seq(Words(query)) \ {<<>>}
    BY <1>1, KeywordIndexAssumption
  <1>3. IsFiniteSet(Words(query)) /\ Words(query) = {query[i] : i \in 1..Len(query)}
    BY <1>2, ListIsFinite DEF Words
  <1>4. Words(query) # {}
    <2>1. Len(query) \in Nat /\ Len(query) # 0
      BY <1>2
    <2>2. 1 \in 1..Len(query)
      BY <2>1
    <2> QED
      BY <1>3, <2>2
  <1>5. Distinct \in Nat \ {0}
    <2>1. Cardinality(Words(query)) \in Nat /\ Cardinality(Words(query)) # 0
      BY <1>3, <1>4, FS_CardinalityType, FS_EmptySet
    <2> QED
      BY <2>1 DEF Distinct
  <1>6. IsFiniteSet(known)
    <2>1. known \subseteq 1..Len(vocab) /\ IsFiniteSet(1..Len(vocab))
      BY <1>1, FS_Interval DEF IdsIn
    <2> QED
      BY <2>1, FS_Subset
  <1> QED
    BY <1>1, <1>2, <1>5, <1>6

(* An entry is hit when its text matches the query.                        *)
LEMMA HitFacts ==
  ASSUME BuildInv, QueryInv, pc \in {"prepared", "offering"},
         NEW e, NEW item, IsEntry(vocab, e, item), item.match_type \in MatchTypes
  PROVE  Hit(e) <=> TextMatches(item)
  <1>1. query \in Seq(Words(query)) /\ known = IdsIn(vocab, query) /\ Faithful(vocab)
    BY QueryFacts DEF BuildInv
  <1>2. /\ e.tokens \subseteq known <=> Words(item.text) \subseteq Words(query)
        /\ (Cardinality(known) = Cardinality(Words(query)) /\ e.tokens = known)
             <=> Words(item.text) = Words(query)
    BY <1>1, KnownFacts
  <1>3. Words(item.text) # {} /\ e.match_type = item.match_type
    BY <1>1, EntryFacts DEF IsEntry
  <1>4. CASE item.match_type = "exact"
    BY <1>2, <1>3, <1>4 DEF Hit, AllKnown, Distinct, TextMatches, MatchesWords
  <1>5. CASE item.match_type = "broad"
    BY <1>2, <1>3, <1>5 DEF Hit, TextMatches, MatchesWords
  <1> QED
    BY <1>4, <1>5 DEF MatchTypes

LEMMA InterningHolds == BuildInv => InterningIsFaithful
  <1> SUFFICES ASSUME BuildInv PROVE InterningIsFaithful
    OBVIOUS
  <1>1. campaigns \in Corpora /\ Faithful(vocab) /\ Len(vocab) <= MaxTokenId + 1
        /\ KeywordsSound(campaigns, vocab, keywords)
    BY DEF BuildInv
  <1>2. ASSUME NEW p \in 1..Len(keywords)
        PROVE  \E kw \in ToSet(campaigns[keywords[p].campaign].keywords) :
                 /\ kw.id = keywords[p].id
                 /\ {vocab[t] : t \in keywords[p].tokens} = Words(kw.text)
    <2> DEFINE c == keywords[p].campaign
               list == campaigns[c].keywords
    <2>1. PICK i \in 1..Len(list) : c \in 1..Len(campaigns) /\ IsKeyword(vocab, keywords[p], list[i])
      BY <1>1 DEF KeywordsSound
    <2>2. list \in Seq(AllItems)
      BY <1>1, <2>1, CorpusFacts
    <2> HIDE DEF list
    <2>3. list[i] \in ToSet(list)
      BY <2>1, <2>2 DEF ToSet
    <2> QED
      BY <2>1, <2>3 DEF IsKeyword, IsEntry, list
  <1> QED
    BY <1>1, <1>2 DEF InterningIsFaithful, Faithful

LEMMA BlockingHolds == BuildInv /\ QueryInv => NegativesBlockExactly
  <1> SUFFICES ASSUME BuildInv, QueryInv, pc \in {"prepared", "offering"}, NEW c \in 1..Len(campaigns)
               PROVE  NegativeMatches(c) <=> \E n \in ToSet(campaigns[c].negatives) : TextMatches(n)
    BY DEF NegativesBlockExactly
  <1> DEFINE list == campaigns[c].negatives
             row == negatives[c]
  <1>1. /\ campaigns \in Corpora /\ Len(campaigns) \in Nat
        /\ NegativesSound(campaigns, vocab, negatives) /\ NegativesComplete(campaigns, at, vocab, negatives)
        /\ at.campaign = Len(campaigns) + 1 /\ Len(negatives) = Len(campaigns)
    BY CorpusFacts DEF BuildInv
  <1>2. /\ list \in Seq(AllItems) /\ Len(list) \in Nat /\ ToSet(list) = {list[j] : j \in 1..Len(list)}
        /\ \A j \in 1..Len(list) : list[j].match_type \in MatchTypes
    BY <1>1, CorpusFacts, ListIsFinite
  <1>3. \A i \in 1..Len(row) : \E j \in 1..Len(list) : IsEntry(vocab, row[i], list[j])
    BY <1>1 DEF NegativesSound
  <1>4. \A j \in 1..Len(list) : Words(list[j].text) # {} => \E i \in 1..Len(row) : IsEntry(vocab, row[i], list[j])
    <2>1. c < at.campaign
      BY <1>1
    <2>2. \A j : NegDone(campaigns, at, c, j)
      BY <2>1 DEF NegDone
    <2> QED
      BY <1>1, <2>2 DEF NegativesComplete
  <1> HIDE DEF list, row
  <1>5. \A i \in 1..Len(row) : \A j \in 1..Len(list) :
          IsEntry(vocab, row[i], list[j]) => (Hit(row[i]) <=> TextMatches(list[j]))
    BY <1>2, HitFacts
  <1>6. ASSUME NEW i \in 1..Len(row), Hit(row[i]) PROVE \E n \in ToSet(list) : TextMatches(n)
    BY <1>2, <1>3, <1>5, <1>6
  <1>7. ASSUME NEW n \in ToSet(list), TextMatches(n) PROVE \E i \in 1..Len(row) : Hit(row[i])
    <2>1. PICK j \in 1..Len(list) : n = list[j]
      BY <1>2
    <2>2. Words(list[j].text) # {}
      BY <1>7, <2>1 DEF TextMatches, MatchesWords
    <2> QED
      BY <1>4, <1>5, <1>7, <2>1, <2>2
  <1>8. NegativeMatches(c) <=> \E i \in 1..Len(row) : Hit(row[i])
    <2>1. \A i \in 1..Len(row) : row[i].match_type \in MatchTypes
      <3>1. ASSUME NEW i \in 1..Len(row) PROVE row[i].match_type \in MatchTypes
        <4>1. PICK j \in 1..Len(list) : IsEntry(vocab, row[i], list[j])
          BY <1>3
        <4> QED
          BY <1>2, <4>1 DEF IsEntry
      <3> QED
        BY <3>1
    <2>2. \A i \in 1..Len(row) :
            Hit(row[i]) <=> \/ row[i].match_type = "exact" /\ AllKnown /\ row[i].tokens = known
                            \/ row[i].match_type = "broad" /\ row[i].tokens \subseteq known
      BY <2>1 DEF Hit, MatchTypes
    <2> QED
      BY <2>2 DEF NegativeMatches, row
  <1> QED
    BY <1>6, <1>7, <1>8 DEF list

(***************************************************************************)
(* Keeping the better of two: no order of offers can change the outcome.   *)
(***************************************************************************)
LEMMA BeatsIsAnOrder ==
  ASSUME NEW x \in Match, NEW y \in Match, NEW z \in Match
  PROVE  /\ Beats(x, y) /\ Beats(y, z) => Beats(x, z)
         /\ x.keyword_id # y.keyword_id => Beats(x, y) \/ Beats(y, x)
  <1> DEFINE sx == MatchScore(x)
             sy == MatchScore(y)
             sz == MatchScore(z)
  <1>1. \A m \in Match : MatchScore(m) \in Int
    <2> SUFFICES ASSUME NEW m \in Match PROVE MatchScore(m) \in Int
      OBVIOUS
    <2> DEFINE a == IF m.bid < 0 THEN 0 ELSE m.bid
               b == m.relevance
    <2>1. a \in Int /\ b \in Int
      BY DEF Match
    <2>2. MatchScore(m) = a * b
      BY DEF MatchScore
    <2> HIDE DEF a, b
    <2> QED
      BY <2>1, <2>2
  <1>2. sx \in Int /\ sy \in Int /\ sz \in Int
    BY <1>1
  <1>3. /\ x.bid \in Int /\ y.bid \in Int /\ z.bid \in Int
        /\ x.keyword_id \in Int /\ y.keyword_id \in Int /\ z.keyword_id \in Int
    BY DEF Match
  <1>4. /\ Beats(x, y) <=> \/ sx > sy
                           \/ sx = sy /\ x.bid > y.bid
                           \/ sx = sy /\ x.bid = y.bid /\ x.keyword_id < y.keyword_id
        /\ Beats(y, x) <=> \/ sy > sx
                           \/ sy = sx /\ y.bid > x.bid
                           \/ sy = sx /\ y.bid = x.bid /\ y.keyword_id < x.keyword_id
        /\ Beats(y, z) <=> \/ sy > sz
                           \/ sy = sz /\ y.bid > z.bid
                           \/ sy = sz /\ y.bid = z.bid /\ y.keyword_id < z.keyword_id
        /\ Beats(x, z) <=> \/ sx > sz
                           \/ sx = sz /\ x.bid > z.bid
                           \/ sx = sz /\ x.bid = z.bid /\ x.keyword_id < z.keyword_id
    BY DEF Beats
  <1> HIDE DEF sx, sy, sz
  <1> QED
    BY <1>2, <1>3, <1>4

LEMMA BestKept ==
  ASSUME NEW M, M \subseteq Match, NEW m \in Match, NEW b, IsBest(b, M),
         \A x, y \in M \cup {m} : x.keyword_id = y.keyword_id => x = y
  PROVE  IsBest(IF b = NoMatch \/ Beats(m, b) THEN m ELSE b, M \cup {m})
  <1> DEFINE new == IF b = NoMatch \/ Beats(m, b) THEN m ELSE b
  <1>1. m \in M \cup {m}
    OBVIOUS
  <1>2. CASE M = {}
    <2>1. b = NoMatch /\ M \cup {m} = {m} /\ new = m
      BY <1>2 DEF IsBest
    <2> HIDE DEF new
    <2> QED
      BY <2>1 DEF IsBest, new
  <1>3. CASE M # {}
    <2>1. b \in M /\ \A x \in M : x # b => Beats(b, x)
      BY <1>3 DEF IsBest
    <2>2. b # NoMatch
      <3>1. b \in Match
        BY <2>1
      <3> QED
        BY <3>1 DEF Match, NoMatch, MatchTypes
    <2>3. CASE Beats(m, b)
      <3>1. new = m
        BY <2>3
      <3>2. ASSUME NEW x \in M \cup {m}, x # m PROVE Beats(m, x)
        <4>1. x \in M
          BY <3>2
        <4>2. CASE x = b
          BY <2>3, <4>2
        <4>3. CASE x # b
          BY <2>1, <2>3, <4>1, <4>3, BeatsIsAnOrder
        <4> QED
          BY <4>2, <4>3
      <3> HIDE DEF new
      <3> QED
        BY <1>1, <3>1, <3>2 DEF IsBest, new
    <2>4. CASE ~ Beats(m, b)
      <3>1. new = b
        BY <2>2, <2>4
      <3>2. ASSUME NEW x \in M \cup {m}, x # b PROVE Beats(b, x)
        <4>1. CASE x \in M
          BY <2>1, <3>2, <4>1
        <4>2. CASE x = m
          <5>1. m.keyword_id # b.keyword_id
            BY <2>1, <3>2, <4>2
          <5> QED
            BY <2>1, <2>4, <4>2, <5>1, BeatsIsAnOrder
        <4> QED
          BY <4>1, <4>2
      <3>3. b \in M \cup {m}
        BY <2>1
      <3> HIDE DEF new
      <3> QED
        BY <1>1, <3>1, <3>2, <3>3 DEF IsBest, new
    <2> QED
      BY <2>3, <2>4
  <1> QED
    BY <1>2, <1>3

(* A position stands for one match of its campaign, whatever the position. *)
LEMMA RelevanceIsPositive ==
  ASSUME NEW n \in Nat, NEW q \in Nat \ {0}
  PROVE  BroadRelevance(n, q) \in Nat \ {0}
  <1>1. (BroadWeight * n) \div q \in Int
    BY DEF BroadWeight
  <1> DEFINE r == (BroadWeight * n) \div q
  <1> HIDE DEF r
  <1>2. Clamp(r, MinRelevance, BroadWeight) \in Nat \ {0}
    BY <1>1 DEF r, Clamp, MinRelevance, BroadWeight
  <1> QED
    BY <1>2 DEF BroadRelevance, r

LEMMA PositionFacts ==
  ASSUME BuildInv, NEW q \in Nat \ {0}, NEW p \in 1..Len(keywords)
  PROVE  /\ keywords[p] \in IndexedKeyword /\ keywords[p].campaign \in 1..Len(campaigns)
         /\ keywords[p].tokens # {} /\ IsFiniteSet(keywords[p].tokens)
         /\ MatchAt(keywords, p, q) \in Match
  <1> DEFINE e == keywords[p]
  <1>1. Faithful(vocab) /\ KeywordsSound(campaigns, vocab, keywords)
    BY DEF BuildInv
  <1>2. e \in IndexedKeyword
    BY <1>1 DEF KeywordsSound
  <1>3. PICK i : e.campaign \in 1..Len(campaigns) /\ IsKeyword(vocab, e, campaigns[e.campaign].keywords[i])
    BY <1>1 DEF KeywordsSound
  <1>4. IsFiniteSet(e.tokens) /\ Cardinality(e.tokens) \in Nat /\ e.tokens # {}
    <2>1. IsEntry(vocab, e, campaigns[e.campaign].keywords[i])
      BY <1>3 DEF IsKeyword
    <2> QED
      BY <1>1, <2>1, EntryFacts DEF IsEntry
  <1>5. MatchAt(keywords, p, q) \in Match
    <2> DEFINE r == IF e.match_type = "exact" THEN ExactRelevance ELSE BroadRelevance(Cardinality(e.tokens), q)
    <2>1. r \in Nat \ {0}
      <3> DEFINE n == Cardinality(e.tokens)
                 given == BroadRelevance(n, q)
      <3>1. n \in Nat
        BY <1>4
      <3> HIDE DEF n
      <3>2. given \in Nat \ {0}
        BY <3>1, RelevanceIsPositive
      <3>3. ExactRelevance \in Nat \ {0}
        BY DEF ExactRelevance
      <3>4. r = ExactRelevance \/ r = given
        BY DEF n
      <3> HIDE DEF given, r
      <3> QED
        BY <3>2, <3>3, <3>4
    <2>2. MatchAt(keywords, p, q) = [keyword_id |-> e.id, match_type |-> e.match_type, bid |-> e.bid, relevance |-> r]
      BY DEF MatchAt
    <2> HIDE DEF r, e
    <2> QED
      BY <1>2, <2>1, <2>2 DEF Match, IndexedKeyword
  <1> QED
    BY <1>2, <1>3, <1>4, <1>5

LEMMA SameIdSameMatch ==
  ASSUME BuildInv, pc \notin {"check", "rejected"}, NEW q,
         NEW p \in 1..Len(keywords), NEW r \in 1..Len(keywords),
         keywords[p].campaign = keywords[r].campaign,
         MatchAt(keywords, p, q).keyword_id = MatchAt(keywords, r, q).keyword_id
  PROVE  MatchAt(keywords, p, q) = MatchAt(keywords, r, q)
  <1> DEFINE d == keywords[p]
             e == keywords[r]
             c == d.campaign
             list == campaigns[c].keywords
  <1>1. /\ campaigns \in Corpora /\ Buildable(campaigns) /\ Faithful(vocab)
        /\ KeywordsSound(campaigns, vocab, keywords)
    BY DEF BuildInv
  <1>2. c \in 1..Len(campaigns) /\ e.campaign = c /\ d.id = e.id
    BY <1>1 DEF KeywordsSound, MatchAt
  <1>3. PICK i \in 1..Len(list) : IsKeyword(vocab, d, list[i])
    BY <1>1 DEF KeywordsSound
  <1>4. PICK j \in 1..Len(list) : IsKeyword(vocab, e, list[j])
    BY <1>1, <1>2 DEF KeywordsSound
  <1>5. list[i].id = list[j].id
    BY <1>2, <1>3, <1>4 DEF IsKeyword
  <1>6. i = j
    BY <1>1, <1>2, <1>5, KeywordIdsDiffer
  <1>7. d.match_type = e.match_type /\ d.bid = e.bid /\ d.tokens = e.tokens
    <2>1. IsEntry(vocab, d, list[i]) /\ IsEntry(vocab, e, list[i]) /\ d.bid = e.bid
      BY <1>3, <1>4, <1>6 DEF IsKeyword
    <2>2. d.tokens = e.tokens
      <3> HIDE DEF d, e, list
      <3> QED
        BY <1>1, <2>1, EntryFacts
    <2> QED
      BY <2>1, <2>2 DEF IsEntry
  <1> QED
    BY <1>2, <1>7 DEF MatchAt

(* The best over some positions, and one more position.                    *)
Bests == [1..Len(campaigns) -> Match \cup {NoMatch}]
BestOver(b, places) ==
  /\ b \in Bests /\ places \subseteq 1..Len(keywords)
  /\ \A c \in 1..Len(campaigns) : IsBest(b[c], MatchesAt(keywords, places, c, Distinct))

LEMMA BetterKept ==
  ASSUME BuildInv, QueryInv, pc \in {"prepared", "offering"},
         NEW b, NEW places, BestOver(b, places), NEW p \in 1..Len(keywords)
  PROVE  LET r == MatchAt(keywords, p, Distinct).relevance
         IN  BestOver(Better(b, p, r), places \cup {p})
  <1> DEFINE q == Distinct
             m == MatchAt(keywords, p, q)
             new == Better(b, p, m.relevance)
             home == keywords[p].campaign
             keep == IF b[home] = NoMatch \/ Beats(m, b[home]) THEN m ELSE b[home]
             over(places_, c) == MatchesAt(keywords, places_, c, q)
  <1>1. q \in Nat \ {0}
    BY QueryFacts
  <1> HIDE DEF q
  <1>2. m \in Match /\ home \in 1..Len(campaigns)
    BY <1>1, PositionFacts
  <1>3. b \in Bests /\ places \subseteq 1..Len(keywords)
    BY DEF BestOver
  <1>4. new = [b EXCEPT ![home] = keep]
    <2>1. m = [keyword_id |-> keywords[p].id, match_type |-> keywords[p].match_type, bid |-> keywords[p].bid,
               relevance |-> m.relevance]
      BY DEF MatchAt
    <2> HIDE DEF m
    <2> QED
      BY <2>1 DEF Better
  <1>5. over(places \cup {p}, home) = over(places, home) \cup {m}
    BY DEF MatchesAt
  <1>6. \A c : c # home => over(places \cup {p}, c) = over(places, c)
    BY DEF MatchesAt
  <1>7. over(places, home) \subseteq Match
    <2>1. \A x \in places : MatchAt(keywords, x, q) \in Match
      BY <1>1, <1>3, PositionFacts
    <2> QED
      BY <2>1 DEF MatchesAt
  <1>8. \A x, y \in over(places, home) \cup {m} : x.keyword_id = y.keyword_id => x = y
    <2> SUFFICES ASSUME NEW x \in over(places \cup {p}, home), NEW y \in over(places \cup {p}, home),
                        x.keyword_id = y.keyword_id
                 PROVE  x = y
      BY <1>5
    <2>1. PICK i \in places \cup {p} : keywords[i].campaign = home /\ x = MatchAt(keywords, i, q)
      BY DEF MatchesAt
    <2>2. PICK j \in places \cup {p} : keywords[j].campaign = home /\ y = MatchAt(keywords, j, q)
      BY DEF MatchesAt
    <2>3. i \in 1..Len(keywords) /\ j \in 1..Len(keywords)
      BY <1>3
    <2>4. pc \notin {"check", "rejected"}
      OBVIOUS
    <2> HIDE DEF home
    <2> QED
      BY <2>1, <2>2, <2>3, <2>4, SameIdSameMatch
  <1>9. \A c \in 1..Len(campaigns) : IsBest(b[c], over(places, c))
    BY DEF BestOver, q
  <1> HIDE DEF over, m, home
  <1>10. IsBest(keep, over(places, home) \cup {m})
    <2> DEFINE old == b[home]
               M == over(places, home)
    <2>1. IsBest(old, M)
      BY <1>2, <1>9
    <2> HIDE DEF old, M
    <2>2. IsBest(IF old = NoMatch \/ Beats(m, old) THEN m ELSE old, M \cup {m})
      BY <1>2, <1>7, <1>8, <2>1, BestKept DEF M
    <2> QED
      BY <2>2 DEF old, M
  <1>11. keep \in Match \cup {NoMatch}
    BY <1>2, <1>3 DEF Bests
  <1> HIDE DEF keep
  <1>12. new \in Bests /\ new[home] = keep /\ \A c \in 1..Len(campaigns) : c # home => new[c] = b[c]
    BY <1>2, <1>3, <1>4, <1>11 DEF Bests
  <1> HIDE DEF new
  <1>13. ASSUME NEW c \in 1..Len(campaigns) PROVE IsBest(new[c], over(places \cup {p}, c))
    <2>1. CASE c = home
      BY <1>5, <1>10, <1>12, <2>1
    <2>2. CASE c # home
      BY <1>6, <1>9, <1>12, <2>2
    <2> QED
      BY <2>1, <2>2
  <1>14. places \cup {p} \subseteq 1..Len(keywords)
    BY <1>3
  <1> QED
    BY <1>12, <1>13, <1>14 DEF BestOver, over, new, m, q

(* Lookup goes through the exact keywords one by one.                      *)
Visit(b, e) == IF AllKnown /\ e.tokens = known THEN Better(b, e.pos, ExactRelevance) ELSE b
Visits(f, n) == f[0] = best /\ \A i \in 1..n : f[i] = Visit(f[i - 1], exact[i])

LEMMA VisitTypes ==
  ASSUME BuildInv, QueryInv, pc \in {"prepared", "offering"}, NEW b \in Bests, NEW i \in 1..Len(exact)
  PROVE  Visit(b, exact[i]) \in Bests
  <1> DEFINE p == exact[i].pos
             home == keywords[p].campaign
  <1>1. p \in 1..Len(keywords)
    BY DEF BuildInv, ExactInv
  <1>2. Distinct \in Nat \ {0}
    BY QueryFacts
  <1>3. keywords[p] \in IndexedKeyword /\ home \in 1..Len(campaigns) /\ keywords[p].match_type = "exact"
    BY <1>1, <1>2, PositionFacts DEF BuildInv, ExactInv
  <1> DEFINE m == [keyword_id |-> keywords[p].id, match_type |-> keywords[p].match_type,
                   bid |-> keywords[p].bid, relevance |-> ExactRelevance]
             keep == IF b[home] = NoMatch \/ Beats(m, b[home]) THEN m ELSE b[home]
  <1>4. m \in Match
    BY <1>3 DEF Match, IndexedKeyword, ExactRelevance
  <1>5. Better(b, p, ExactRelevance) = [b EXCEPT ![home] = keep]
    BY DEF Better
  <1> HIDE DEF m, home, p
  <1>6. keep \in Match \cup {NoMatch}
    BY <1>3, <1>4 DEF Bests
  <1> HIDE DEF keep
  <1>7. Better(b, p, ExactRelevance) \in Bests
    BY <1>5, <1>6 DEF Bests
  <1> QED
    BY <1>7 DEF Visit, p

LEMMA VisitChain ==
  ASSUME BuildInv, QueryInv, pc \in {"prepared", "offering"}, best \in Bests, Lookup
  PROVE  \E f : Visits(f, Len(exact)) /\ best' = f[Len(exact)]
  <1> DEFINE n == Len(exact)
             S == 1..n
             Step(g, s) == IF s = {} THEN best ELSE LET x == Max(s) IN Visit(g[s \ {x}], exact[x])
             iter == CHOOSE g : g = [s \in SUBSET S |-> Step(g, s)]
             pick == [s \in SUBSET S |-> Max(s)]
             step == [a \in (SUBSET S) \X Bests |-> Visit(a[2], exact[Max(a[1])])]
  <1>1. n \in Nat /\ DOMAIN exact = S /\ IsFiniteSet(S)
    <2>1. exact \in Seq([tokens : SUBSET Nat, pos : Nat])
      BY DEF BuildInv, ExactInv
    <2> QED
      BY <2>1, FS_Interval
  <1>2. best' = iter[S]
    BY <1>1 DEF Lookup, FoldLeft, MapThenFoldSet, Visit
  <1>3. \A s \in SUBSET S : s # {} => pick[s] \in s
    BY <1>1, MaxOfInterval
  <1>4. \A s \in SUBSET S : s # {} => \A v \in Bests :
          step[<<s, v>>] \in Bests /\ step[<<s, v>>] = Visit(v, exact[pick[s]])
    <2> SUFFICES ASSUME NEW s \in SUBSET S, s # {}, NEW v \in Bests
                 PROVE  step[<<s, v>>] \in Bests /\ step[<<s, v>>] = Visit(v, exact[pick[s]])
      OBVIOUS
    <2>1. step[<<s, v>>] = Visit(v, exact[pick[s]])
      OBVIOUS
    <2> HIDE DEF step, pick
    <2>2. pick[s] \in 1..Len(exact)
      BY <1>3
    <2>3. Visit(v, exact[pick[s]]) \in Bests
      BY <2>2, VisitTypes
    <2> QED
      BY <2>1, <2>3
  <1> HIDE DEF step
  <1>5. PICK g \in [SUBSET S -> Bests] : Folds(g, SUBSET S, pick, best, step)
    <2> HIDE DEF pick, S
    <2> QED
      BY <1>1, <1>3, <1>4, FoldExists
  <1>6. g = [s \in SUBSET S |-> Step(g, s)]
    <2>1. ASSUME NEW s \in SUBSET S PROVE g[s] = Step(g, s)
      <3>1. CASE s = {}
        BY <1>5, <3>1 DEF Folds
      <3>2. CASE s # {}
        <4>1. g[s] = step[<<s, g[s \ {pick[s]}]>>]
          BY <1>5, <3>2 DEF Folds
        <4>2. g[s \ {pick[s]}] \in Bests
          <5>1. s \ {pick[s]} \in SUBSET S
            OBVIOUS
          <5> HIDE DEF pick
          <5> QED
            BY <1>5, <5>1
        <4>3. g[s] = Visit(g[s \ {pick[s]}], exact[pick[s]])
          BY <1>4, <3>2, <4>1, <4>2
        <4>4. pick[s] = Max(s)
          OBVIOUS
        <4> HIDE DEF pick
        <4> QED
          BY <3>2, <4>3, <4>4
      <3> QED
        BY <3>1, <3>2
    <2> HIDE DEF S
    <2> QED
      BY <2>1
  <1>7. iter = [s \in SUBSET S |-> Step(iter, s)]
    BY <1>6
  <1> HIDE DEF iter
  <1> DEFINE f == [i \in 0..n |-> iter[1..i]]
  <1>8. f[0] = best
    <2>1. 1..0 = {} /\ {} \in SUBSET S /\ 0 \in 0..n
      BY <1>1
    <2>2. f[0] = iter[{}]
      BY <2>1
    <2> HIDE DEF f
    <2> QED
      BY <1>7, <2>1, <2>2
  <1>9. ASSUME NEW i \in 1..n PROVE f[i] = Visit(f[i - 1], exact[i])
    <2>1. 1..i \in SUBSET S /\ 1..i # {} /\ (1..i) \ {i} = 1..(i - 1) /\ i \in 0..n /\ i - 1 \in 0..n
      BY <1>1, Intervals
    <2>2. Max(1..i) = i
      BY <1>1, Intervals
    <2>3. iter[1..i] = Step(iter, 1..i)
      BY <1>7, <2>1
    <2>4. iter[1..i] = Visit(iter[1..(i - 1)], exact[i])
      BY <2>1, <2>2, <2>3
    <2>5. f[i] = iter[1..i] /\ f[i - 1] = iter[1..(i - 1)]
      BY <2>1
    <2> HIDE DEF f
    <2> QED
      BY <2>4, <2>5
  <1>10. f[n] = iter[S]
    BY <1>1
  <1> HIDE DEF f, S
  <1> QED
    BY <1>2, <1>8, <1>9, <1>10 DEF Visits

(* The exact hits among the first n exact keywords.                        *)
Visited(n) == {exact[i].pos : i \in {j \in 1..n : Hit(keywords[exact[j].pos])}}

LEMMA VisitStep ==
  ASSUME BuildInv, QueryInv, pc \in {"prepared", "offering"},
         NEW n \in Nat, n + 1 <= Len(exact), NEW b, BestOver(b, Visited(n))
  PROVE  BestOver(Visit(b, exact[n + 1]), Visited(n + 1))
  <1> DEFINE e == exact[n + 1]
             p == e.pos
  <1>1. Len(exact) \in Nat /\ n + 1 \in 1..Len(exact) /\ \A i \in 1..n + 1 : i \in 1..n \/ i = n + 1
    <2>1. exact \in Seq([tokens : SUBSET Nat, pos : Nat])
      BY DEF BuildInv, ExactInv
    <2> QED
      BY <2>1
  <1>2. p \in 1..Len(keywords) /\ keywords[p].match_type = "exact" /\ keywords[p].tokens = e.tokens
    BY <1>1 DEF BuildInv, ExactInv
  <1>3. Hit(keywords[p]) <=> AllKnown /\ e.tokens = known
    BY <1>2 DEF Hit
  <1>4. \A i : i \in 1..n => i \in 1..n + 1
    OBVIOUS
  <1>5. n + 1 \in 1..n + 1
    OBVIOUS
  <1>6. CASE Hit(keywords[p])
    <2>1. Visited(n + 1) = Visited(n) \cup {p}
      BY <1>1, <1>4, <1>5, <1>6 DEF Visited
    <2>2. MatchAt(keywords, p, Distinct).relevance = ExactRelevance
      BY <1>2 DEF MatchAt
    <2>3. Visit(b, e) = Better(b, p, ExactRelevance)
      BY <1>3, <1>6 DEF Visit
    <2> HIDE DEF p, e
    <2>4. BestOver(Better(b, p, MatchAt(keywords, p, Distinct).relevance), Visited(n) \cup {p})
      BY <1>2, BetterKept
    <2>5. BestOver(Visit(b, e), Visited(n + 1))
      BY <2>1, <2>2, <2>3, <2>4
    <2> QED
      BY <2>5 DEF e
  <1>7. CASE ~ Hit(keywords[p])
    <2>1. Visited(n + 1) = Visited(n)
      BY <1>1, <1>4, <1>7 DEF Visited
    <2>2. Visit(b, e) = b
      BY <1>3, <1>7 DEF Visit
    <2> QED
      BY <2>1, <2>2
  <1> QED
    BY <1>6, <1>7

LEMMA VisitAll ==
  ASSUME BuildInv, QueryInv, pc \in {"prepared", "offering"},
         BestOver(best, {}), NEW f, Visits(f, Len(exact))
  PROVE  BestOver(f[Len(exact)], Visited(Len(exact)))
  <1> DEFINE T == {n \in Nat : n <= Len(exact) => BestOver(f[n], Visited(n))}
  <1>1. 0 \in T
    <2>1. 1..0 = {}
      OBVIOUS
    <2>2. Visited(0) = {}
      BY <2>1 DEF Visited
    <2>3. f[0] = best
      BY DEF Visits
    <2> QED
      BY <2>2, <2>3
  <1>2. ASSUME NEW n \in Nat, n \in T PROVE n + 1 \in T
    <2> SUFFICES ASSUME n + 1 <= Len(exact) PROVE BestOver(f[n + 1], Visited(n + 1))
      OBVIOUS
    <2>1. Len(exact) \in Nat
      <3>1. exact \in Seq([tokens : SUBSET Nat, pos : Nat])
        BY DEF BuildInv, ExactInv
      <3> QED
        BY <3>1
    <2>2. n + 1 \in 1..Len(exact) /\ n <= Len(exact) /\ (n + 1) - 1 = n
      BY <2>1
    <2>3. f[n + 1] = Visit(f[n], exact[n + 1])
      BY <2>2 DEF Visits
    <2>4. BestOver(f[n], Visited(n))
      BY <1>2, <2>2
    <2> HIDE DEF T
    <2> QED
      BY <2>3, <2>4, VisitStep
  <1> HIDE DEF T
  <1>3. Nat \subseteq T
    BY <1>1, <1>2, SetInduction
  <1>4. Len(exact) \in Nat
    <2>1. exact \in Seq([tokens : SUBSET Nat, pos : Nat])
      BY DEF BuildInv, ExactInv
    <2> QED
      BY <2>1
  <1> QED
    BY <1>3, <1>4 DEF T

LEMMA VisitedAll ==
  ASSUME BuildInv
  PROVE  Visited(Len(exact)) = {p \in 1..Len(keywords) : Hit(keywords[p]) /\ keywords[p].match_type = "exact"}
  <1>1. /\ \A i \in 1..Len(exact) : exact[i].pos \in 1..Len(keywords) /\ keywords[exact[i].pos].match_type = "exact"
        /\ \A p \in 1..Len(keywords) : keywords[p].match_type = "exact" => \E i \in 1..Len(exact) : exact[i].pos = p
    BY DEF BuildInv, ExactInv
  <1>2. ASSUME NEW p \in Visited(Len(exact))
        PROVE  p \in 1..Len(keywords) /\ Hit(keywords[p]) /\ keywords[p].match_type = "exact"
    BY <1>1 DEF Visited
  <1>3. ASSUME NEW p \in 1..Len(keywords), Hit(keywords[p]), keywords[p].match_type = "exact"
        PROVE  p \in Visited(Len(exact))
    BY <1>1, <1>3 DEF Visited
  <1> QED
    BY <1>2, <1>3

(* Counting a position's hits finds the broad keywords all of whose words  *)
(* the query has.                                                          *)
LEMMA HitsFacts ==
  ASSUME BuildInv, QueryInv, pc \in {"prepared", "offering"}, NEW p \in 1..Len(keywords)
  PROVE  (Hits(p) > 0 /\ Hits(p) = Cardinality(keywords[p].tokens)) <=>
           (Hit(keywords[p]) /\ keywords[p].match_type = "broad")
  <1> DEFINE e == keywords[p]
             T == e.tokens
             S == {i \in 1..Len(broad) : broad[i].pos = p /\ broad[i].token \in known}
             f == [i \in S |-> broad[i].token]
             H == Hits(p)
  <1>1. Distinct \in Nat \ {0}
    BY QueryFacts
  <1>2. e \in IndexedKeyword /\ T # {} /\ IsFiniteSet(T)
    BY <1>1, PositionFacts
  <1>3. BroadInv(keywords, broad)
    BY DEF BuildInv
  <1>4. H = Cardinality(S)
    BY DEF Hits
  <1>5. Cardinality(T) \in Nat \ {0}
    BY <1>2, FS_CardinalityType, FS_EmptySet
  <1>6. CASE e.match_type = "broad"
    <2>1. \A t \in T : \E i \in 1..Len(broad) : broad[i].pos = p /\ broad[i].token = t
      BY <1>3, <1>6 DEF BroadInv
    <2>2. \A i \in S : broad[i].token \in T \cap known
      BY <1>3 DEF BroadInv
    <2>3. \A i, j \in S : broad[i].token = broad[j].token => i = j
      BY <1>3 DEF BroadInv
    <2>4. IsFiniteSet(S)
      <3>1. Len(broad) \in Nat
        BY <1>3 DEF BroadInv
      <3>2. IsFiniteSet(1..Len(broad))
        BY <3>1, FS_Interval
      <3>3. S \subseteq 1..Len(broad)
        OBVIOUS
      <3> HIDE DEF S
      <3> QED
        BY <3>2, <3>3, FS_Subset
    <2>5. \A t \in T \cap known : \E i \in S : broad[i].token = t
      BY <2>1
    <2>6. /\ \A i \in S : f[i] = broad[i].token
          /\ \A x, y \in S : f[x] = f[y] => x = y
      BY <2>3
    <2> HIDE DEF S, f
    <2>7. {f[i] : i \in S} = T \cap known
      <3>1. ASSUME NEW t \in T \cap known PROVE t \in {f[i] : i \in S}
        BY <2>5, <2>6
      <3>2. \A i \in S : f[i] \in T \cap known
        BY <2>2, <2>6
      <3> QED
        BY <3>1, <3>2
    <2>8. Cardinality(T \cap known) = H
      <3>1. Cardinality({f[i] : i \in S}) = Cardinality(S)
        BY <2>4, <2>6, ImageSize
      <3> QED
        BY <1>4, <2>7, <3>1
    <2>9. Hit(e) <=> T \subseteq known
      BY <1>6 DEF Hit
    <2> HIDE DEF T, H
    <2>10. ASSUME T \subseteq known PROVE H = Cardinality(T)
      <3>1. T \cap known = T
        BY <2>10
      <3> QED
        BY <2>8, <3>1
    <2>11. ASSUME H = Cardinality(T) PROVE T \subseteq known
      <3>1. T \cap known \in SUBSET T /\ Cardinality(T \cap known) = Cardinality(T)
        BY <2>8, <2>11
      <3>2. T \cap known = T
        BY <1>2, <3>1, FS_Subset
      <3> QED
        BY <3>2
    <2> HIDE DEF e
    <2>12. (H > 0 /\ H = Cardinality(T)) <=> T \subseteq known
      BY <1>5, <2>10, <2>11
    <2> QED
      BY <1>6, <2>9, <2>12 DEF H, T, e
  <1>7. CASE e.match_type # "broad"
    <2>1. S = {}
      BY <1>3, <1>7 DEF BroadInv
    <2> HIDE DEF S
    <2>2. H = 0
      BY <1>4, <2>1, FS_EmptySet
    <2> QED
      BY <1>7, <2>2
  <1> QED
    BY <1>6, <1>7

(***************************************************************************)
(* Asking keeps the invariant.                                             *)
(***************************************************************************)
LEMMA QueryKept ==
  ASSUME BuildInv, QueryInv, [Next]_vars
  PROVE  QueryInv'
  <1>1. CASE Prepare
    BY <1>1 DEF Prepare, QueryInv, index
  <1>2. CASE Lookup \/ Offer
    <2>1. query' = query /\ known' = known /\ vocab' = vocab /\ pc \in {"prepared", "offering"}
      BY <1>2 DEF Lookup, Offer, index
    <2> QED
      BY <2>1 DEF QueryInv
  <1>3. CASE CheckIds \/ VocabularyFull \/ AddKeyword \/ AddNegative \/ NextCampaign \/ Built \/ NextQuery
    <2>1. pc' \notin {"prepared", "offering"}
      BY <1>3 DEF CheckIds, VocabularyFull, AddKeyword, AddNegative, NextCampaign, Built, NextQuery, Building
    <2> QED
      BY <2>1 DEF QueryInv
  <1>4. CASE UNCHANGED vars
    BY <1>4 DEF vars, index, asking, QueryInv
  <1> QED
    BY <1>1, <1>2, <1>3, <1>4 DEF Next

LEMMA NothingOffered ==
  ASSUME BuildInv, best = [c \in 1..Len(campaigns) |-> NoMatch]
  PROVE  BestOver(best, {})
  <1>1. best \in Bests
    BY DEF Bests
  <1>2. \A c : MatchesAt(keywords, {}, c, Distinct) = {}
    BY DEF MatchesAt
  <1>3. \A c \in 1..Len(campaigns) : IsBest(best[c], {})
    BY DEF IsBest
  <1> QED
    BY <1>1, <1>2, <1>3 DEF BestOver

LEMMA LookupKept ==
  ASSUME BuildInv, QueryInv, BestInv, Lookup
  PROVE  BestInv'
  <1> DEFINE broads == {p \in 1..Len(keywords) : Hit(keywords[p]) /\ keywords[p].match_type = "broad"}
             exacts == {p \in 1..Len(keywords) : Hit(keywords[p]) /\ keywords[p].match_type = "exact"}
  <1>1. /\ pc = "prepared" /\ pc' = "offering"
        /\ campaigns' = campaigns /\ keywords' = keywords /\ query' = query /\ known' = known
        /\ offers' = {p \in 1..Len(keywords) : Hits(p) > 0 /\ Hits(p) = Cardinality(keywords[p].tokens)}
    BY DEF Lookup, index
  <1>2. offers' = broads
    BY <1>1, HitsFacts
  <1>3. BestOver(best, {})
    BY <1>1, NothingOffered DEF BestInv
  <1>4. BestOver(best', exacts)
    <2>1. best \in Bests
      BY <1>3 DEF BestOver
    <2>2. PICK f : Visits(f, Len(exact)) /\ best' = f[Len(exact)]
      BY <1>1, <2>1, VisitChain
    <2>3. BestOver(f[Len(exact)], Visited(Len(exact)))
      BY <1>1, <1>3, <2>2, VisitAll
    <2> QED
      BY <2>2, <2>3, VisitedAll
  <1>5. Offered' = exacts
    <2>1. \A p \in 1..Len(keywords) : keywords[p].match_type \in MatchTypes
      <3>1. Distinct \in Nat \ {0}
        BY <1>1, QueryFacts
      <3> QED
        BY <3>1, PositionFacts DEF IndexedKeyword
    <2>2. Offered' = {p \in 1..Len(keywords) : Hit(keywords[p]) /\ p \notin offers'}
      BY <1>1 DEF Offered, Hit, AllKnown, Distinct
    <2> QED
      BY <1>2, <2>1, <2>2 DEF MatchTypes
  <1>6. Distinct' = Distinct /\ \A p : Hit(keywords[p])' <=> Hit(keywords[p])
    BY <1>1 DEF Distinct, Hit, AllKnown
  <1>7. /\ best' \in [1..Len(campaigns) -> Match \cup {NoMatch}]
        /\ \A c \in 1..Len(campaigns) : IsBest(best'[c], MatchesAt(keywords, exacts, c, Distinct))
    BY <1>4 DEF BestOver, Bests
  <1> HIDE DEF exacts
  <1>8. offers' \subseteq {p \in 1..Len(keywords') : Hit(keywords[p])' /\ keywords'[p].match_type = "broad"}
    BY <1>1, <1>2, <1>6
  <1> QED
    BY <1>1, <1>5, <1>6, <1>7, <1>8 DEF BestInv

LEMMA OfferKept ==
  ASSUME BuildInv, QueryInv, BestInv, Offer
  PROVE  BestInv'
  <1>1. /\ pc = "offering" /\ pc' = "offering"
        /\ campaigns' = campaigns /\ keywords' = keywords /\ query' = query /\ known' = known
    BY DEF Offer, index
  <1>2. PICK p \in offers :
          /\ best' = Better(best, p, BroadRelevance(Cardinality(keywords[p].tokens), Distinct))
          /\ offers' = offers \ {p}
    BY DEF Offer
  <1>3. /\ offers \subseteq {q \in 1..Len(keywords) : Hit(keywords[q]) /\ keywords[q].match_type = "broad"}
        /\ BestOver(best, Offered)
    BY <1>1 DEF BestInv, BestOver, Bests, Offered
  <1>4. p \in 1..Len(keywords) /\ Hit(keywords[p]) /\ keywords[p].match_type = "broad"
    BY <1>3
  <1>5. MatchAt(keywords, p, Distinct).relevance = BroadRelevance(Cardinality(keywords[p].tokens), Distinct)
    BY <1>4 DEF MatchAt
  <1>6. BestOver(Better(best, p, MatchAt(keywords, p, Distinct).relevance), Offered \cup {p})
    BY <1>1, <1>3, <1>4, BetterKept
  <1>7. BestOver(best', Offered \cup {p})
    BY <1>2, <1>5, <1>6
  <1>8. Offered' = Offered \cup {p}
    <2>1. Offered' = {q \in 1..Len(keywords) : Hit(keywords[q]) /\ q \notin offers'}
      BY <1>1 DEF Offered, Hit, AllKnown, Distinct
    <2> QED
      BY <1>2, <1>4, <2>1 DEF Offered
  <1>9. Distinct' = Distinct /\ \A q : Hit(keywords[q])' <=> Hit(keywords[q])
    BY <1>1 DEF Distinct, Hit, AllKnown
  <1> DEFINE places == Offered \cup {p}
  <1>10. /\ best' \in [1..Len(campaigns) -> Match \cup {NoMatch}]
         /\ \A c \in 1..Len(campaigns) : IsBest(best'[c], MatchesAt(keywords, places, c, Distinct))
    BY <1>7 DEF BestOver, Bests
  <1>11. Offered' = places
    BY <1>8
  <1> HIDE DEF places
  <1>12. offers' \subseteq {q \in 1..Len(keywords') : Hit(keywords[q])' /\ keywords'[q].match_type = "broad"}
    BY <1>1, <1>2, <1>3, <1>9
  <1> QED
    BY <1>1, <1>9, <1>10, <1>11, <1>12 DEF BestInv

LEMMA BestInvKept ==
  ASSUME BuildInv, QueryInv, BestInv, [Next]_vars
  PROVE  BestInv'
  <1>1. CASE Prepare
    <2>1. pc' = "prepared" /\ campaigns' = campaigns /\ best' = [c \in 1..Len(campaigns) |-> NoMatch]
      BY <1>1 DEF Prepare
    <2> QED
      BY <2>1 DEF BestInv
  <1>2. CASE Lookup
    BY <1>2, LookupKept
  <1>3. CASE Offer
    BY <1>3, OfferKept
  <1>4. CASE CheckIds \/ VocabularyFull \/ AddKeyword \/ AddNegative \/ NextCampaign \/ Built \/ NextQuery
    <2>1. pc' \notin {"prepared", "offering"}
      BY <1>4 DEF CheckIds, VocabularyFull, AddKeyword, AddNegative, NextCampaign, Built, NextQuery, Building
    <2> QED
      BY <2>1 DEF BestInv
  <1>5. CASE UNCHANGED vars
    <2>1. /\ campaigns' = campaigns /\ pc' = pc /\ keywords' = keywords /\ query' = query
          /\ known' = known /\ offers' = offers /\ best' = best
      BY <1>5 DEF vars, index, asking
    <2>2. Distinct' = Distinct /\ Offered' = Offered /\ \A q : Hit(keywords[q])' <=> Hit(keywords[q])
      BY <2>1 DEF Distinct, Hit, AllKnown, Offered
    <2> QED
      BY <2>1, <2>2 DEF BestInv
  <1> QED
    BY <1>1, <1>2, <1>3, <1>4, <1>5 DEF Next

(* Every hit offered, the best over the positions is the best the matching *)
(* rules allow.                                                            *)
LEMMA OfferedMeansMatched ==
  ASSUME BuildInv, QueryInv, Answered, NEW c \in 1..Len(campaigns)
  PROVE  MatchesAt(keywords, Offered, c, Distinct) = MatchesOf(c)
  <1> DEFINE list == campaigns[c].keywords
  <1>1. /\ pc = "offering" /\ offers = {} /\ campaigns \in Corpora /\ Len(campaigns) \in Nat
        /\ Faithful(vocab) /\ KeywordsSound(campaigns, vocab, keywords)
        /\ KeywordsComplete(campaigns, at, vocab, keywords) /\ at.campaign = Len(campaigns) + 1
    BY CorpusFacts DEF BuildInv, Answered
  <1>2. /\ list \in Seq(AllItems) /\ ToSet(list) = {list[i] : i \in 1..Len(list)}
        /\ \A i \in 1..Len(list) : list[i].match_type \in MatchTypes
    BY <1>1, CorpusFacts, ListIsFinite
  <1>3. \A p \in 1..Len(keywords) : keywords[p].campaign = c =>
          \E i \in 1..Len(list) : IsKeyword(vocab, keywords[p], list[i])
    BY <1>1 DEF KeywordsSound
  <1>4. \A i \in 1..Len(list) : Words(list[i].text) # {} =>
          \E p \in 1..Len(keywords) : keywords[p].campaign = c /\ IsKeyword(vocab, keywords[p], list[i])
    <2>1. c < at.campaign
      BY <1>1
    <2>2. \A i : KwDone(at, c, i)
      BY <2>1 DEF KwDone
    <2> QED
      BY <1>1, <2>2 DEF KeywordsComplete
  <1> HIDE DEF list
  <1>5. ASSUME NEW p \in 1..Len(keywords), NEW i \in 1..Len(list), IsKeyword(vocab, keywords[p], list[i])
        PROVE  /\ Hit(keywords[p]) <=> TextMatches(list[i])
               /\ MatchAt(keywords, p, Distinct) = MatchOf(list[i])
    <2>1. IsEntry(vocab, keywords[p], list[i]) /\ keywords[p].id = list[i].id /\ keywords[p].bid = list[i].bid
      BY <1>5 DEF IsKeyword
    <2>2. Hit(keywords[p]) <=> TextMatches(list[i])
      BY <1>1, <1>2, <2>1, HitFacts
    <2>3. Cardinality(keywords[p].tokens) = Cardinality(Words(list[i].text))
      BY <1>1, <2>1, EntryFacts
    <2>4. keywords[p].match_type = list[i].match_type
      BY <2>1 DEF IsEntry
    <2> QED
      BY <2>1, <2>2, <2>3, <2>4 DEF MatchAt, MatchOf
  <1>6. ASSUME NEW m \in MatchesAt(keywords, Offered, c, Distinct) PROVE m \in MatchesOf(c)
    <2>1. PICK p \in 1..Len(keywords) :
            Hit(keywords[p]) /\ keywords[p].campaign = c /\ m = MatchAt(keywords, p, Distinct)
      BY DEF MatchesAt, Offered
    <2>2. PICK i \in 1..Len(list) : IsKeyword(vocab, keywords[p], list[i])
      BY <1>3, <2>1
    <2>3. TextMatches(list[i]) /\ m = MatchOf(list[i])
      BY <1>5, <2>1, <2>2
    <2>4. list[i] \in ToSet(list)
      BY <1>2
    <2> QED
      BY <2>3, <2>4 DEF MatchesOf, list
  <1>7. ASSUME NEW m \in MatchesOf(c) PROVE m \in MatchesAt(keywords, Offered, c, Distinct)
    <2>1. PICK kw \in ToSet(list) : TextMatches(kw) /\ m = MatchOf(kw)
      BY DEF MatchesOf, list
    <2>2. PICK i \in 1..Len(list) : kw = list[i]
      BY <1>2
    <2>3. Words(list[i].text) # {}
      BY <2>1, <2>2 DEF TextMatches, MatchesWords
    <2>4. PICK p \in 1..Len(keywords) : keywords[p].campaign = c /\ IsKeyword(vocab, keywords[p], list[i])
      BY <1>4, <2>3
    <2>5. Hit(keywords[p]) /\ m = MatchAt(keywords, p, Distinct)
      BY <1>5, <2>1, <2>2, <2>4
    <2>6. p \in Offered
      BY <1>1, <2>5 DEF Offered
    <2> QED
      BY <2>4, <2>5, <2>6 DEF MatchesAt
  <1> QED
    BY <1>6, <1>7

LEMMA BestHolds == IndexInv => IndexFindsTheBest
  <1> SUFFICES ASSUME BuildInv, QueryInv, BestInv, Answered, NEW c \in 1..Len(campaigns)
               PROVE  IF MatchesOf(c) = {} THEN best[c] = NoMatch
                      ELSE /\ best[c] \in MatchesOf(c)
                           /\ \A m \in MatchesOf(c) : m # best[c] => Beats(best[c], m)
    BY DEF IndexInv, IndexFindsTheBest
  <1>1. IsBest(best[c], MatchesAt(keywords, Offered, c, Distinct))
    BY DEF BestInv, Answered
  <1>2. IsBest(best[c], MatchesOf(c))
    BY <1>1, OfferedMeansMatched
  <1> QED
    BY <1>2 DEF IsBest

(***************************************************************************)
(* The theorems.                                                           *)
(***************************************************************************)

(* What is indexed so far is what the campaigns say so far, and the best   *)
(* match so far is the best of what was offered so far: from the first     *)
(* campaign KeywordIndex::build reads to the last hit best_matches offers. *)
THEOREM IndexInvariance == Spec => []IndexInv
  <1>1. Init => IndexInv
    <2>1. Init => BuildInv
      BY BuildStart
    <2>2. Init => QueryInv /\ BestInv
      BY DEF Init, QueryInv, BestInv
    <2> QED
      BY <2>1, <2>2 DEF IndexInv
  <1>2. IndexInv /\ [Next]_vars => IndexInv'
    <2> SUFFICES ASSUME IndexInv, [Next]_vars PROVE IndexInv'
      OBVIOUS
    <2>1. BuildInv /\ QueryInv /\ BestInv
      BY DEF IndexInv
    <2>2. BuildInv' /\ QueryInv' /\ BestInv'
      BY <2>1, BuildKept, QueryKept, BestInvKept
    <2> QED
      BY <2>2 DEF IndexInv
  <1> QED
    BY <1>1, <1>2, PTL DEF Spec

(* intern gives a word one id, whatever the texts and the size of TokenId, *)
(* so every indexed keyword stands for exactly its own words.              *)
THEOREM InterningNeverConfuses == Spec => []InterningIsFaithful
  <1>1. IndexInv => InterningIsFaithful
    BY InterningHolds DEF IndexInv
  <1> QED
    BY <1>1, IndexInvariance, PTL

(* negative_matches over token ids is the matching rule over words, for    *)
(* every list of campaigns and every query.                                *)
THEOREM NegativesBlock == Spec => []NegativesBlockExactly
  <1>1. IndexInv => NegativesBlockExactly
    BY BlockingHolds DEF IndexInv
  <1> QED
    BY <1>1, IndexInvariance, PTL

(* best_matches returns, in whatever order its hash map is walked, the one *)
(* best keyword of every campaign that has a matching keyword and nothing  *)
(* for the others.                                                         *)
THEOREM BestIsFound == Spec => []IndexFindsTheBest
  <1>1. IndexInv => IndexFindsTheBest
    BY BestHolds
  <1> QED
    BY <1>1, IndexInvariance, PTL
=============================================================================
