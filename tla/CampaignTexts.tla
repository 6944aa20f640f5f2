---------------------------- MODULE CampaignTexts ----------------------------
(***************************************************************************)
(* What a list of campaigns means, before any index is built from it: which *)
(* queries a keyword or negative keyword matches (the module comment of    *)
(* index.rs and the brute-force matcher of its tests), and whether         *)
(* Snapshot::build accepts the list.                                       *)
(*                                                                         *)
(* A text is the sequence of words tokenize returns, repeats included and  *)
(* empty when it has no letter or digit.                                   *)
(***************************************************************************)
EXTENDS Integers, Sequences, SequencesExt

Words(text) == ToSet(text)

(* A keyword or negative keyword against the set of words of a query.      *)
MatchesWords(item, words) ==
  /\ Words(item.text) # {}
  /\ \/ item.match_type = "exact" /\ Words(item.text) = words
     \/ item.match_type = "broad" /\ Words(item.text) \subseteq words

(* Snapshot::build refuses a list in which an id occurs twice.             *)
HasUniqueIds(s) == \A i, j \in 1..Len(s) : i # j => s[i].id # s[j].id
KeywordsOf(list) == FlattenSeq([c \in DOMAIN list |-> list[c].keywords])
Buildable(list) == HasUniqueIds(list) /\ HasUniqueIds(KeywordsOf(list))
=============================================================================
