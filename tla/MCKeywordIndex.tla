---------------------------- MODULE MCKeywordIndex ---------------------------
(* Instances of KeywordIndex for TLC: one campaign with two keywords and a *)
(* negative, one with a single keyword, over three words; the query may    *)
(* use a word no keyword has.                                              *)
EXTENDS KeywordIndex

CONSTANTS x, y, z

Keyword(id, type, text, bid) == [id |-> id, match_type |-> type, text |-> text, bid |-> bid]
Negative(type, text) == [match_type |-> type, text |-> text]
Types == {"exact", "broad"}

MCTexts == {<<>>, <<x>>, <<y, x>>, <<x, y, x>>}
MCQueries == {<<x>>, <<x, y>>, <<x, z>>, <<y, x, z, x>>, <<z>>}

MCCorpora ==
  {<<[id |-> 1,
      keywords |-> <<Keyword(1, t1, w1, 2), Keyword(k2, t2, w2, b2)>>,
      negatives |-> <<Negative(t3, w3)>>],
     [id |-> i2,
      keywords |-> <<Keyword(3, t2, <<y>>, 1)>>,
      negatives |-> <<>>]>>
   : t1 \in Types, w1 \in MCTexts, t2 \in Types, w2 \in MCTexts \ {<<>>}, t3 \in Types,
     w3 \in {<<>>, <<x>>, <<z>>, <<y, z, y>>}, b2 \in {-1, 2, 3}, k2 \in {2, 3}, i2 \in {1, 2}}
=============================================================================
