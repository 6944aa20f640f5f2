----------------------------- MODULE MCAdServer ------------------------------
(* Instances of AdServer for TLC: two tables, the second with lower        *)
(* budgets, another order and one campaign less.                           *)
EXTENDS AdServer, TLC

CONSTANTS a, b, c1, c2, q, q2

Entry(c, p) == [campaign |-> c, price |-> p]

MCRanking ==
  (a :> (q :> <<Entry(c1, 2), Entry(c2, 1)>> @@ q2 :> <<Entry(c2, 2), Entry(c1, 2)>>)) @@
  (b :> (q :> <<Entry(c1, 1)>> @@ q2 :> <<>>))
MCBudget ==
  (a :> (c1 :> 3 @@ c2 :> 1)) @@ (b :> (c1 :> 1 @@ c2 :> 0))
MCSize == (a :> 2) @@ (b :> 1)
RequestSymmetry == Permutations(Requests)
=============================================================================
