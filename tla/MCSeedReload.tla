----------------------------- MODULE MCSeedReload -----------------------------
(* Instances of SeedReload for TLC.                                        *)
EXTENDS SeedReload, FiniteSets, TLC

CONSTANTS unset, blank, address, file, typo, path, g1, g2, g3

(* Files of one, two and three parts.                                      *)
Sized(seed, requests) == [f \in Files |-> IF f = "seed" THEN seed ELSE requests]
MCParts == g1 :> Sized(1, 2) @@ g2 :> Sized(2, 1) @@ g3 :> Sized(3, 1)

(* Each variable unset, blank, wrong or right; numbers at and beyond every *)
(* bound (0, 1, MaxRefresh = 5, the i64 range -10..9).                     *)
Values(var) ==
  {blank, typo} \cup
  CASE var = "BIND_ADDR" -> {address}
    [] var = "CAMPAIGN_SOURCE" -> {file}
    [] var = "SEED_FILE" -> {path}
    [] OTHER -> {-11, -10, -1, 0, 1, 5, 6, 9, 10}

Nothing == [var \in Vars |-> unset]
One == UNION {{[Nothing EXCEPT ![var] = v] : v \in Values(var)} : var \in Vars}

(* At most two variables are set.                                          *)
MCEnvironments ==
  {Nothing} \cup One \cup
  UNION {UNION {{[e EXCEPT ![var] = v] : v \in Values(var)} : var \in Vars} : e \in One}
=============================================================================
