------------------------------- MODULE Settings -------------------------------
(***************************************************************************)
(* Config::from_lookup of admatch-server/src/config.rs.  An environment    *)
(* maps each variable to Unset, Blank (nothing but spaces) or a text; a    *)
(* text is the integer it spells, or a value that spells none.  Parsing an *)
(* integer trims it and refuses what does not fit an i64.                  *)
(***************************************************************************)
EXTENDS Integers, Sequences

CONSTANTS
  Unset, Blank,
  Addresses,         \* the texts that are socket addresses
  FileSource,        \* the text "file"
  Texts,             \* all other texts
  DefaultAddress, DefaultPath,
  DefaultThreshold,  \* EngineConfig::default()
  DefaultReserve,
  DefaultIncrement,
  DefaultRefresh,    \* DEFAULT_INDEX_REFRESH_SECS
  MaxRefresh,        \* 86400
  I64Limit           \* the largest i64

I64 == -I64Limit - 1 .. I64Limit
Raw == {Unset, Blank, FileSource} \cup Addresses \cup Texts \cup Int
Integer4 == {"K_TARGETING", "RESERVE_CPT_MICROS", "PRICE_INCREMENT_MICROS", "INDEX_REFRESH_SECS"}
Vars == {"BIND_ADDR", "CAMPAIGN_SOURCE", "SEED_FILE"} \cup Integer4

ASSUME SettingsAssumption ==
  /\ Unset # Blank
  /\ {Unset, Blank} \cap ({FileSource} \cup Addresses \cup Texts \cup Int) = {}
  /\ FileSource \notin Addresses \cup Int
  /\ DefaultAddress \in Addresses
  /\ I64Limit \in Nat
  /\ MaxRefresh \in 1..I64Limit
  /\ DefaultThreshold \in 0..I64Limit
  /\ DefaultReserve \in 1..I64Limit
  /\ DefaultIncrement \in 0..I64Limit
  /\ DefaultRefresh \in 1..MaxRefresh

DefaultOf(var) ==
  CASE var = "BIND_ADDR" -> DefaultAddress
    [] var = "CAMPAIGN_SOURCE" -> FileSource
    [] var = "SEED_FILE" -> DefaultPath
    [] var = "K_TARGETING" -> DefaultThreshold
    [] var = "RESERVE_CPT_MICROS" -> DefaultReserve
    [] var = "PRICE_INCREMENT_MICROS" -> DefaultIncrement
    [] var = "INDEX_REFRESH_SECS" -> DefaultRefresh

(* Mutant: only an unset variable has its default.                         *)
ValueIfSet(env, var) == IF env[var] = Unset THEN DefaultOf(var) ELSE env[var]

(* Mutant: what is no number has the default, too.                         *)
ValueIfNumber(env, var) ==
  IF env[var] \in {Unset, Blank} \/ (var \in Integer4 /\ env[var] \notin I64)
  THEN DefaultOf(var) ELSE env[var]

(* The text used for a variable: a blank one counts as unset.              *)
Value(env, var) == IF env[var] \in {Unset, Blank} THEN DefaultOf(var) ELSE env[var]

Parses(env, var) ==
  CASE var = "BIND_ADDR" -> Value(env, var) \in Addresses
    [] var = "CAMPAIGN_SOURCE" -> Value(env, var) = FileSource
    [] var = "SEED_FILE" -> TRUE
    [] OTHER -> Value(env, var) \in I64

(* Mutant: a reserve of zero is let through.                               *)
InRangeOrZero(var, n) ==
  CASE var = "INDEX_REFRESH_SECS" -> n \in 1..MaxRefresh
    [] OTHER -> n >= 0

InRange(var, n) ==
  CASE var \in {"K_TARGETING", "PRICE_INCREMENT_MICROS"} -> n >= 0
    [] var = "RESERVE_CPT_MICROS" -> n > 0
    [] var = "INDEX_REFRESH_SECS" -> n \in 1..MaxRefresh

(***************************************************************************)
(* The checks in their order: everything is parsed before any range is     *)
(* looked at, and the first check that fails is the error.                 *)
(***************************************************************************)
Check(kind, var) == [kind |-> kind, var |-> var]
Checks == <<
  Check("invalid", "BIND_ADDR"), Check("invalid", "CAMPAIGN_SOURCE"),
  Check("invalid", "K_TARGETING"), Check("invalid", "RESERVE_CPT_MICROS"),
  Check("invalid", "PRICE_INCREMENT_MICROS"), Check("invalid", "INDEX_REFRESH_SECS"),
  Check("out_of_range", "K_TARGETING"), Check("out_of_range", "RESERVE_CPT_MICROS"),
  Check("out_of_range", "PRICE_INCREMENT_MICROS"), Check("out_of_range", "INDEX_REFRESH_SECS") >>

Fails(env, check) ==
  IF check.kind = "invalid" THEN ~ Parses(env, check.var)
  ELSE ~ InRange(check.var, Value(env, check.var))

(* The checks that are reached and fail: the first that fails, if any.     *)
Failing(env) ==
  {i \in 1..10 : (\A j \in 1..(i - 1) : ~ Fails(env, Checks[j])) /\ Fails(env, Checks[i])}
Accepted(env) == Failing(env) = {}
ErrorOf(env) == Checks[CHOOSE i \in Failing(env) : TRUE]

ConfigOf(env) ==
  [bind_addr |-> Value(env, "BIND_ADDR"),
   seed_file |-> Value(env, "SEED_FILE"),
   k_targeting |-> Value(env, "K_TARGETING"),
   reserve |-> Value(env, "RESERVE_CPT_MICROS"),
   increment |-> Value(env, "PRICE_INCREMENT_MICROS"),
   index_refresh |-> Value(env, "INDEX_REFRESH_SECS")]
=============================================================================
