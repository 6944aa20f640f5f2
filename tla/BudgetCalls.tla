----------------------------- MODULE BudgetCalls -----------------------------
(***************************************************************************)
(* The vocabulary shared by the specifications of the daily budgets        *)
(* (admatch-core, budget.rs): the counters' keys, and the arguments of a   *)
(* call of try_spend.                                                      *)
(***************************************************************************)
EXTENDS Integers

CONSTANTS
  Threads,       \* the threads that call try_spend
  Campaigns,
  Days,          \* UTC days, numbered
  Epoch,         \* a day no later than any of them
  Amounts,       \* the amounts callers pass, zero and negative ones included
  DailyBudgets,  \* the budgets callers pass
  I64Max,        \* the largest i64, small in the checked instances
  NoCall         \* the call of a thread that has none

Keys == Campaigns \X Days
DayOf(k) == k[2]

Calls == [campaign : Campaigns, day : Days, amount : Amounts, daily_budget : DailyBudgets]
KeyOf(c) == <<c.campaign, c.day>>

(* Amounts and budgets are i64 values, and spend amounts may be negative.  *)
ASSUME BudgetAssumption ==
  /\ I64Max \in Nat
  /\ Days \subseteq Int
  /\ Epoch \in Int
  /\ \A d \in Days : Epoch <= d
  /\ Amounts \subseteq Int
  /\ DailyBudgets \subseteq Int
  /\ \A a \in Amounts : a <= I64Max
  /\ \A b \in DailyBudgets : b <= I64Max
  /\ NoCall \notin Calls

Larger(x, y) == IF x > y THEN x ELSE y
=============================================================================
