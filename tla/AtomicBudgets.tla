---------------------------- MODULE AtomicBudgets ----------------------------
(***************************************************************************)
(* What the in-memory budgets promise their callers (the documentation of  *)
(* MemoryBudgets::try_spend and drop_days_before): between its invocation  *)
(* and its return, a call decides in ONE step, against what the day has    *)
(* spent at that moment.  MemoryBudgets.tla is shown to implement this;    *)
(* AdServer.tla relies on it.                                              *)
(***************************************************************************)
EXTENDS BudgetCalls

VARIABLES
  spent,    \* what each (campaign, day) has spent
  phase,    \* per thread: "idle", "pending" or "answered"
  call,     \* per thread: the arguments of its call
  answer,   \* per thread: "none", "spent", "refused" or "invalid"
  horizon   \* no day on or after the horizon has been dropped

vars == <<spent, phase, call, answer, horizon>>

(* The amount fits if the day's total stays within the caller's budget.    *)
Fits(c) == spent[KeyOf(c)] + c.amount <= c.daily_budget

TypeOK ==
  /\ spent \in [Keys -> Nat]
  /\ phase \in [Threads -> {"idle", "pending", "answered"}]
  /\ call \in [Threads -> Calls \cup {NoCall}]
  /\ answer \in [Threads -> {"none", "spent", "refused", "invalid"}]
  /\ horizon \in Int

Init ==
  /\ spent = [k \in Keys |-> 0]
  /\ phase = [t \in Threads |-> "idle"]
  /\ call = [t \in Threads |-> NoCall]
  /\ answer = [t \in Threads |-> "none"]
  /\ horizon = Epoch

Invoke(t) ==
  /\ phase[t] = "idle"
  /\ phase' = [phase EXCEPT ![t] = "pending"]
  /\ \E c \in Calls : call' = [call EXCEPT ![t] = c]
  /\ UNCHANGED <<spent, answer, horizon>>

Answer(t, a) ==
  /\ phase[t] = "pending"
  /\ phase' = [phase EXCEPT ![t] = "answered"]
  /\ answer' = [answer EXCEPT ![t] = a]
  /\ UNCHANGED <<call, horizon>>

Reject(t) ==
  /\ Answer(t, "invalid")
  /\ call[t].amount <= 0
  /\ UNCHANGED spent

Grant(t) ==
  /\ Answer(t, "spent")
  /\ call[t].amount > 0
  /\ Fits(call[t])
  /\ spent' = [spent EXCEPT ![KeyOf(call[t])] = @ + call[t].amount]

Refuse(t) ==
  /\ Answer(t, "refused")
  /\ call[t].amount > 0
  /\ ~ Fits(call[t])
  /\ UNCHANGED spent

Return(t) ==
  /\ phase[t] = "answered"
  /\ phase' = [phase EXCEPT ![t] = "idle"]
  /\ call' = [call EXCEPT ![t] = NoCall]
  /\ answer' = [answer EXCEPT ![t] = "none"]
  /\ UNCHANGED <<spent, horizon>>

(* Counters of days before the horizon may be forgotten, one or many at a  *)
(* time; no other counter ever goes back.                                  *)
RaiseHorizon ==
  /\ \E day \in Days : horizon' = Larger(horizon, day)
  /\ UNCHANGED <<spent, phase, call, answer>>

Forget ==
  /\ \E gone \in SUBSET {k \in Keys : DayOf(k) < horizon} :
       spent' = [k \in Keys |-> IF k \in gone THEN 0 ELSE spent[k]]
  /\ UNCHANGED <<phase, call, answer, horizon>>

Next ==
  \/ \E t \in Threads :
       Invoke(t) \/ Reject(t) \/ Grant(t) \/ Refuse(t) \/ Return(t)
  \/ RaiseHorizon
  \/ Forget

Spec == Init /\ [][Next]_vars
=============================================================================
