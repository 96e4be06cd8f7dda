------------------------------ MODULE SpendLedger ------------------------------
(***************************************************************************)
(* What the spend admission of governance.py and model_proxy.py promises:  *)
(* money is reserved in one step, either within every budget of the task   *)
(* or against an operator's approval that no one else can use, and is      *)
(* given back only by settling for less.  Admission implements this.       *)
(***************************************************************************)
EXTENDS GrantRows

CONSTANTS
  Amount,     \* the budgets an operator may set
  Cost        \* what a call may reserve

VARIABLES
  budget,     \* task -> period -> cents, or None
  quota,      \* the quota records
  unused,     \* the approvals given and not used
  today

vars == <<budget, quota, unused, today>>

Init ==
  /\ budget = [t \in Task |-> [p \in Period |-> None]]
  /\ quota = [r \in Id |-> NoQuota]
  /\ unused = {}
  /\ today = 0

Approve(ap) ==
  /\ unused' = unused \cup {ap}
  /\ UNCHANGED <<budget, quota, today>>

SetBudget(t, p, cents) ==
  /\ budget' = [budget EXCEPT ![t][p] = cents]
  /\ UNCHANGED <<quota, unused, today>>

Reserve(r, t, cost) ==
  /\ quota[r].status = "absent"
  /\ quota' = [quota EXCEPT ![r] = Reserved(t, cost, today)]
  /\ UNCHANGED <<budget, today>>

AdmitBudgeted(r, t, cost) ==
  /\ ~Unbudgeted(budget, quota, t, cost, today)
  /\ Reserve(r, t, cost)
  /\ UNCHANGED unused

AdmitApproved(r, t, cost, ap) ==
  /\ ap \in unused
  /\ unused' = unused \ {ap}
  /\ Reserve(r, t, cost)

\* an approval used for an action that costs nothing
Use(ap) ==
  /\ ap \in unused
  /\ unused' = unused \ {ap}
  /\ UNCHANGED <<budget, quota, today>>

Settle(r, amount) ==
  /\ quota[r].status = "reserved"
  /\ quota' = [quota EXCEPT ![r] = Settled(@, amount)]
  /\ UNCHANGED <<budget, unused, today>>

NewDay ==
  /\ today' = today + 1
  /\ UNCHANGED <<budget, quota, unused>>

Next ==
  \/ \E ap \in Approval : Approve(ap) \/ Use(ap)
  \/ \E t \in Task, p \in Period, cents \in Amount : SetBudget(t, p, cents)
  \/ \E r \in Id, t \in Task, cost \in Cost :
       \/ AdmitBudgeted(r, t, cost)
       \/ \E ap \in Approval : AdmitApproved(r, t, cost, ap)
  \/ \E r \in Id : \E amount \in 0 .. quota[r].reserved : Settle(r, amount)
  \/ NewDay

Spec == Init /\ [][Next]_vars
=============================================================================
