------------------------------- MODULE GrantRows -------------------------------
(***************************************************************************)
(* The rows of governance and spending (db.py) and the decisions taken     *)
(* over them (governance.py, spend.py).  An action is what a grant is      *)
(* bound to: task, principal, tool and the hash of the exact arguments.    *)
(* Money is in cents.                                                      *)
(***************************************************************************)
EXTENDS Integers, FiniteSetsExt

CONSTANTS
  Task, Tool,
  Action,       \* a set of [task, who, tool, args]
  ToolInfo,     \* tool -> [tier, financial, metered, cost]: its tool_registry
                \* row; cost is the fixed price plus that of max_units
  Id,           \* grant ids; a quota record has the id of its grant, or, for
                \* a model call, one of its own
  Approval,     \* approval ids
  None,
  ApprovalTtl,  \* ttl_seconds of an approval, in ticks
  MaxDay        \* last day of the model's calendar: a bound

Period == {"daily", "weekly", "monthly"}

\* what a task's execution profile says of grants
Profile == [mode : {"auto_grant", "risk_tiered", "strict_ed25519"}, sandbox : BOOLEAN]

ASSUME GrantRowsAssumption ==
  /\ \A a \in Action : a.task \in Task /\ a.tool \in Tool
  /\ ToolInfo \in [Tool -> [tier : 0 .. 2, financial : BOOLEAN,
                           metered : BOOLEAN, cost : Nat]]
  /\ ApprovalTtl \in Nat \ {0} /\ MaxDay \in Nat
  /\ None \notin Action /\ None \notin Approval /\ None \notin Nat /\ None \notin Task

ApprovalRow == [status : {"absent", "open", "consumed"},
                action : Action \cup {None}, left : 0 .. ApprovalTtl]
NoApproval == [status |-> "absent", action |-> None, left |-> 0]

\* day is created_at; a record counts as amount from the moment it is reserved
QuotaRow == [status : {"absent", "reserved", "settled"}, task : Task \cup {None},
             amount : Nat, reserved : Nat, day : 0 .. MaxDay]
NoQuota == [status |-> "absent", task |-> None, amount |-> 0, reserved |-> 0, day |-> 0]
Reserved(t, cost, day) ==
  [status |-> "reserved", task |-> t, amount |-> cost, reserved |-> cost, day |-> day]

\* Mutated form: keeps what is given back.
Settled_Refund(row, amount) ==
  [status |-> "settled", task |-> row.task, amount |-> amount - row.reserved,
   reserved |-> row.reserved, day |-> row.day]
Settled(row, amount) ==
  [status |-> "settled", task |-> row.task, amount |-> amount,
   reserved |-> row.reserved, day |-> row.day]

\* created_at >= period_start(now, period): days end in the
\* model, weeks and months do not
InPeriod(day, period, today) == period # "daily" \/ day = today

Spent(quota, t, period, today) ==
  MapThenSumSet(LAMBDA r : quota[r].amount,
                {r \in Id : /\ quota[r].status # "absent" /\ quota[r].task = t
                            /\ InPeriod(quota[r].day, period, today)})

\* Mutated form: any one of the budgets suffices.
Unbudgeted_Any(budget, quota, t, cost, today) ==
  \/ cost = 0
  \/ \A p \in Period : budget[t][p] # None =>
       Spent(quota, t, p, today) + cost > budget[t][p]

\* budget_requires_approval: no budget is set, or one would be exceeded
Unbudgeted(budget, quota, t, cost, today) ==
  \/ cost = 0
  \/ \A p \in Period : budget[t][p] = None
  \/ \E p \in Period : /\ budget[t][p] # None
                       /\ Spent(quota, t, p, today) + cost > budget[t][p]

\* What issue decides of an action, given what the policy says of it: whether
\* the profile permits it at all, and whether an operator must have approved it.
Permitted(a, profile, permit) ==
  LET tier == ToolInfo[a.tool].tier
  IN  /\ \/ tier = 0
         \/ tier = 1 /\ profile.sandbox
         \/ tier = 2 /\ (profile.mode = "auto_grant" \/ permit)
      /\ profile.mode = "strict_ed25519" /\ tier > 0 => profile.sandbox

MustBeApproved(a, profile, ask, unbudgeted) ==
  /\ ToolInfo[a.tool].tier = 2
  /\ \/ profile.mode = "strict_ed25519"
     \/ ToolInfo[a.tool].financial /\ unbudgeted
     \/ ask /\ profile.mode # "auto_grant"

\* Mutated form: the arguments are not compared.
Matching_AnyArgs(approvals, a) ==
  {ap \in Approval : /\ approvals[ap].status = "open" /\ approvals[ap].left > 0
                     /\ approvals[ap].action.task = a.task
                     /\ approvals[ap].action.who = a.who
                     /\ approvals[ap].action.tool = a.tool}

\* the approvals of exactly this action that are unconsumed and unexpired
Matching(approvals, a) ==
  {ap \in Approval : /\ approvals[ap].status = "open" /\ approvals[ap].left > 0
                     /\ approvals[ap].action = a}
=============================================================================
