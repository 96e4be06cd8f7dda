------------------------------- MODULE Admission -------------------------------
(***************************************************************************)
(* The transactions that admit a tool call or a paid model call:           *)
(* Governance.issue and approve (governance.py), the reservation of the    *)
(* model proxy (model_proxy.py) and set_budget (api.py).                   *)
(*                                                                         *)
(* On SQLite they run one at a time behind BEGIN IMMEDIATE.  On PostgreSQL *)
(* they lock the task's row (SELECT ... FOR UPDATE): other admissions to   *)
(* the task, its closing, and inserts that refer to the task wait; other   *)
(* tasks, settlements and shares do not.  Each statement of a transaction  *)
(* is an action; its writes and commit are one, since they touch rows of   *)
(* the locked task or guard them in their WHERE.                           *)
(***************************************************************************)
EXTENDS GrantRows, Pricing

CONSTANTS
  Client,       \* workers calling the API or the model proxy
  Engines,      \* the engines considered: "sqlite", "postgresql"
  Profiles,     \* the execution profiles considered
  Amount,       \* the budgets an operator may set
  Budgeted,     \* the periods an operator may set one for: a bound
  Quotes,       \* the prices of the paid nodes a call may be placed on
  Prompts       \* the prompt sizes a preflight may count

ASSUME AdmissionAssumption ==
  /\ Engines \subseteq {"sqlite", "postgresql"}
  /\ None \notin Client
  /\ Profiles \subseteq Profile
  /\ Amount \subseteq Nat /\ Prompts \subseteq Nat
  /\ Quotes \subseteq ModelQuote
  /\ None \notin Id

VARIABLES
  engine,       \* the engine of this deployment: it never changes
  profile,      \* task -> its execution profile, fixed when it is created
  open,         \* tasks with is_terminal = FALSE
  shared,       \* <<task, tool>>: the tool is visible to the task's organization
  approvals,    \* governance_approvals
  grants,       \* governance_grants: action and, which no column says, approval
  quota,        \* quota_records
  budget,       \* quota_budgets
  today,
  lock,         \* task -> who has locked its row; on SQLite, the database
  pc, req       \* each client's next statement and request

vars == <<engine, profile, open, shared, approvals, grants, quota, budget, today, lock, pc, req>>
tables == <<engine, profile, open, shared, approvals, grants, quota, budget, today>>

GrantRow == [action : Action \cup {None}, by : Approval \cup {None}]
NoGrant == [action |-> None, by |-> None]

\* what the proxy has agreed with a paid call: prices and admitted token bounds
Bounds == [quote : Quotes, prompt : Nat, output : Nat]

Request == [op : {"none", "issue", "model"}, action : Action \cup {None},
            task : Task \cup {None}, id : Id \cup {None}, cost : Nat,
            approve : BOOLEAN, by : Approval \cup {None}, bounds : Bounds \cup {None}]
NewRequest(op, a, t, id, cost, bounds) ==
  [op |-> op, action |-> a, task |-> t, id |-> id, cost |-> cost,
   approve |-> FALSE, by |-> None, bounds |-> bounds]
NoRequest == NewRequest("none", None, None, None, 0, None)

TypeOK ==
  /\ engine \in Engines /\ profile \in [Task -> Profile]
  /\ open \subseteq Task /\ shared \subseteq Task \X Tool
  /\ approvals \in [Approval -> ApprovalRow]
  /\ grants \in [Id -> GrantRow]
  /\ quota \in [Id -> QuotaRow]
  /\ budget \in [Task -> [Period -> Amount \cup {None}]]
  /\ today \in 0 .. MaxDay
  /\ lock \in [Task -> Client \cup {None}]
  /\ pc \in [Client -> {"idle", "lock", "assess", "choose", "write", "infer"}]
  /\ req \in [Client -> Request]

Init ==
  /\ engine \in Engines /\ profile \in [Task -> Profiles]
  /\ open = Task
  /\ shared = Task \X Tool
  /\ approvals = [ap \in Approval |-> NoApproval]
  /\ grants = [g \in Id |-> NoGrant]
  /\ quota = [r \in Id |-> NoQuota]
  /\ budget = [t \in Task |-> [p \in Period |-> None]]
  /\ today = 0
  /\ lock = [t \in Task |-> None]
  /\ pc = [c \in Client |-> "idle"]
  /\ req = [c \in Client |-> NoRequest]

-----------------------------------------------------------------------------

Goto(c, phase) == pc' = [pc EXCEPT ![c] = phase]

LockFree(t) ==
  \A u \in (IF engine = "sqlite" THEN Task ELSE {t}) : lock[u] = None

\* a write that waits for SQLite's lock and for no row's
WriteFree == engine = "sqlite" => \A u \in Task : lock[u] = None

\* the transaction is over: its locks go
Leave(c) ==
  /\ Goto(c, "idle")
  /\ req' = [req EXCEPT ![c] = NoRequest]
  /\ lock' = [t \in Task |-> IF lock[t] = c THEN None ELSE lock[t]]

Fail(c) == Leave(c) /\ UNCHANGED tables

FreshId(id) ==
  /\ grants[id] = NoGrant /\ quota[id] = NoQuota
  /\ \A d \in Client : req[d].id # id

CallIssue(c, a, id) ==
  /\ pc[c] = "idle" /\ FreshId(id)
  /\ req' = [req EXCEPT ![c] = NewRequest("issue", a, a.task, id, ToolInfo[a.tool].cost, None)]
  /\ Goto(c, "lock")
  /\ UNCHANGED <<tables, lock>>

\* a call to a paid node whose prompt has been counted and whose output has been
\* bounded; one that is not affordable is answered with an error and changes nothing
CallModel(c, t, q, prompt, requested, id) ==
  /\ pc[c] = "idle" /\ FreshId(id)
  /\ Affordable(q, prompt, requested)
  /\ req' = [req EXCEPT ![c] =
       NewRequest("model", None, t, id, Reservation(q, prompt, requested),
                  [quote |-> q, prompt |-> prompt, output |-> Clamped(q, prompt, requested)])]
  /\ Goto(c, "lock")
  /\ UNCHANGED <<tables, lock>>

\* Mutated form: no FOR UPDATE.
Lock_NoRow(c) ==
  /\ pc[c] = "lock"
  /\ LockFree(req[c].task)
  /\ Goto(c, "assess")
  /\ UNCHANGED <<tables, lock, req>>

Lock(c) ==
  /\ pc[c] = "lock"
  /\ LockFree(req[c].task)
  /\ lock' = [lock EXCEPT ![req[c].task] = c]
  /\ Goto(c, "assess")
  /\ UNCHANGED <<tables, req>>

\* SQLite's busy timeout
LockTimeout(c) ==
  /\ engine = "sqlite" /\ pc[c] = "lock" /\ ~LockFree(req[c].task)
  /\ Fail(c)

\* issue reads the task, the tool, the share and the spending, and asks the policy
AssessIssue(c) ==
  /\ pc[c] = "assess" /\ req[c].op = "issue"
  /\ LET a == req[c].action
         info == ToolInfo[a.tool]
     IN  IF a.task \notin open \/ <<a.task, a.tool>> \notin shared
              \/ (info.financial /\ info.tier # 2)
         THEN Fail(c)
         ELSE \E permit, ask \in BOOLEAN :
                IF Permitted(a, profile[a.task], permit)
                THEN /\ req' = [req EXCEPT ![c].approve =
                          MustBeApproved(a, profile[a.task], ask,
                            Unbudgeted(budget, quota, a.task, info.cost, today))]
                     /\ Goto(c, "choose")
                     /\ UNCHANGED <<tables, lock>>
                ELSE Fail(c)

\* the model proxy takes no approval: without a budget the call is refused
AssessModel(c) ==
  /\ pc[c] = "assess" /\ req[c].op = "model"
  /\ IF Unbudgeted(budget, quota, req[c].task, req[c].cost, today)
     THEN Fail(c)
     ELSE Goto(c, "write") /\ UNCHANGED <<tables, lock, req>>

\* ORDER BY expires_at LIMIT 1; no approval is a denial
Choose(c) ==
  /\ pc[c] = "choose"
  /\ LET found == Matching(approvals, req[c].action)
     IN  IF ~req[c].approve
         THEN Goto(c, "write") /\ UNCHANGED <<tables, lock, req>>
         ELSE \/ found = {} /\ Fail(c)
              \/ \E ap \in found :
                   /\ \A other \in found : approvals[ap].left <= approvals[other].left
                   /\ req' = [req EXCEPT ![c].by = ap]
                   /\ Goto(c, "write")
                   /\ UNCHANGED <<tables, lock>>

\* Mutated form: the approval stays open.
WriteGrant_KeepsApproval(c) ==
  /\ pc[c] = "write" /\ req[c].op = "issue"
  /\ grants' = [grants EXCEPT ![req[c].id] = [action |-> req[c].action, by |-> req[c].by]]
  /\ quota' = IF ToolInfo[req[c].action.tool].financial
              THEN [quota EXCEPT ![req[c].id] = Reserved(req[c].task, req[c].cost, today)]
              ELSE quota
  /\ Leave(c)
  /\ UNCHANGED <<engine, profile, open, shared, approvals, budget, today>>

\* the grant, the approval consumed if it still is open, the reservation: commit
WriteGrant(c) ==
  /\ pc[c] = "write" /\ req[c].op = "issue"
  /\ IF req[c].by # None /\ approvals[req[c].by].status # "open"
     THEN Fail(c)
     ELSE /\ grants' = [grants EXCEPT ![req[c].id] =
                          [action |-> req[c].action, by |-> req[c].by]]
          /\ approvals' = IF req[c].by = None THEN approvals
                          ELSE [approvals EXCEPT ![req[c].by].status = "consumed"]
          /\ quota' = IF ToolInfo[req[c].action.tool].financial
                      THEN [quota EXCEPT ![req[c].id] =
                              Reserved(req[c].task, req[c].cost, today)]
                      ELSE quota
          /\ Leave(c)
          /\ UNCHANGED <<engine, profile, open, shared, budget, today>>

\* the reservation is committed and its lock released; the thread goes on to infer
WriteReservation(c) ==
  /\ pc[c] = "write" /\ req[c].op = "model"
  /\ quota' = [quota EXCEPT ![req[c].id] = Reserved(req[c].task, req[c].cost, today)]
  /\ lock' = [t \in Task |-> IF lock[t] = c THEN None ELSE lock[t]]
  /\ Goto(c, "infer")
  /\ UNCHANGED <<engine, profile, open, shared, approvals, grants, budget, today, req>>

\* the node cannot be reached, or reports a usage out of the admitted bounds (and is
\* quarantined): the record stays reserved
InferFails(c) == pc[c] = "infer" /\ Fail(c)

\* the node reports a usage within the bounds; a charge above the reservation
\* would be another error, and settles nothing
SettleModel(c) ==
  /\ pc[c] = "infer" /\ WriteFree
  /\ \E prompt \in 0 .. req[c].bounds.prompt, output \in 0 .. req[c].bounds.output :
       LET charge == ModelCharge(req[c].bounds.quote, prompt, output)
           row == quota[req[c].id]
       IN  quota' = IF charge <= req[c].cost /\ row.status = "reserved"
                    THEN [quota EXCEPT ![req[c].id] = Settled(@, charge)]
                    ELSE quota
  /\ Leave(c)
  /\ UNCHANGED <<engine, profile, open, shared, approvals, grants, budget, today>>

-----------------------------------------------------------------------------
(* One-statement transactions.                                             *)

\* Mutated form: settles whatever the record's state.
Settle_Again(r, amount) ==
  /\ WriteFree /\ grants[r] # NoGrant
  /\ quota[r].status # "absent" /\ amount <= quota[r].reserved
  /\ quota' = [quota EXCEPT ![r] = Settled(@, amount)]
  /\ UNCHANGED <<engine, profile, open, shared, approvals, grants, budget, today, lock, pc, req>>

\* the gateway settles the reservation of a grant, once, for no more than it
Settle(r, amount) ==
  /\ WriteFree /\ grants[r] # NoGrant
  /\ quota[r].status = "reserved" /\ amount <= quota[r].reserved
  /\ quota' = [quota EXCEPT ![r] = Settled(@, amount)]
  /\ UNCHANGED <<engine, profile, open, shared, approvals, grants, budget, today, lock, pc, req>>

Approve(ap, a) ==
  /\ LockFree(a.task)
  /\ approvals[ap].status = "absent"
  /\ approvals' = [approvals EXCEPT ![ap] =
                     [status |-> "open", action |-> a, left |-> ApprovalTtl]]
  /\ UNCHANGED <<engine, profile, open, shared, grants, quota, budget, today, lock, pc, req>>

\* the task was open when the request came; it may have closed since
SetBudget(t, p, cents) ==
  /\ p \in Budgeted /\ LockFree(t)
  /\ budget' = [budget EXCEPT ![t][p] = cents]
  /\ UNCHANGED <<engine, profile, open, shared, approvals, grants, quota, today, lock, pc, req>>

\* TaskManager.finish closes the task
CloseTask(t) ==
  /\ LockFree(t)
  /\ open' = open \ {t}
  /\ UNCHANGED <<engine, profile, shared, approvals, grants, quota, budget, today, lock, pc, req>>

\* an operator shares a tool with the task's organization, or revokes the share
ChangeShare(t, tool) ==
  /\ WriteFree
  /\ shared' = IF <<t, tool>> \in shared THEN shared \ {<<t, tool>>}
               ELSE shared \cup {<<t, tool>>}
  /\ UNCHANGED <<engine, profile, open, approvals, grants, quota, budget, today, lock, pc, req>>

Crash(c) == pc[c] # "idle" /\ Fail(c)

Tick ==
  /\ approvals' = [ap \in Approval |->
       [approvals[ap] EXCEPT !.left = IF @ > 0 THEN @ - 1 ELSE @]]
  /\ UNCHANGED <<engine, profile, open, shared, grants, quota, budget, today, lock, pc, req>>

NewDay ==
  /\ today < MaxDay
  /\ today' = today + 1
  /\ UNCHANGED <<engine, profile, open, shared, approvals, grants, quota, budget, lock, pc, req>>

Issue(c) ==
  \/ \E a \in Action, id \in Id : CallIssue(c, a, id)
  \/ AssessIssue(c) \/ Choose(c) \/ WriteGrant(c)

ReserveModel(c) ==
  \/ \E t \in Task, q \in Quotes, prompt \in Prompts, id \in Id :
       \E requested \in 1 .. q.max : CallModel(c, t, q, prompt, requested, id)
  \/ AssessModel(c) \/ WriteReservation(c) \/ InferFails(c)
  \/ SettleModel(c)

Next ==
  \/ \E c \in Client : Issue(c) \/ ReserveModel(c) \/ Lock(c) \/ LockTimeout(c) \/ Crash(c)
  \/ \E r \in Id : \E amount \in 0 .. quota[r].reserved : Settle(r, amount)
  \/ \E ap \in Approval, a \in Action : Approve(ap, a)
  \/ \E t \in Task, p \in Period, cents \in Amount : SetBudget(t, p, cents)
  \/ \E t \in Task : CloseTask(t)
  \/ \E t \in Task, tool \in Tool : ChangeShare(t, tool)
  \/ Tick \/ NewDay

Spec == Init /\ [][Next]_vars

-----------------------------------------------------------------------------

\* An approval backs at most one grant, of exactly the action it names, and is
\* spent by it; under the strict profile every high-risk grant has one
\* (governance.issue: two issues may find the same approval).
GrantsAreApproved ==
  \A g \in Id : grants[g] # NoGrant =>
    /\ grants[g].by # None =>
         /\ approvals[grants[g].by].status = "consumed"
         /\ approvals[grants[g].by].action = grants[g].action
         /\ \A h \in Id \ {g} : grants[h].by # grants[g].by
    /\ /\ profile[grants[g].action.task].mode = "strict_ed25519"
       /\ ToolInfo[grants[g].action.tool].tier = 2
       => grants[g].by # None

\* Money reserved without an approval fits in every budget of the task at the
\* moment it is reserved, whatever other admissions, budget changes, or the end
\* of the day come between the check and the insert.
BudgetHolds ==
  [][\A r \in Id :
       quota[r].status = "absent" /\ quota'[r].status # "absent"
         /\ (grants'[r] # NoGrant => grants'[r].by = None)
       => LET t == quota'[r].task
          IN  /\ \E p \in Period : budget[t][p] # None
              /\ \A p \in Period : budget[t][p] # None =>
                   Spent(quota', t, p, today) <= budget[t][p]]_vars

\* No grant is issued for a task that has closed, although issue checks it in an
\* earlier statement.
GrantsForOpenTasks ==
  [][\A g \in Id : grants[g] = NoGrant /\ grants'[g] # NoGrant =>
       grants'[g].action.task \in open]_vars

\* A reservation is settled once, for no more than was reserved, and a settled
\* record never changes: a second settlement of the same grant has no effect.
SettledOnce ==
  [][\A r \in Id :
       /\ quota[r].status = "settled" => quota'[r] = quota[r]
       /\ quota[r].status = "reserved" =>
            /\ quota'[r].status # "absent" /\ quota'[r].amount <= quota[r].amount
            /\ quota'[r].reserved = quota[r].reserved]_vars

\* Whatever usage within the admitted bounds a node reports, its charge fits what was
\* reserved for the call: the clamp of the output, the reservation and the charge
\* round in different places (bounded_model_call, chat), and no settlement may be
\* refused for being above its reservation.
ChargesFit ==
  \A c \in Client : pc[c] = "infer" =>
    LET b == req[c].bounds
        row == quota[req[c].id]
    IN  /\ row.reserved <= b.quote.cap
        /\ \A prompt \in 0 .. b.prompt, output \in 0 .. b.output :
             ModelCharge(b.quote, prompt, output) <= row.reserved

\* Every admission and settlement is one step of the spend ledger.
Ledger == INSTANCE SpendLedger WITH
            Cost <- {ToolInfo[tool].cost : tool \in Tool}
                      \cup UNION {0 .. q.cap : q \in Quotes},
            unused <- {ap \in Approval : approvals[ap].status = "open"}
ImplementsSpendLedger == Ledger!Spec
=============================================================================
