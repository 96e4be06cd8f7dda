--------------------------- MODULE AdmissionProofs ---------------------------
(***************************************************************************)
(* For any number of tasks, tools, clients, approvals and paid calls, on   *)
(* both engines: what an admission has read is still so when it writes,    *)
(* because it holds its task's row or because the write checks it again.   *)
(***************************************************************************)
EXTENDS Admission, PricingProofs

\* Every charge within a paid call's bounds fits its reservation, and that its cap.
Covered(r) ==
  /\ r.bounds \in Bounds
  /\ r.cost <= r.bounds.quote.cap
  /\ \A prompt \in 0 .. r.bounds.prompt, output \in 0 .. r.bounds.output :
       /\ ModelCharge(r.bounds.quote, prompt, output) \in Nat
       /\ ModelCharge(r.bounds.quote, prompt, output) <= r.cost

WellFormed(r) ==
  /\ r.op \in {"issue", "model"} /\ r.id \in Id /\ r.task \in Task
  /\ r.op = "issue" => r.action \in Action /\ r.task = r.action.task
  /\ r.op = "model" => Covered(r)

HighRisk(r) ==
  /\ profile[r.action.task].mode = "strict_ed25519"
  /\ ToolInfo[r.action.tool].tier = 2

\* What an issue knows of its approval when it writes: whether the approval still
\* is open is for the write to find out.
Backed(r) ==
  /\ r.by # None => /\ approvals[r.by].status # "absent"
                    /\ approvals[r.by].action = r.action
  /\ HighRisk(r) => r.by # None

\* What a client's call knows of the tables, phase by phase.
CallKnows(c) ==
  /\ pc[c] = "idle" => req[c] = NoRequest
  /\ pc[c] # "idle" => WellFormed(req[c]) /\ grants[req[c].id] = NoGrant
  /\ pc[c] \notin {"idle", "infer"} => quota[req[c].id] = NoQuota
  /\ pc[c] \in {"assess", "choose", "write"} => lock[req[c].task] = c
  /\ pc[c] \in {"lock", "assess", "choose"} => req[c].by = None
  /\ pc[c] = "choose" => req[c].op = "issue" /\ (HighRisk(req[c]) => req[c].approve)
  /\ pc[c] \in {"choose", "write"} /\ req[c].op = "issue" => req[c].task \in open
  /\ pc[c] = "write" /\ req[c].op = "issue" => Backed(req[c])
  /\ pc[c] = "infer" =>
       /\ req[c].op = "model"
       /\ quota[req[c].id].status = "reserved"
       /\ quota[req[c].id].reserved = req[c].cost

\* No two calls in flight write the same row.
IdsDiffer ==
  \A c, d \in Client : c # d /\ pc[c] # "idle" /\ pc[d] # "idle" =>
    req[c].id # req[d].id

\* An open reservation counts in full.
RowsFit ==
  \A r \in Id : quota[r].status = "reserved" => quota[r].amount = quota[r].reserved

AdmissionInvariant ==
  /\ TypeOK
  /\ \A c \in Client : CallKnows(c)
  /\ IdsDiffer
  /\ RowsFit
  /\ GrantsAreApproved

\* Approvals are given once and consumed once; what they name never changes.
ApprovalsGrow ==
  \A ap \in Approval : approvals[ap].status # "absent" =>
    /\ approvals'[ap].status # "absent"
    /\ approvals'[ap].action = approvals[ap].action
    /\ approvals[ap].status = "consumed" => approvals'[ap].status = "consumed"

-----------------------------------------------------------------------------
(* Frames: what a step of somebody else leaves true.                       *)

\* A call keeps what it knows if its rows, its lock and its approvals are kept.
LEMMA CallKept ==
  ASSUME AdmissionInvariant, NEW c \in Client,
         pc'[c] = pc[c], req'[c] = req[c],
         pc[c] # "idle" => /\ grants'[req[c].id] = grants[req[c].id]
                           /\ quota'[req[c].id] = quota[req[c].id],
         \A t \in Task : lock[t] = c => lock'[t] = c /\ (t \in open => t \in open'),
         ApprovalsGrow, profile' = profile
  PROVE  CallKnows(c)'
<1>1. CallKnows(c) /\ req[c] \in Request
  BY DEF AdmissionInvariant, TypeOK
<1>2. pc[c] # "idle" => WellFormed(req[c])'
  BY <1>1 DEF CallKnows, WellFormed, Covered
<1>3. pc[c] = "write" /\ req[c].op = "issue" => Backed(req[c])'
  <2>1. req[c].by \in Approval \cup {None}
    BY <1>1 DEF Request
  <2> QED
    BY <1>1, <2>1 DEF CallKnows, Backed, HighRisk, ApprovalsGrow
<1>4. HighRisk(req[c])' = HighRisk(req[c])
  BY DEF HighRisk
<1>5. pc[c] # "idle" => req[c].task \in Task
  BY <1>1 DEF CallKnows, WellFormed
<1> QED
  BY <1>1, <1>2, <1>3, <1>4, <1>5 DEF CallKnows

LEMMA IdsKept ==
  ASSUME IdsDiffer,
         \A c \in Client : pc'[c] # "idle" => pc[c] # "idle" /\ req'[c].id = req[c].id
  PROVE  IdsDiffer'
BY DEF IdsDiffer

LEMMA GrantsKept ==
  ASSUME AdmissionInvariant, grants' = grants, profile' = profile, ApprovalsGrow
  PROVE  GrantsAreApproved'
<1>1. \A g \in Id : grants[g].by \in Approval \cup {None}
  BY DEF AdmissionInvariant, TypeOK, GrantRow
<1>2. GrantsAreApproved
  BY DEF AdmissionInvariant
<1> QED
  BY <1>1, <1>2 DEF GrantsAreApproved, ApprovalsGrow

-----------------------------------------------------------------------------
(* One-statement transactions, and time.                                   *)

LEMMA SettleStep ==
  ASSUME AdmissionInvariant, NEW r \in Id, NEW amount \in 0 .. quota[r].reserved,
         Settle(r, amount)
  PROVE  AdmissionInvariant'
<1>1. /\ TypeOK /\ quota[r] \in QuotaRow /\ amount \in Nat /\ grants[r] # NoGrant
      /\ quota' = [quota EXCEPT ![r] = Settled(quota[r], amount)]
  BY DEF AdmissionInvariant, TypeOK, Settle, QuotaRow
<1>2. Settled(quota[r], amount) \in QuotaRow
  BY <1>1 DEF Settled, QuotaRow
<1>3. TypeOK'
  BY <1>1, <1>2 DEF TypeOK, Settle
<1>4. ASSUME NEW c \in Client  PROVE CallKnows(c)'
  <2>1. pc[c] # "idle" => req[c].id \in Id /\ req[c].id # r
    BY <1>1 DEF AdmissionInvariant, CallKnows, WellFormed
  <2> QED
    BY <1>1, <2>1, CallKept DEF Settle, ApprovalsGrow, TypeOK
<1>5. RowsFit'
  BY <1>1 DEF AdmissionInvariant, RowsFit, Settled, TypeOK
<1>6. IdsDiffer' /\ GrantsAreApproved'
  BY IdsKept, GrantsKept DEF AdmissionInvariant, Settle, ApprovalsGrow
<1> QED
  BY <1>3, <1>4, <1>5, <1>6 DEF AdmissionInvariant

LEMMA ApproveStep ==
  ASSUME AdmissionInvariant, NEW ap \in Approval, NEW a \in Action, Approve(ap, a)
  PROVE  AdmissionInvariant'
<1>1. /\ TypeOK /\ approvals[ap].status = "absent"
      /\ approvals' = [approvals EXCEPT ![ap] =
                         [status |-> "open", action |-> a, left |-> ApprovalTtl]]
  BY DEF AdmissionInvariant, Approve
<1>2. TypeOK'
  <2>1. [status |-> "open", action |-> a, left |-> ApprovalTtl] \in ApprovalRow
    BY GrantRowsAssumption DEF ApprovalRow
  <2> QED
    BY <1>1, <2>1 DEF TypeOK, Approve
<1>3. ApprovalsGrow
  BY <1>1 DEF ApprovalsGrow, TypeOK
<1>4. ASSUME NEW c \in Client  PROVE CallKnows(c)'
  BY <1>3, CallKept DEF Approve
<1>5. IdsDiffer' /\ GrantsAreApproved' /\ RowsFit'
  BY <1>3, IdsKept, GrantsKept DEF AdmissionInvariant, Approve, RowsFit
<1> QED
  BY <1>2, <1>4, <1>5 DEF AdmissionInvariant

LEMMA SetBudgetStep ==
  ASSUME AdmissionInvariant, NEW t \in Task, NEW p \in Period, NEW cents \in Amount,
         SetBudget(t, p, cents)
  PROVE  AdmissionInvariant'
<1>1. TypeOK'
  BY DEF AdmissionInvariant, TypeOK, SetBudget
<1>2. ASSUME NEW c \in Client  PROVE CallKnows(c)'
  BY CallKept DEF SetBudget, ApprovalsGrow
<1>3. IdsDiffer' /\ GrantsAreApproved' /\ RowsFit'
  BY IdsKept, GrantsKept DEF AdmissionInvariant, SetBudget, RowsFit, ApprovalsGrow
<1> QED
  BY <1>1, <1>2, <1>3 DEF AdmissionInvariant

\* A task that closes has no admission between its assessment and its write.
LEMMA CloseTaskStep ==
  ASSUME AdmissionInvariant, NEW t \in Task, CloseTask(t)
  PROVE  AdmissionInvariant'
<1>1. TypeOK'
  BY DEF AdmissionInvariant, TypeOK, CloseTask
<1>2. lock[t] = None
  BY DEF CloseTask, LockFree
<1>3. ASSUME NEW c \in Client  PROVE CallKnows(c)'
  <2>1. \A u \in Task : lock[u] = c => lock'[u] = c /\ (u \in open => u \in open')
    BY <1>2, AdmissionAssumption DEF CloseTask
  <2> QED
    BY <2>1, CallKept DEF CloseTask, ApprovalsGrow
<1>4. IdsDiffer' /\ GrantsAreApproved' /\ RowsFit'
  BY IdsKept, GrantsKept DEF AdmissionInvariant, CloseTask, RowsFit, ApprovalsGrow
<1> QED
  BY <1>1, <1>3, <1>4 DEF AdmissionInvariant

LEMMA ChangeShareStep ==
  ASSUME AdmissionInvariant, NEW t \in Task, NEW tool \in Tool, ChangeShare(t, tool)
  PROVE  AdmissionInvariant'
<1>1. TypeOK'
  BY DEF AdmissionInvariant, TypeOK, ChangeShare
<1>2. ASSUME NEW c \in Client  PROVE CallKnows(c)'
  BY CallKept DEF ChangeShare, ApprovalsGrow
<1>3. IdsDiffer' /\ GrantsAreApproved' /\ RowsFit'
  BY IdsKept, GrantsKept DEF AdmissionInvariant, ChangeShare, RowsFit, ApprovalsGrow
<1> QED
  BY <1>1, <1>2, <1>3 DEF AdmissionInvariant

LEMMA TickStep ==
  ASSUME AdmissionInvariant, Tick
  PROVE  AdmissionInvariant'
<1>1. /\ TypeOK
      /\ \A ap \in Approval :
           /\ approvals'[ap] \in ApprovalRow
           /\ approvals'[ap].status = approvals[ap].status
           /\ approvals'[ap].action = approvals[ap].action
  <2>1. TypeOK /\ approvals \in [Approval -> ApprovalRow]
    BY DEF AdmissionInvariant, TypeOK
  <2>2. ASSUME NEW ap \in Approval
        PROVE  /\ approvals'[ap] \in ApprovalRow
               /\ approvals'[ap].status = approvals[ap].status
               /\ approvals'[ap].action = approvals[ap].action
    <3>1. PICK row \in ApprovalRow : row = approvals[ap]
      BY <2>1
    <3>2. PICK left \in 0 .. ApprovalTtl : left = IF row.left > 0 THEN row.left - 1 ELSE row.left
      BY <3>1, GrantRowsAssumption DEF ApprovalRow
    <3>3. approvals'[ap] = [row EXCEPT !.left = left]
      BY <3>1, <3>2 DEF Tick
    <3> QED
      BY <3>1, <3>3 DEF ApprovalRow
  <2> QED
    BY <2>1, <2>2
<1>2. TypeOK'
  <2>1. approvals' \in [Approval -> ApprovalRow]
    BY <1>1 DEF Tick
  <2> QED
    BY <1>1, <2>1 DEF TypeOK, Tick
<1>3. ApprovalsGrow
  BY <1>1 DEF ApprovalsGrow
<1>4. ASSUME NEW c \in Client  PROVE CallKnows(c)'
  BY <1>3, CallKept DEF Tick
<1>5. IdsDiffer' /\ GrantsAreApproved' /\ RowsFit'
  BY <1>3, IdsKept, GrantsKept DEF AdmissionInvariant, Tick, RowsFit
<1> QED
  BY <1>2, <1>4, <1>5 DEF AdmissionInvariant

LEMMA NewDayStep ==
  ASSUME AdmissionInvariant, NewDay
  PROVE  AdmissionInvariant'
<1>1. TypeOK'
  BY GrantRowsAssumption DEF AdmissionInvariant, TypeOK, NewDay
<1>2. ASSUME NEW c \in Client  PROVE CallKnows(c)'
  BY CallKept DEF NewDay, ApprovalsGrow
<1>3. IdsDiffer' /\ GrantsAreApproved' /\ RowsFit'
  BY IdsKept, GrantsKept DEF AdmissionInvariant, NewDay, RowsFit, ApprovalsGrow
<1> QED
  BY <1>1, <1>2, <1>3 DEF AdmissionInvariant

-----------------------------------------------------------------------------
(* The statements of a call.                                               *)

\* A transaction that ends, whatever it has written, leaves its client idle and
\* takes nobody else's lock.
LEMMA LeaveTypes ==
  ASSUME TypeOK, NEW c \in Client, Leave(c)
  PROVE  /\ pc' \in [Client -> {"idle", "lock", "assess", "choose", "write", "infer"}]
         /\ req' \in [Client -> Request]
         /\ lock' \in [Task -> Client \cup {None}]
         /\ pc'[c] = "idle" /\ req'[c] = NoRequest
         /\ \A d \in Client \ {c} :
              /\ pc'[d] = pc[d] /\ req'[d] = req[d]
              /\ \A t \in Task : lock[t] = d => lock'[t] = d
<1>1. NoRequest \in Request
  BY DEF NoRequest, NewRequest, Request
<1> QED
  BY <1>1 DEF TypeOK, Leave, Goto

LEMMA LeaveKeepsIds ==
  ASSUME AdmissionInvariant, NEW c \in Client, Leave(c)
  PROVE  IdsDiffer'
<1>1. \A d \in Client : pc'[d] # "idle" => pc[d] # "idle" /\ req'[d].id = req[d].id
  BY LeaveTypes DEF AdmissionInvariant
<1> QED
  BY <1>1, IdsKept DEF AdmissionInvariant

LEMMA FailStep ==
  ASSUME AdmissionInvariant, NEW c \in Client, Fail(c)
  PROVE  AdmissionInvariant'
<1>1. Leave(c) /\ UNCHANGED tables /\ TypeOK
  BY DEF Fail, AdmissionInvariant
<1>2. TypeOK'
  BY <1>1, LeaveTypes DEF TypeOK, tables
<1>3. ASSUME NEW d \in Client  PROVE CallKnows(d)'
  <2>1. CASE d = c
    BY <1>1, <2>1, LeaveTypes DEF CallKnows
  <2>2. CASE d # c
    BY <1>1, <2>2, LeaveTypes, CallKept DEF tables, ApprovalsGrow
  <2> QED
    BY <2>1, <2>2
<1>4. IdsDiffer' /\ GrantsAreApproved' /\ RowsFit'
  BY <1>1, LeaveKeepsIds, GrantsKept DEF AdmissionInvariant, tables, RowsFit, ApprovalsGrow
<1> QED
  BY <1>2, <1>3, <1>4 DEF AdmissionInvariant

\* A statement of c's transaction that writes no table: what the others know stays.
LEMMA OthersKnow ==
  ASSUME AdmissionInvariant, NEW c \in Client, NEW d \in Client \ {c},
         UNCHANGED tables, pc'[d] = pc[d], req'[d] = req[d],
         \A t \in Task : lock[t] = d => lock'[t] = d
  PROVE  CallKnows(d)'
BY CallKept DEF tables, ApprovalsGrow

LEMMA TablesKept ==
  ASSUME AdmissionInvariant, UNCHANGED tables
  PROVE  GrantsAreApproved' /\ RowsFit'
BY GrantsKept DEF AdmissionInvariant, tables, RowsFit, ApprovalsGrow

\* A new call's id is nobody's.
LEMMA NewCallStep ==
  ASSUME AdmissionInvariant, NEW c \in Client, NEW r \in Request, WellFormed(r),
         pc[c] = "idle", FreshId(r.id), r.by = None,
         req' = [req EXCEPT ![c] = r], Goto(c, "lock"), UNCHANGED <<tables, lock>>
  PROVE  AdmissionInvariant'
<1>1. /\ TypeOK /\ pc'[c] = "lock" /\ req'[c] = r
      /\ \A d \in Client \ {c} : pc'[d] = pc[d] /\ req'[d] = req[d]
  BY DEF AdmissionInvariant, TypeOK, Goto
<1>2. TypeOK'
  BY <1>1 DEF TypeOK, Goto, tables
<1>3. ASSUME NEW d \in Client  PROVE CallKnows(d)'
  <2>1. CASE d = c
    <3>1. WellFormed(r)'
      BY DEF WellFormed, Covered
    <3> QED
      BY <1>1, <2>1, <3>1 DEF CallKnows, FreshId, tables
  <2>2. CASE d # c
    BY <1>1, <2>2, OthersKnow
  <2> QED
    BY <2>1, <2>2
<1>4. IdsDiffer'
  BY <1>1 DEF AdmissionInvariant, IdsDiffer, FreshId
<1> QED
  BY <1>2, <1>3, <1>4, TablesKept DEF AdmissionInvariant

LEMMA CallIssueStep ==
  ASSUME AdmissionInvariant, NEW c \in Client, NEW a \in Action, NEW id \in Id,
         CallIssue(c, a, id)
  PROVE  AdmissionInvariant'
<1> DEFINE r == NewRequest("issue", a, a.task, id, ToolInfo[a.tool].cost, None)
<1>1. a.task \in Task /\ a.tool \in Tool /\ ToolInfo[a.tool].cost \in Nat
  BY GrantRowsAssumption
<1>2. /\ r \in Request /\ r.op = "issue" /\ r.action = a /\ r.task = a.task /\ r.id = id
      /\ r.by = None
  BY <1>1 DEF NewRequest, Request
<1>3. /\ pc[c] = "idle" /\ FreshId(id) /\ req' = [req EXCEPT ![c] = r]
      /\ Goto(c, "lock") /\ UNCHANGED <<tables, lock>>
  BY DEF CallIssue
<1> HIDE DEF r
<1>4. WellFormed(r)
  BY <1>1, <1>2 DEF WellFormed
<1> QED
  BY <1>2, <1>3, <1>4, NewCallStep

\* The arithmetic of PricingProofs, as a call carries it.
LEMMA CallModelStep ==
  ASSUME AdmissionInvariant, NEW c \in Client, NEW t \in Task, NEW q \in Quotes,
         NEW prompt \in Prompts, NEW requested \in 1 .. q.max, NEW id \in Id,
         CallModel(c, t, q, prompt, requested, id)
  PROVE  AdmissionInvariant'
<1> DEFINE clamped == Clamped(q, prompt, requested)
           cost == Reservation(q, prompt, requested)
           b == [quote |-> q, prompt |-> prompt, output |-> clamped]
           r == NewRequest("model", None, t, id, cost, b)
<1>1. /\ q \in ModelQuote /\ prompt \in Nat /\ requested \in Nat \ {0}
      /\ Affordable(q, prompt, requested)
  BY AdmissionAssumption DEF ModelQuote, CallModel
<1>2. Bounded(q, prompt, requested)
  BY <1>1 DEF Affordable, Bounded
<1>3. clamped \in Nat /\ cost \in Nat /\ cost <= q.cap
  BY <1>1, <1>2, ClampedPays, ReservationFitsCap
<1>4. \A p \in 0 .. prompt, o \in 0 .. clamped :
        ModelCharge(q, p, o) \in Nat /\ ModelCharge(q, p, o) <= cost
  <2> SUFFICES ASSUME NEW p \in 0 .. prompt, NEW o \in 0 .. clamped
               PROVE  ModelCharge(q, p, o) \in Nat /\ ModelCharge(q, p, o) <= cost
    OBVIOUS
  <2>1. p \in Nat /\ p <= prompt /\ o \in Nat /\ o <= clamped
    BY <1>1, <1>3
  <2> QED
    BY <1>1, <2>1, ChargeFitsReservation
<1>5. /\ req' = [req EXCEPT ![c] = r] /\ pc[c] = "idle" /\ FreshId(id)
      /\ Goto(c, "lock") /\ UNCHANGED <<tables, lock>>
  BY DEF CallModel
<1> HIDE DEF clamped, cost
<1>6. b \in Bounds /\ b.quote = q /\ b.prompt = prompt /\ b.output = clamped
  BY <1>1, <1>3 DEF Bounds
<1> HIDE DEF b
<1>7. /\ r \in Request /\ r.op = "model" /\ r.task = t /\ r.id = id /\ r.cost = cost
      /\ r.by = None /\ r.bounds = b
  BY <1>3, <1>6 DEF NewRequest, Request
<1> HIDE DEF r
<1>8. WellFormed(r)
  BY <1>3, <1>4, <1>6, <1>7 DEF WellFormed, Covered
<1> QED
  BY <1>5, <1>7, <1>8, NewCallStep

\* The next phase of a transaction that has written nothing yet.
LEMMA AdvanceStep ==
  ASSUME AdmissionInvariant, NEW c \in Client, pc[c] # "idle",
         NEW phase \in {"assess", "choose", "write"}, Goto(c, phase),
         UNCHANGED tables,
         lock' \in [Task -> Client \cup {None}],
         \A d \in Client \ {c} : \A t \in Task : lock[t] = d => lock'[t] = d,
         NEW r \in Request, r.id = req[c].id, req' = [req EXCEPT ![c] = r],
         CallKnows(c)'
  PROVE  AdmissionInvariant'
<1>1. /\ TypeOK /\ pc'[c] = phase /\ req'[c] = r
      /\ \A d \in Client \ {c} : pc'[d] = pc[d] /\ req'[d] = req[d]
  BY DEF AdmissionInvariant, TypeOK, Goto
<1>2. TypeOK'
  BY <1>1 DEF TypeOK, Goto, tables
<1>3. ASSUME NEW d \in Client  PROVE CallKnows(d)'
  BY <1>1, OthersKnow
<1>4. IdsDiffer'
  BY <1>1 DEF AdmissionInvariant, IdsDiffer
<1> QED
  BY <1>2, <1>3, <1>4, TablesKept DEF AdmissionInvariant

LEMMA LockStep ==
  ASSUME AdmissionInvariant, NEW c \in Client, Lock(c)
  PROVE  AdmissionInvariant'
<1>1. /\ pc[c] = "lock" /\ Goto(c, "assess") /\ UNCHANGED <<tables, req>>
      /\ lock' = [lock EXCEPT ![req[c].task] = c]
      /\ TypeOK /\ CallKnows(c) /\ req[c] \in Request
  BY DEF AdmissionInvariant, Lock, TypeOK
<1>2. req[c].task \in Task /\ WellFormed(req[c])
  BY <1>1 DEF CallKnows, WellFormed
<1>3. lock[req[c].task] = None
  BY <1>2 DEF Lock, LockFree
<1>4. /\ lock' \in [Task -> Client \cup {None}]
      /\ \A d \in Client \ {c} : \A t \in Task : lock[t] = d => lock'[t] = d
      /\ lock'[req[c].task] = c
  BY <1>1, <1>2, <1>3, AdmissionAssumption DEF TypeOK
<1>5. CallKnows(c)'
  <2>1. WellFormed(req[c])'
    BY <1>1, <1>2 DEF WellFormed, Covered
  <2>2. pc'[c] = "assess"
    BY <1>1 DEF Goto, TypeOK
  <2> QED
    BY <1>1, <1>4, <2>1, <2>2 DEF CallKnows, tables
<1>6. req' = [req EXCEPT ![c] = req[c]]
  BY <1>1 DEF TypeOK
<1> QED
  BY <1>1, <1>4, <1>5, <1>6, AdvanceStep

\* Under the strict profile no policy answer and no budget spares an approval.
LEMMA StrictIsApproved ==
  ASSUME NEW a, NEW prof, NEW ask, NEW unbudgeted
  PROVE  /\ MustBeApproved(a, prof, ask, unbudgeted) \in BOOLEAN
         /\ prof.mode = "strict_ed25519" /\ ToolInfo[a.tool].tier = 2
              => MustBeApproved(a, prof, ask, unbudgeted)
BY Zenon DEF MustBeApproved

\* The assessment reads the task while its row is locked, and asks for an approval
\* of every high-risk action under the strict profile.
LEMMA AssessIssueStep ==
  ASSUME AdmissionInvariant, NEW c \in Client, AssessIssue(c)
  PROVE  AdmissionInvariant'
<1>1. CASE Fail(c)
  BY <1>1, FailStep
<1>2. CASE ~Fail(c)
  <2> DEFINE old == req[c]
             a == old.action
  <2>1. /\ pc[c] = "assess" /\ old.op = "issue" /\ a.task \in open
        /\ Goto(c, "choose") /\ UNCHANGED <<tables, lock>>
        /\ \E ask \in BOOLEAN :
             req' = [req EXCEPT ![c].approve =
                       MustBeApproved(a, profile[a.task], ask,
                         Unbudgeted(budget, quota, a.task, ToolInfo[a.tool].cost, today))]
    BY <1>2 DEF AssessIssue
  <2>2. PICK ask \in BOOLEAN :
          req' = [req EXCEPT ![c].approve =
                    MustBeApproved(a, profile[a.task], ask,
                      Unbudgeted(budget, quota, a.task, ToolInfo[a.tool].cost, today))]
    BY <2>1
  <2>3. TypeOK /\ CallKnows(c) /\ old \in Request
    BY DEF AdmissionInvariant, TypeOK
  <2>4. /\ WellFormed(old) /\ a \in Action /\ old.task = a.task /\ old.by = None
        /\ lock[old.task] = c
    BY <2>1, <2>3 DEF CallKnows, WellFormed
  <2>5. PICK approve \in BOOLEAN :
          /\ req' = [req EXCEPT ![c].approve = approve]
          /\ HighRisk(old) => approve
    <3> DEFINE unbudgeted == Unbudgeted(budget, quota, a.task, ToolInfo[a.tool].cost, today)
               approve == MustBeApproved(a, profile[a.task], ask, unbudgeted)
    <3>1. req' = [req EXCEPT ![c].approve = approve]
      BY <2>2
    <3> HIDE DEF unbudgeted
    <3>2. approve \in BOOLEAN /\ (HighRisk(old) => approve)
      BY StrictIsApproved DEF HighRisk
    <3> HIDE DEF approve
    <3> QED
      BY <3>1, <3>2
  <2>6. PICK r \in Request :
          /\ req' = [req EXCEPT ![c] = r]
          /\ r.id = old.id /\ r.op = old.op /\ r.task = old.task
          /\ r.action = old.action /\ r.by = old.by /\ r.approve = approve
          /\ r.bounds = old.bounds /\ r.cost = old.cost
    <3> DEFINE new == [old EXCEPT !.approve = approve]
    <3>1. /\ new \in Request /\ new.id = old.id /\ new.op = old.op /\ new.task = old.task
          /\ new.action = old.action /\ new.by = old.by /\ new.approve = approve
          /\ new.bounds = old.bounds /\ new.cost = old.cost
      BY <2>3 DEF Request
    <3>2. req' = [req EXCEPT ![c] = new]
      BY <2>3, <2>5 DEF TypeOK
    <3> HIDE DEF new
    <3> QED
      BY <3>1, <3>2
  <2>8. CallKnows(c)'
    <3>1. pc'[c] = "choose" /\ req'[c] = r
      BY <2>1, <2>3, <2>6 DEF Goto, TypeOK
    <3>2. WellFormed(r)'
      BY <2>1, <2>4, <2>6 DEF WellFormed
    <3>3. HighRisk(r)' => r.approve
      <4>1. HighRisk(r)' => HighRisk(old)
        BY <2>1, <2>6 DEF HighRisk, tables
      <4> QED
        BY <2>5, <2>6, <4>1, Zenon
    <3>4. HighRisk(req[c])' => req'[c].approve
      BY <3>1, <3>3, Zenon DEF HighRisk
    <3>5. /\ WellFormed(req[c])' /\ grants'[req'[c].id] = NoGrant
          /\ quota'[req'[c].id] = NoQuota /\ lock'[req'[c].task] = c
          /\ req'[c].by = None /\ req'[c].op = "issue" /\ req'[c].task \in open'
      BY <2>1, <2>3, <2>4, <2>6, <3>1, <3>2 DEF CallKnows, WellFormed, tables
    <3> QED
      BY <3>1, <3>4, <3>5 DEF CallKnows
  <2> QED
    BY <2>1, <2>3, <2>6, <2>8, AdvanceStep DEF TypeOK
<1> QED
  BY <1>1, <1>2

LEMMA AssessModelStep ==
  ASSUME AdmissionInvariant, NEW c \in Client, AssessModel(c)
  PROVE  AdmissionInvariant'
<1>1. CASE Fail(c)
  BY <1>1, FailStep
<1>2. CASE ~Fail(c)
  <2>1. /\ pc[c] = "assess" /\ req[c].op = "model"
        /\ Goto(c, "write") /\ UNCHANGED <<tables, lock, req>>
    BY <1>2 DEF AssessModel
  <2>2. TypeOK /\ CallKnows(c) /\ req[c] \in Request
    BY DEF AdmissionInvariant, TypeOK
  <2>3. CallKnows(c)'
    <3>1. pc'[c] = "write"
      BY <2>1, <2>2 DEF Goto, TypeOK
    <3>2. WellFormed(req[c])'
      BY <2>1, <2>2 DEF CallKnows, WellFormed, Covered
    <3> QED
      BY <2>1, <2>2, <3>1, <3>2 DEF CallKnows, tables
  <2>4. req' = [req EXCEPT ![c] = req[c]]
    BY <2>1, <2>2 DEF TypeOK
  <2> QED
    BY <2>1, <2>2, <2>3, <2>4, AdvanceStep DEF TypeOK
<1> QED
  BY <1>1, <1>2

LEMMA ChooseStep ==
  ASSUME AdmissionInvariant, NEW c \in Client, Choose(c)
  PROVE  AdmissionInvariant'
<1> DEFINE old == req[c]
<1>1. /\ TypeOK /\ CallKnows(c) /\ old \in Request /\ pc[c] = "choose"
      /\ old.op = "issue" /\ WellFormed(old) /\ old.by = None /\ old.task \in open
      /\ lock[old.task] = c /\ (HighRisk(old) => old.approve)
  BY DEF AdmissionInvariant, TypeOK, Choose, CallKnows
<1>2. CASE Fail(c)
  BY <1>2, FailStep
<1>3. CASE /\ ~old.approve /\ Goto(c, "write") /\ UNCHANGED <<tables, lock, req>>
  <2>1. pc'[c] = "write" /\ WellFormed(old)' /\ Backed(old)'
    BY <1>1, <1>3 DEF Goto, TypeOK, WellFormed, Covered, Backed, HighRisk, tables
  <2>2. CallKnows(c)'
    BY <1>1, <1>3, <2>1 DEF CallKnows, tables
  <2>3. req' = [req EXCEPT ![c] = old]
    BY <1>1, <1>3 DEF TypeOK
  <2> QED
    BY <1>1, <1>3, <2>2, <2>3, AdvanceStep DEF TypeOK
<1>4. ASSUME NEW ap \in Matching(approvals, old.action),
             req' = [req EXCEPT ![c].by = ap], Goto(c, "write"), UNCHANGED <<tables, lock>>
      PROVE  AdmissionInvariant'
  <2>1. /\ ap \in Approval /\ approvals[ap].status = "open"
        /\ approvals[ap].action = old.action /\ ap # None
    BY GrantRowsAssumption DEF Matching
  <2>2. PICK r \in Request :
          /\ req' = [req EXCEPT ![c] = r]
          /\ r.id = old.id /\ r.op = old.op /\ r.task = old.task
          /\ r.action = old.action /\ r.by = ap
    <3> DEFINE new == [old EXCEPT !.by = ap]
    <3>1. /\ new \in Request /\ new.id = old.id /\ new.op = old.op /\ new.task = old.task
          /\ new.action = old.action /\ new.by = ap
      BY <1>1, <2>1 DEF Request
    <3>2. req' = [req EXCEPT ![c] = new]
      BY <1>1, <1>4 DEF TypeOK
    <3> HIDE DEF new
    <3> QED
      BY <3>1, <3>2
  <2>4. pc'[c] = "write" /\ req'[c] = r
    BY <1>1, <1>4, <2>2 DEF Goto, TypeOK
  <2>5. WellFormed(r)' /\ Backed(r)'
    BY <1>1, <1>4, <2>1, <2>2 DEF WellFormed, Backed, HighRisk, tables
  <2>6. CallKnows(c)'
    BY <1>1, <1>4, <2>2, <2>4, <2>5 DEF CallKnows, tables
  <2> QED
    BY <1>1, <1>4, <2>2, <2>6, AdvanceStep DEF TypeOK
<1> QED
  BY <1>2, <1>3, <1>4 DEF Choose

LEMMA ReservedTypes ==
  ASSUME TypeOK, NEW t \in Task, NEW cost \in Nat
  PROVE  /\ Reserved(t, cost, today) \in QuotaRow
         /\ Reserved(t, cost, today).status = "reserved"
         /\ Reserved(t, cost, today).amount = cost
         /\ Reserved(t, cost, today).reserved = cost
BY DEF Reserved, QuotaRow, TypeOK

\* What the rows of the call that commits were, and that nobody else's are touched.
LEMMA OthersAtCommit ==
  ASSUME AdmissionInvariant, NEW c \in Client, pc[c] # "idle", NEW d \in Client \ {c},
         pc'[d] = pc[d], req'[d] = req[d], ApprovalsGrow, profile' = profile, open' = open,
         \A t \in Task : lock[t] = d => lock'[t] = d,
         \A g \in Id \ {req[c].id} : grants'[g] = grants[g] /\ quota'[g] = quota[g]
  PROVE  CallKnows(d)'
<1>1. CallKnows(d) /\ IdsDiffer
  BY DEF AdmissionInvariant
<1>2. pc[d] # "idle" => req[d].id \in Id /\ req[d].id # req[c].id
  BY <1>1 DEF CallKnows, WellFormed, IdsDiffer
<1> QED
  BY <1>2, CallKept

\* The approval a grant consumes was open until this step, so no other grant has it.
LEMMA WriteGrantStep ==
  ASSUME AdmissionInvariant, NEW c \in Client, WriteGrant(c)
  PROVE  AdmissionInvariant'
<1>1. CASE Fail(c)
  BY <1>1, FailStep
<1>2. CASE ~Fail(c)
  <2> DEFINE r == req[c]
             row == [action |-> r.action, by |-> r.by]
  <2>1. /\ pc[c] = "write" /\ r.op = "issue"
        /\ TypeOK /\ CallKnows(c) /\ r \in Request /\ GrantsAreApproved /\ RowsFit
    BY DEF AdmissionInvariant, TypeOK, WriteGrant
  <2>2. /\ r.by # None => approvals[r.by].status = "open"
        /\ grants' = [grants EXCEPT ![r.id] = row]
        /\ approvals' = IF r.by = None THEN approvals
                        ELSE [approvals EXCEPT ![r.by].status = "consumed"]
        /\ quota' = IF ToolInfo[r.action.tool].financial
                    THEN [quota EXCEPT ![r.id] = Reserved(r.task, r.cost, today)]
                    ELSE quota
        /\ Leave(c)
        /\ UNCHANGED <<engine, profile, open, shared, budget, today>>
    BY <1>2 DEF WriteGrant
  <2>3. /\ r.id \in Id /\ r.task \in Task /\ r.cost \in Nat
        /\ r.action \in Action /\ r.by \in Approval \cup {None}
        /\ Backed(r) /\ grants[r.id] = NoGrant
    BY <2>1 DEF CallKnows, WellFormed, Request
  <2>4. row \in GrantRow /\ row.action = r.action /\ row.by = r.by
    BY <2>3 DEF GrantRow
  <2>5. /\ approvals' \in [Approval -> ApprovalRow]
        /\ \A ap \in Approval :
             /\ approvals'[ap].action = approvals[ap].action
             /\ approvals'[ap].status =
                  IF ap = r.by THEN "consumed" ELSE approvals[ap].status
    <3>1. None \notin Approval
      BY GrantRowsAssumption
    <3>2. CASE r.by = None
      BY <2>1, <2>2, <3>1, <3>2 DEF TypeOK
    <3>3. CASE r.by # None
      BY <2>1, <2>2, <2>3, <3>3 DEF TypeOK, ApprovalRow
    <3> QED
      BY <3>2, <3>3
  <2>6. ApprovalsGrow
    BY <2>5 DEF ApprovalsGrow
  <2>7. /\ quota' \in [Id -> QuotaRow]
        /\ RowsFit'
        /\ \A g \in Id \ {r.id} : quota'[g] = quota[g]
    <3>1. quota \in [Id -> QuotaRow]
      BY <2>1 DEF TypeOK
    <3>2. Reserved(r.task, r.cost, today) \in QuotaRow
      BY <2>1, <2>3, ReservedTypes
    <3>3. Reserved(r.task, r.cost, today).amount = Reserved(r.task, r.cost, today).reserved
      BY DEF Reserved
    <3> HIDE DEF r
    <3> QED
      BY <2>1, <2>2, <2>3, <3>1, <3>2, <3>3 DEF RowsFit
  <2>8. /\ grants \in [Id -> GrantRow] /\ grants'[r.id] = row
        /\ \A g \in Id \ {r.id} : grants'[g] = grants[g]
    BY <2>1, <2>2, <2>3 DEF TypeOK
  <2>9. TypeOK'
    BY <2>1, <2>2, <2>4, <2>5, <2>7, LeaveTypes DEF TypeOK
  <2>10. ASSUME NEW d \in Client  PROVE CallKnows(d)'
    <3>1. CASE d = c
      BY <2>1, <2>2, <3>1, LeaveTypes DEF CallKnows
    <3>2. CASE d # c
      BY <2>1, <2>2, <2>6, <2>7, <2>8, <3>2, LeaveTypes, OthersAtCommit
    <3> QED
      BY <3>1, <3>2
  <2>11. GrantsAreApproved'
    <3>1. \A h \in Id \ {r.id} : grants[h].by # None =>
            /\ grants[h].by \in Approval
            /\ approvals[grants[h].by].status = "consumed"
      BY <2>1, <2>8 DEF GrantsAreApproved, GrantRow, NoGrant
    <3>2. \A h \in Id \ {r.id} : r.by # None => grants[h].by # r.by
      BY <2>2, <3>1
    <3> SUFFICES ASSUME NEW g \in Id, grants'[g] # NoGrant
                 PROVE  /\ grants'[g].by # None =>
                             /\ approvals'[grants'[g].by].status = "consumed"
                             /\ approvals'[grants'[g].by].action = grants'[g].action
                             /\ \A h \in Id \ {g} : grants'[h].by # grants'[g].by
                        /\ /\ profile'[grants'[g].action.task].mode = "strict_ed25519"
                           /\ ToolInfo[grants'[g].action.tool].tier = 2
                           => grants'[g].by # None
      BY DEF GrantsAreApproved
    <3>3. CASE g = r.id
      BY <2>2, <2>3, <2>4, <2>5, <2>8, <3>2, <3>3 DEF Backed, HighRisk
    <3>4. CASE g # r.id
      <4>1. /\ grants[g] # NoGrant /\ grants'[g] = grants[g]
            /\ \A h \in Id \ {g} : grants'[h].by =
                 IF h = r.id THEN r.by ELSE grants[h].by
        BY <2>4, <2>8, <3>4
      <4>2. /\ grants[g].by # None =>
                 /\ approvals[grants[g].by].status = "consumed"
                 /\ approvals[grants[g].by].action = grants[g].action
                 /\ \A h \in Id \ {g} : grants[h].by # grants[g].by
            /\ /\ profile[grants[g].action.task].mode = "strict_ed25519"
               /\ ToolInfo[grants[g].action.tool].tier = 2
               => grants[g].by # None
        BY <2>1, <4>1 DEF GrantsAreApproved
      <4>3. grants[g].by \in Approval \cup {None}
        BY <2>8 DEF GrantRow
      <4> QED
        BY <2>2, <2>5, <3>2, <3>4, <4>1, <4>2, <4>3
    <3> QED
      BY <3>3, <3>4
  <2>12. IdsDiffer'
    BY <2>2, LeaveKeepsIds
  <2> QED
    BY <2>7, <2>9, <2>10, <2>11, <2>12 DEF AdmissionInvariant
<1> QED
  BY <1>1, <1>2

LEMMA WriteReservationStep ==
  ASSUME AdmissionInvariant, NEW c \in Client, WriteReservation(c)
  PROVE  AdmissionInvariant'
<1> DEFINE r == req[c]
<1>1. /\ pc[c] = "write" /\ r.op = "model"
      /\ TypeOK /\ CallKnows(c) /\ r \in Request /\ RowsFit /\ IdsDiffer
      /\ quota' = [quota EXCEPT ![r.id] = Reserved(r.task, r.cost, today)]
      /\ lock' = [t \in Task |-> IF lock[t] = c THEN None ELSE lock[t]]
      /\ Goto(c, "infer")
      /\ UNCHANGED <<engine, profile, open, shared, approvals, grants, budget, today, req>>
  BY DEF AdmissionInvariant, TypeOK, WriteReservation
<1>2. /\ r.id \in Id /\ r.task \in Task /\ r.cost \in Nat /\ WellFormed(r)
      /\ grants[r.id] = NoGrant
  BY <1>1 DEF CallKnows, WellFormed, Request
<1>3. /\ quota' \in [Id -> QuotaRow] /\ RowsFit'
      /\ quota'[r.id].status = "reserved" /\ quota'[r.id].reserved = r.cost
      /\ \A g \in Id \ {r.id} : quota'[g] = quota[g]
  <2>1. quota \in [Id -> QuotaRow]
    BY <1>1 DEF TypeOK
  <2>2. PICK row \in QuotaRow :
          /\ row = Reserved(r.task, r.cost, today) /\ row.status = "reserved"
          /\ row.amount = r.cost /\ row.reserved = r.cost
    BY <1>1, <1>2, ReservedTypes
  <2> HIDE DEF r
  <2> QED
    BY <1>1, <1>2, <2>1, <2>2 DEF RowsFit
<1>4. /\ pc'[c] = "infer" /\ \A d \in Client \ {c} : pc'[d] = pc[d]
      /\ pc' \in [Client -> {"idle", "lock", "assess", "choose", "write", "infer"}]
      /\ lock' \in [Task -> Client \cup {None}]
      /\ \A d \in Client \ {c} : \A t \in Task : lock[t] = d => lock'[t] = d
  BY <1>1 DEF Goto, TypeOK
<1>5. TypeOK'
  BY <1>1, <1>3, <1>4 DEF TypeOK
<1>6. ASSUME NEW d \in Client  PROVE CallKnows(d)'
  <2>1. CASE d = c
    <3>1. WellFormed(req[c])'
      BY <1>1, <1>2 DEF WellFormed, Covered
    <3> QED
      BY <1>1, <1>2, <1>3, <1>4, <2>1, <3>1 DEF CallKnows
  <2>2. CASE d # c
    BY <1>1, <1>3, <1>4, <2>2, OthersAtCommit DEF ApprovalsGrow
  <2> QED
    BY <2>1, <2>2
<1>7. IdsDiffer' /\ GrantsAreApproved'
  BY <1>1, <1>4, GrantsKept DEF IdsDiffer, ApprovalsGrow
<1> QED
  BY <1>3, <1>5, <1>6, <1>7 DEF AdmissionInvariant

LEMMA SettleModelStep ==
  ASSUME AdmissionInvariant, NEW c \in Client, SettleModel(c)
  PROVE  AdmissionInvariant'
<1> DEFINE r == req[c]
<1>1. /\ pc[c] = "infer" /\ Leave(c)
      /\ TypeOK /\ CallKnows(c) /\ RowsFit
      /\ UNCHANGED <<engine, profile, open, shared, approvals, grants, budget, today>>
  BY DEF AdmissionInvariant, SettleModel
<1>2. /\ r.id \in Id /\ Covered(r) /\ quota \in [Id -> QuotaRow]
  BY <1>1 DEF CallKnows, WellFormed, TypeOK
<1>3. \E charge \in Nat :
        quota' = IF charge <= r.cost /\ quota[r.id].status = "reserved"
                 THEN [quota EXCEPT ![r.id] = Settled(quota[r.id], charge)]
                 ELSE quota
  BY <1>2 DEF SettleModel, Covered
<1>4. PICK charge \in Nat :
        quota' = IF charge <= r.cost /\ quota[r.id].status = "reserved"
                 THEN [quota EXCEPT ![r.id] = Settled(quota[r.id], charge)]
                 ELSE quota
  BY <1>3
<1>5. /\ Settled(quota[r.id], charge) \in QuotaRow
      /\ Settled(quota[r.id], charge).status = "settled"
  BY <1>2 DEF Settled, QuotaRow
<1> HIDE DEF r
<1>6. /\ quota' \in [Id -> QuotaRow] /\ RowsFit'
      /\ \A g \in Id \ {r.id} : quota'[g] = quota[g]
  BY <1>1, <1>2, <1>4, <1>5 DEF RowsFit
<1>7. TypeOK'
  BY <1>1, <1>6, LeaveTypes DEF TypeOK
<1>8. ASSUME NEW d \in Client  PROVE CallKnows(d)'
  <2>1. CASE d = c
    BY <1>1, <2>1, LeaveTypes DEF CallKnows
  <2>2. CASE d # c
    BY <1>1, <1>6, <2>2, LeaveTypes, OthersAtCommit DEF ApprovalsGrow, r
  <2> QED
    BY <2>1, <2>2
<1>9. IdsDiffer' /\ GrantsAreApproved'
  BY <1>1, LeaveKeepsIds, GrantsKept DEF ApprovalsGrow
<1> QED
  BY <1>6, <1>7, <1>8, <1>9 DEF AdmissionInvariant

-----------------------------------------------------------------------------

LEMMA InitKnows == Init => AdmissionInvariant
<1> SUFFICES ASSUME Init  PROVE AdmissionInvariant
  OBVIOUS
<1>1. NoRequest \in Request /\ NoGrant \in GrantRow
  BY DEF NoRequest, NewRequest, Request, NoGrant, GrantRow
<1>2. NoApproval \in ApprovalRow /\ NoQuota \in QuotaRow /\ 0 \in 0 .. MaxDay
  BY GrantRowsAssumption DEF NoApproval, ApprovalRow, NoQuota, QuotaRow
<1>3. TypeOK
  BY <1>1, <1>2, AdmissionAssumption DEF Init, TypeOK
<1>4. \A c \in Client : CallKnows(c)
  BY DEF Init, CallKnows
<1>5. IdsDiffer /\ RowsFit /\ GrantsAreApproved
  BY DEF Init, IdsDiffer, RowsFit, GrantsAreApproved, NoQuota
<1> QED
  BY <1>3, <1>4, <1>5 DEF AdmissionInvariant

LEMMA StutterStep ==
  ASSUME AdmissionInvariant, UNCHANGED vars
  PROVE  AdmissionInvariant'
<1>1. TypeOK'
  BY DEF AdmissionInvariant, TypeOK, vars
<1>2. ASSUME NEW c \in Client  PROVE CallKnows(c)'
  BY CallKept DEF vars, ApprovalsGrow
<1>3. IdsDiffer' /\ GrantsAreApproved' /\ RowsFit'
  BY IdsKept, GrantsKept DEF AdmissionInvariant, vars, RowsFit, ApprovalsGrow
<1> QED
  BY <1>1, <1>2, <1>3 DEF AdmissionInvariant

\* What every admission in flight knows of the tables is true, on both engines.
THEOREM AdmissionInvariantHolds == Spec => []AdmissionInvariant
<1>1. AdmissionInvariant /\ [Next]_vars => AdmissionInvariant'
  <2> SUFFICES ASSUME AdmissionInvariant, [Next]_vars  PROVE AdmissionInvariant'
    OBVIOUS
  <2>1. ASSUME NEW c \in Client, Issue(c) \/ ReserveModel(c)
        PROVE  AdmissionInvariant'
    BY <2>1, CallIssueStep, AssessIssueStep, ChooseStep, WriteGrantStep, CallModelStep,
       AssessModelStep, WriteReservationStep, FailStep, SettleModelStep
    DEF Issue, ReserveModel, InferFails
  <2>2. ASSUME NEW c \in Client, Lock(c) \/ LockTimeout(c) \/ Crash(c)
        PROVE  AdmissionInvariant'
    BY <2>2, LockStep, FailStep DEF LockTimeout, Crash
  <2>3. ASSUME NEW r \in Id, NEW amount \in 0 .. quota[r].reserved, Settle(r, amount)
        PROVE  AdmissionInvariant'
    BY <2>3, SettleStep
  <2>4. ASSUME NEW ap \in Approval, NEW a \in Action, Approve(ap, a)
        PROVE  AdmissionInvariant'
    BY <2>4, ApproveStep
  <2>5. ASSUME NEW t \in Task, NEW p \in Period, NEW cents \in Amount, SetBudget(t, p, cents)
        PROVE  AdmissionInvariant'
    BY <2>5, SetBudgetStep
  <2>6. ASSUME NEW t \in Task, CloseTask(t)  PROVE AdmissionInvariant'
    BY <2>6, CloseTaskStep
  <2>7. ASSUME NEW t \in Task, NEW tool \in Tool, ChangeShare(t, tool)
        PROVE  AdmissionInvariant'
    BY <2>7, ChangeShareStep
  <2>8. CASE Tick \/ NewDay \/ UNCHANGED vars
    BY <2>8, TickStep, NewDayStep, StutterStep
  <2> QED
    BY <2>1, <2>2, <2>3, <2>4, <2>5, <2>6, <2>7, <2>8 DEF Next
<1> QED
  BY <1>1, InitKnows, PTL DEF Spec

\* Every table, lock and request keeps its type (governance.py, model_proxy.py).
THEOREM AdmissionTypeCorrect == Spec => []TypeOK
<1>1. AdmissionInvariant => TypeOK
  BY DEF AdmissionInvariant
<1> QED
  BY <1>1, AdmissionInvariantHolds, PTL

\* However many issues find the same approval, it backs one grant, of exactly the
\* action it names, and no high-risk grant of the strict profile is without one
\* (Governance.issue).
THEOREM ApprovalsBackOneGrant == Spec => []GrantsAreApproved
<1>1. AdmissionInvariant => GrantsAreApproved
  BY DEF AdmissionInvariant
<1> QED
  BY <1>1, AdmissionInvariantHolds, PTL

\* For all prices, prompts and outputs, what a node may report within the admitted
\* bounds is charged no more than the row reserved, and that no more than the cap
\* (bounded_model_call, chat).
THEOREM ChargesAlwaysFit == Spec => []ChargesFit
<1>1. AdmissionInvariant => ChargesFit
  <2> SUFFICES ASSUME AdmissionInvariant, NEW c \in Client, pc[c] = "infer"
               PROVE  /\ quota[req[c].id].reserved <= req[c].bounds.quote.cap
                      /\ \A prompt \in 0 .. req[c].bounds.prompt,
                            output \in 0 .. req[c].bounds.output :
                           ModelCharge(req[c].bounds.quote, prompt, output)
                             <= quota[req[c].id].reserved
    BY DEF ChargesFit
  <2>1. CallKnows(c)
    BY DEF AdmissionInvariant
  <2>2. Covered(req[c]) /\ quota[req[c].id].reserved = req[c].cost
    BY <2>1 DEF CallKnows, WellFormed
  <2> QED
    BY <2>2 DEF Covered
<1> QED
  BY <1>1, AdmissionInvariantHolds, PTL

\* Nothing but these two writes grants or quota rows.
LEMMA OtherStepsWriteNoRow ==
  ASSUME AdmissionInvariant, [Next]_vars,
         \A c \in Client : ~WriteGrant(c) /\ ~WriteReservation(c) /\ ~SettleModel(c),
         \A r \in Id : \A amount \in 0 .. quota[r].reserved : ~Settle(r, amount)
  PROVE  grants' = grants /\ quota' = quota
<1>1. ASSUME NEW c \in Client, Fail(c)  PROVE grants' = grants /\ quota' = quota
  BY <1>1 DEF Fail, tables
<1>2. ASSUME NEW c \in Client, Issue(c) \/ ReserveModel(c)
      PROVE  grants' = grants /\ quota' = quota
  BY <1>1, <1>2
  DEF Issue, ReserveModel, CallIssue, AssessIssue, Choose, CallModel, AssessModel,
      InferFails, tables
<1>3. ASSUME NEW c \in Client, Lock(c) \/ LockTimeout(c) \/ Crash(c)
      PROVE  grants' = grants /\ quota' = quota
  BY <1>1, <1>3 DEF Lock, LockTimeout, Crash, tables
<1> QED
  BY <1>2, <1>3
  DEF Next, Approve, SetBudget, CloseTask, ChangeShare, Tick, NewDay, vars

\* A grant is issued only while its task is open: the lock of the task's row keeps
\* it open from the assessment to the commit (issue, TaskManager.finish).
THEOREM ClosedTasksGetNoGrant == Spec => GrantsForOpenTasks
<1>1. AdmissionInvariant /\ [Next]_vars =>
        [\A g \in Id : grants[g] = NoGrant /\ grants'[g] # NoGrant =>
           grants'[g].action.task \in open]_vars
  <2> SUFFICES ASSUME AdmissionInvariant, [Next]_vars,
                      NEW g \in Id, grants[g] = NoGrant, grants'[g] # NoGrant
               PROVE  grants'[g].action.task \in open
    OBVIOUS
  <2>1. ASSUME NEW c \in Client, WriteGrant(c)  PROVE grants'[g].action.task \in open
    <3>1. pc[c] = "write" /\ req[c].op = "issue" /\ CallKnows(c) /\ TypeOK
      BY <2>1 DEF AdmissionInvariant, WriteGrant
    <3>2. req[c].task = req[c].action.task /\ req[c].task \in open
      BY <3>1 DEF CallKnows, WellFormed
    <3>3. grants' # grants
      BY DEF AdmissionInvariant
    <3>4. grants' = [grants EXCEPT ![req[c].id] = [action |-> req[c].action, by |-> req[c].by]]
      BY <2>1, <3>3 DEF WriteGrant, Fail, tables
    <3> QED
      BY <3>1, <3>2, <3>4 DEF TypeOK
  <2>2. ASSUME NEW c \in Client, WriteReservation(c) \/ SettleModel(c)  PROVE FALSE
    BY <2>2 DEF WriteReservation, SettleModel
  <2>3. ASSUME NEW r \in Id, NEW amount \in 0 .. quota[r].reserved, Settle(r, amount)
        PROVE  FALSE
    BY <2>3 DEF Settle
  <2> QED
    BY <2>1, <2>2, <2>3, OtherStepsWriteNoRow
<1> QED
  BY <1>1, AdmissionInvariantHolds, PTL DEF Spec, GrantsForOpenTasks

\* A settled record is final, and settling only gives money back (settle_record,
\* chat).
THEOREM SettlementIsOnce == Spec => SettledOnce
<1>1. AdmissionInvariant /\ [Next]_vars =>
        [\A r \in Id :
           /\ quota[r].status = "settled" => quota'[r] = quota[r]
           /\ quota[r].status = "reserved" =>
                /\ quota'[r].status # "absent" /\ quota'[r].amount <= quota[r].amount
                /\ quota'[r].reserved = quota[r].reserved]_vars
  <2> DEFINE Once(old, new) ==
               /\ old.status = "settled" => new = old
               /\ old.status = "reserved" =>
                    /\ new.status # "absent" /\ new.amount <= old.amount
                    /\ new.reserved = old.reserved
  <2> SUFFICES ASSUME AdmissionInvariant, [Next]_vars, NEW r \in Id
               PROVE  Once(quota[r], quota'[r])
    OBVIOUS
  <2>1. /\ TypeOK /\ RowsFit /\ quota \in [Id -> QuotaRow] /\ quota[r] \in QuotaRow
        /\ \A c \in Client : CallKnows(c)
    BY DEF AdmissionInvariant, TypeOK
  <2>2. Once(quota[r], quota[r])
    BY <2>1 DEF QuotaRow
  <2>3. ASSUME NEW amount \in Nat, amount <= quota[r].reserved, quota[r].status = "reserved"
        PROVE  Once(quota[r], Settled(quota[r], amount))
    BY <2>1, <2>3 DEF Settled, RowsFit
  <2>4. Once(NoQuota, quota'[r])
    BY DEF NoQuota
  <2>5. ASSUME NEW c \in Client, WriteGrant(c) \/ WriteReservation(c)
        PROVE  Once(quota[r], quota'[r])
    <3>1. pc[c] = "write" /\ quota[req[c].id] = NoQuota
      BY <2>1, <2>5 DEF WriteGrant, WriteReservation, CallKnows
    <3>2. r # req[c].id => quota'[r] = quota[r]
      BY <2>1, <2>5 DEF WriteGrant, WriteReservation, Fail, tables
    <3> HIDE DEF Once
    <3> QED
      BY <2>2, <2>4, <3>1, <3>2
  <2>6. ASSUME NEW c \in Client, SettleModel(c)
        PROVE  Once(quota[r], quota'[r])
    <3>1. pc[c] = "infer" /\ CallKnows(c)
      BY <2>1, <2>6 DEF SettleModel
    <3>2. Covered(req[c]) /\ quota[req[c].id].reserved = req[c].cost
      BY <3>1 DEF CallKnows, WellFormed
    <3>3. \E charge \in Nat :
            quota' = IF charge <= req[c].cost /\ quota[req[c].id].status = "reserved"
                     THEN [quota EXCEPT ![req[c].id] = Settled(quota[req[c].id], charge)]
                     ELSE quota
      BY <2>6, <3>2 DEF SettleModel, Covered
    <3>4. PICK charge \in Nat :
            quota' = IF charge <= req[c].cost /\ quota[req[c].id].status = "reserved"
                     THEN [quota EXCEPT ![req[c].id] = Settled(quota[req[c].id], charge)]
                     ELSE quota
      BY <3>3
    <3> HIDE DEF Once
    <3>5. CASE r = req[c].id /\ charge <= req[c].cost /\ quota[r].status = "reserved"
      BY <2>1, <2>3, <3>2, <3>4, <3>5
    <3>6. CASE ~(r = req[c].id /\ charge <= req[c].cost /\ quota[r].status = "reserved")
      BY <2>1, <2>2, <3>4, <3>6
    <3> QED
      BY <3>5, <3>6
  <2>7. ASSUME NEW x \in Id, NEW amount \in 0 .. quota[x].reserved, Settle(x, amount)
        PROVE  Once(quota[r], quota'[r])
    <3>1. /\ quota[x].status = "reserved" /\ amount <= quota[x].reserved /\ amount \in Nat
          /\ quota' = [quota EXCEPT ![x] = Settled(quota[x], amount)]
      BY <2>1, <2>7 DEF Settle, QuotaRow
    <3> HIDE DEF Once
    <3> QED
      BY <2>1, <2>2, <2>3, <3>1
  <2> HIDE DEF Once
  <2> QED
    BY <2>2, <2>5, <2>6, <2>7, OtherStepsWriteNoRow
<1> QED
  BY <1>1, AdmissionInvariantHolds, PTL DEF Spec, SettledOnce
=============================================================================
