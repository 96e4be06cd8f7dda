------------------------------ MODULE ToolGateway ------------------------------
(***************************************************************************)
(* ToolGateway.invoke (tools.py) and Governance.redeem (governance.py): a  *)
(* call is checked, its grant redeemed, its handler run and its outcome    *)
(* recorded, each in a transaction of its own, while other callers present *)
(* the same grant, shares are revoked and callers die.  Issuing a grant is *)
(* one step here; Admission models its transaction.                        *)
(***************************************************************************)
EXTENDS GrantRows

CONSTANTS
  Client,      \* server threads running an invoke
  Engines,     \* the engines considered: "sqlite", "postgresql"
  GrantTtl     \* ttl_seconds of a grant, in ticks

ASSUME ToolGatewayAssumption ==
  /\ Engines \subseteq {"sqlite", "postgresql"}
  /\ None \notin Client /\ None \notin Id
  /\ GrantTtl \in Nat \ {0}

VARIABLES
  engine,     \* the engine of this deployment: it never changes
  shared,     \* <<task, tool>>: the tool is visible to the task's organization
  active,     \* the tools that are active
  grants,     \* governance_grants
  quota,      \* quota_records of the grants
  log,        \* tool_invocation_logs: the outcome under each grant
  ran,        \* what really happened under each grant (history)
  writer,     \* who holds SQLite's write lock
  pc, req     \* where each call is, and its parameters

vars == <<engine, shared, active, grants, quota, log, ran, writer, pc, req>>

GrantRow == [status : {"absent", "issued", "redeemed"},
             action : Action \cup {None}, left : 0 .. GrantTtl]
NoGrant == [status |-> "absent", action |-> None, left |-> 0]
Issued(a) == [status |-> "issued", action |-> a, left |-> GrantTtl]

\* What a handler does: raises, returns a plain value, reports usage beyond
\* max_units, or reports usage that costs so many cents.
Outcome(kind, cents) == [kind |-> kind, cents |-> cents]
NoResult == Outcome("none", 0)
Result(tool) == {Outcome(kind, 0) : kind \in {"raises", "plain", "over"}}
                  \cup {Outcome("usage", cents) : cents \in 0 .. ToolInfo[tool].cost}
AnyResult == [kind : {"none", "raises", "plain", "over", "usage"}, cents : Nat]

History == [times : Nat, acted : SUBSET Action,
            result : AnyResult, answered : BOOLEAN]
Acted(h, a, result) ==
  [times |-> h.times + 1, acted |-> h.acted \cup {a}, result |-> result,
   answered |-> h.answered]
NoHistory == [times |-> 0, acted |-> {}, result |-> NoResult, answered |-> FALSE]

Request == [action : Action \cup {None}, grant : Id \cup {None},
            result : AnyResult]
NoRequest == [action |-> None, grant |-> None, result |-> NoResult]

TypeOK ==
  /\ engine \in Engines
  /\ shared \subseteq Task \X Tool
  /\ active \subseteq Tool
  /\ grants \in [Id -> GrantRow]
  /\ quota \in [Id -> QuotaRow]
  /\ log \in [Id -> {"none", "authorized", "success", "error"}]
  /\ ran \in [Id -> History]
  /\ writer \in Client \cup {None}
  /\ pc \in [Client -> {"idle", "issue", "check", "share", "update", "run", "record"}]
  /\ req \in [Client -> Request]

Init ==
  /\ engine \in Engines
  /\ shared = Task \X Tool
  /\ active \in SUBSET Tool
  /\ grants = [g \in Id |-> NoGrant]
  /\ quota = [g \in Id |-> NoQuota]
  /\ log = [g \in Id |-> "none"]
  /\ ran = [g \in Id |-> NoHistory]
  /\ writer = None
  /\ pc = [c \in Client |-> "idle"]
  /\ req = [c \in Client |-> NoRequest]

-----------------------------------------------------------------------------

Goto(c, phase) == pc' = [pc EXCEPT ![c] = phase]

WriteFree == engine = "sqlite" => writer = None

\* the call ends: with an answer, an exception, or the death of its thread
Leave(c) ==
  /\ Goto(c, "idle")
  /\ req' = [req EXCEPT ![c] = NoRequest]
  /\ writer' = IF writer = c THEN None ELSE writer

Fail(c) == Leave(c) /\ UNCHANGED <<engine, shared, active, grants, quota, log, ran>>

\* Governance.issue permits the action: the grant and its reservation
WriteGrant(g, a) ==
  /\ WriteFree
  /\ grants[g].status = "absent"
  /\ a.tool \in active /\ <<a.task, a.tool>> \in shared
  /\ grants' = [grants EXCEPT ![g] = Issued(a)]
  /\ quota' = IF ToolInfo[a.tool].financial
              THEN [quota EXCEPT ![g] = Reserved(a.task, ToolInfo[a.tool].cost, 0)]
              ELSE quota
  /\ UNCHANGED <<engine, shared, active, log, ran>>

\* POST /governance/grants
Authorize(g, a) == WriteGrant(g, a) /\ UNCHANGED <<writer, pc, req>>

\* A caller invokes a tool, with a grant it was given earlier or without one;
\* several may hold the same grant, and one may retry.
CallInvoke(c, a, g) ==
  /\ pc[c] = "idle"
  /\ a.tool \in active
  /\ g # None => grants[g].status # "absent"
  /\ req' = [req EXCEPT ![c] = [action |-> a, grant |-> g, result |-> NoResult]]
  /\ Goto(c, IF g = None THEN "issue" ELSE "check")
  /\ UNCHANGED <<engine, shared, active, grants, quota, log, ran, writer>>

IssueOwn(c, g) ==
  /\ pc[c] = "issue"
  /\ WriteGrant(g, req[c].action)
  /\ req' = [req EXCEPT ![c].grant = g]
  /\ Goto(c, "check")
  /\ UNCHANGED writer

Denied(c) == pc[c] = "issue" /\ Fail(c)

\* Mutated form: the arguments' hash is not compared.
Check_AnyArgs(c) ==
  /\ pc[c] = "check"
  /\ LET given == grants[req[c].grant].action
     IN  IF /\ given.task = req[c].action.task /\ given.who = req[c].action.who
            /\ given.tool = req[c].action.tool /\ grants[req[c].grant].left > 0
         THEN Goto(c, "share") /\ UNCHANGED <<engine, shared, active, grants, quota, log, ran, writer, req>>
         ELSE Fail(c)

\* signature, binding, arguments and expiry, before the transaction
Check(c) ==
  /\ pc[c] = "check"
  /\ IF grants[req[c].grant].action = req[c].action /\ grants[req[c].grant].left > 0
     THEN Goto(c, "share") /\ UNCHANGED <<engine, shared, active, grants, quota, log, ran, writer, req>>
     ELSE Fail(c)

\* Mutated form: a deferred transaction.
ReadShare_Deferred(c) ==
  /\ pc[c] = "share"
  /\ IF <<req[c].action.task, req[c].action.tool>> \in shared
     THEN /\ Goto(c, "update")
          /\ UNCHANGED <<engine, shared, active, grants, quota, log, ran, writer, req>>
     ELSE Fail(c)

\* BEGIN IMMEDIATE; is the tool still visible?
ReadShare(c) ==
  /\ pc[c] = "share"
  /\ WriteFree
  /\ IF <<req[c].action.task, req[c].action.tool>> \in shared
     THEN /\ Goto(c, "update")
          /\ writer' = IF engine = "sqlite" THEN c ELSE None
          /\ UNCHANGED <<engine, shared, active, grants, quota, log, ran, req>>
     ELSE Fail(c)

\* SQLite's busy timeout
LockTimeout(c) == pc[c] = "share" /\ ~WriteFree /\ Fail(c)

\* Mutated form: without AND status='issued'.
Redeem_AnyStatus(c) ==
  /\ pc[c] = "update"
  /\ LET g == req[c].grant
     IN  IF grants[g].left > 0
         THEN /\ grants' = [grants EXCEPT ![g].status = "redeemed"]
              /\ log' = [log EXCEPT ![g] = "authorized"]
              /\ Goto(c, "run")
              /\ writer' = IF writer = c THEN None ELSE writer
              /\ UNCHANGED <<engine, shared, active, quota, ran, req>>
         ELSE Fail(c)

\* the guarded update, the audit row and the commit; on PostgreSQL a second
\* redemption waits for the row and finds it redeemed
Redeem(c) ==
  /\ pc[c] = "update"
  /\ LET g == req[c].grant
     IN  IF grants[g].status = "issued" /\ grants[g].left > 0
         THEN /\ grants' = [grants EXCEPT ![g].status = "redeemed"]
              /\ log' = [log EXCEPT ![g] = "authorized"]
              /\ Goto(c, "run")
              /\ writer' = IF writer = c THEN None ELSE writer
              /\ UNCHANGED <<engine, shared, active, quota, ran, req>>
         ELSE Fail(c)

\* the handler acts
RunHandler(c, result) ==
  /\ pc[c] = "run"
  /\ LET g == req[c].grant
     IN  ran' = [ran EXCEPT ![g] = Acted(@, req[c].action, result)]
  /\ req' = [req EXCEPT ![c].result = result]
  /\ Goto(c, "record")
  /\ UNCHANGED <<engine, shared, active, grants, quota, log, writer>>

Answered(g) == [ran EXCEPT ![g].answered = TRUE]

RecordError(c) ==
  /\ pc[c] = "record" /\ req[c].result.kind = "raises"
  /\ WriteFree
  /\ log' = [log EXCEPT ![req[c].grant] = "error"]
  /\ ran' = Answered(req[c].grant)
  /\ Leave(c)
  /\ UNCHANGED <<engine, shared, active, grants, quota>>

\* a metered tool that reports no usage stays reserved
Settles(tool, result) == ToolInfo[tool].metered => result.kind = "usage"
Charge(tool, result) ==
  IF ToolInfo[tool].metered THEN result.cents ELSE ToolInfo[tool].cost

\* Usage out of bounds is refused; a tool with a fixed price has none.
UsageError(tool, result) ==
  \/ result.kind = "over"
  \/ ~ToolInfo[tool].metered /\ result.kind = "usage" /\ result.cents > 0

\* Mutated form: success is recorded before the settlement is tried.
RecordSuccess_First(c) ==
  /\ pc[c] = "record" /\ req[c].result.kind # "raises"
  /\ WriteFree
  /\ log' = [log EXCEPT ![req[c].grant] = "success"]
  /\ ran' = Answered(req[c].grant)
  /\ quota' = [quota EXCEPT ![req[c].grant] = Settled(@, @.reserved)]
  /\ Leave(c)
  /\ UNCHANGED <<engine, shared, active, grants>>

\* settle_record and the outcome in one transaction
RecordSuccess(c) ==
  /\ pc[c] = "record" /\ req[c].result.kind # "raises"
  /\ WriteFree
  /\ LET g == req[c].grant
         tool == req[c].action.tool
     IN  /\ ~(quota[g].status # "absent" /\ UsageError(tool, req[c].result))
         /\ log' = [log EXCEPT ![g] = "success"]
         /\ ran' = Answered(g)
         /\ quota' = IF quota[g].status = "reserved" /\ Settles(tool, req[c].result)
                     THEN [quota EXCEPT ![g] = Settled(@, Charge(tool, req[c].result))]
                     ELSE quota
  /\ Leave(c)
  /\ UNCHANGED <<engine, shared, active, grants>>

\* The outcome is set to usage_error, and the exception raised next rolls the
\* update back.
RecordUsageError(c) ==
  /\ pc[c] = "record" /\ req[c].result.kind # "raises"
  /\ quota[req[c].grant].status # "absent"
  /\ UsageError(req[c].action.tool, req[c].result)
  /\ WriteFree
  /\ ran' = Answered(req[c].grant)
  /\ Leave(c)
  /\ UNCHANGED <<engine, shared, active, grants, quota, log>>

-----------------------------------------------------------------------------

ActivateTool(tool) ==
  /\ WriteFree
  /\ active' = active \cup {tool}
  /\ UNCHANGED <<engine, shared, grants, quota, log, ran, writer, pc, req>>

ChangeShare(t, tool) ==
  /\ WriteFree
  /\ shared' = IF <<t, tool>> \in shared THEN shared \ {<<t, tool>>}
               ELSE shared \cup {<<t, tool>>}
  /\ UNCHANGED <<engine, active, grants, quota, log, ran, writer, pc, req>>

Crash(c) == pc[c] # "idle" /\ Fail(c)

Tick ==
  /\ grants' = [g \in Id |-> [grants[g] EXCEPT !.left = IF @ > 0 THEN @ - 1 ELSE @]]
  /\ UNCHANGED <<engine, shared, active, quota, log, ran, writer, pc, req>>

Step(c) ==
  \/ \E g \in Id : IssueOwn(c, g)
  \/ Denied(c) \/ Check(c) \/ ReadShare(c) \/ LockTimeout(c) \/ Redeem(c)
  \/ pc[c] = "run" /\ \E result \in Result(req[c].action.tool) : RunHandler(c, result)
  \/ RecordError(c) \/ RecordSuccess(c) \/ RecordUsageError(c)

Next ==
  \/ \E a \in Action, g \in Id : Authorize(g, a)
  \/ \E c \in Client, a \in Action, g \in Id \cup {None} : CallInvoke(c, a, g)
  \/ \E c \in Client : Step(c) \/ Crash(c)
  \/ \E tool \in Tool : ActivateTool(tool)
  \/ \E t \in Task, tool \in Tool : ChangeShare(t, tool)
  \/ Tick

Spec == Init /\ [][Next]_vars

-----------------------------------------------------------------------------

\* A grant lets its tool act at most once, with exactly the arguments it names,
\* and only after it was redeemed, however many callers present it and however
\* often they retry (redeem's guarded update).
EffectsAreGranted ==
  \A g \in Id :
    /\ ran[g].times <= 1
    /\ ran[g].acted \subseteq {grants[g].action}
    /\ ran[g].times > 0 => grants[g].status = "redeemed"

\* No effect goes without an audit row, and a recorded outcome is what happened.
LogIsTruthful ==
  \A g \in Id :
    /\ ran[g].times > 0 => log[g] # "none"
    /\ log[g] = "success" => ran[g].times = 1 /\ ran[g].result.kind # "raises"
    /\ log[g] = "error" => ran[g].times = 1 /\ ran[g].result.kind = "raises"

\* A reservation is settled only for a call that ran, for what its trusted usage
\* costs, never more than was reserved; if in doubt it stays reserved in full.
SettledIsActual ==
  \A g \in Id :
    /\ quota[g].status = "settled" =>
         /\ ran[g].times = 1 /\ quota[g].amount <= quota[g].reserved
         /\ quota[g].amount = Charge(grants[g].action.tool, ran[g].result)
    /\ quota[g].status = "reserved" => quota[g].amount = quota[g].reserved

\* A grant is redeemed only while its tool is shared with the task's
\* organization: on SQLite redeem checks and updates under the write lock.
RedeemedWhileShared ==
  [][engine = "sqlite" => \A g \in Id : grants[g].status = "issued" /\ grants'[g].status = "redeemed" =>
       <<grants[g].action.task, grants[g].action.tool>> \in shared]_vars

\* A call that has been answered after its handler ran has its outcome in the
\* audit log (docs: the gateway "writes the audit outcome").
OutcomeRecorded == \A g \in Id : ran[g].answered => log[g] # "authorized"

-----------------------------------------------------------------------------
(* Why a grant acts once: the inductive invariant.                         *)

Acting(c) == pc[c] \in {"run", "record"}

\* what a call knows of its grant in each phase
CallKnows(c) ==
  /\ pc[c] \notin {"idle"} => req[c].action \in Action
  /\ pc[c] \notin {"idle", "issue"} =>
       req[c].grant \in Id /\ grants[req[c].grant].status # "absent"
  /\ pc[c] \in {"share", "update", "run", "record"} =>
       grants[req[c].grant].action = req[c].action
  /\ Acting(c) => log[req[c].grant] = "authorized"
  /\ pc[c] = "run" => ran[req[c].grant].times = 0
  /\ pc[c] = "record" =>
       /\ ran[req[c].grant].times = 1
       /\ ran[req[c].grant].result = req[c].result
       /\ req[c].result \in Result(req[c].action.tool)

\* the tables agree about one grant
GrantAgrees(g) ==
  /\ grants[g].status # "absent" => grants[g].action \in Action
  /\ log[g] = "none" <=> grants[g].status # "redeemed"
  /\ log[g] = "none" => ran[g].times = 0 /\ ran[g].acted = {}
  /\ ran[g].times <= 1 /\ ran[g].acted \subseteq {grants[g].action}
  /\ log[g] = "success" => ran[g].times = 1 /\ ran[g].result.kind # "raises"
  /\ log[g] = "error" => ran[g].times = 1 /\ ran[g].result.kind = "raises"
  /\ grants[g].status = "absent" => quota[g].status = "absent"
  /\ quota[g].status = "reserved" =>
       /\ quota[g].amount = quota[g].reserved
       /\ quota[g].reserved = ToolInfo[grants[g].action.tool].cost
  /\ quota[g].status = "settled" =>
       /\ log[g] = "success" /\ quota[g].amount <= quota[g].reserved
       /\ quota[g].amount = Charge(grants[g].action.tool, ran[g].result)

\* no two calls act under one grant
OneActs ==
  \A c, d \in Client :
    Acting(c) /\ Acting(d) /\ req[c].grant = req[d].grant => c = d

GatewayInvariant ==
  /\ \A c \in Client : CallKnows(c)
  /\ \A g \in Id : GrantAgrees(g)
  /\ OneActs
=============================================================================
