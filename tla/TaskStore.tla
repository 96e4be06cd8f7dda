------------------------------ MODULE TaskStore -------------------------------
(***************************************************************************)
(* The transactions of task.py as the two supported engines run them.      *)
(*                                                                         *)
(* A request is a call of add_step, claim or finish; it runs through the   *)
(* statements of its transaction, one action each, and becomes visible to  *)
(* others at Commit.  On SQLite BEGIN IMMEDIATE takes the one write lock.  *)
(* On PostgreSQL store.py turns BEGIN IMMEDIATE into a SELECT, and the     *)
(* default READ COMMITTED isolation applies: each statement reads what is  *)
(* committed plus the transaction's own writes, an UPDATE waits for the    *)
(* row's lock and evaluates its WHERE on the row it then finds.            *)
(*                                                                         *)
(* A transaction writes at most the row of its step and of its task, so    *)
(* its uncommitted writes are a function of its request and its phase.     *)
(*                                                                         *)
(* complete_step takes the lease from the body of the request and compares *)
(* its step id only, so a finish may count, and close, any task.           *)
(***************************************************************************)
EXTENDS TaskRows

CONSTANTS
  Client,     \* the dispatchers and operators that call the API
  Engine      \* "sqlite" or "postgresql"

ASSUME TaskStoreAssumption ==
  /\ Engine \in {"sqlite", "postgresql"}
  /\ None \notin Client

VARIABLES
  tasks,      \* the tasks table, committed
  steps,      \* the task_steps table, committed
  writer,     \* who holds SQLite's write lock
  pc,         \* the next statement of each client's request
  req,        \* the request itself
  held        \* the lease each client believes it holds

vars == <<tasks, steps, writer, pc, req, held>>

Phase == {"idle", "begin", "read", "insert", "update", "count", "close", "commit"}

Request ==
  [op : {"none", "add_step", "claim", "finish"},
   task : Task \cup {None}, step : Step \cup {None}, token : Token \cup {None},
   outcome : {"none", "done", "failed"},
   lag : 0 .. MaxLag,              \* the age of the utcnow() in its parameters
   seen : SUBSET Step,             \* add_step: the steps MAX(step_number) saw
   verdict : {"none", "completed", "failed"}]   \* the task update it made

NewRequest(op, t, s, tok, outcome) ==
  [op |-> op, task |-> t, step |-> s, token |-> tok, outcome |-> outcome,
   lag |-> 0, seen |-> {}, verdict |-> "none"]

NoRequest == NewRequest("none", None, None, None, "none")

Lease == [step : Step, token : Token]
NoLease == [step |-> None, token |-> None]

TypeOK ==
  /\ tasks \in [Task -> TaskRow]
  /\ steps \in [Step -> StepRow]
  /\ writer \in Client \cup {None}
  /\ pc \in [Client -> Phase]
  /\ req \in [Client -> Request]
  /\ held \in [Client -> Lease \cup {NoLease}]

Init ==
  /\ tasks = [t \in Task |-> NoTask]
  /\ steps = [s \in Step |-> NoStep]
  /\ writer = None
  /\ pc = [c \in Client |-> "idle"]
  /\ req = [c \in Client |-> NoRequest]
  /\ held = [c \in Client |-> NoLease]

-----------------------------------------------------------------------------
(* Locks and snapshots.                                                    *)

\* c has updated step s and not committed: PostgreSQL's row lock
LocksStep(c, s) == req[c].step = s /\ pc[c] \in {"count", "close", "commit"}

LocksTask(c, t) ==
  req[c].task = t /\ req[c].verdict # "none" /\ pc[c] = "commit"

StepFree(c, s) == \A d \in Client \ {c} : ~LocksStep(d, s)
TaskFree(t) == \A d \in Client : ~LocksTask(d, t)

WriteLockFree == Engine = "sqlite" => writer = None

\* what a finishing transaction reads of task_steps: its own update included
OwnView(c) ==
  [steps EXCEPT ![req[c].step] = Finished(@, req[c].outcome)]

Goto(c, phase) == pc' = [pc EXCEPT ![c] = phase]

\* the transaction is over, committed or not
Leave(c) ==
  /\ Goto(c, "idle")
  /\ req' = [req EXCEPT ![c] = NoRequest]
  /\ writer' = IF writer = c THEN None ELSE writer

\* Mutated form: no rollback, and the connection is kept.
Fail_KeepsLock(c) ==
  /\ Goto(c, "idle")
  /\ req' = [req EXCEPT ![c] = NoRequest]
  /\ held' = [held EXCEPT ![c] = NoLease]
  /\ UNCHANGED <<tasks, steps, writer>>

\* an exception inside `with store.connect()`: rollback; the caller may
\* keep the lease it believes in, or give it up
Fail(c) ==
  /\ Leave(c)
  /\ \/ UNCHANGED held
     \/ held' = [held EXCEPT ![c] = NoLease]
  /\ UNCHANGED <<tasks, steps>>

-----------------------------------------------------------------------------
(* Requests arrive.  Ids and tokens are fresh uuid4 values.                *)

CreateTask(t) ==
  /\ tasks[t].status = "absent"
  /\ WriteLockFree
  /\ tasks' = [tasks EXCEPT ![t] = NewTask]
  /\ UNCHANGED <<steps, writer, pc, req, held>>

CallAddStep(c, t, s) ==
  /\ pc[c] = "idle"
  /\ tasks[t].status # "absent"
  /\ steps[s].status = "absent"
  /\ \A d \in Client : req[d].step # s
  /\ req' = [req EXCEPT ![c] = NewRequest("add_step", t, s, None, "none")]
  /\ Goto(c, "begin")
  /\ UNCHANGED <<tasks, steps, writer, held>>

FreshToken(tok) ==
  /\ \A s \in Step : steps[s].token # tok
  /\ \A d \in Client : req[d].token # tok /\ held[d].token # tok

CallClaim(c, s, tok) ==
  /\ pc[c] = "idle"
  /\ held[c] = NoLease
  /\ steps[s].status # "absent"
  /\ FreshToken(tok)
  /\ req' = [req EXCEPT ![c] = 
                 NewRequest("claim", steps[s].task, s, tok, "none")]
  /\ Goto(c, "begin")
  /\ UNCHANGED <<tasks, steps, writer, held>>

\* t is the task_id in the lease the body carries, None for an unknown id
CallFinish(c, t, outcome) ==
  /\ pc[c] = "idle"
  /\ held[c] # NoLease
  /\ t # None => tasks[t].status # "absent"
  /\ req' = [req EXCEPT ![c] =
                 NewRequest("finish", t, held[c].step, held[c].token, outcome)]
  /\ Goto(c, "begin")
  /\ UNCHANGED <<tasks, steps, writer, held>>

-----------------------------------------------------------------------------
(* The statements.                                                         *)

\* Mutated form: no BEGIN IMMEDIATE.
Begin_Deferred(c) ==
  /\ pc[c] = "begin"
  /\ Goto(c, IF req[c].op = "finish" THEN "update" ELSE "read")
  /\ UNCHANGED <<tasks, steps, writer, req, held>>

Begin(c) ==
  /\ pc[c] = "begin"
  /\ WriteLockFree
  /\ writer' = IF Engine = "sqlite" THEN c ELSE None
  /\ Goto(c, IF req[c].op = "finish" THEN "update" ELSE "read")
  /\ UNCHANGED <<tasks, steps, req, held>>

\* SQLite's busy timeout: "database is locked"
LockTimeout(c) ==
  /\ pc[c] = "begin"
  /\ ~WriteLockFree
  /\ Fail(c)

\* Mutated form: a terminal task accepts the step.
ReadTask_NoTerminal(c) ==
  /\ pc[c] = "read" /\ req[c].op = "add_step"
  /\ Goto(c, "insert")
  /\ req' = [req EXCEPT ![c].seen = StepsOf(steps, req[c].task)]
  /\ UNCHANGED <<tasks, steps, writer, held>>

ReadTask(c) ==
  /\ pc[c] = "read" /\ req[c].op = "add_step"
  /\ IF tasks[req[c].task].terminal
     THEN Fail(c)
     ELSE /\ Goto(c, "insert")
          /\ req' = [req EXCEPT ![c].seen = StepsOf(steps, req[c].task)]
          /\ UNCHANGED <<tasks, steps, writer, held>>

\* UNIQUE(task_id, step_number): the insert waits for another uncommitted one
\* with its number, and fails if the number is taken by then.
InsertStep(c) ==
  /\ pc[c] = "insert"
  /\ ~\E d \in Client \ {c} :
        /\ req[d].op = "add_step" /\ pc[d] = "commit"
        /\ req[d].task = req[c].task /\ req[d].seen = req[c].seen
  /\ IF StepsOf(steps, req[c].task) # req[c].seen
     THEN Fail(c)
     ELSE Goto(c, "commit") /\ UNCHANGED <<tasks, steps, writer, req, held>>


ReadStep(c) ==
  /\ pc[c] = "read" /\ req[c].op = "claim"
  /\ LET row == steps[req[c].step]
     IN  IF Claimable(row, req[c].lag) /\ ~tasks[row.task].terminal
         THEN Goto(c, "update") /\ UNCHANGED <<tasks, steps, writer, req, held>>
         ELSE Fail(c)

UpdateClaim(c) ==
  /\ pc[c] = "update" /\ req[c].op = "claim"
  /\ StepFree(c, req[c].step)
  /\ IF Claimable(steps[req[c].step], req[c].lag)
     THEN Goto(c, "commit") /\ UNCHANGED <<tasks, steps, writer, req, held>>
     ELSE Fail(c)

\* Mutated form: the token is not compared.
LeaseValid_NoToken(row, r) == row.status = "claimed" /\ row.ttl + r.lag > 0

\* WHERE ... status='claimed' AND lease_token=? AND lease_expires_at>?
LeaseValid(row, r) ==
  row.status = "claimed" /\ row.token = r.token /\ row.ttl + r.lag > 0

UpdateFinish(c) ==
  /\ pc[c] = "update" /\ req[c].op = "finish"
  /\ StepFree(c, req[c].step)
  /\ IF LeaseValid(steps[req[c].step], req[c])
     THEN Goto(c, "count") /\ UNCHANGED <<tasks, steps, writer, req, held>>
     ELSE Fail(c)

\* Mutated forms: counts only pending steps; counts its own step as claimed.
CountRemaining_PendingOnly(c) ==
  /\ pc[c] = "count"
  /\ Goto(c, IF \E s \in StepsOf(steps, req[c].task) : steps[s].status = "pending"
             THEN "commit" ELSE "close")
  /\ UNCHANGED <<tasks, steps, writer, req, held>>
CountRemaining_BeforeUpdate(c) ==
  /\ pc[c] = "count"
  /\ Goto(c, IF Remaining(steps, req[c].task) THEN "commit" ELSE "close")
  /\ UNCHANGED <<tasks, steps, writer, req, held>>

CountRemaining(c) ==
  /\ pc[c] = "count"
  /\ Goto(c, IF Remaining(OwnView(c), req[c].task) THEN "commit" ELSE "close")
  /\ UNCHANGED <<tasks, steps, writer, req, held>>

CloseTask(c) ==
  /\ pc[c] = "close"
  /\ TaskFree(req[c].task)
  /\ req' = IF IsOpen(tasks, req[c].task)
            THEN [req EXCEPT ![c].verdict = Verdict(OwnView(c), req[c].task)]
            ELSE req
  /\ Goto(c, "commit")
  /\ UNCHANGED <<tasks, steps, writer, held>>

CommitAdd(c) ==
  /\ pc[c] = "commit" /\ req[c].op = "add_step"
  /\ steps' = [steps EXCEPT ![req[c].step] = Pending(req[c].task)]
  /\ Leave(c)
  /\ UNCHANGED <<tasks, held>>

\* The lease runs from the clock read before the lock was awaited.  The reply
\* that carries it may be lost.
CommitClaim(c) ==
  /\ pc[c] = "commit" /\ req[c].op = "claim"
  /\ steps' = [steps EXCEPT ![req[c].step] =
                 Claimed(@, req[c].token, MaxLease - req[c].lag)]
  /\ \/ held' = [held EXCEPT ![c] = [step |-> req[c].step, token |-> req[c].token]]
     \/ UNCHANGED held
  /\ Leave(c)
  /\ UNCHANGED tasks

\* A lost reply leaves the caller believing in a lease that is over.
CommitFinish(c) ==
  /\ pc[c] = "commit" /\ req[c].op = "finish"
  /\ steps' = OwnView(c)
  /\ tasks' = IF req[c].verdict = "none" THEN tasks
              ELSE [tasks EXCEPT ![req[c].task] = Closed(@, req[c].verdict)]
  /\ \/ held' = [held EXCEPT ![c] = NoLease]
     \/ UNCHANGED held
  /\ Leave(c)

-----------------------------------------------------------------------------
(* Around the requests.                                                    *)

\* Mutated form: without AND is_terminal=FALSE.
RouteDenied_NoGuard(t) ==
  /\ tasks[t].status # "absent"
  /\ WriteLockFree /\ TaskFree(t)
  /\ tasks' = [tasks EXCEPT ![t].status = "pending_clarification"]
  /\ UNCHANGED <<steps, writer, pc, req, held>>

\* route_task: no decision parks the task unless it is closed ...
RouteDenied(t) ==
  /\ tasks[t].status # "absent" /\ ~tasks[t].terminal
  /\ WriteLockFree /\ TaskFree(t)
  /\ tasks' = [tasks EXCEPT ![t].status = "pending_clarification"]
  /\ UNCHANGED <<steps, writer, pc, req, held>>

\* ... and a later decision resumes it.
RouteResolved(t) ==
  /\ tasks[t].status = "pending_clarification"
  /\ WriteLockFree /\ TaskFree(t)
  /\ tasks' = [tasks EXCEPT ![t].status = "active"]
  /\ UNCHANGED <<steps, writer, pc, req, held>>

\* The client or the server process handling its request dies.
Crash(c) ==
  /\ pc[c] # "idle" \/ held[c] # NoLease
  /\ Leave(c)
  /\ held' = [held EXCEPT ![c] = NoLease]
  /\ UNCHANGED <<tasks, steps>>

\* a clock reading is in the parameters of c's request
ClockRead(c) ==
  \/ req[c].op = "claim"
  \/ req[c].op = "finish" /\ pc[c] = "update"

Tick ==
  /\ \A c \in Client : req[c].lag < MaxLag \/ ~ClockRead(c)
  /\ steps' = Aged(steps)
  /\ req' = [c \in Client |-> IF ClockRead(c)
                              THEN [req[c] EXCEPT !.lag = @ + 1] ELSE req[c]]
  /\ UNCHANGED <<tasks, writer, pc, held>>

Call(c) ==
  \/ \E t \in Task, s \in Step : CallAddStep(c, t, s)
  \/ \E s \in Step, tok \in Token : CallClaim(c, s, tok)
  \/ \E t \in Task \cup {None}, outcome \in {"done", "failed"} :
       CallFinish(c, t, outcome)

Statement(c) ==
  \/ Begin(c) \/ LockTimeout(c)
  \/ ReadTask(c) \/ InsertStep(c)
  \/ ReadStep(c) \/ UpdateClaim(c)
  \/ UpdateFinish(c) \/ CountRemaining(c) \/ CloseTask(c)
  \/ CommitAdd(c) \/ CommitClaim(c) \/ CommitFinish(c)

Next ==
  \/ \E t \in Task : CreateTask(t) \/ RouteDenied(t) \/ RouteResolved(t)
  \/ \E c \in Client : Call(c) \/ Statement(c) \/ Crash(c)
  \/ Tick

Spec == Init /\ [][Next]_vars

\* The server runs every request it has begun, and time passes.
FairSpec ==
  /\ Spec
  /\ \A c \in Client : WF_vars(Statement(c))
  /\ SF_vars(Tick)

\* PostgreSQL grants a row lock to its waiters in turn, so a waiter is not
\* passed over for ever.
QueuedSpec ==
  /\ FairSpec
  /\ \A c \in Client :
       SF_vars(InsertStep(c) \/ UpdateClaim(c) \/ UpdateFinish(c) \/ CloseTask(c))

-----------------------------------------------------------------------------
(* Safety.                                                                 *)

\* A closed task has no step left to run (finish against add_step: the task is
\* closed while a step is being added, and the step can never be claimed).
TerminalIsSettled == TerminalSettled(tasks, steps)

\* The last open step of a task is not ended without closing the task:
\* whichever of two concurrent finishes is the last sees the other.  Only a
\* finish under the step's own token whose lease names another task may.
LastFinishCloses ==
  [][\A s \in Step :
       ~Settled(steps[s]) /\ Settled(steps'[s]) =>
         LET t == steps[s].task IN
         \/ Remaining(steps', t) \/ tasks'[t].terminal
         \/ \E c \in Client : /\ req[c].op = "finish" /\ req[c].step = s
                              /\ req[c].token = steps[s].token
                              /\ req[c].task # t]_vars

\* A closed task is "failed" exactly when one of its steps failed, and only a
\* closed task carries a verdict, whatever the router writes meanwhile.
VerdictIsTruthful == Truthful(tasks, steps)

\* A lease that has time left is never handed to another claimer, although the
\* claimer reads the clock before it waits for the lock.
LeaseNotStolen ==
  [][\A s \in Step : steps[s].status = "claimed" /\ steps[s].ttl >= 0
       => steps'[s].token = steps[s].token \/ Settled(steps'[s])]_vars

\* An outcome is recorded only by the request that holds the step's current
\* token, and then never changes: a late or repeated complete has no effect.
OutcomeIsFenced ==
  [][\A s \in Step :
       /\ Settled(steps[s]) => steps'[s] = steps[s]
       /\ ~Settled(steps[s]) /\ Settled(steps'[s]) =>
            /\ steps[s].status = "claimed"
            /\ \E c \in Client : /\ req[c].op = "finish" /\ req[c].step = s
                                 /\ req[c].token = steps[s].token]_vars

\* A closed task is never reopened or relabelled and gets no step, by finish,
\* by add_step, or by the router's status updates.
ClosedIsFinal ==
  [][\A t \in Task : tasks[t].terminal =>
       /\ tasks'[t] = tasks[t]
       /\ StepsOf(steps', t) = StepsOf(steps, t)]_vars

-----------------------------------------------------------------------------
(* Why SQLite's transactions are safe: the inductive invariant.            *)

Writing(c) == pc[c] \notin {"idle", "begin"}

\* A request's parameters are complete and its phase is one of its operation's.
WellFormedRequest(c) ==
  /\ req[c].op = "none" <=> pc[c] = "idle"
  /\ req[c].op = "add_step" =>
       /\ req[c].task \in Task /\ req[c].step \in Step
       /\ pc[c] \in {"begin", "read", "insert", "commit"}
       /\ steps[req[c].step].status = "absent"
       /\ \A d \in Client \ {c} : req[d].step # req[c].step
  /\ req[c].op = "claim" =>
       /\ req[c].step \in Step /\ req[c].token \in Token
       /\ pc[c] \in {"begin", "read", "update", "commit"}
       /\ steps[req[c].step].status # "absent"
  /\ req[c].op = "finish" =>
       /\ req[c].step \in Step /\ req[c].outcome \in {"done", "failed"}
       /\ pc[c] \in {"begin", "update", "count", "close", "commit"}
       /\ steps[req[c].step].status # "absent"
  /\ req[c].verdict # "none" =>
       req[c].op = "finish" /\ pc[c] = "commit" /\ req[c].task \in Task

RequestsWellFormed == \A c \in Client : WellFormedRequest(c)

\* Steps belong to tasks, and leases are of steps that exist.
RowsWellFormed ==
  /\ \A s \in Step : steps[s].status # "absent" => steps[s].task \in Task
  /\ \A c \in Client : held[c] # NoLease => steps[held[c].step].status # "absent"

\* Whoever is past BEGIN IMMEDIATE holds the write lock, and the lock is held
\* by nobody else: no abort, crash or timeout leaves it taken.
LockDiscipline ==
  /\ \A c \in Client : Writing(c) => writer = c
  /\ writer # None => Writing(writer)

\* What a transaction has read is still so when it writes.
ReadsTrue(c) ==
  /\ req[c].op = "add_step" /\ pc[c] \in {"insert", "commit"} =>
       ~tasks[req[c].task].terminal
  /\ req[c].op = "claim" /\ pc[c] \in {"update", "commit"} =>
       /\ Claimable(steps[req[c].step], req[c].lag)
       /\ ~tasks[steps[req[c].step].task].terminal
  /\ pc[c] \in {"count", "close"} => steps[req[c].step].status = "claimed"
  /\ pc[c] = "close" => ~Remaining(OwnView(c), req[c].task)
  /\ req[c].op = "finish" /\ pc[c] = "commit" =>
       /\ steps[req[c].step].status = "claimed"
       /\ req[c].verdict =
            IF IsOpen(tasks, req[c].task) /\ ~Remaining(OwnView(c), req[c].task)
            THEN Verdict(OwnView(c), req[c].task) ELSE "none"

ReadsStillTrue == \A c \in Client : ReadsTrue(c)

SqliteInvariant ==
  /\ RequestsWellFormed /\ RowsWellFormed
  /\ LockDiscipline /\ ReadsStillTrue
  /\ TerminalIsSettled /\ VerdictIsTruthful

-----------------------------------------------------------------------------
(* Liveness.                                                               *)


\* A claimed step does not stay with a dead holder: it is finished, or becomes
\* claimable again.
ClaimedComesBack ==
  \A s \in Step : steps[s].status = "claimed"
                    ~> Settled(steps[s]) \/ Claimable(steps[s], 0)

-----------------------------------------------------------------------------
(* On SQLite every transaction takes effect as one step of the ledger.     *)

Ledger == INSTANCE TaskLedger

\* The transactions of add_step, claim and finish implement the atomic ledger.
ImplementsLedger == Ledger!Spec
=============================================================================
