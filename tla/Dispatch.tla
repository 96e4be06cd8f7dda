------------------------------- MODULE Dispatch -------------------------------
(***************************************************************************)
(* Running a step: the dispatcher on the host (dispatch.py), the worker    *)
(* process it launches (launcher.py, worker.py, worker_entry.py) and the   *)
(* endpoints both call with an operator's token or the worker's session    *)
(* (api.py), over the step leases of TaskLedger and the guards of Auth.    *)
(*                                                                         *)
(* A tick is 30 seconds, the dispatcher's HTTP timeout.  Dispatchers may   *)
(* crash or lose a reply at any point; a worker process may outlive its    *)
(* dispatcher, and a container outlives the timeout that kills its client. *)
(***************************************************************************)
EXTENDS Auth, Router

CONSTANTS
  Dispatcher,     \* connectd worker processes on the hosts
  Tool, Workbench,\* tool ids; the built-in one
  Tier,           \* [Tool -> 0..2] : effect_tier
  Usable,         \* tools that are active and visible to the task
  Trees,          \* what the routing tree file may hold
  Choices,        \* the option ids the classifier may answer
  Settings,       \* a task's profile, and whether workers use the proxy
  Timeouts,       \* timeout_seconds of run_step, in ticks
  StepTask,       \* [Step -> Task]
  ReplyLag,       \* ticks between a claim and the start of the worker: of the
                  \* environment, as the launcher's docker checks have no timeout
  LeaseSlack,     \* timeout_seconds + 60
  SessionSlack,   \* timeout_seconds + 120
  MaxTurns        \* WorkerInput.max_turns

SettingRecord ==
  [mode : {"auto_grant", "risk_tiered", "strict_ed25519"},
   runtime : {"subprocess", "container"}, proxied : BOOLEAN]

\* MaxLease, of TaskRows, is the 3600 seconds a claim may ask for.
ASSUME DispatchAssumption ==
  /\ Workbench \in Usable /\ Usable \subseteq Tool /\ None \notin Tool
  /\ Tier \in [Tool -> 0..2]
  /\ None \notin Trees
  /\ StepTask \in [Step -> Task]
  /\ Settings \subseteq SettingRecord
  /\ \A c \in Settings : c.mode = "strict_ed25519" => c.runtime # "subprocess"
  /\ MaxTurns \in Nat \ {0}
  /\ MaxLag = 0

\* The slacks the code adds to a timeout leave room for the reply, and a lease
\* is not cut short by the longest claim the API takes.
ASSUME SlackAssumption ==
  /\ ReplyLag \in Nat /\ LeaseSlack \in Nat /\ SessionSlack \in Nat
  /\ ReplyLag < LeaseSlack /\ LeaseSlack <= SessionSlack
  /\ Timeouts \subseteq Nat \ {0}
  /\ \A n \in Timeouts : n + LeaseSlack <= MaxLease /\ n + SessionSlack <= MaxSession

VARIABLES
  tasks, steps,   \* the tables of TaskLedger
  setting,        \* the profile and the worker model of the run
  pc, req,        \* dispatchers: where each is, and what it holds
  runs            \* worker processes, by worker

vars == <<tasks, steps, setting, pc, req, runs, users, genesis, sessions>>
tables == <<tasks, steps>>

Ledger == INSTANCE TaskLedger

NoReq == [by |-> None, task |-> None, step |-> None, worker |-> None,
          timeout |-> 0, clock |-> 0, tool |-> None, tree |-> None,
          path |-> <<>>, outcome |-> "none"]

NoRun == [state |-> "none", step |-> None, tool |-> None, turns |-> 0,
          lease |-> 0, report |-> "none"]

Place == {"idle", "session", "route", "claim", "launch", "run", "complete"}

\* every walk the classifier's answers can lead to, tree by tree
Answer == [choice : Choices, confident : BOOLEAN]
Walks == [tree \in Trees |->
            {Decide(tree, answers) : answers \in [DOMAIN tree.nodes -> Answer]}]
Paths == {r.hops : r \in UNION {Walks[tree] : tree \in Trees}} \cup {<<>>}

\* how far a run may fall behind its lease before the model stops counting
Stale == -(SessionSlack + 1)

Request ==
  [by : Caller \cup {None}, task : Task \cup {None}, step : Step \cup {None},
   worker : Token \cup {None}, timeout : Timeouts \cup {0}, clock : 0..MaxLease,
   tool : Tool \cup {None}, tree : Trees \cup {None}, path : Paths,
   outcome : {"none", "done", "failed"}]

Run ==
  [state : {"none", "running", "over"}, step : Step \cup {None},
   tool : Tool \cup {None}, turns : 0..MaxTurns, lease : Stale..MaxLease,
   report : {"none", "completed", "blocked"}]

TypeOK ==
  /\ AuthTypeOK
  /\ tasks \in [Task -> TaskRow] /\ steps \in [Step -> StepRow]
  /\ setting \in Settings
  /\ pc \in [Dispatcher -> Place]
  /\ req \in [Dispatcher -> Request]
  /\ runs \in [Token -> Run]

Init ==
  /\ AuthInit
  /\ tasks = [t \in Task |-> NewTask]
  /\ steps = [s \in Step |-> Pending(StepTask[s])]
  /\ setting \in Settings
  /\ pc = [d \in Dispatcher |-> "idle"]
  /\ req = [d \in Dispatcher |-> NoReq]
  /\ runs = [w \in Token |-> NoRun]

-----------------------------------------------------------------------------
(* Helpers.                                                                *)

\* min(3600, timeout_seconds + 60), and its mutated form without the slack
LeaseFor_NoSlack(timeout) == timeout
LeaseFor(timeout) ==
  IF timeout + LeaseSlack < MaxLease THEN timeout + LeaseSlack ELSE MaxLease

\* the session's ttl_seconds, and the default its mutated form falls back to
SessionFor_Default(timeout) == MaxSession
SessionFor(timeout) == timeout + SessionSlack

\* select_runtime, for the profiles the configuration admits
SelectRuntime(tier) ==
  IF setting.mode = "risk_tiered" /\ tier = 2 THEN "container" ELSE setting.runtime

\* "done" if report.status == "completed" else "failed"; mutated: whatever the
\* worker reports
OutcomeOf_AnyReport(report) == "done"
OutcomeOf(report) == IF report = "completed" THEN "done" ELSE "failed"

Unused(w) == sessions[w] = NoSession /\ \A d \in Dispatcher : req[d].worker # w

Goto(d, place) == pc' = [pc EXCEPT ![d] = place]

\* the call that the dispatcher's own operator token makes for its task
OperatorCall(d, minimum, t) ==
  RequireOperator(req[d].by, minimum) /\ SeesTask(req[d].by, t)

-----------------------------------------------------------------------------
(* The dispatcher, up to the claim.                                        *)

\* GET task, and the checks on its profile
RunStep(d, by, t, s, w, timeout) ==
  /\ pc[d] = "idle"
  /\ RequireOperator(by, "viewer") /\ SeesTask(by, t)
  /\ ~tasks[t].terminal
  /\ setting.mode = "strict_ed25519" => setting.proxied
  /\ Unused(w)
  /\ req' = [req EXCEPT ![d].by = by, ![d].task = t, ![d].step = s,
                        ![d].worker = w, ![d].timeout = timeout]
  /\ Goto(d, "session")
  /\ UNCHANGED <<tables, setting, runs, authVars>>

\* POST worker-sessions
IssueSession(d) ==
  /\ pc[d] = "session"
  /\ OperatorCall(d, "operator", req[d].task)
  /\ ~tasks[req[d].task].terminal
  /\ IssueWorker(req[d].worker, req[d].task, SessionFor(req[d].timeout))
  /\ Goto(d, "route")
  /\ UNCHANGED <<tables, setting, req, runs>>

\* Reads before a tool is chosen, one step with the request that follows them:
\* GET placement and context-pack with the session, GET node with the operator's
\* token, which takes an administrator of the node's organization.
Prepared(d) ==
  /\ pc[d] = "route"
  /\ RequireWorker(req[d].worker, req[d].task)
  /\ OperatorCall(d, "admin", req[d].task)

\* a denied walk, or a leaf without a resolved_tool_id
Refused(r) == r.status = "resolved" => LeafOf(r).tool = None

\* tool_id == "auto": GET step, POST route.  A refused route parks an open task
\* for clarification (the strict profile, prod_secure, does not), a usable one
\* resumes it; a leaf that is no usable tool fails the request and changes nothing.
RouteAuto(d, tree) ==
  /\ Prepared(d)
  /\ OperatorCall(d, "viewer", StepTask[req[d].step])
  /\ StepTask[req[d].step] = req[d].task
  /\ \E r \in Walks[tree] :
       \/ /\ Refused(r)
          /\ Goto(d, "idle")
          /\ req' = [req EXCEPT ![d] = NoReq]
          /\ tasks' = IF setting.mode # "strict_ed25519" /\ ~tasks[req[d].task].terminal
                      THEN [tasks EXCEPT ![req[d].task].status = "pending_clarification"]
                      ELSE tasks
       \/ /\ r.status = "resolved"
          /\ LeafOf(r).tool \notin Usable \cup {None}
          /\ Goto(d, "idle")
          /\ req' = [req EXCEPT ![d] = NoReq]
          /\ UNCHANGED tasks
       \/ /\ r.status = "resolved"
          /\ LeafOf(r).tool \in Usable
          /\ Goto(d, "claim")
          /\ req' = [req EXCEPT ![d].tool = LeafOf(r).tool, ![d].tree = tree,
                                ![d].path = r.hops]
          /\ tasks' = IF tasks[req[d].task].status = "pending_clarification"
                      THEN [tasks EXCEPT ![req[d].task].status = "active"]
                      ELSE tasks
  /\ UNCHANGED <<steps, setting, runs, authVars>>

\* A tool the caller names: the workbench needs no request, another is read with
\* the worker's session, as the context just was.
NamedTool(d, tool) ==
  /\ Prepared(d)
  /\ req' = [req EXCEPT ![d].tool = tool]
  /\ Goto(d, "claim")
  /\ UNCHANGED <<tables, setting, runs, authVars>>

\* POST claim, with the session of the step's own task.  Of the route only the
\* tool is used from here on.
Claim(d) ==
  /\ pc[d] = "claim"
  /\ RequireWorker(req[d].worker, StepTask[req[d].step])
  /\ Ledger!Claim(req[d].step, req[d].worker, LeaseFor(req[d].timeout))
  /\ req' = [req EXCEPT ![d].tree = None, ![d].path = <<>>]
  /\ Goto(d, "launch")
  /\ UNCHANGED <<setting, runs, authVars>>

-----------------------------------------------------------------------------
(* The worker process, and the dispatcher that waits for it.               *)

Started(d) ==
  [state |-> "running", step |-> req[d].step, tool |-> req[d].tool, turns |-> 0,
   lease |-> LeaseFor(req[d].timeout) - req[d].clock, report |-> "none"]

Over(report) == [NoRun EXCEPT !.state = "over", !.report = report]

\* Mutated form: a turn more than max_turns.
TurnTaken_OneMore(run) ==
  IF run.turns > MaxTurns THEN Over("blocked")
  ELSE [run EXCEPT !.turns = @ + 1]

\* a turn that called its tool: the loop ends blocked after the last one
TurnTaken(run) ==
  IF run.turns + 1 = MaxTurns THEN Over("blocked")
  ELSE [run EXCEPT !.turns = @ + 1]

Launch(d) ==
  /\ pc[d] = "launch"
  /\ runs' = [runs EXCEPT ![req[d].worker] = Started(d)]
  /\ req' = [req EXCEPT ![d].clock = 0, ![d].tool = None]
  /\ Goto(d, "run")
  /\ UNCHANGED <<tables, setting, authVars>>

\* the runtime is unavailable, or its network is not the one required
LaunchRefused(d) ==
  /\ pc[d] = "launch"
  /\ req' = [req EXCEPT ![d].clock = 0, ![d].tool = None,
                          ![d].outcome = "failed"]
  /\ Goto(d, "complete")
  /\ UNCHANGED <<tables, setting, runs, authVars>>

\* POST chat/completions, through the proxy with the worker's session or to a
\* local endpoint without one
AsksModel(w) ==
  /\ runs[w].state = "running"
  /\ setting.proxied => RequireWorker(w, StepTask[runs[w].step])

Answers(w) ==
  /\ AsksModel(w)
  /\ runs' = [runs EXCEPT ![w] = Over("completed")]
  /\ UNCHANGED <<tables, setting, pc, req, authVars>>

\* One turn that calls the tool: the workbench in the process itself, another
\* through the gateway, which takes the session and an open task.
CallsTool(w) ==
  /\ AsksModel(w)
  /\ runs[w].tool # Workbench =>
       /\ RequireWorker(w, StepTask[runs[w].step])
       /\ ~tasks[StepTask[runs[w].step]].terminal
  /\ runs' = [runs EXCEPT ![w] = TurnTaken(@)]
  /\ UNCHANGED <<tables, setting, pc, req, authVars>>

\* any error of the process: a non-zero exit and no report
WorkerFails(w) ==
  /\ runs[w].state = "running"
  /\ runs' = [runs EXCEPT ![w] = Over("none")]
  /\ UNCHANGED <<tables, setting, pc, req, authVars>>

\* subprocess.run returns
Collect(d) ==
  /\ pc[d] = "run" /\ runs[req[d].worker].state = "over"
  /\ req' = [req EXCEPT ![d].clock = 0,
                          ![d].outcome = OutcomeOf(runs[req[d].worker].report)]
  /\ Goto(d, "complete")
  /\ UNCHANGED <<tables, setting, runs, authVars>>

\* subprocess.run kills its child: the worker itself, or the client of a
\* container that runs on
Timeout(d) ==
  LET run == runs[req[d].worker] IN
  /\ pc[d] = "run" /\ run.state = "running"
  /\ req[d].clock = req[d].timeout
  /\ runs' = IF SelectRuntime(Tier[run.tool]) = "subprocess"
             THEN [runs EXCEPT ![req[d].worker] = Over("none")]
             ELSE runs
  /\ req' = [req EXCEPT ![d].clock = 0, ![d].outcome = "failed"]
  /\ Goto(d, "complete")
  /\ UNCHANGED <<tables, setting, authVars>>

\* POST complete, with the lease and the operator's token
Complete(d) ==
  /\ pc[d] = "complete"
  /\ OperatorCall(d, "operator", StepTask[req[d].step])
  /\ steps[req[d].step].token = req[d].worker
  /\ steps[req[d].step].ttl > 0
  /\ Ledger!Finish(req[d].step, steps[req[d].step].task, req[d].outcome)
  /\ req' = [req EXCEPT ![d] = NoReq]
  /\ Goto(d, "idle")
  /\ UNCHANGED <<setting, runs, authVars>>

\* A refused or failed request raises, a reply is lost, or the process dies; a
\* worker it has launched goes on.
Abandon(d) ==
  /\ pc[d] # "idle"
  /\ req' = [req EXCEPT ![d] = NoReq]
  /\ Goto(d, "idle")
  /\ UNCHANGED <<tables, setting, runs, authVars>>

\* A launch waits at most ReplyLag for its claim's reply, and a timeout is
\* acted on before the clock goes on.
InTime(d) ==
  /\ pc[d] = "launch" => req[d].clock < ReplyLag
  /\ pc[d] = "run" => req[d].clock < req[d].timeout

Tick ==
  /\ \A d \in Dispatcher : InTime(d)
  /\ Ledger!Tick
  /\ sessions' = AgedSessions
  /\ req' = [d \in Dispatcher |->
               IF pc[d] \in {"launch", "run"}
               THEN [req[d] EXCEPT !.clock = @ + 1] ELSE req[d]]
  /\ runs' = [w \in Token |->
                IF runs[w].state = "running" /\ runs[w].lease > Stale
                THEN [runs[w] EXCEPT !.lease = @ - 1] ELSE runs[w]]
  /\ UNCHANGED <<setting, pc, users, genesis>>

Next ==
  \/ Operators /\ UNCHANGED <<tables, setting, pc, req, runs>>
  \/ \E d \in Dispatcher :
       \/ \E by \in Caller, t \in Task, s \in Step, w \in Token, n \in Timeouts :
            RunStep(d, by, t, s, w, n)
       \/ \E tree \in Trees : RouteAuto(d, tree)
       \/ \E tool \in Usable : NamedTool(d, tool)
       \/ IssueSession(d) \/ Claim(d) \/ Launch(d) \/ LaunchRefused(d)
       \/ Collect(d) \/ Timeout(d) \/ Complete(d) \/ Abandon(d)
  \/ \E w \in Token : Answers(w) \/ CallsTool(w) \/ WorkerFails(w)
  \/ Tick

Spec == Init /\ [][Next]_vars

-----------------------------------------------------------------------------
(* Properties.                                                             *)

\* While a dispatcher waits for its worker, the step is claimed by that worker,
\* under a lease that covers the rest of the run, and no other dispatcher runs
\* it: the slack of the lease absorbs the claim's reply (dispatch.py).
OneWorkerPerStep ==
  \A d \in Dispatcher : pc[d] = "run" =>
    /\ steps[req[d].step].status = "claimed"
    /\ steps[req[d].step].token = req[d].worker
    /\ steps[req[d].step].ttl > req[d].timeout - req[d].clock
    /\ \A e \in Dispatcher \ {d} :
         pc[e] \in {"launch", "run"} => req[e].step # req[d].step

\* A worker that outlives its lease (its container survived the timeout, or its
\* dispatcher died) can use its session, to infer or to call tools beside the
\* step's next holder, for a minute at most: no session outlives its worker's
\* lease by more than the difference of the slacks (dispatch.py, auth.py).  What
\* it does without a session, in its worktree or at a model, nothing bounds.
StragglersAreBrief ==
  \A w \in Token :
    runs[w].state = "running" /\ sessions[w].left > 0
      => runs[w].lease >= LeaseSlack - SessionSlack

\* A step is settled under the unexpired lease of the worker that holds it, and
\* as done only if that worker's process ended with the report "completed":
\* not blocked by its turn limit, not killed, not after the step went to
\* another worker (run_step, complete_step, TaskManager.finish).
DoneMeansReported ==
  [][\A s \in Step :
       Settled(steps'[s]) /\ ~Settled(steps[s]) =>
         /\ steps[s].status = "claimed" /\ steps[s].ttl > 0
         /\ steps'[s].status = "done" =>
              /\ runs[steps[s].token].state = "over"
              /\ runs[steps[s].token].report = "completed"]_vars

\* The tool a worker is given by routing is the tool of a leaf that a path of
\* the tree leads to (route_task, traverse).
RoutedToLeaf ==
  \A d \in Dispatcher : req[d].tree # None =>
    /\ IsPath(req[d].tree, req[d].path)
    /\ req[d].tool = req[d].path[Len(req[d].path)].option.tool
=============================================================================
