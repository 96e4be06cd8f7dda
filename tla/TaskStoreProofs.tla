--------------------------- MODULE TaskStoreProofs ----------------------------
(***************************************************************************)
(* Theorems about TaskStore, for every set of tasks, steps, tokens and     *)
(* clients and every lease length.                                         *)
(***************************************************************************)
EXTENDS TaskStore, TLAPS

-----------------------------------------------------------------------------
(* Types, on either engine.                                                *)

WellFormed == TypeOK /\ RequestsWellFormed /\ RowsWellFormed

LEMMA RowFacts ==
  ASSUME NEW row \in StepRow, NEW t \in Task, NEW tok \in Token,
         NEW lag \in 0 .. MaxLag, NEW outcome \in {"done", "failed"}
  PROVE  /\ Pending(t) \in StepRow
         /\ Claimed(row, tok, MaxLease - lag) \in StepRow
         /\ Finished(row, outcome) \in StepRow
BY TaskRowsAssumption
   DEF StepRow, Pending, Claimed, Finished, Ttl, LongExpired

LEMMA InitRowFacts == NoStep \in StepRow /\ NoTask \in TaskRow /\ NewTask \in TaskRow
BY TaskRowsAssumption
   DEF StepRow, TaskRow, NoStep, NoTask, NewTask, Ttl, LongExpired

LEMMA NewRequestType ==
  ASSUME NEW op \in {"none", "add_step", "claim", "finish"},
         NEW t \in Task \cup {None}, NEW s \in Step \cup {None},
         NEW tok \in Token \cup {None}, NEW outcome \in {"none", "done", "failed"}
  PROVE  NewRequest(op, t, s, tok, outcome) \in Request
BY TaskRowsAssumption DEF NewRequest, Request

LEMMA NoRequestType == NoRequest \in Request /\ NoRequest.op = "none"
                       /\ NoRequest.verdict = "none"
BY NewRequestType DEF NoRequest, NewRequest

LEMMA AgedFacts ==
  ASSUME steps \in [Step -> StepRow], steps' = Aged(steps)
  PROVE  /\ steps' \in [Step -> StepRow]
         /\ \A s \in Step : /\ steps'[s].status = steps[s].status
                            /\ steps'[s].task = steps[s].task
                            /\ steps'[s].token = steps[s].token
                            /\ steps'[s].ttl \in {steps[s].ttl, steps[s].ttl - 1}
                            /\ steps[s].status = "claimed" =>
                                 \/ steps'[s].ttl = steps[s].ttl - 1
                                 \/ steps[s].ttl = LongExpired /\ steps'[s].ttl = LongExpired
<1>1. ASSUME NEW s \in Step
      PROVE  /\ steps'[s] \in StepRow
             /\ steps'[s].status = steps[s].status
             /\ steps'[s].task = steps[s].task
             /\ steps'[s].token = steps[s].token
             /\ steps'[s].ttl \in {steps[s].ttl, steps[s].ttl - 1}
             /\ steps[s].status = "claimed" =>
                  \/ steps'[s].ttl = steps[s].ttl - 1
                  \/ steps[s].ttl = LongExpired /\ steps'[s].ttl = LongExpired
  <2>1. steps'[s] = [steps[s] EXCEPT !.ttl =
                       IF steps[s].status = "claimed" /\ @ > LongExpired
                       THEN @ - 1 ELSE @]
    BY DEF Aged
  <2>2. steps[s] \in StepRow
    OBVIOUS
  <2> QED BY <2>1, <2>2, TaskRowsAssumption DEF StepRow, Ttl, LongExpired
<1>2. steps' \in [Step -> StepRow]
  <2>1. DOMAIN steps' = Step /\ steps' = [s \in Step |-> steps'[s]]
    BY DEF Aged
  <2> QED BY <2>1, <1>1
<1> QED BY <1>1, <1>2

LEMMA LeaveType ==
  ASSUME TypeOK, NEW c \in Client, Leave(c)
  PROVE  /\ writer' \in Client \cup {None}
         /\ pc' \in [Client -> Phase]
         /\ req' \in [Client -> Request]
BY NoRequestType DEF TypeOK, Leave, Goto, Phase

LEMMA FailType ==
  ASSUME TypeOK, NEW c \in Client, Fail(c)
  PROVE  TypeOK'
<1>1. held' \in [Client -> Lease \cup {NoLease}]
  BY DEF Fail, TypeOK
<1> QED BY <1>1, LeaveType DEF Fail, TypeOK

LEMMA CallType ==
  ASSUME WellFormed, NEW c \in Client, Call(c)
  PROVE  TypeOK'
<1> USE DEF WellFormed, TypeOK
<1>1. ASSUME NEW t \in Task, NEW s \in Step, CallAddStep(c, t, s)
      PROVE  TypeOK'
  BY <1>1, NewRequestType DEF CallAddStep, Goto, Phase
<1>2. ASSUME NEW s \in Step, NEW tok \in Token, CallClaim(c, s, tok)
      PROVE  TypeOK'
  <2>1. steps[s].task \in Task \cup {None}
    BY DEF StepRow
  <2> QED BY <1>2, <2>1, NewRequestType DEF CallClaim, Goto, Phase
<1>3. ASSUME NEW t \in Task \cup {None}, NEW outcome \in {"done", "failed"},
             CallFinish(c, t, outcome)
      PROVE  TypeOK'
  <2>1. held[c].step \in Step /\ held[c].token \in Token
    BY <1>3 DEF CallFinish, Lease
  <2> QED BY <1>3, <2>1, NewRequestType DEF CallFinish, Goto, Phase
<1> QED BY <1>1, <1>2, <1>3 DEF Call

LEMMA OwnViewType ==
  ASSUME TypeOK, NEW c \in Client, req[c].step \in Step,
         req[c].outcome \in {"done", "failed"}
  PROVE  /\ OwnView(c) \in [Step -> StepRow]
         /\ OwnView(c)[req[c].step] = Finished(steps[req[c].step], req[c].outcome)
         /\ \A s \in Step \ {req[c].step} : OwnView(c)[s] = steps[s]
<1>1. steps[req[c].step] \in StepRow /\ steps \in [Step -> StepRow]
  BY DEF TypeOK
<1>2. Finished(steps[req[c].step], req[c].outcome) \in StepRow
  BY <1>1, RowFacts, TaskRowsAssumption
     DEF StepRow, Finished, Ttl, LongExpired
<1> QED BY <1>1, <1>2 DEF OwnView

LEMMA StatementType ==
  ASSUME WellFormed, NEW c \in Client, Statement(c)
  PROVE  TypeOK'
<1> USE DEF WellFormed
<1>0. TypeOK /\ req[c] \in Request
  BY DEF TypeOK
<1>1. CASE Begin(c)
  BY <1>0, <1>1 DEF Begin, TypeOK, Goto, Phase
<1>2. CASE LockTimeout(c)
  BY <1>0, <1>2, FailType DEF LockTimeout
<1>3. CASE ReadTask(c)
  <2>1. CASE tasks[req[c].task].terminal
    BY <1>0, <1>3, <2>1, FailType DEF ReadTask
  <2>2. CASE ~tasks[req[c].task].terminal
    <3>1. [req[c] EXCEPT !.seen = StepsOf(steps, req[c].task)] \in Request
      BY <1>0 DEF Request, StepsOf
    <3> QED BY <1>0, <1>3, <2>2, <3>1 DEF ReadTask, TypeOK, Goto, Phase
  <2> QED BY <2>1, <2>2
<1>4. CASE InsertStep(c)
  <2>1. CASE StepsOf(steps, req[c].task) # req[c].seen
    BY <1>0, <1>4, <2>1, FailType DEF InsertStep
  <2>2. CASE StepsOf(steps, req[c].task) = req[c].seen
    BY <1>0, <1>4, <2>2 DEF InsertStep, TypeOK, Goto, Phase
  <2> QED BY <2>1, <2>2
<1>5. CASE ReadStep(c)
  <2>1. Fail(c) \/ (Goto(c, "update") /\ UNCHANGED <<tasks, steps, writer, req, held>>)
    BY <1>5 DEF ReadStep
  <2> QED BY <1>0, <2>1, FailType DEF TypeOK, Goto, Phase
<1>6. CASE UpdateClaim(c)
  <2>1. Fail(c) \/ (Goto(c, "commit") /\ UNCHANGED <<tasks, steps, writer, req, held>>)
    BY <1>6 DEF UpdateClaim
  <2> QED BY <1>0, <2>1, FailType DEF TypeOK, Goto, Phase
<1>7. CASE UpdateFinish(c)
  <2>1. Fail(c) \/ (Goto(c, "count") /\ UNCHANGED <<tasks, steps, writer, req, held>>)
    BY <1>7 DEF UpdateFinish
  <2> QED BY <1>0, <2>1, FailType DEF TypeOK, Goto, Phase
<1>8. CASE CountRemaining(c)
  BY <1>0, <1>8 DEF CountRemaining, TypeOK, Goto, Phase
<1>9. CASE CloseTask(c)
  <2>1. [req[c] EXCEPT !.verdict = Verdict(OwnView(c), req[c].task)] \in Request
    BY <1>0 DEF Request, Verdict
  <2> QED BY <1>0, <1>9, <2>1 DEF CloseTask, TypeOK, Goto, Phase
<1>10. CASE CommitAdd(c)
  <2>1. req[c].task \in Task /\ Pending(req[c].task) \in StepRow
    BY <1>10, TaskRowsAssumption
       DEF CommitAdd, RequestsWellFormed, WellFormedRequest, StepRow, Pending, Ttl, LongExpired
  <2> QED BY <1>0, <1>10, <2>1, LeaveType DEF CommitAdd, TypeOK
<1>11. CASE CommitClaim(c)
  <2>1. req[c].step \in Step /\ req[c].token \in Token /\ req[c].lag \in 0 .. MaxLag
    BY <1>0, <1>11 DEF CommitClaim, RequestsWellFormed, WellFormedRequest, Request
  <2>2. Claimed(steps[req[c].step], req[c].token, MaxLease - req[c].lag) \in StepRow
    BY <1>0, <2>1, TaskRowsAssumption DEF TypeOK, StepRow, Claimed, Ttl, LongExpired
  <2>3. steps' \in [Step -> StepRow]
    BY <1>0, <1>11, <2>2 DEF CommitClaim, TypeOK
  <2>4. held' \in [Client -> Lease \cup {NoLease}]
    BY <1>0, <1>11, <2>1 DEF CommitClaim, TypeOK, Lease
  <2> QED BY <1>0, <1>11, <2>3, <2>4, LeaveType DEF CommitClaim, TypeOK
<1>12. CASE CommitFinish(c)
  <2>1. req[c].step \in Step /\ req[c].outcome \in {"done", "failed"}
    BY <1>12 DEF CommitFinish, RequestsWellFormed, WellFormedRequest
  <2>2. steps' \in [Step -> StepRow]
    BY <1>0, <1>12, <2>1, OwnViewType DEF CommitFinish
  <2>3. tasks' \in [Task -> TaskRow]
    BY <1>0, <1>12 DEF CommitFinish, TypeOK, Closed, TaskRow, Request
  <2>4. held' \in [Client -> Lease \cup {NoLease}]
    BY <1>0, <1>12 DEF CommitFinish, TypeOK
  <2> QED BY <1>0, <1>12, <2>2, <2>3, <2>4, LeaveType DEF CommitFinish, TypeOK
<1> QED
  BY <1>1, <1>2, <1>3, <1>4, <1>5, <1>6, <1>7, <1>8, <1>9, <1>10, <1>11, <1>12
     DEF Statement

LEMMA TickType ==
  ASSUME TypeOK, Tick
  PROVE  TypeOK'
<1>1. steps' \in [Step -> StepRow]
  BY AgedFacts DEF Tick, TypeOK
<1>2. ASSUME NEW c \in Client
      PROVE  req'[c] \in Request
  <2>1. req[c] \in Request
    BY DEF TypeOK
  <2>2. CASE ClockRead(c)
    <3>1. req[c].lag < MaxLag
      BY <2>2 DEF Tick
    <3>2. req'[c] = [req[c] EXCEPT !.lag = @ + 1]
      BY <2>2 DEF Tick
    <3> QED BY <2>1, <3>1, <3>2, TaskRowsAssumption DEF Request
  <2>3. CASE ~ClockRead(c)
    BY <2>1, <2>3 DEF Tick
  <2> QED BY <2>2, <2>3
<1>3. req' \in [Client -> Request]
  BY <1>2 DEF Tick
<1> QED BY <1>1, <1>3 DEF Tick, TypeOK

LEMMA NextType ==
  ASSUME WellFormed, [Next]_vars
  PROVE  TypeOK'
<1>0. TypeOK
  BY DEF WellFormed
<1>1. ASSUME NEW t \in Task, CreateTask(t) \/ RouteDenied(t) \/ RouteResolved(t)
      PROVE  TypeOK'
  BY <1>0, <1>1, InitRowFacts
     DEF TypeOK, CreateTask, RouteDenied, RouteResolved, TaskRow
<1>2. ASSUME NEW c \in Client, Crash(c)
      PROVE  TypeOK'
  BY <1>0, <1>2, LeaveType DEF TypeOK, Crash
<1>3. CASE UNCHANGED vars
  BY <1>0, <1>3 DEF TypeOK, vars
<1> QED
  BY <1>0, <1>1, <1>2, <1>3, CallType, StatementType, TickType DEF Next

-----------------------------------------------------------------------------
(* Requests and rows stay well formed.                                     *)

\* Leaving, with no step row gone or come into being but perhaps one that an
\* add_step of this client has inserted.
LEMMA LeaveWellFormed ==
  ASSUME WellFormed, NEW c \in Client, Leave(c),
         \A s \in Step : /\ steps[s].status # "absent" => steps'[s].status # "absent"
                         /\ steps[s].status # "absent" => steps'[s].task = steps[s].task,
         \A s \in Step : steps'[s].status # "absent" =>
                            steps[s].status # "absent" \/ s = req[c].step
  PROVE  RequestsWellFormed'
<1>1. ASSUME NEW d \in Client, d # c
      PROVE  req'[d] = req[d] /\ pc'[d] = pc[d]
  BY <1>1 DEF Leave, Goto, WellFormed, TypeOK
<1>2. req'[c] = NoRequest /\ pc'[c] = "idle"
  BY DEF Leave, Goto, WellFormed, TypeOK
<1>3. req'[c].op = "none" /\ req'[c].verdict = "none" /\ req'[c].step \notin Step
  BY <1>2, TaskRowsAssumption DEF NoRequest, NewRequest
<1>4. ASSUME NEW d \in Client, d # c, req[d].op = "add_step"
      PROVE  req[d].step # req[c].step /\ steps'[req[d].step].status = "absent"
  BY <1>4 DEF WellFormed, RequestsWellFormed, WellFormedRequest
<1> QED
  BY <1>1, <1>2, <1>3, <1>4 DEF WellFormed, RequestsWellFormed, WellFormedRequest

LEMMA FailWellFormed ==
  ASSUME WellFormed, NEW c \in Client, Fail(c)
  PROVE  RequestsWellFormed' /\ RowsWellFormed'
<1>1. UNCHANGED steps /\ Leave(c)
  BY DEF Fail
<1>2. RequestsWellFormed'
  BY <1>1, LeaveWellFormed
<1>3. \A d \in Client : held'[d] = held[d] \/ held'[d] = NoLease
  BY DEF Fail, WellFormed, TypeOK
<1> QED BY <1>1, <1>2, <1>3 DEF WellFormed, RowsWellFormed

\* A statement in the middle of a transaction: only the phase and the request's
\* notes (seen, verdict) change.
LEMMA MiddleWellFormed ==
  ASSUME WellFormed, NEW c \in Client, UNCHANGED <<steps, held>>,
         NEW phase \in Phase \ {"idle"}, Goto(c, phase),
         \A d \in Client \ {c} : req'[d] = req[d],
         req'[c].op = req[c].op, req'[c].task = req[c].task,
         req'[c].step = req[c].step, req'[c].token = req[c].token,
         req'[c].outcome = req[c].outcome,
         pc[c] # "idle",
         req[c].op = "add_step" => phase \in {"begin", "read", "insert", "commit"},
         req[c].op = "claim" => phase \in {"begin", "read", "update", "commit"},
         req[c].op = "finish" => phase \in {"begin", "update", "count", "close", "commit"},
         req'[c].verdict # "none" =>
           req[c].op = "finish" /\ phase = "commit" /\ req[c].task \in Task
  PROVE  RequestsWellFormed' /\ RowsWellFormed'
<1>1. pc'[c] = phase /\ \A d \in Client \ {c} : pc'[d] = pc[d]
  BY DEF Goto, WellFormed, TypeOK
<1>2. RowsWellFormed'
  BY DEF WellFormed, RowsWellFormed
<1> QED BY <1>1, <1>2 DEF WellFormed, RequestsWellFormed, WellFormedRequest

LEMMA CallWellFormed ==
  ASSUME WellFormed, NEW c \in Client, Call(c)
  PROVE  RequestsWellFormed' /\ RowsWellFormed'
<1>0. /\ UNCHANGED <<steps, held>>
      /\ pc'[c] = "begin" /\ \A d \in Client \ {c} : pc'[d] = pc[d] /\ req'[d] = req[d]
  BY DEF Call, CallAddStep, CallClaim, CallFinish, Goto, WellFormed, TypeOK
<1>1. RowsWellFormed'
  BY <1>0 DEF WellFormed, RowsWellFormed
<1>2. ASSUME NEW t \in Task, NEW s \in Step, CallAddStep(c, t, s)
      PROVE  RequestsWellFormed'
  <2>1. req'[c] = NewRequest("add_step", t, s, None, "none")
    BY <1>2 DEF CallAddStep, WellFormed, TypeOK
  <2> QED BY <1>0, <1>2, <2>1
          DEF WellFormed, RequestsWellFormed, WellFormedRequest, CallAddStep, NewRequest
<1>3. ASSUME NEW s \in Step, NEW tok \in Token, CallClaim(c, s, tok)
      PROVE  RequestsWellFormed'
  <2>1. req'[c] = NewRequest("claim", steps[s].task, s, tok, "none")
    BY <1>3 DEF CallClaim, WellFormed, TypeOK
  <2> QED BY <1>0, <1>3, <2>1
          DEF WellFormed, RequestsWellFormed, WellFormedRequest, CallClaim, NewRequest
<1>4. ASSUME NEW t \in Task \cup {None}, NEW outcome \in {"done", "failed"},
             CallFinish(c, t, outcome)
      PROVE  RequestsWellFormed'
  <2>1. req'[c] = NewRequest("finish", t, held[c].step, held[c].token, outcome)
    BY <1>4 DEF CallFinish, WellFormed, TypeOK
  <2>2. held[c].step \in Step /\ steps[held[c].step].status # "absent"
    BY <1>4 DEF CallFinish, WellFormed, TypeOK, RowsWellFormed, Lease
  <2> QED BY <1>0, <2>1, <2>2 DEF WellFormed, RequestsWellFormed, WellFormedRequest, NewRequest
<1> QED BY <1>1, <1>2, <1>3, <1>4 DEF Call

LEMMA StatementWellFormed ==
  ASSUME WellFormed, NEW c \in Client, Statement(c)
  PROVE  RequestsWellFormed' /\ RowsWellFormed'
<1> DEFINE Moves(phase) == Goto(c, phase) /\ UNCHANGED <<tasks, steps, writer, req, held>>
<1>0. /\ TypeOK /\ RequestsWellFormed /\ RowsWellFormed
      /\ req[c] \in Request
      /\ req[c].verdict # "none" => pc[c] = "commit"
  BY DEF WellFormed, TypeOK, RequestsWellFormed, WellFormedRequest
<1>1. CASE Begin(c)
  BY <1>0, <1>1, MiddleWellFormed DEF Begin, Phase, Request
<1>2. CASE LockTimeout(c)
  BY <1>2, FailWellFormed DEF LockTimeout
<1>3. CASE ReadTask(c)
  <2>1. CASE tasks[req[c].task].terminal
    BY <1>3, <2>1, FailWellFormed DEF ReadTask
  <2>2. CASE ~tasks[req[c].task].terminal
    <3>1. req'[c] = [req[c] EXCEPT !.seen = StepsOf(steps, req[c].task)]
      BY <1>0, <1>3, <2>2 DEF ReadTask, TypeOK
    <3>2. \A d \in Client \ {c} : req'[d] = req[d]
      BY <1>0, <1>3, <2>2 DEF ReadTask, TypeOK
    <3> QED BY <1>0, <1>3, <2>2, <3>1, <3>2, MiddleWellFormed
            DEF ReadTask, Phase, Request
  <2> QED BY <2>1, <2>2
<1>4. CASE InsertStep(c)
  <2>1. pc[c] = "insert" /\ (Fail(c) \/ Moves("commit"))
    BY <1>4 DEF InsertStep
  <2>2. req[c].op = "add_step"
    BY <1>0, <2>1 DEF RequestsWellFormed, WellFormedRequest, Request
  <2> QED BY <1>0, <2>1, <2>2, FailWellFormed, MiddleWellFormed DEF Phase
<1>5. CASE ReadStep(c)
  <2>1. pc[c] = "read" /\ req[c].op = "claim" /\ (Fail(c) \/ Moves("update"))
    BY <1>5 DEF ReadStep
  <2> QED BY <1>0, <2>1, FailWellFormed, MiddleWellFormed DEF Phase
<1>6. CASE UpdateClaim(c)
  <2>1. pc[c] = "update" /\ req[c].op = "claim" /\ (Fail(c) \/ Moves("commit"))
    BY <1>6 DEF UpdateClaim
  <2> QED BY <1>0, <2>1, FailWellFormed, MiddleWellFormed DEF Phase
<1>7. CASE UpdateFinish(c)
  <2>1. pc[c] = "update" /\ req[c].op = "finish" /\ (Fail(c) \/ Moves("count"))
    BY <1>7 DEF UpdateFinish
  <2> QED BY <1>0, <2>1, FailWellFormed, MiddleWellFormed DEF Phase
<1>8. CASE CountRemaining(c)
  <2>1. pc[c] = "count" /\ (Moves("commit") \/ Moves("close"))
    BY <1>8 DEF CountRemaining
  <2>2. req[c].op = "finish"
    BY <1>0, <2>1 DEF RequestsWellFormed, WellFormedRequest, Request
  <2> QED BY <1>0, <2>1, <2>2, MiddleWellFormed DEF Phase
<1>9. CASE CloseTask(c)
  <2>1. pc[c] = "close" /\ Goto(c, "commit") /\ UNCHANGED <<steps, held>>
    BY <1>9 DEF CloseTask
  <2>2. req[c].op = "finish"
    BY <1>0, <2>1 DEF RequestsWellFormed, WellFormedRequest, Request
  <2>3. /\ \A d \in Client \ {c} : req'[d] = req[d]
        /\ \/ req'[c] = req[c]
           \/ /\ req'[c] = [req[c] EXCEPT !.verdict = Verdict(OwnView(c), req[c].task)]
              /\ req[c].task \in Task
    BY <1>0, <1>9 DEF CloseTask, IsOpen, TypeOK
  <2>4. req[c].verdict = "none"
    BY <1>0, <2>1
  <2> QED BY <1>0, <2>1, <2>2, <2>3, <2>4, MiddleWellFormed DEF Phase, Request
<1>10. CASE CommitAdd(c)
  <2>1. req[c].step \in Step /\ req[c].task \in Task /\ steps[req[c].step].status = "absent"
    BY <1>0, <1>10 DEF CommitAdd, RequestsWellFormed, WellFormedRequest
  <2>2. /\ steps'[req[c].step] = Pending(req[c].task)
        /\ \A s \in Step \ {req[c].step} : steps'[s] = steps[s]
    BY <1>0, <1>10, <2>1 DEF CommitAdd, TypeOK
  <2>3. RequestsWellFormed'
    BY <1>10, <2>1, <2>2, LeaveWellFormed DEF CommitAdd
  <2>4. RowsWellFormed'
    BY <1>0, <1>10, <2>1, <2>2 DEF CommitAdd, RowsWellFormed, Pending, TypeOK, Lease
  <2> QED BY <2>3, <2>4
<1>11. CASE CommitClaim(c)
  <2>1. req[c].step \in Step /\ steps[req[c].step].status # "absent"
    BY <1>0, <1>11 DEF CommitClaim, RequestsWellFormed, WellFormedRequest
  <2>2. /\ steps'[req[c].step] = Claimed(steps[req[c].step], req[c].token, MaxLease - req[c].lag)
        /\ \A s \in Step \ {req[c].step} : steps'[s] = steps[s]
    BY <1>0, <1>11, <2>1 DEF CommitClaim, TypeOK
  <2>3. /\ steps'[req[c].step].status = "claimed"
        /\ steps'[req[c].step].task = steps[req[c].step].task
    BY <2>2 DEF Claimed
  <2>4. RequestsWellFormed'
    BY <1>11, <2>1, <2>2, <2>3, LeaveWellFormed DEF CommitClaim
  <2>5. \A d \in Client : \/ held'[d] = held[d]
                         \/ held'[d].step = req[c].step
    BY <1>0, <1>11 DEF CommitClaim, TypeOK
  <2>6. RowsWellFormed'
    BY <1>0, <2>1, <2>2, <2>3, <2>5 DEF RowsWellFormed, TypeOK, Lease
  <2> QED BY <2>4, <2>6
<1>12. CASE CommitFinish(c)
  <2>1. /\ req[c].step \in Step /\ steps[req[c].step].status # "absent"
        /\ req[c].outcome \in {"done", "failed"}
    BY <1>0, <1>12 DEF CommitFinish, RequestsWellFormed, WellFormedRequest
  <2>2. /\ steps'[req[c].step] = Finished(steps[req[c].step], req[c].outcome)
        /\ \A s \in Step \ {req[c].step} : steps'[s] = steps[s]
    BY <1>0, <1>12, <2>1, OwnViewType DEF CommitFinish
  <2>3. /\ steps'[req[c].step].status # "absent"
        /\ steps'[req[c].step].task = steps[req[c].step].task
    BY <2>1, <2>2 DEF Finished
  <2>4. RequestsWellFormed'
    BY <1>12, <2>1, <2>2, <2>3, LeaveWellFormed DEF CommitFinish
  <2>5. \A d \in Client : held'[d] = held[d] \/ held'[d] = NoLease
    BY <1>0, <1>12 DEF CommitFinish, TypeOK
  <2>6. RowsWellFormed'
    BY <1>0, <2>1, <2>2, <2>3, <2>5 DEF RowsWellFormed, TypeOK, Lease
  <2> QED BY <2>4, <2>6
<1> QED
  BY <1>1, <1>2, <1>3, <1>4, <1>5, <1>6, <1>7, <1>8, <1>9, <1>10, <1>11, <1>12
     DEF Statement

LEMMA NextWellFormed ==
  ASSUME WellFormed, [Next]_vars
  PROVE  WellFormed'
<1>0. TypeOK /\ RequestsWellFormed /\ RowsWellFormed
  BY DEF WellFormed
<1>1. ASSUME NEW t \in Task, CreateTask(t) \/ RouteDenied(t) \/ RouteResolved(t)
      PROVE  RequestsWellFormed' /\ RowsWellFormed'
  BY <1>0, <1>1 DEF CreateTask, RouteDenied, RouteResolved,
                    RequestsWellFormed, WellFormedRequest, RowsWellFormed
<1>2. ASSUME NEW c \in Client, Crash(c)
      PROVE  RequestsWellFormed' /\ RowsWellFormed'
  <2>1. UNCHANGED steps /\ Leave(c) /\ \A d \in Client : held'[d] \in {held[d], NoLease}
    BY <1>0, <1>2 DEF Crash, TypeOK
  <2> QED BY <1>0, <2>1, LeaveWellFormed DEF RowsWellFormed
<1>3. ASSUME Tick
      PROVE  RequestsWellFormed' /\ RowsWellFormed'
  <2>1. \A s \in Step : steps'[s].status = steps[s].status /\ steps'[s].task = steps[s].task
    BY <1>0, <1>3, AgedFacts DEF Tick, TypeOK
  <2>2. \A c \in Client : /\ req'[c].op = req[c].op /\ req'[c].task = req[c].task
                          /\ req'[c].step = req[c].step /\ req'[c].token = req[c].token
                          /\ req'[c].outcome = req[c].outcome
                          /\ req'[c].verdict = req[c].verdict
    BY <1>0, <1>3 DEF Tick, TypeOK, Request
  <2>3. UNCHANGED <<pc, held>>
    BY <1>3 DEF Tick
  <2>4. \A d \in Client : held[d] # NoLease => held[d].step \in Step
    BY <1>0 DEF TypeOK, Lease
  <2>5. RowsWellFormed'
    BY <1>0, <2>1, <2>3, <2>4 DEF RowsWellFormed
  <2>6. \A d \in Client : req[d].op \in {"add_step", "claim", "finish"} => req[d].step \in Step
    BY <1>0 DEF RequestsWellFormed, WellFormedRequest
  <2>7. RequestsWellFormed'
    <3> SUFFICES ASSUME NEW c \in Client
                 PROVE  WellFormedRequest(c)'
      BY DEF RequestsWellFormed
    <3>1. WellFormedRequest(c)
      BY <1>0 DEF RequestsWellFormed
    <3>2. \A d \in Client : req'[d].step = req[d].step
      BY <2>2
    <3>3. req[c].op \in {"add_step", "claim", "finish"} =>
            /\ steps'[req'[c].step].status = steps[req[c].step].status
            /\ steps'[req'[c].step].task = steps[req[c].step].task
      BY <2>1, <2>6, <3>2
    <3>4. pc' = pc
      BY <2>3
    <3> QED BY <2>2, <3>1, <3>2, <3>3, <3>4 DEF WellFormedRequest
  <2> QED BY <2>5, <2>7
<1>4. ASSUME UNCHANGED vars
      PROVE  RequestsWellFormed' /\ RowsWellFormed'
  <2>1. UNCHANGED <<steps, pc, req, held>>
    BY <1>4 DEF vars
  <2>2. RowsWellFormed'
    BY <1>0, <2>1 DEF RowsWellFormed
  <2>3. RequestsWellFormed'
    BY <1>0, <2>1 DEF RequestsWellFormed, WellFormedRequest
  <2> QED BY <2>2, <2>3
<1>5. ASSUME NEW c \in Client, Call(c) \/ Statement(c)
      PROVE  RequestsWellFormed' /\ RowsWellFormed'
  BY <1>5, CallWellFormed, StatementWellFormed
<1>6. ASSUME Next
      PROVE  RequestsWellFormed' /\ RowsWellFormed'
  <2>1. CASE \E t \in Task : CreateTask(t) \/ RouteDenied(t) \/ RouteResolved(t)
    BY <1>1, <2>1
  <2>2. CASE \E c \in Client : Call(c) \/ Statement(c) \/ Crash(c)
    BY <1>2, <1>5, <2>2
  <2> QED BY <1>3, <1>6, <2>1, <2>2 DEF Next
<1>7. RequestsWellFormed' /\ RowsWellFormed'
  BY <1>4, <1>6
<1> QED BY <1>7, NextType DEF WellFormed

LEMMA InitWellFormed == Init => WellFormed
BY InitRowFacts, NoRequestType, TaskRowsAssumption
   DEF Init, WellFormed, TypeOK, RequestsWellFormed, WellFormedRequest, RowsWellFormed, Phase,
       NoStep, NoLease, Lease

\* Every reachable state has the declared types, whichever engine runs it.
THEOREM TypeCorrect == Spec => []TypeOK
<1>1. WellFormed /\ [Next]_vars => WellFormed'
  BY NextWellFormed
<1>2. WellFormed => TypeOK
  BY DEF WellFormed
<1> QED BY InitWellFormed, <1>1, <1>2, PTL DEF Spec

-----------------------------------------------------------------------------
(* The queries look only at a step's task and status.                      *)

LEMMA SameTasks ==
  ASSUME NEW r1, NEW r2, NEW t,
         \A s \in Step : /\ (r2[s].status # "absent" /\ r2[s].task = t)
                            <=> (r1[s].status # "absent" /\ r1[s].task = t)
                         /\ r1[s].status # "absent" /\ r1[s].task = t
                              => r2[s].status = r1[s].status
  PROVE  /\ StepsOf(r2, t) = StepsOf(r1, t)
         /\ Remaining(r2, t) <=> Remaining(r1, t)
         /\ Verdict(r2, t) = Verdict(r1, t)
<1>1. StepsOf(r2, t) = StepsOf(r1, t)
  BY DEF StepsOf
<1>2. \A s \in StepsOf(r1, t) : r2[s].status = r1[s].status
  BY DEF StepsOf
<1> QED BY <1>1, <1>2 DEF Remaining, Verdict, Settled

Tables == TerminalIsSettled /\ VerdictIsTruthful

\* What the two invariants say of one task.
AgreeAt(t) ==
  /\ tasks[t].terminal => ~Remaining(steps, t) /\ tasks[t].status = Verdict(steps, t)
  /\ tasks[t].status \in {"completed", "failed"} => tasks[t].terminal

LEMMA TablesAt ==
  ASSUME Tables, NEW t \in Task
  PROVE  AgreeAt(t)
BY DEF Tables, AgreeAt, TerminalIsSettled, VerdictIsTruthful,
       TerminalSettled, Truthful

LEMMA TablesNext ==
  ASSUME \A t \in Task : AgreeAt(t)'
  PROVE  Tables'
BY DEF Tables, AgreeAt, TerminalIsSettled, VerdictIsTruthful,
       TerminalSettled, Truthful

LEMMA VerdictValue ==
  ASSUME NEW rows, NEW t
  PROVE  Verdict(rows, t) \in {"completed", "failed"}
BY DEF Verdict

-----------------------------------------------------------------------------
(* On SQLite the tables always agree.                                      *)

Inv == TypeOK /\ SqliteInvariant

LEMMA InvParts ==
  Inv => /\ WellFormed /\ TypeOK /\ RequestsWellFormed /\ RowsWellFormed
         /\ LockDiscipline /\ ReadsStillTrue /\ Tables
BY DEF Inv, SqliteInvariant, WellFormed, Tables

\* What a step of client c may do: end the transaction by a commit, or leave
\* the tables alone; the other clients' requests are not touched.
LEMMA StepOfOne ==
  ASSUME TypeOK, NEW c \in Client, Call(c) \/ Statement(c) \/ Crash(c)
  PROVE  /\ \A d \in Client \ {c} : req'[d] = req[d] /\ pc'[d] = pc[d]
         /\ \/ UNCHANGED <<tasks, steps>>
            \/ CommitAdd(c) \/ CommitClaim(c) \/ CommitFinish(c)
<1>1. CASE Call(c)
  BY <1>1 DEF Call, CallAddStep, CallClaim, CallFinish, Goto, TypeOK
<1>2. CASE Crash(c)
  BY <1>2 DEF Crash, Leave, Goto, TypeOK
<1>3. CASE Begin(c) \/ LockTimeout(c)
  BY <1>3 DEF Begin, LockTimeout, Fail, Leave, Goto, TypeOK
<1>4. CASE ReadTask(c) \/ InsertStep(c)
  BY <1>4 DEF ReadTask, InsertStep, Fail, Leave, Goto, TypeOK
<1>5. CASE ReadStep(c) \/ UpdateClaim(c)
  BY <1>5 DEF ReadStep, UpdateClaim, Fail, Leave, Goto, TypeOK
<1>6. CASE UpdateFinish(c) \/ CountRemaining(c) \/ CloseTask(c)
  BY <1>6 DEF UpdateFinish, CountRemaining, CloseTask, Fail, Leave, Goto, TypeOK
<1>7. CASE CommitAdd(c) \/ CommitClaim(c) \/ CommitFinish(c)
  BY <1>7 DEF CommitAdd, CommitClaim, CommitFinish, Leave, Goto, TypeOK
<1> QED BY <1>1, <1>2, <1>3, <1>4, <1>5, <1>6, <1>7 DEF Statement

LEMMA OnlyWriter ==
  ASSUME LockDiscipline, NEW c \in Client, NEW d \in Client, d # c, Writing(c)
  PROVE  ~Writing(d)
BY DEF LockDiscipline

LEMMA LockKept ==
  ASSUME Engine = "sqlite", Inv, [Next]_vars
  PROVE  LockDiscipline'
<1>0. TypeOK /\ LockDiscipline
  BY InvParts
<1>1. ASSUME NEW c \in Client, Call(c)
      PROVE  LockDiscipline'
  BY <1>0, <1>1 DEF Call, CallAddStep, CallClaim, CallFinish, Goto,
                    LockDiscipline, Writing, TypeOK
<1>2. ASSUME NEW c \in Client, Begin(c)
      PROVE  LockDiscipline'
  BY <1>0, <1>2, TaskStoreAssumption
     DEF Begin, WriteLockFree, Goto, LockDiscipline, Writing, TypeOK
<1>3. ASSUME NEW c \in Client, Leave(c)
      PROVE  LockDiscipline'
  BY <1>0, <1>3 DEF Leave, Goto, LockDiscipline, Writing, TypeOK
<1>4. ASSUME NEW c \in Client, NEW phase \in Phase \ {"idle", "begin"},
             Goto(c, phase), UNCHANGED writer, Writing(c)
      PROVE  LockDiscipline'
  BY <1>0, <1>4 DEF Goto, LockDiscipline, Writing, TypeOK
<1>5. ASSUME NEW c \in Client, Statement(c)
      PROVE  LockDiscipline'
  <2>1. CASE Begin(c)
    BY <1>2, <2>1
  <2>2. CASE Leave(c)
    BY <1>3, <2>2
  <2>3. CASE \E phase \in Phase \ {"idle", "begin"} :
               Goto(c, phase) /\ UNCHANGED writer /\ Writing(c)
    BY <1>4, <2>3
  <2>4. CASE LockTimeout(c)
    BY <2>2, <2>4 DEF LockTimeout, Fail
  <2>5. CASE ReadTask(c)
    BY <2>2, <2>3, <2>5 DEF ReadTask, Fail, Writing, Phase
  <2>6. CASE InsertStep(c)
    BY <2>2, <2>3, <2>6 DEF InsertStep, Fail, Writing, Phase
  <2>7. CASE ReadStep(c)
    BY <2>2, <2>3, <2>7 DEF ReadStep, Fail, Writing, Phase
  <2>8. CASE UpdateClaim(c)
    BY <2>2, <2>3, <2>8 DEF UpdateClaim, Fail, Writing, Phase
  <2>9. CASE UpdateFinish(c)
    BY <2>2, <2>3, <2>9 DEF UpdateFinish, Fail, Writing, Phase
  <2>10. CASE CountRemaining(c) \/ CloseTask(c)
    BY <2>3, <2>10 DEF CountRemaining, CloseTask, Writing, Phase
  <2>11. CASE CommitAdd(c) \/ CommitClaim(c) \/ CommitFinish(c)
    BY <2>2, <2>11 DEF CommitAdd, CommitClaim, CommitFinish
  <2> QED BY <1>5, <2>1, <2>4, <2>5, <2>6, <2>7, <2>8, <2>9, <2>10, <2>11 DEF Statement
<1>6. ASSUME NEW c \in Client, Crash(c)
      PROVE  LockDiscipline'
  BY <1>3, <1>6 DEF Crash
<1>7. ASSUME UNCHANGED <<writer, pc>>
      PROVE  LockDiscipline'
  BY <1>0, <1>7 DEF LockDiscipline, Writing
<1>8. ASSUME NEW t \in Task, CreateTask(t) \/ RouteDenied(t) \/ RouteResolved(t)
      PROVE  LockDiscipline'
  BY <1>7, <1>8 DEF CreateTask, RouteDenied, RouteResolved
<1>9. CASE Tick \/ UNCHANGED vars
  BY <1>7, <1>9 DEF Tick, vars
<1> QED BY <1>1, <1>5, <1>6, <1>8, <1>9 DEF Next

LEMMA NotWritingReads ==
  ASSUME NEW d \in Client, ~Writing(d)
  PROVE  ReadsTrue(d)
BY DEF ReadsTrue, Writing

\* A finishing transaction holds the claim of a step of an open task, which need
\* not be the task its lease names.
LEMMA FinishingTask ==
  ASSUME Inv, NEW c \in Client, req[c].op = "finish", Writing(c),
         steps[req[c].step].status = "claimed"
  PROVE  /\ req[c].step \in Step /\ steps[req[c].step].task \in Task
         /\ ~tasks[steps[req[c].step].task].terminal
<1>1. req[c].step \in Step
  BY InvParts DEF RequestsWellFormed, WellFormedRequest
<1>2. steps[req[c].step].task \in Task
  BY <1>1, InvParts DEF RowsWellFormed
<1>3. Remaining(steps, steps[req[c].step].task)
  BY <1>1 DEF Remaining, StepsOf, Settled
<1> QED BY <1>1, <1>2, <1>3, InvParts DEF Tables, TerminalIsSettled, TerminalSettled

LEMMA StatementReads ==
  ASSUME Inv, NEW c \in Client, Statement(c)
  PROVE  ReadsTrue(c)'
<1>0. /\ TypeOK /\ WellFormedRequest(c) /\ ReadsTrue(c)
      /\ req[c] \in Request /\ WellFormed
  BY InvParts DEF RequestsWellFormed, ReadsStillTrue, TypeOK
<1>1. ASSUME Leave(c)
      PROVE  ReadsTrue(c)'
  <2>1. ~Writing(c)'
    BY <1>0, <1>1 DEF Leave, Goto, Writing, TypeOK
  <2> QED BY <2>1 DEF ReadsTrue, Writing
<1>2. CASE Begin(c)
  <2>1. /\ req' = req
        /\ pc'[c] = IF req[c].op = "finish" THEN "update" ELSE "read"
    BY <1>0, <1>2 DEF Begin, Goto, TypeOK
  <2> QED BY <2>1 DEF ReadsTrue
<1>3. CASE LockTimeout(c)
  BY <1>1, <1>3 DEF LockTimeout, Fail
<1>4. CASE ReadTask(c)
  <2>1. CASE tasks[req[c].task].terminal
    BY <1>1, <1>4, <2>1 DEF ReadTask, Fail
  <2>2. CASE ~tasks[req[c].task].terminal
    <3>1. /\ pc'[c] = "insert" /\ tasks' = tasks /\ req[c].op = "add_step"
          /\ req'[c] = [req[c] EXCEPT !.seen = StepsOf(steps, req[c].task)]
      BY <1>0, <1>4, <2>2 DEF ReadTask, Goto, TypeOK
    <3>2. req'[c].op = "add_step" /\ req'[c].task = req[c].task
      BY <1>0, <3>1 DEF Request
    <3> QED BY <2>2, <3>1, <3>2 DEF ReadsTrue
  <2> QED BY <2>1, <2>2
<1>5. CASE InsertStep(c)
  <2>1. CASE Leave(c)
    BY <1>1, <2>1
  <2>2. CASE ~Leave(c)
    <3>1. pc[c] = "insert" /\ pc'[c] = "commit" /\ UNCHANGED <<tasks, steps, req>>
      BY <1>0, <1>5, <2>2 DEF InsertStep, Fail, Goto, TypeOK
    <3>2. req[c].op = "add_step"
      BY <1>0, <3>1 DEF WellFormedRequest, Request
    <3> QED BY <1>0, <3>1, <3>2 DEF ReadsTrue
  <2> QED BY <2>1, <2>2
<1>6. CASE ReadStep(c)
  <2>1. CASE Leave(c)
    BY <1>1, <2>1
  <2>2. CASE ~Leave(c)
    <3>1. /\ req[c].op = "claim" /\ pc'[c] = "update" /\ UNCHANGED <<tasks, steps, req>>
          /\ Claimable(steps[req[c].step], req[c].lag)
          /\ ~tasks[steps[req[c].step].task].terminal
      BY <1>0, <1>6, <2>2 DEF ReadStep, Fail, Goto, TypeOK
    <3> QED BY <3>1 DEF ReadsTrue
  <2> QED BY <2>1, <2>2
<1>7. CASE UpdateClaim(c)
  <2>1. CASE Leave(c)
    BY <1>1, <2>1
  <2>2. CASE ~Leave(c)
    <3>1. /\ pc[c] = "update" /\ req[c].op = "claim"
          /\ pc'[c] = "commit" /\ UNCHANGED <<tasks, steps, req>>
      BY <1>0, <1>7, <2>2 DEF UpdateClaim, Fail, Goto, TypeOK
    <3> QED BY <1>0, <3>1 DEF ReadsTrue
  <2> QED BY <2>1, <2>2
<1>8. CASE UpdateFinish(c)
  <2>1. CASE Leave(c)
    BY <1>1, <2>1
  <2>2. CASE ~Leave(c)
    <3>1. /\ req[c].op = "finish" /\ pc'[c] = "count" /\ UNCHANGED <<tasks, steps, req>>
          /\ steps[req[c].step].status = "claimed"
      BY <1>0, <1>8, <2>2 DEF UpdateFinish, LeaseValid, Fail, Goto, TypeOK
    <3> QED BY <3>1 DEF ReadsTrue
  <2> QED BY <2>1, <2>2
<1>9. CASE CountRemaining(c)
  <2>1. /\ pc[c] = "count" /\ UNCHANGED <<tasks, steps, req>>
        /\ pc'[c] = IF Remaining(OwnView(c), req[c].task) THEN "commit" ELSE "close"
    BY <1>0, <1>9 DEF CountRemaining, Goto, TypeOK
  <2>2. req[c].op = "finish" /\ req[c].verdict = "none"
    BY <1>0, <2>1 DEF WellFormedRequest, Request
  <2>3. OwnView(c)' = OwnView(c)
    BY <2>1 DEF OwnView
  <2>4. steps[req[c].step].status = "claimed"
    BY <1>0, <2>1 DEF ReadsTrue
  <2> QED BY <2>1, <2>2, <2>3, <2>4 DEF ReadsTrue
<1>10. CASE CloseTask(c)
  <2>1. pc[c] = "close" /\ pc'[c] = "commit" /\ UNCHANGED <<tasks, steps>>
    BY <1>0, <1>10 DEF CloseTask, Goto, TypeOK
  <2>2. req[c].op = "finish"
    BY <1>0, <2>1 DEF WellFormedRequest, Request
  <2>3. steps[req[c].step].status = "claimed" /\ ~Remaining(OwnView(c), req[c].task)
    BY <1>0, <2>1 DEF ReadsTrue
  <2>4. req[c].verdict = "none"
    BY <1>0, <2>1 DEF WellFormedRequest
  <2>5. req'[c] = IF IsOpen(tasks, req[c].task)
                  THEN [req[c] EXCEPT !.verdict = Verdict(OwnView(c), req[c].task)]
                  ELSE req[c]
    BY <1>0, <1>10 DEF CloseTask, TypeOK
  <2>6. /\ req'[c].op = "finish" /\ req'[c].step = req[c].step
        /\ req'[c].task = req[c].task /\ req'[c].outcome = req[c].outcome
        /\ req'[c].verdict = IF IsOpen(tasks, req[c].task)
                             THEN Verdict(OwnView(c), req[c].task) ELSE "none"
    BY <1>0, <2>2, <2>4, <2>5 DEF Request
  <2>7. OwnView(c)' = OwnView(c)
    BY <2>1, <2>6 DEF OwnView
  <2>8. IsOpen(tasks', req'[c].task) <=> IsOpen(tasks, req[c].task)
    BY <2>1, <2>6
  <2> QED BY <2>1, <2>3, <2>6, <2>7, <2>8 DEF ReadsTrue
<1>11. CASE CommitAdd(c) \/ CommitClaim(c) \/ CommitFinish(c)
  BY <1>1, <1>11 DEF CommitAdd, CommitClaim, CommitFinish
<1> QED
  BY <1>2, <1>3, <1>4, <1>5, <1>6, <1>7, <1>8, <1>9, <1>10, <1>11 DEF Statement

LEMMA ReadsKept ==
  ASSUME Inv, Engine = "sqlite", [Next]_vars
  PROVE  ReadsStillTrue'
<1>0. TypeOK /\ LockDiscipline /\ ReadsStillTrue /\ WellFormed
  BY InvParts
<1>1. ASSUME NEW d \in Client, UNCHANGED <<tasks, steps>>, req'[d] = req[d], pc'[d] = pc[d]
      PROVE  ReadsTrue(d)'
  <2>1. OwnView(d)' = OwnView(d)
    BY <1>1 DEF OwnView
  <2>2. ReadsTrue(d)
    BY <1>0 DEF ReadsStillTrue
  <2> QED BY <1>1, <2>1, <2>2 DEF ReadsTrue
<1>2. ASSUME NEW d \in Client, pc'[d] \in {"idle", "begin"}
      PROVE  ReadsTrue(d)'
  BY <1>2 DEF ReadsTrue
<1>3. ASSUME NEW c \in Client, Call(c) \/ Statement(c) \/ Crash(c)
      PROVE  ReadsStillTrue'
  <2>1. ASSUME NEW d \in Client \ {c}
        PROVE  ReadsTrue(d)'
    <3>1. req'[d] = req[d] /\ pc'[d] = pc[d]
      BY <1>0, <1>3, StepOfOne
    <3>2. CASE UNCHANGED <<tasks, steps>>
      BY <1>1, <3>1, <3>2
    <3>3. CASE CommitAdd(c) \/ CommitClaim(c) \/ CommitFinish(c)
      <4>1. Writing(c)
        BY <3>3 DEF CommitAdd, CommitClaim, CommitFinish, Writing
      <4>2. ~Writing(d)
        BY <1>0, <4>1, OnlyWriter
      <4> QED BY <1>2, <3>1, <4>2 DEF Writing
    <3> QED BY <1>0, <1>3, <3>2, <3>3, StepOfOne
  <2>2. ReadsTrue(c)'
    <3>1. CASE Statement(c)
      BY <3>1, StatementReads
    <3>2. CASE Call(c) \/ Crash(c)
      <4>1. pc'[c] \in {"idle", "begin"}
        BY <1>0, <3>2 DEF Call, CallAddStep, CallClaim, CallFinish, Crash,
                          Leave, Goto, TypeOK
      <4> QED BY <1>2, <4>1
    <3> QED BY <1>3, <3>1, <3>2
  <2> QED BY <2>1, <2>2 DEF ReadsStillTrue
<1>4. ASSUME NEW t \in Task, CreateTask(t) \/ RouteDenied(t) \/ RouteResolved(t)
      PROVE  ReadsStillTrue'
  <2>1. writer = None /\ UNCHANGED <<pc, req>>
    BY <1>4 DEF CreateTask, RouteDenied, RouteResolved, WriteLockFree
  <2>2. \A d \in Client : pc'[d] \in {"idle", "begin"}
    BY <1>0, <2>1, TaskStoreAssumption DEF LockDiscipline, Writing
  <2> QED BY <1>2, <2>2 DEF ReadsStillTrue
<1>5. ASSUME Tick
      PROVE  ReadsStillTrue'
  <2> SUFFICES ASSUME NEW d \in Client
               PROVE  ReadsTrue(d)'
    BY DEF ReadsStillTrue
  <2>1. /\ ReadsTrue(d) /\ WellFormedRequest(d) /\ req[d] \in Request
        /\ steps \in [Step -> StepRow]
    BY <1>0 DEF ReadsStillTrue, WellFormed, RequestsWellFormed, TypeOK
  <2>2. /\ UNCHANGED <<tasks, pc>>
        /\ req'[d] = IF ClockRead(d) THEN [req[d] EXCEPT !.lag = @ + 1] ELSE req[d]
        /\ ClockRead(d) => req[d].lag < MaxLag
    BY <1>0, <1>5 DEF Tick, TypeOK
  <2>3. /\ req'[d].op = req[d].op /\ req'[d].task = req[d].task
        /\ req'[d].step = req[d].step /\ req'[d].outcome = req[d].outcome
        /\ req'[d].verdict = req[d].verdict
        /\ req[d].op = "claim" => /\ req'[d].lag = req[d].lag + 1
                                 /\ req'[d].lag \in 1 .. MaxLag
    BY <2>1, <2>2, TaskRowsAssumption DEF Request, ClockRead
  <2>4. \A s \in Step : /\ steps'[s].status = steps[s].status
                        /\ steps'[s].task = steps[s].task
                        /\ steps[s].status = "claimed" =>
                             \/ steps'[s].ttl = steps[s].ttl - 1
                             \/ steps[s].ttl = LongExpired /\ steps'[s].ttl = LongExpired
    BY <1>5, <2>1, AgedFacts DEF Tick
  <2>5. CASE ~Writing(d)
    BY <1>2, <2>2, <2>5 DEF Writing
  <2>6. CASE Writing(d) /\ req[d].op = "add_step"
    <3>1. pc[d] \notin {"count", "close"}
      BY <2>1, <2>6 DEF WellFormedRequest
    <3> QED BY <2>1, <2>2, <2>3, <2>6, <3>1 DEF ReadsTrue
  <2>7. CASE Writing(d) /\ req[d].op = "claim"
    <3>1. pc[d] \notin {"count", "close"} /\ req[d].step \in Step
      BY <2>1, <2>7 DEF WellFormedRequest
    <3>2. steps[req[d].step].ttl \in Int /\ req[d].lag \in Int
      BY <2>1, <3>1, TaskRowsAssumption DEF StepRow, Ttl, LongExpired, Request
    <3>3. Claimable(steps[req[d].step], req[d].lag)
            => Claimable(steps'[req[d].step], req'[d].lag)
      BY <2>3, <2>4, <2>7, <3>1, <3>2, TaskRowsAssumption DEF Claimable, LongExpired
    <3> QED BY <2>1, <2>2, <2>3, <2>4, <2>7, <3>1, <3>3 DEF ReadsTrue
  <2>8. CASE Writing(d) /\ req[d].op = "finish"
    <3>1. req[d].step \in Step /\ req[d].outcome \in {"done", "failed"}
      BY <2>1, <2>8 DEF WellFormedRequest
    <3>2. \A s \in Step : /\ OwnView(d)'[s].status = OwnView(d)[s].status
                          /\ OwnView(d)'[s].task = OwnView(d)[s].task
      <4>1. steps' \in [Step -> StepRow]
        BY <1>5, <2>1, AgedFacts DEF Tick
      <4> QED BY <2>1, <2>3, <2>4, <3>1, <4>1 DEF OwnView, Finished
    <3>3. /\ Remaining(OwnView(d)', req[d].task) <=> Remaining(OwnView(d), req[d].task)
          /\ Verdict(OwnView(d)', req[d].task) = Verdict(OwnView(d), req[d].task)
      BY <3>2, SameTasks
    <3> QED BY <2>1, <2>2, <2>3, <2>4, <2>8, <3>1, <3>3 DEF ReadsTrue
  <2>9. CASE Writing(d) /\ req[d].op = "none"
    BY <2>1, <2>9 DEF WellFormedRequest, Writing
  <2> QED BY <2>1, <2>5, <2>6, <2>7, <2>8, <2>9 DEF Request
<1>6. ASSUME UNCHANGED vars
      PROVE  ReadsStillTrue'
  BY <1>0, <1>1, <1>6 DEF ReadsStillTrue, vars
<1> QED BY <1>3, <1>4, <1>5, <1>6 DEF Next

LEMMA AddTables ==
  ASSUME Inv, NEW c \in Client, CommitAdd(c)
  PROVE  Tables'
<1>0. TypeOK /\ Tables
  BY InvParts
<1>1. PICK s \in Step, t \in Task :
        s = req[c].step /\ t = req[c].task /\ steps[s].status = "absent"
  BY InvParts DEF CommitAdd, RequestsWellFormed, WellFormedRequest
<1>2. ~tasks[t].terminal /\ UNCHANGED tasks
  BY <1>1, InvParts DEF CommitAdd, ReadsStillTrue, ReadsTrue
<1>3. steps'[s] = Pending(t) /\ \A q \in Step \ {s} : steps'[q] = steps[q]
  BY <1>0, <1>1 DEF CommitAdd, TypeOK
<1>4. steps'[s].status = "pending" /\ steps'[s].task = t
  BY <1>3 DEF Pending
<1>5. ASSUME NEW u \in Task \ {t}
      PROVE  /\ StepsOf(steps', u) = StepsOf(steps, u)
             /\ Remaining(steps', u) <=> Remaining(steps, u)
             /\ Verdict(steps', u) = Verdict(steps, u)
  <2>1. \A q \in Step : /\ (steps'[q].status # "absent" /\ steps'[q].task = u)
                            <=> (steps[q].status # "absent" /\ steps[q].task = u)
                        /\ steps[q].status # "absent" /\ steps[q].task = u
                             => steps'[q].status = steps[q].status
    BY <1>1, <1>3, <1>4
  <2> QED BY <2>1, SameTasks
<1>6. Remaining(steps', t)
  BY <1>1, <1>4 DEF Remaining, StepsOf, Settled
<1>7. \A u \in Task : AgreeAt(u)
  BY <1>0, TablesAt
<1>8. ASSUME NEW u \in Task \ {t} PROVE AgreeAt(u)'
  <2>1. AgreeAt(u) /\ tasks'[u] = tasks[u]
    BY <1>2, <1>7
  <2>2. /\ StepsOf(steps', u) = StepsOf(steps, u)
        /\ Remaining(steps', u) <=> Remaining(steps, u)
        /\ Verdict(steps', u) = Verdict(steps, u)
    BY <1>5
  <2> QED BY <2>1, <2>2 DEF AgreeAt
<1>9. AgreeAt(t)'
  BY <1>1, <1>2, <1>6, <1>7 DEF AgreeAt
<1> QED BY <1>8, <1>9, TablesNext

LEMMA ClaimTables ==
  ASSUME Inv, NEW c \in Client, CommitClaim(c)
  PROVE  Tables'
<1>0. TypeOK /\ Tables
  BY InvParts
<1>1. PICK s \in Step, t \in Task :
        s = req[c].step /\ t = steps[s].task /\ steps[s].status # "absent"
  BY InvParts DEF CommitClaim, RequestsWellFormed, WellFormedRequest, RowsWellFormed
<1>2. ~tasks[t].terminal /\ UNCHANGED tasks
  BY <1>1, InvParts DEF CommitClaim, ReadsStillTrue, ReadsTrue
<1>3. /\ steps'[s] = Claimed(steps[s], req[c].token, MaxLease - req[c].lag)
      /\ \A q \in Step \ {s} : steps'[q] = steps[q]
  BY <1>0, <1>1 DEF CommitClaim, TypeOK
<1>4. steps'[s].status = "claimed" /\ steps'[s].task = t
  BY <1>1, <1>3 DEF Claimed
<1>5. ASSUME NEW u \in Task \ {t}
      PROVE  /\ StepsOf(steps', u) = StepsOf(steps, u)
             /\ Remaining(steps', u) <=> Remaining(steps, u)
             /\ Verdict(steps', u) = Verdict(steps, u)
  <2>1. \A q \in Step : /\ (steps'[q].status # "absent" /\ steps'[q].task = u)
                            <=> (steps[q].status # "absent" /\ steps[q].task = u)
                        /\ steps[q].status # "absent" /\ steps[q].task = u
                             => steps'[q].status = steps[q].status
    BY <1>1, <1>3, <1>4
  <2> QED BY <2>1, SameTasks
<1>6. Remaining(steps', t)
  BY <1>1, <1>4 DEF Remaining, StepsOf, Settled
<1>7. \A u \in Task : AgreeAt(u)
  BY <1>0, TablesAt
<1>8. ASSUME NEW u \in Task \ {t} PROVE AgreeAt(u)'
  <2>1. AgreeAt(u) /\ tasks'[u] = tasks[u]
    BY <1>2, <1>7
  <2>2. /\ StepsOf(steps', u) = StepsOf(steps, u)
        /\ Remaining(steps', u) <=> Remaining(steps, u)
        /\ Verdict(steps', u) = Verdict(steps, u)
    BY <1>5
  <2> QED BY <2>1, <2>2 DEF AgreeAt
<1>9. AgreeAt(t)'
  BY <1>1, <1>2, <1>6, <1>7 DEF AgreeAt
<1> QED BY <1>8, <1>9, TablesNext

\* What a finish commits: the step of a task that is open so far, and perhaps
\* the row of the task its lease names.
LEMMA FinishRows ==
  ASSUME Inv, NEW c \in Client, CommitFinish(c)
  PROVE  /\ req[c].op = "finish" /\ req[c].outcome \in {"done", "failed"}
         /\ req[c].step \in Step /\ steps[req[c].step].status = "claimed"
         /\ steps[req[c].step].task \in Task
         /\ ~tasks[steps[req[c].step].task].terminal
         /\ steps'[req[c].step] = Finished(steps[req[c].step], req[c].outcome)
         /\ \A q \in Step \ {req[c].step} : steps'[q] = steps[q]
         /\ tasks' = IF IsOpen(tasks, req[c].task) /\ ~Remaining(steps', req[c].task)
                     THEN [tasks EXCEPT ![req[c].task] =
                             Closed(@, Verdict(steps', req[c].task))]
                     ELSE tasks
<1>1. /\ req[c].op = "finish" /\ Writing(c) /\ steps[req[c].step].status = "claimed"
      /\ req[c].outcome \in {"done", "failed"}
      /\ req[c].verdict = IF IsOpen(tasks, req[c].task) /\ ~Remaining(steps', req[c].task)
                          THEN Verdict(steps', req[c].task) ELSE "none"
  BY InvParts DEF CommitFinish, Writing, ReadsStillTrue, ReadsTrue,
                  RequestsWellFormed, WellFormedRequest
<1>2. /\ req[c].step \in Step /\ steps[req[c].step].task \in Task
      /\ ~tasks[steps[req[c].step].task].terminal
  BY <1>1, FinishingTask
<1>3. /\ steps'[req[c].step] = Finished(steps[req[c].step], req[c].outcome)
      /\ \A q \in Step \ {req[c].step} : steps'[q] = steps[q]
  BY <1>1, <1>2, InvParts, OwnViewType DEF CommitFinish
<1>4. tasks' = IF req[c].verdict = "none" THEN tasks
               ELSE [tasks EXCEPT ![req[c].task] = Closed(@, req[c].verdict)]
  BY DEF CommitFinish
<1>5. Verdict(steps', req[c].task) # "none"
  BY VerdictValue
<1> QED BY <1>1, <1>2, <1>3, <1>4, <1>5

LEMMA FinishTables ==
  ASSUME Inv, NEW c \in Client, CommitFinish(c)
  PROVE  Tables'
<1>0. TypeOK /\ Tables
  BY InvParts
<1>a. req[c].task \in Task \cup {None}
  BY <1>0 DEF TypeOK, Request
<1>1. PICK s \in Step, named \in Task \cup {None} :
        /\ s = req[c].step /\ named = req[c].task
        /\ steps'[s] = Finished(steps[s], req[c].outcome)
        /\ \A q \in Step \ {s} : steps'[q] = steps[q]
        /\ steps[s].task \in Task /\ ~tasks[steps[s].task].terminal
        /\ steps[s].status = "claimed" /\ req[c].outcome \in {"done", "failed"}
        /\ tasks' = IF IsOpen(tasks, named) /\ ~Remaining(steps', named)
                    THEN [tasks EXCEPT ![named] = Closed(@, Verdict(steps', named))]
                    ELSE tasks
  BY <1>a, FinishRows
<1>2. steps'[s].status = req[c].outcome /\ steps'[s].task = steps[s].task
  BY <1>1 DEF Finished
<1> SUFFICES ASSUME NEW u \in Task
             PROVE  AgreeAt(u)'
  BY TablesNext
<1>3. AgreeAt(u)
  BY <1>0, TablesAt
<1>4. CASE u = named /\ IsOpen(tasks, named) /\ ~Remaining(steps', named)
  <2>1. tasks'[u] = Closed(tasks[u], Verdict(steps', u))
    BY <1>0, <1>1, <1>4 DEF TypeOK
  <2> QED BY <1>4, <2>1 DEF Closed, AgreeAt
<1>5. CASE ~(u = named /\ IsOpen(tasks, named) /\ ~Remaining(steps', named))
  <2>1. tasks'[u] = tasks[u]
    BY <1>0, <1>1, <1>5 DEF TypeOK
  <2>2. CASE u = steps[s].task
    BY <1>1, <1>3, <2>1, <2>2 DEF AgreeAt
  <2>3. CASE u # steps[s].task
    <3>1. \A q \in Step : /\ (steps'[q].status # "absent" /\ steps'[q].task = u)
                              <=> (steps[q].status # "absent" /\ steps[q].task = u)
                          /\ steps[q].status # "absent" /\ steps[q].task = u
                               => steps'[q].status = steps[q].status
      BY <1>1, <1>2, <2>3
    <3>2. /\ Remaining(steps', u) <=> Remaining(steps, u)
          /\ Verdict(steps', u) = Verdict(steps, u)
      BY <3>1, SameTasks
    <3> QED BY <1>3, <2>1, <3>2 DEF AgreeAt
  <2> QED BY <2>2, <2>3
<1> QED BY <1>4, <1>5

LEMMA TablesKept ==
  ASSUME Inv, [Next]_vars
  PROVE  Tables'
<1>0. TypeOK /\ Tables
  BY InvParts
<1>1. ASSUME UNCHANGED <<tasks, steps>>
      PROVE  Tables'
  BY <1>0, <1>1 DEF Tables, TerminalIsSettled, VerdictIsTruthful,
                    TerminalSettled, Truthful, Remaining, StepsOf, Verdict
<1>2. ASSUME NEW c \in Client, Call(c) \/ Statement(c) \/ Crash(c)
      PROVE  Tables'
  <2>1. \/ UNCHANGED <<tasks, steps>>
        \/ CommitAdd(c) \/ CommitClaim(c) \/ CommitFinish(c)
    BY <1>0, <1>2, StepOfOne
  <2> QED BY <1>1, <2>1, AddTables, ClaimTables, FinishTables
<1>3. ASSUME NEW t \in Task, CreateTask(t) \/ RouteDenied(t) \/ RouteResolved(t)
      PROVE  Tables'
  <2>1. /\ UNCHANGED steps /\ tasks[t].status \notin {"completed", "failed"}
        /\ \A u \in Task \ {t} : tasks'[u] = tasks[u]
        /\ tasks'[t].status \notin {"completed", "failed"}
        /\ tasks'[t].terminal => tasks[t].terminal
    BY <1>0, <1>3 DEF CreateTask, RouteDenied, RouteResolved, NewTask, TypeOK, TaskRow,
                      Tables, VerdictIsTruthful, Truthful
  <2>2. ~tasks[t].terminal
    BY <1>0, <2>1, VerdictValue DEF Tables, VerdictIsTruthful, Truthful
  <2>3. \A u \in Task : /\ StepsOf(steps', u) = StepsOf(steps, u)
                        /\ Remaining(steps', u) <=> Remaining(steps, u)
                        /\ Verdict(steps', u) = Verdict(steps, u)
    BY <2>1, SameTasks
  <2>4. \A u \in Task : AgreeAt(u)
    BY <1>0, TablesAt
  <2>5. ASSUME NEW u \in Task \ {t} PROVE AgreeAt(u)'
    BY <2>1, <2>3, <2>4 DEF AgreeAt
  <2>6. AgreeAt(t)'
    BY <2>1, <2>2, <2>3 DEF AgreeAt
  <2> QED BY <2>5, <2>6, TablesNext
<1>4. ASSUME Tick
      PROVE  Tables'
  <2>1. UNCHANGED tasks /\ \A s \in Step : /\ steps'[s].status = steps[s].status
                                          /\ steps'[s].task = steps[s].task
    BY <1>0, <1>4, AgedFacts DEF Tick, TypeOK
  <2>2. \A u \in Task : /\ StepsOf(steps', u) = StepsOf(steps, u)
                        /\ Remaining(steps', u) <=> Remaining(steps, u)
                        /\ Verdict(steps', u) = Verdict(steps, u)
    BY <2>1, SameTasks
  <2> QED BY <1>0, <2>1, <2>2
          DEF Tables, TerminalIsSettled, VerdictIsTruthful,
              TerminalSettled, Truthful
<1>5. ASSUME UNCHANGED vars
      PROVE  Tables'
  BY <1>1, <1>5 DEF vars
<1> QED BY <1>2, <1>3, <1>4, <1>5 DEF Next

LEMMA InitInv == Init => Inv
<1> SUFFICES ASSUME Init PROVE Inv
  OBVIOUS
<1>1. WellFormed
  BY InitWellFormed
<1>2. LockDiscipline /\ ReadsStillTrue
  BY DEF Init, LockDiscipline, Writing, ReadsStillTrue, ReadsTrue
<1>3. \A t \in Task : StepsOf(steps, t) = {} /\ tasks[t] = NoTask
  BY DEF Init, StepsOf, NoStep
<1>4. Tables
  BY <1>3 DEF Tables, TerminalIsSettled, VerdictIsTruthful,
              TerminalSettled, Truthful, NoTask, Remaining
<1> QED BY <1>1, <1>2, <1>4 DEF Inv, SqliteInvariant, WellFormed, Tables

LEMMA NextInv ==
  ASSUME Engine = "sqlite", Inv, [Next]_vars
  PROVE  Inv'
BY InvParts, NextWellFormed, LockKept, ReadsKept, TablesKept
   DEF Inv, SqliteInvariant, WellFormed, Tables

\* What the tables' agreement rests on, for any number of clients: the write lock
\* held exactly by the one transaction in progress, every statement's reads still
\* true when it writes (store.py, task.py).
THEOREM SqliteInvariantHolds ==
  ASSUME Engine = "sqlite"
  PROVE  Spec => []SqliteInvariant
<1>1. Inv /\ [Next]_vars => Inv'
  BY NextInv
<1>2. Inv => SqliteInvariant
  BY DEF Inv
<1> QED BY InitInv, <1>1, <1>2, PTL DEF Spec

\* On SQLite a task is closed only when none of its steps is open (finish's count
\* of open steps against add_step's insert), whichever task a finish names.
THEOREM ClosedOnlyWhenSettled ==
  ASSUME Engine = "sqlite"
  PROVE  Spec => []TerminalIsSettled
<1>1. Inv /\ [Next]_vars => Inv'
  BY NextInv
<1>2. Inv => TerminalIsSettled
  BY DEF Inv, SqliteInvariant
<1> QED BY InitInv, <1>1, <1>2, PTL DEF Spec

\* On SQLite a closed task's verdict is that of its steps, and routing never
\* reopens or parks it (finish, route_task).
THEOREM VerdictsAreTruthful ==
  ASSUME Engine = "sqlite"
  PROVE  Spec => []VerdictIsTruthful
<1>1. Inv /\ [Next]_vars => Inv'
  BY NextInv
<1>2. Inv => VerdictIsTruthful
  BY DEF Inv, SqliteInvariant
<1> QED BY InitInv, <1>1, <1>2, PTL DEF Spec

-----------------------------------------------------------------------------
(* On either engine, row locks guard leases and outcomes.                  *)

\* What an UPDATE found in its row is still so when the transaction commits: a
\* claim's row may be claimed, a finish's row bears the token it presented.
RowHolds(c) ==
  /\ req[c].op = "claim" /\ pc[c] = "commit" =>
       Claimable(steps[req[c].step], req[c].lag)
  /\ req[c].op = "finish" /\ pc[c] \in {"count", "close", "commit"} =>
       /\ steps[req[c].step].status = "claimed"
       /\ steps[req[c].step].token = req[c].token

RowsHold == \A c \in Client : RowHolds(c)

\* No two transactions have written one row.
LocksApart ==
  \A c, d \in Client, s \in Step : LocksStep(c, s) /\ LocksStep(d, s) => c = d

RowInvariant == WellFormed /\ LocksApart /\ RowsHold

LEMMA RowParts ==
  RowInvariant => WellFormed /\ TypeOK /\ RequestsWellFormed /\ LocksApart /\ RowsHold
BY DEF RowInvariant, WellFormed

LEMMA StatementHolds ==
  ASSUME WellFormed, NEW c \in Client, RowHolds(c), Statement(c)
  PROVE  RowHolds(c)'
<1>0. /\ TypeOK /\ WellFormedRequest(c) /\ req[c] \in Request
  BY DEF WellFormed, RequestsWellFormed, TypeOK
<1>1. ASSUME Leave(c)
      PROVE  RowHolds(c)'
  BY <1>0, <1>1 DEF Leave, Goto, TypeOK, RowHolds
<1>2. CASE Begin(c)
  BY <1>0, <1>2 DEF Begin, Goto, TypeOK, RowHolds
<1>3. CASE LockTimeout(c) \/ CommitAdd(c) \/ CommitClaim(c) \/ CommitFinish(c)
  BY <1>1, <1>3 DEF LockTimeout, Fail, CommitAdd, CommitClaim, CommitFinish
<1>4. ASSUME ~Leave(c), ReadTask(c) \/ InsertStep(c)
      PROVE  RowHolds(c)'
  <2>1. req'[c].op = req[c].op
    BY <1>0, <1>4 DEF ReadTask, InsertStep, Fail, TypeOK, Request
  <2>2. req[c].op = "add_step"
    BY <1>0, <1>4 DEF ReadTask, InsertStep, WellFormedRequest, Request
  <2> QED BY <2>1, <2>2 DEF RowHolds
<1>5. ASSUME ~Leave(c), ReadStep(c)
      PROVE  RowHolds(c)'
  BY <1>0, <1>5 DEF ReadStep, Fail, Goto, TypeOK, RowHolds
<1>6. ASSUME ~Leave(c), UpdateClaim(c)
      PROVE  RowHolds(c)'
  BY <1>0, <1>6 DEF UpdateClaim, Fail, RowHolds
<1>7. ASSUME ~Leave(c), UpdateFinish(c)
      PROVE  RowHolds(c)'
  BY <1>0, <1>7 DEF UpdateFinish, LeaseValid, Fail, RowHolds
<1>8. CASE CountRemaining(c)
  <2>1. req[c].op = "finish"
    BY <1>0, <1>8 DEF CountRemaining, WellFormedRequest, Request
  <2> QED BY <1>0, <1>8, <2>1 DEF CountRemaining, Goto, RowHolds
<1>9. CASE CloseTask(c)
  <2>1. /\ pc[c] = "close" /\ UNCHANGED steps /\ req[c].op = "finish"
        /\ req'[c].op = req[c].op /\ req'[c].step = req[c].step
        /\ req'[c].token = req[c].token
    BY <1>0, <1>9 DEF CloseTask, TypeOK, Request, WellFormedRequest
  <2> QED BY <2>1 DEF RowHolds
<1> QED BY <1>1, <1>2, <1>3, <1>4, <1>5, <1>6, <1>7, <1>8, <1>9 DEF Statement

\* A statement waits for the row it writes; an inserted row is nobody else's.
LEMMA LockTaken ==
  ASSUME WellFormed, NEW c \in Client, Statement(c), NEW s \in Step, LocksStep(c, s)'
  PROVE  LocksStep(c, s) \/ StepFree(c, s)
<1>0. /\ TypeOK /\ WellFormedRequest(c) /\ req[c] \in Request
  BY DEF WellFormed, RequestsWellFormed, TypeOK
<1>1. Leave(c) => FALSE
  BY <1>0 DEF Leave, Goto, TypeOK, LocksStep
<1>2. CASE Begin(c) \/ LockTimeout(c) \/ ReadTask(c) \/ ReadStep(c)
  BY <1>0, <1>1, <1>2 DEF Begin, LockTimeout, ReadTask, ReadStep, Fail, Goto, TypeOK, LocksStep
<1>3. CASE CommitAdd(c) \/ CommitClaim(c) \/ CommitFinish(c)
  BY <1>1, <1>3 DEF CommitAdd, CommitClaim, CommitFinish
<1>4. CASE InsertStep(c)
  <2>1. req[c].op = "add_step" /\ req'[c] = req[c]
    BY <1>0, <1>1, <1>4 DEF InsertStep, Fail, WellFormedRequest, Request
  <2>2. req[c].step = s
    BY <2>1 DEF LocksStep
  <2> QED BY <1>0, <2>1, <2>2 DEF WellFormedRequest, StepFree, LocksStep
<1>5. CASE UpdateClaim(c) \/ UpdateFinish(c)
  <2>1. req'[c] = req[c] /\ StepFree(c, req[c].step)
    BY <1>1, <1>5 DEF UpdateClaim, UpdateFinish, Fail
  <2> QED BY <2>1 DEF LocksStep
<1>6. CASE CountRemaining(c) \/ CloseTask(c)
  <2>1. pc[c] \in {"count", "close"} /\ req'[c].step = req[c].step
    BY <1>0, <1>6 DEF CountRemaining, CloseTask, TypeOK, Request
  <2> QED BY <2>1 DEF LocksStep
<1> QED BY <1>2, <1>3, <1>4, <1>5, <1>6 DEF Statement

\* What the three commits do to the rows of steps.
LEMMA CommitRows ==
  ASSUME RowInvariant, NEW c \in Client,
         CommitAdd(c) \/ CommitClaim(c) \/ CommitFinish(c)
  PROVE  /\ LocksStep(c, req[c].step) /\ req[c].step \in Step
         /\ \A q \in Step \ {req[c].step} : steps'[q] = steps[q]
         /\ \/ /\ CommitAdd(c)
               /\ steps[req[c].step].status = "absent"
               /\ steps'[req[c].step].status = "pending"
               /\ steps'[req[c].step].task = req[c].task
            \/ /\ Claimable(steps[req[c].step], req[c].lag)
               /\ steps[req[c].step].status \in {"pending", "claimed"}
               /\ steps'[req[c].step].status = "claimed"
               /\ steps'[req[c].step].task = steps[req[c].step].task
            \/ /\ req[c].op = "finish"
               /\ steps[req[c].step].status = "claimed"
               /\ steps[req[c].step].token = req[c].token
               /\ steps'[req[c].step].status \in {"done", "failed"}
               /\ steps'[req[c].step].task = steps[req[c].step].task
<1>0. /\ TypeOK /\ WellFormedRequest(c) /\ RowHolds(c)
      /\ steps \in [Step -> StepRow]
  BY RowParts DEF RequestsWellFormed, RowsHold, TypeOK
<1>1. LocksStep(c, req[c].step)
  BY DEF LocksStep, CommitAdd, CommitClaim, CommitFinish
<1>2. CASE CommitAdd(c)
  BY <1>0, <1>1, <1>2 DEF CommitAdd, Pending, WellFormedRequest
<1>3. CASE CommitClaim(c)
  BY <1>0, <1>1, <1>3 DEF CommitClaim, Claimed, Claimable, WellFormedRequest, RowHolds
<1>4. CASE CommitFinish(c)
  <2>1. /\ req[c].op = "finish" /\ req[c].step \in Step /\ req[c].outcome \in {"done", "failed"}
        /\ steps[req[c].step].status = "claimed" /\ steps[req[c].step].token = req[c].token
    BY <1>0, <1>4 DEF CommitFinish, WellFormedRequest, RowHolds
  <2>2. /\ steps'[req[c].step] = Finished(steps[req[c].step], req[c].outcome)
        /\ \A q \in Step \ {req[c].step} : steps'[q] = steps[q]
    BY <1>0, <1>4, <2>1, OwnViewType DEF CommitFinish
  <2>3. /\ steps'[req[c].step].status = req[c].outcome
        /\ steps'[req[c].step].task = steps[req[c].step].task
    BY <2>2 DEF Finished
  <2> QED BY <1>1, <2>1, <2>2, <2>3
<1> QED BY <1>2, <1>3, <1>4

\* A step of one client leaves what the others have locked.
LEMMA OthersHold ==
  ASSUME RowInvariant, NEW c \in Client, Call(c) \/ Statement(c) \/ Crash(c),
         NEW d \in Client, d # c
  PROVE  RowHolds(d)'
<1>0. /\ TypeOK /\ RowHolds(d) /\ WellFormedRequest(d)
  BY RowParts DEF RowsHold, RequestsWellFormed
<1>1. /\ req'[d] = req[d] /\ pc'[d] = pc[d]
      /\ \/ UNCHANGED steps
         \/ CommitAdd(c) \/ CommitClaim(c) \/ CommitFinish(c)
  BY <1>0, StepOfOne
<1>2. CASE UNCHANGED steps
  BY <1>0, <1>1, <1>2 DEF RowHolds
<1>3. CASE CommitAdd(c) \/ CommitClaim(c) \/ CommitFinish(c)
  <2>1. /\ LocksStep(c, req[c].step) /\ req[c].step \in Step
        /\ \A q \in Step \ {req[c].step} : steps'[q] = steps[q]
    BY <1>3, CommitRows
  <2>2. req[d].op \in {"claim", "finish"} /\ pc[d] \in {"count", "close", "commit"} =>
          req[d].step \in Step \ {req[c].step}
    BY <1>0, <2>1, RowParts DEF WellFormedRequest, LocksApart, LocksStep
  <2> QED BY <1>0, <1>1, <2>1, <2>2 DEF RowHolds
<1> QED BY <1>1, <1>2, <1>3

LEMMA TickHolds ==
  ASSUME RowInvariant, Tick, NEW d \in Client
  PROVE  RowHolds(d)'
<1>0. /\ TypeOK /\ RowHolds(d) /\ WellFormedRequest(d)
      /\ req[d] \in Request /\ steps \in [Step -> StepRow] /\ steps' = Aged(steps)
  BY RowParts DEF RowsHold, RequestsWellFormed, TypeOK, Tick
<1>1. /\ req'[d].op = req[d].op /\ req'[d].step = req[d].step
      /\ req'[d].token = req[d].token /\ pc' = pc
      /\ req[d].op = "claim" => req'[d].lag = req[d].lag + 1 /\ req[d].lag < MaxLag
  BY <1>0 DEF Tick, TypeOK, Request, ClockRead
<1>2. ASSUME req[d].op = "finish"
      PROVE  RowHolds(d)'
  <2>1. req[d].step \in Step
    BY <1>0, <1>2 DEF WellFormedRequest
  <2> QED BY <1>0, <1>1, <1>2, <2>1, AgedFacts DEF RowHolds
<1>3. ASSUME req[d].op = "claim", pc[d] = "commit"
      PROVE  RowHolds(d)'
  <2> DEFINE row == steps[req[d].step]
  <2>1. /\ req[d].step \in Step /\ Claimable(row, req[d].lag)
        /\ row.ttl \in Int /\ req[d].lag \in 0 .. MaxLag
    BY <1>0, <1>3, TaskRowsAssumption DEF WellFormedRequest, RowHolds, StepRow, Ttl, LongExpired, Request
  <2>2. /\ steps'[req[d].step].status = row.status
        /\ row.status = "claimed" =>
             \/ steps'[req[d].step].ttl = row.ttl - 1
             \/ steps'[req[d].step].ttl = LongExpired
    BY <1>0, <2>1, AgedFacts
  <2>3. Claimable(steps'[req[d].step], req[d].lag + 1)
    BY <1>1, <1>3, <2>1, <2>2, TaskRowsAssumption DEF Claimable, LongExpired
  <2> QED BY <1>1, <1>3, <2>3 DEF RowHolds
<1> QED BY <1>1, <1>2, <1>3 DEF RowHolds

LEMMA LocksKept ==
  ASSUME RowInvariant, NEW c \in Client, Call(c) \/ Statement(c) \/ Crash(c)
  PROVE  LocksApart'
<1>0. TypeOK /\ LocksApart /\ WellFormed
  BY RowParts
<1>1. \A d \in Client \ {c} : req'[d] = req[d] /\ pc'[d] = pc[d]
  BY <1>0, StepOfOne
<1>2. ASSUME NEW s \in Step, LocksStep(c, s)'
      PROVE  \A d \in Client \ {c} : ~LocksStep(d, s)
  <2>1. Statement(c)
    BY <1>0, <1>2 DEF Call, CallAddStep, CallClaim, CallFinish, Crash, Leave, Goto, TypeOK, LocksStep
  <2>2. LocksStep(c, s) \/ StepFree(c, s)
    BY <1>0, <1>2, <2>1, LockTaken
  <2> QED BY <1>0, <2>2 DEF LocksApart, StepFree
<1>3. \A d \in Client \ {c}, s \in Step : LocksStep(d, s)' <=> LocksStep(d, s)
  BY <1>1 DEF LocksStep
<1> QED BY <1>0, <1>2, <1>3 DEF LocksApart

LEMMA RowKept ==
  ASSUME RowInvariant, [Next]_vars
  PROVE  RowInvariant'
<1>0. WellFormed' /\ TypeOK /\ WellFormed
  BY RowParts, NextWellFormed
<1>1. ASSUME UNCHANGED <<steps, pc, req>>
      PROVE  LocksApart' /\ RowsHold'
  BY <1>1 DEF RowInvariant, LocksApart, LocksStep, RowsHold, RowHolds
<1>2. ASSUME NEW c \in Client, Call(c) \/ Statement(c) \/ Crash(c)
      PROVE  LocksApart' /\ RowsHold'
  <2>1. RowHolds(c)'
    <3>1. CASE Statement(c)
      BY <1>0, <3>1, RowParts, StatementHolds DEF RowsHold
    <3>2. CASE Call(c) \/ Crash(c)
      BY <1>0, <3>2 DEF Call, CallAddStep, CallClaim, CallFinish, Crash, Leave, Goto, TypeOK, RowHolds
    <3> QED BY <1>2, <3>1, <3>2
  <2>2. RowsHold'
    BY <1>2, <2>1, OthersHold DEF RowsHold
  <2> QED BY <1>2, <2>2, LocksKept
<1>3. CASE Tick
  <2>1. \A d \in Client : req'[d].step = req[d].step /\ pc' = pc
    BY <1>0, <1>3 DEF Tick, TypeOK, Request
  <2>2. LocksApart'
    BY <2>1 DEF RowInvariant, LocksApart, LocksStep
  <2> QED BY <1>0, <1>3, <2>2, TickHolds DEF RowsHold, RowInvariant
<1>4. ASSUME NEW t \in Task, CreateTask(t) \/ RouteDenied(t) \/ RouteResolved(t)
      PROVE  UNCHANGED <<steps, pc, req>>
  BY <1>4 DEF CreateTask, RouteDenied, RouteResolved
<1> QED BY <1>0, <1>1, <1>2, <1>3, <1>4 DEF Next, vars, RowInvariant

LEMMA InitRows == Init => RowInvariant
BY InitWellFormed DEF Init, RowInvariant, LocksApart, LocksStep, RowsHold, RowHolds

\* On either engine no two transactions hold one row, and what an UPDATE found in
\* its row is still so at the commit (claim, finish; PostgreSQL's row locks).
THEOREM RowInvariantHolds == Spec => []RowInvariant
BY InitRows, RowKept, PTL DEF Spec

LEMMA AgedSettled ==
  ASSUME steps \in [Step -> StepRow], steps' = Aged(steps), NEW s \in Step, Settled(steps[s])
  PROVE  steps'[s] = steps[s]
BY DEF Aged, Settled, StepRow

\* A step either is a request's commit, or leaves the rows of steps alone, or is
\* the tick that ages them.
LEMMA RowsChange ==
  ASSUME TypeOK, [Next]_vars
  PROVE  \/ UNCHANGED steps
         \/ Tick
         \/ \E c \in Client : CommitAdd(c) \/ CommitClaim(c) \/ CommitFinish(c)
<1>1. ASSUME NEW c \in Client, Call(c) \/ Statement(c) \/ Crash(c)
      PROVE  UNCHANGED steps \/ CommitAdd(c) \/ CommitClaim(c) \/ CommitFinish(c)
  BY <1>1, StepOfOne
<1>2. ASSUME NEW t \in Task, CreateTask(t) \/ RouteDenied(t) \/ RouteResolved(t)
      PROVE  UNCHANGED steps
  BY <1>2 DEF CreateTask, RouteDenied, RouteResolved
<1> QED BY <1>1, <1>2 DEF Next, vars

LEMMA OutcomeStep ==
  ASSUME RowInvariant, [Next]_vars, NEW s \in Step
  PROVE  /\ Settled(steps[s]) => steps'[s] = steps[s]
         /\ ~Settled(steps[s]) /\ Settled(steps'[s]) =>
              /\ steps[s].status = "claimed"
              /\ \E c \in Client : /\ req[c].op = "finish" /\ req[c].step = s
                                   /\ req[c].token = steps[s].token
<1>0. TypeOK /\ steps \in [Step -> StepRow]
  BY RowParts DEF TypeOK
<1>1. CASE UNCHANGED steps
  BY <1>1
<1>2. CASE Tick
  <2>1. steps' = Aged(steps)
    BY <1>2 DEF Tick
  <2>2. steps'[s].status = steps[s].status
    BY <1>0, <2>1, AgedFacts
  <2> QED BY <1>0, <2>1, <2>2, AgedSettled DEF Settled
<1>3. CASE \E c \in Client : CommitAdd(c) \/ CommitClaim(c) \/ CommitFinish(c)
  <2>1. PICK c \in Client : CommitAdd(c) \/ CommitClaim(c) \/ CommitFinish(c)
    BY <1>3
  <2> QED BY <2>1, CommitRows DEF Settled
<1> QED BY <1>0, <1>1, <1>2, <1>3, RowsChange

LEMMA LeaseStep ==
  ASSUME RowInvariant, [Next]_vars, NEW s \in Step,
         steps[s].status = "claimed", steps[s].ttl >= 0
  PROVE  steps'[s].token = steps[s].token \/ Settled(steps'[s])
<1>0. TypeOK /\ steps \in [Step -> StepRow] /\ req \in [Client -> Request]
  BY RowParts DEF TypeOK
<1>1. CASE UNCHANGED steps
  BY <1>1
<1>2. CASE Tick
  BY <1>0, <1>2, AgedFacts DEF Tick
<1>3. CASE \E c \in Client : CommitAdd(c) \/ CommitClaim(c) \/ CommitFinish(c)
  <2>1. PICK c \in Client : CommitAdd(c) \/ CommitClaim(c) \/ CommitFinish(c)
    BY <1>3
  <2>2. req[c].lag \in 0 .. MaxLag /\ steps[s].ttl \in Int
    BY <1>0, TaskRowsAssumption DEF Request, StepRow, Ttl, LongExpired
  <2>3. ~Claimable(steps[s], req[c].lag)
    BY <2>2, TaskRowsAssumption DEF Claimable
  <2>4. req[c].step = s => Settled(steps'[s])
    BY <2>1, <2>3, CommitRows DEF Settled
  <2> QED BY <2>1, <2>4, CommitRows
<1> QED BY <1>0, <1>1, <1>2, <1>3, RowsChange

LEMMA ClosedStep ==
  ASSUME Inv, RowInvariant, [Next]_vars, NEW t \in Task, tasks[t].terminal
  PROVE  tasks'[t] = tasks[t] /\ StepsOf(steps', t) = StepsOf(steps, t)
<1>0. TypeOK /\ steps \in [Step -> StepRow] /\ Tables
  BY InvParts DEF TypeOK
<1>1. tasks[t].status \in {"completed", "failed"}
  BY <1>0, VerdictValue DEF Tables, VerdictIsTruthful, Truthful
<1>2. ASSUME NEW c \in Client, CommitAdd(c) \/ CommitClaim(c) \/ CommitFinish(c)
      PROVE  tasks'[t] = tasks[t] /\ StepsOf(steps', t) = StepsOf(steps, t)
  <2>1. tasks'[t] = tasks[t]
    <3>1. CASE CommitAdd(c) \/ CommitClaim(c)
      BY <3>1 DEF CommitAdd, CommitClaim
    <3>2. CASE CommitFinish(c)
      <4>1. tasks' = tasks \/ \E row : IsOpen(tasks, req[c].task)
                                  /\ tasks' = [tasks EXCEPT ![req[c].task] = row]
        BY <3>2, FinishRows
      <4> QED BY <1>0, <4>1 DEF IsOpen, TypeOK
    <3> QED BY <1>2, <3>1, <3>2
  <2>2. ASSUME NEW q \in Step
        PROVE  steps'[q].status # "absent" /\ steps'[q].task = t
                 <=> steps[q].status # "absent" /\ steps[q].task = t
    <3>1. CASE q # req[c].step
      BY <1>2, <3>1, CommitRows
    <3>2. CASE q = req[c].step
      <4>1. CASE steps[q].status = "absent"
        <5>1. CommitAdd(c) /\ steps'[q].status = "pending" /\ steps'[q].task = req[c].task
          BY <1>2, <3>2, <4>1, CommitRows
        <5>2. ~tasks[req[c].task].terminal
          BY <5>1, InvParts DEF CommitAdd, ReadsStillTrue, ReadsTrue
        <5> QED BY <3>2, <4>1, <5>1, <5>2
      <4>2. CASE steps[q].status # "absent"
        BY <1>2, <3>2, <4>2, CommitRows
      <4> QED BY <4>1, <4>2
    <3> QED BY <3>1, <3>2
  <2> QED BY <2>1, <2>2 DEF StepsOf
<1>3. CASE Tick
  <2>1. UNCHANGED tasks /\ \A s \in Step : /\ steps'[s].status = steps[s].status
                                          /\ steps'[s].task = steps[s].task
    BY <1>0, <1>3, AgedFacts DEF Tick
  <2> QED BY <2>1 DEF StepsOf
<1>4. ASSUME NEW c \in Client, Call(c) \/ Statement(c) \/ Crash(c)
      PROVE  tasks'[t] = tasks[t] /\ StepsOf(steps', t) = StepsOf(steps, t)
  <2>1. \/ UNCHANGED <<tasks, steps>>
        \/ CommitAdd(c) \/ CommitClaim(c) \/ CommitFinish(c)
    BY <1>0, <1>4, StepOfOne
  <2> QED BY <1>2, <2>1
<1>5. ASSUME NEW u \in Task, CreateTask(u) \/ RouteDenied(u) \/ RouteResolved(u)
      PROVE  tasks'[t] = tasks[t] /\ StepsOf(steps', t) = StepsOf(steps, t)
  <2>1. u # t
    BY <1>1, <1>5 DEF CreateTask, RouteDenied, RouteResolved
  <2> QED BY <1>0, <1>5, <2>1 DEF CreateTask, RouteDenied, RouteResolved, TypeOK
<1>6. ASSUME UNCHANGED vars
      PROVE  tasks'[t] = tasks[t] /\ StepsOf(steps', t) = StepsOf(steps, t)
  BY <1>6 DEF vars
<1> QED BY <1>3, <1>4, <1>5, <1>6 DEF Next

\* On either engine an outcome is recorded only under the step's current token and
\* then stays: late and repeated completes have no effect (TaskManager.finish).
THEOREM OutcomesAreFenced == Spec => OutcomeIsFenced
<1>1. RowInvariant /\ [Next]_vars =>
        [\A s \in Step :
           /\ Settled(steps[s]) => steps'[s] = steps[s]
           /\ ~Settled(steps[s]) /\ Settled(steps'[s]) =>
                /\ steps[s].status = "claimed"
                /\ \E c \in Client : /\ req[c].op = "finish" /\ req[c].step = s
                                     /\ req[c].token = steps[s].token]_vars
  BY OutcomeStep
<1> QED BY <1>1, RowInvariantHolds, PTL DEF Spec, OutcomeIsFenced

\* On either engine no live lease changes hands, although claim reads the clock
\* before it waits for the lock (TaskManager.claim).
THEOREM LeasesAreNotStolen == Spec => LeaseNotStolen
<1>1. RowInvariant /\ [Next]_vars =>
        [\A s \in Step : steps[s].status = "claimed" /\ steps[s].ttl >= 0
           => steps'[s].token = steps[s].token \/ Settled(steps'[s])]_vars
  BY LeaseStep
<1> QED BY <1>1, RowInvariantHolds, PTL DEF Spec, LeaseNotStolen

\* On SQLite a closed task keeps its verdict and its steps for ever, whatever
\* finish, add_step and route_task do meanwhile.
THEOREM ClosedStaysClosed ==
  ASSUME Engine = "sqlite"
  PROVE  Spec => ClosedIsFinal
<1>1. Inv /\ RowInvariant /\ [Next]_vars =>
        [\A t \in Task : tasks[t].terminal =>
           /\ tasks'[t] = tasks[t]
           /\ StepsOf(steps', t) = StepsOf(steps, t)]_vars
  BY ClosedStep
<1>2. Inv /\ [Next]_vars => Inv'
  BY NextInv
<1> QED BY InitInv, <1>1, <1>2, RowInvariantHolds, PTL DEF Spec, ClosedIsFinal

-----------------------------------------------------------------------------
(* What the row locks keep on PostgreSQL too: a task is closed once.       *)

Closes(c) == req[c].verdict # "none"

\* The request that has updated a task has found it open, it is the only one,
\* and a closed task carries a verdict's word.
CloseInvariant ==
  /\ \A c \in Client : Closes(c) => ~tasks[req[c].task].terminal
  /\ \A c \in Client, d \in Client :
       c # d /\ Closes(c) /\ Closes(d) => req[c].task # req[d].task
  /\ \A t \in Task : tasks[t].terminal => tasks[t].status \in {"completed", "failed"}

LEMMA ClosingTask ==
  ASSUME WellFormed, NEW c \in Client, Closes(c)
  PROVE  /\ req[c].op = "finish" /\ pc[c] = "commit" /\ req[c].task \in Task
         /\ req[c].verdict \in {"completed", "failed"}
<1>1. req[c].op = "finish" /\ pc[c] = "commit"
  BY DEF WellFormed, RequestsWellFormed, WellFormedRequest, Closes
<1>2. req[c].task \in Task
  BY DEF WellFormed, RequestsWellFormed, WellFormedRequest, Closes
<1>3. req[c] \in Request
  BY DEF WellFormed, TypeOK
<1> QED BY <1>1, <1>2, <1>3 DEF Closes, Request

\* What a step of client c does to the task update of its request.
LEMMA CloseChange ==
  ASSUME WellFormed, NEW c \in Client, Call(c) \/ Statement(c) \/ Crash(c)
  PROVE  \/ ~Closes(c)'
         \/ /\ UNCHANGED tasks /\ req'[c].task = req[c].task
            /\ Closes(c) \/ (TaskFree(req[c].task) /\ ~tasks[req[c].task].terminal)
<1>0. TypeOK /\ WellFormedRequest(c) /\ req[c] \in Request
  BY DEF WellFormed, RequestsWellFormed, TypeOK
<1>1. ASSUME Leave(c)
      PROVE  ~Closes(c)'
  BY <1>0, <1>1, NoRequestType DEF Leave, TypeOK, Closes
<1>2. ASSUME UNCHANGED <<tasks, req>>
      PROVE  \/ ~Closes(c)'
             \/ UNCHANGED tasks /\ req'[c].task = req[c].task /\ Closes(c)
  BY <1>2 DEF Closes
<1>3. CASE Call(c)
  BY <1>0, <1>3 DEF Call, CallAddStep, CallClaim, CallFinish, NewRequest, TypeOK, Closes
<1>4. CASE CloseTask(c)
  BY <1>0, <1>4 DEF CloseTask, IsOpen, TypeOK, Closes, Request
<1>5. CASE ReadTask(c)
  BY <1>0, <1>1, <1>5 DEF ReadTask, Fail, TypeOK, Closes, WellFormedRequest, Request
<1>6. CASE Begin(c) \/ InsertStep(c) \/ ReadStep(c) \/ UpdateClaim(c) \/ UpdateFinish(c)
             \/ CountRemaining(c)
  <2>1. Leave(c) \/ UNCHANGED <<tasks, req>>
    BY <1>6 DEF Begin, InsertStep, ReadStep, UpdateClaim, UpdateFinish, CountRemaining, Fail
  <2> QED BY <1>1, <1>2, <2>1
<1>7. CASE Crash(c) \/ LockTimeout(c) \/ CommitAdd(c) \/ CommitClaim(c) \/ CommitFinish(c)
  <2>1. Leave(c)
    BY <1>7 DEF Crash, LockTimeout, Fail, CommitAdd, CommitClaim, CommitFinish
  <2> QED BY <1>1, <2>1
<1> QED BY <1>3, <1>4, <1>5, <1>6, <1>7 DEF Statement

\* The task rows a step changes: one that is created, one the router writes, or
\* the one whose closer commits.
LEMMA TaskRowsChange ==
  ASSUME WellFormed, CloseInvariant, [Next]_vars, NEW t \in Task
  PROVE  /\ tasks[t].terminal => tasks'[t] = tasks[t]
         /\ \/ tasks'[t].terminal = tasks[t].terminal
            \/ ~tasks'[t].terminal
            \/ \E c \in Client : Leave(c) /\ Closes(c) /\ req[c].task = t
         /\ tasks'[t].terminal => tasks'[t].status \in {"completed", "failed"}
<1>0. TypeOK /\ tasks \in [Task -> TaskRow] /\ tasks[t] \in TaskRow
      /\ (tasks[t].terminal => tasks[t].status \in {"completed", "failed"})
  BY DEF WellFormed, TypeOK, CloseInvariant
<1>1. ASSUME UNCHANGED tasks
      PROVE  tasks'[t] = tasks[t]
  BY <1>1
<1>2. ASSUME NEW u \in Task, CreateTask(u) \/ RouteDenied(u) \/ RouteResolved(u)
      PROVE  /\ tasks[t].terminal => tasks'[t] = tasks[t]
             /\ tasks'[t].terminal = tasks[t].terminal \/ ~tasks'[t].terminal
             /\ tasks'[t].terminal => tasks'[t].status \in {"completed", "failed"}
  <2>1. CASE u # t
    BY <1>0, <1>2, <2>1 DEF CreateTask, RouteDenied, RouteResolved
  <2>2. CASE u = t /\ CreateTask(u)
    BY <1>0, <2>2 DEF CreateTask, NewTask
  <2>3. CASE u = t /\ (RouteDenied(u) \/ RouteResolved(u))
    <3>1. ~tasks[t].terminal
      BY <1>0, <2>3 DEF RouteDenied, RouteResolved
    <3>2. tasks'[t].terminal = tasks[t].terminal
      BY <1>0, <2>3 DEF RouteDenied, RouteResolved, TaskRow
    <3> QED BY <3>1, <3>2
  <2> QED BY <1>2, <2>1, <2>2, <2>3
<1>3. ASSUME NEW c \in Client, CommitFinish(c)
      PROVE  /\ tasks[t].terminal => tasks'[t] = tasks[t]
             /\ tasks'[t] = tasks[t] \/ (Leave(c) /\ Closes(c) /\ req[c].task = t)
             /\ tasks'[t].terminal => tasks'[t].status \in {"completed", "failed"}
  <2>1. CASE Closes(c) /\ req[c].task = t
    <3>1. ~tasks[t].terminal /\ req[c].verdict \in {"completed", "failed"}
      BY <2>1, ClosingTask DEF CloseInvariant
    <3>2. tasks'[t] = Closed(tasks[t], req[c].verdict) /\ Leave(c)
      BY <1>0, <1>3, <2>1 DEF CommitFinish, Closes
    <3> QED BY <2>1, <3>1, <3>2 DEF Closed
  <2>2. CASE ~(Closes(c) /\ req[c].task = t)
    <3>1. tasks'[t] = tasks[t]
      BY <1>0, <1>3, <2>2 DEF CommitFinish, Closes
    <3> QED BY <1>0, <3>1
  <2> QED BY <2>1, <2>2
<1>4. ASSUME NEW c \in Client, Call(c) \/ Statement(c) \/ Crash(c)
      PROVE  UNCHANGED tasks \/ CommitFinish(c)
  <2>1. UNCHANGED tasks \/ CommitAdd(c) \/ CommitClaim(c) \/ CommitFinish(c)
    BY <1>0, <1>4, StepOfOne
  <2> QED BY <2>1 DEF CommitAdd, CommitClaim
<1>5. \/ UNCHANGED tasks
      \/ \E c \in Client : CommitFinish(c)
      \/ \E u \in Task : CreateTask(u) \/ RouteDenied(u) \/ RouteResolved(u)
  BY <1>4 DEF Next, Tick, vars
<1> QED BY <1>0, <1>1, <1>2, <1>3, <1>5

LEMMA CloseKept ==
  ASSUME WellFormed, CloseInvariant, [Next]_vars
  PROVE  CloseInvariant'
<1>0. TypeOK /\ req \in [Client -> Request]
  BY DEF WellFormed, TypeOK
<1>1. \A t \in Task : tasks'[t].terminal => tasks'[t].status \in {"completed", "failed"}
  BY TaskRowsChange
\* a task some request may still close stays open unless its closer commits
<1>2. ASSUME NEW d \in Client, Closes(d),
             \A c \in Client : Leave(c) /\ Closes(c) => c # d
      PROVE  ~tasks'[req[d].task].terminal
  <2>1. req[d].task \in Task /\ ~tasks[req[d].task].terminal
    BY <1>2, ClosingTask DEF CloseInvariant
  <2>2. ~\E c \in Client : Leave(c) /\ Closes(c) /\ req[c].task = req[d].task
    BY <1>2 DEF CloseInvariant
  <2> QED BY <2>1, <2>2, TaskRowsChange
<1>3. ASSUME NEW c \in Client, Call(c) \/ Statement(c) \/ Crash(c)
      PROVE  CloseInvariant'
  <2>1. \A d \in Client \ {c} : req'[d] = req[d] /\ pc'[d] = pc[d]
    BY <1>0, <1>3, StepOfOne
  <2>2. ASSUME NEW d \in Client, Closes(d)', d # c
        PROVE  Closes(d) /\ req'[d].task = req[d].task /\ ~tasks'[req'[d].task].terminal
    <3>1. Closes(d) /\ pc[d] = "commit" /\ pc'[d] = "commit" /\ req'[d] = req[d]
      BY <2>1, <2>2, ClosingTask DEF Closes
    <3>2. ASSUME NEW b \in Client, Leave(b)
          PROVE  b # d
      BY <1>0, <3>1, <3>2 DEF Leave, Goto, TypeOK
    <3> QED BY <1>2, <3>1, <3>2
  <2>3. ASSUME Closes(c)'
        PROVE  /\ ~tasks'[req'[c].task].terminal
               /\ \A d \in Client \ {c} : Closes(d) => req[d].task # req'[c].task
    <3>1. /\ UNCHANGED tasks /\ req'[c].task = req[c].task
          /\ Closes(c) \/ (TaskFree(req[c].task) /\ ~tasks[req[c].task].terminal)
      BY <1>3, <2>3, CloseChange
    <3>2. CASE Closes(c)
      BY <3>1, <3>2 DEF CloseInvariant
    <3>3. CASE TaskFree(req[c].task) /\ ~tasks[req[c].task].terminal
      BY <3>1, <3>3, ClosingTask DEF TaskFree, LocksTask, Closes
    <3> QED BY <3>1, <3>2, <3>3
  <2> QED BY <1>1, <2>2, <2>3 DEF CloseInvariant
<1>4. ASSUME \A d \in Client : /\ req'[d].verdict = req[d].verdict
                               /\ req'[d].task = req[d].task /\ pc'[d] = pc[d]
      PROVE  CloseInvariant'
  <2>1. \A d \in Client : Closes(d)' <=> Closes(d)
    BY <1>4 DEF Closes
  <2>2. ASSUME NEW d \in Client, Closes(d)
        PROVE  ~tasks'[req'[d].task].terminal
    <3>1. ASSUME NEW c \in Client, Leave(c), Closes(c)
          PROVE  FALSE
      BY <1>0, <1>4, <3>1, ClosingTask DEF Leave, Goto, WellFormed, TypeOK
    <3> QED BY <1>2, <1>4, <2>2, <3>1
  <2> QED BY <1>1, <1>4, <2>1, <2>2 DEF CloseInvariant
<1>5. CASE Tick
  <2>1. \A d \in Client : req'[d].verdict = req[d].verdict /\ req'[d].task = req[d].task
    BY <1>0, <1>5 DEF Tick, Request
  <2> QED BY <1>4, <1>5, <2>1 DEF Tick
<1>6. ASSUME UNCHANGED <<pc, req>>
      PROVE  CloseInvariant'
  BY <1>4, <1>6
<1>7. \/ UNCHANGED <<pc, req>> \/ Tick
      \/ \E c \in Client : Call(c) \/ Statement(c) \/ Crash(c)
  BY DEF Next, CreateTask, RouteDenied, RouteResolved, vars
<1> QED BY <1>3, <1>5, <1>6, <1>7

LEMMA InitClose == Init => CloseInvariant
BY NoRequestType DEF Init, CloseInvariant, Closes, NoTask

\* On either engine the row of a closed task never changes again, although
\* PostgreSQL lets two finishes of the task's steps run side by side: the second
\* waits for the first one's row lock and then finds is_terminal set.
THEOREM ClosedRowsStay ==
  Spec => [][\A t \in Task : tasks[t].terminal => tasks'[t] = tasks[t]]_vars
<1>1. Init => WellFormed /\ CloseInvariant
  BY InitWellFormed, InitClose
<1>2. WellFormed /\ CloseInvariant /\ [Next]_vars => (WellFormed /\ CloseInvariant)'
  BY NextWellFormed, CloseKept
<1>3. WellFormed /\ CloseInvariant /\ [Next]_vars =>
        [\A t \in Task : tasks[t].terminal => tasks'[t] = tasks[t]]_vars
  BY TaskRowsChange
<1> QED BY <1>1, <1>2, <1>3, PTL DEF Spec

-----------------------------------------------------------------------------
(* On SQLite the transactions implement the atomic ledger.                 *)

\* A step is added to a task that exists, and tasks do not go away.
Known(c) == req[c].op = "add_step" => tasks[req[c].task].status # "absent"

TasksKnown == \A c \in Client : Known(c)

LEMMA TasksStay ==
  ASSUME Inv, [Next]_vars, NEW t \in Task, tasks[t].status # "absent"
  PROVE  tasks'[t].status # "absent"
<1>0. TypeOK /\ steps \in [Step -> StepRow] /\ tasks \in [Task -> TaskRow]
  BY InvParts DEF TypeOK
<1>1. ASSUME NEW c \in Client, CommitFinish(c)
      PROVE  tasks'[t].status # "absent"
  <2>1. req[c].verdict # "none" => req[c].verdict \in {"completed", "failed"}
    BY <1>0, <1>1, InvParts, VerdictValue
       DEF CommitFinish, ReadsStillTrue, ReadsTrue
  <2> QED BY <1>0, <1>1, <2>1 DEF CommitFinish, Closed
<1>2. ASSUME NEW c \in Client, CommitAdd(c) \/ CommitClaim(c)
      PROVE  tasks'[t].status # "absent"
  BY <1>2 DEF CommitAdd, CommitClaim
<1>3. ASSUME NEW c \in Client, Call(c) \/ Statement(c) \/ Crash(c)
      PROVE  tasks'[t].status # "absent"
  <2>1. \/ UNCHANGED <<tasks, steps>>
        \/ CommitAdd(c) \/ CommitClaim(c) \/ CommitFinish(c)
    BY <1>0, <1>3, StepOfOne
  <2> QED BY <1>1, <1>2, <2>1
<1>4. ASSUME NEW u \in Task, CreateTask(u) \/ RouteDenied(u) \/ RouteResolved(u)
      PROVE  tasks'[t].status # "absent"
  BY <1>0, <1>4 DEF CreateTask, RouteDenied, RouteResolved, NewTask, TaskRow
<1>5. CASE Tick \/ UNCHANGED vars
  BY <1>5 DEF Tick, vars
<1> QED BY <1>3, <1>4, <1>5 DEF Next

LEMMA KnownKept ==
  ASSUME Inv, TasksKnown, [Next]_vars
  PROVE  TasksKnown'
<1>0. TypeOK
  BY InvParts
<1>1. \A t \in Task : tasks[t].status # "absent" => tasks'[t].status # "absent"
  BY TasksStay
<1>2. ASSUME NEW d \in Client, req'[d].op = req[d].op, req'[d].task = req[d].task
      PROVE  Known(d)'
  <2>1. req[d].op = "add_step" => req[d].task \in Task
    BY InvParts DEF RequestsWellFormed, WellFormedRequest
  <2> QED BY <1>1, <1>2, <2>1 DEF TasksKnown, Known
<1>3. ASSUME NEW c \in Client, Call(c) \/ Statement(c) \/ Crash(c)
      PROVE  TasksKnown'
  <2>1. \A d \in Client \ {c} : req'[d] = req[d]
    BY <1>0, <1>3, StepOfOne
  <2>2. ASSUME Leave(c)
        PROVE  Known(c)'
    <3>1. req'[c] = NoRequest
      BY <1>0, <2>2 DEF Leave, TypeOK
    <3> QED BY <3>1, NoRequestType DEF Known
  <2>3. CASE Call(c)
    <3>1. ASSUME NEW t \in Task, NEW s \in Step, CallAddStep(c, t, s)
          PROVE  Known(c)'
      BY <1>0, <3>1 DEF CallAddStep, NewRequest, TypeOK, Known
    <3>2. ASSUME NEW s \in Step, NEW tok \in Token, CallClaim(c, s, tok)
          PROVE  Known(c)'
      BY <1>0, <3>2 DEF CallClaim, NewRequest, TypeOK, Known
    <3>3. ASSUME NEW t \in Task \cup {None}, NEW outcome \in {"done", "failed"},
                 CallFinish(c, t, outcome)
          PROVE  Known(c)'
      BY <1>0, <3>3 DEF CallFinish, NewRequest, TypeOK, Known
    <3>4. Known(c)'
      BY <2>3, <3>1, <3>2, <3>3 DEF Call
    <3> QED BY <1>2, <2>1, <3>4 DEF TasksKnown
  <2>4. CASE ~Call(c)
    <3>1. Leave(c) \/ (req'[c].op = req[c].op /\ req'[c].task = req[c].task)
      BY <1>0, <1>3, <2>4
         DEF Statement, Crash, Begin, LockTimeout, ReadTask, InsertStep, ReadStep, UpdateClaim,
             UpdateFinish, CountRemaining, CloseTask, CommitAdd, CommitClaim, CommitFinish,
             Fail, TypeOK, Request
    <3>2. Known(c)'
      BY <1>2, <2>2, <3>1
    <3> QED BY <1>2, <2>1, <3>2 DEF TasksKnown
  <2> QED BY <2>3, <2>4
<1>4. ASSUME NEW t \in Task, CreateTask(t) \/ RouteDenied(t) \/ RouteResolved(t)
      PROVE  TasksKnown'
  BY <1>2, <1>4 DEF CreateTask, RouteDenied, RouteResolved, TasksKnown
<1>5. CASE Tick
  <2>1. \A d \in Client : req'[d].op = req[d].op /\ req'[d].task = req[d].task
    BY <1>0, <1>5 DEF Tick, TypeOK, Request
  <2> QED BY <1>2, <2>1 DEF TasksKnown
<1>6. CASE UNCHANGED vars
  BY <1>2, <1>6 DEF vars, TasksKnown
<1> QED BY <1>3, <1>4, <1>5, <1>6 DEF Next

\* A step belongs to a task that exists.
StepsHoused ==
  \A s \in Step : steps[s].status # "absent" => tasks[steps[s].task].status # "absent"

LEMMA HousedKept ==
  ASSUME Inv, RowInvariant, TasksKnown, StepsHoused, [Next]_vars
  PROVE  StepsHoused'
<1> SUFFICES ASSUME NEW s \in Step, steps'[s].status # "absent"
             PROVE  tasks'[steps'[s].task].status # "absent"
  BY DEF StepsHoused
<1>0. TypeOK /\ steps \in [Step -> StepRow]
  BY InvParts DEF TypeOK
<1>1. ASSUME steps[s].status # "absent", steps'[s].task = steps[s].task
      PROVE  tasks'[steps'[s].task].status # "absent"
  <2>1. steps[s].task \in Task
    BY <1>1, InvParts DEF RowsWellFormed
  <2> QED BY <1>1, <2>1, TasksStay DEF StepsHoused
<1>2. CASE UNCHANGED steps
  BY <1>1, <1>2
<1>3. CASE Tick
  BY <1>0, <1>1, <1>3, AgedFacts DEF Tick
<1>4. ASSUME NEW c \in Client, CommitAdd(c) \/ CommitClaim(c) \/ CommitFinish(c)
      PROVE  tasks'[steps'[s].task].status # "absent"
  <2>1. CASE CommitAdd(c) /\ s = req[c].step
    <3>1. req[c].task \in Task /\ tasks[req[c].task].status # "absent"
      BY <2>1, InvParts DEF CommitAdd, RequestsWellFormed, WellFormedRequest, TasksKnown, Known
    <3>2. steps'[s].task = req[c].task
      BY <1>0, <2>1 DEF CommitAdd, Pending
    <3> QED BY <3>1, <3>2, TasksStay
  <2>2. CASE ~(CommitAdd(c) /\ s = req[c].step)
    <3>1. steps[s].status # "absent" /\ steps'[s].task = steps[s].task
      BY <1>4, <2>2, CommitRows
    <3> QED BY <1>1, <3>1
  <2> QED BY <2>1, <2>2
<1> QED BY <1>0, <1>2, <1>3, <1>4, RowsChange

\* Only a finish ends a step, and it closes the step's task if it is counted for
\* that task and no other step of it is open.
LEMMA FinishStep ==
  ASSUME Inv, RowInvariant, StepsHoused, [Next]_vars,
         NEW s \in Step, ~Settled(steps[s]), Settled(steps'[s])
  PROVE  \/ Remaining(steps', steps[s].task) \/ tasks'[steps[s].task].terminal
         \/ \E c \in Client : /\ req[c].op = "finish" /\ req[c].step = s
                              /\ req[c].token = steps[s].token
                              /\ req[c].task # steps[s].task
<1>0. TypeOK /\ steps \in [Step -> StepRow] /\ tasks \in [Task -> TaskRow]
  BY InvParts DEF TypeOK
<1>1. CASE UNCHANGED steps
  BY <1>1
<1>2. CASE Tick
  BY <1>0, <1>2, AgedFacts DEF Tick, Settled
<1>3. ASSUME NEW c \in Client, CommitAdd(c) \/ CommitClaim(c)
      PROVE  FALSE
  <2>1. req[c].step \in Step
    BY <1>3, InvParts DEF CommitAdd, CommitClaim, RequestsWellFormed, WellFormedRequest
  <2>2. steps'[req[c].step].status \in {"pending", "claimed"}
        /\ \A q \in Step \ {req[c].step} : steps'[q] = steps[q]
    BY <1>0, <1>3, <2>1 DEF CommitAdd, CommitClaim, Pending, Claimed
  <2> QED BY <2>1, <2>2 DEF Settled
<1>4. ASSUME NEW c \in Client, CommitFinish(c)
      PROVE  \/ Remaining(steps', steps[s].task) \/ tasks'[steps[s].task].terminal
             \/ /\ req[c].op = "finish" /\ req[c].step = s
                /\ req[c].token = steps[s].token /\ req[c].task # steps[s].task
  <2>1. req[c].step = s /\ req[c].op = "finish"
    BY <1>4, FinishRows DEF Settled
  <2>2. req[c].token = steps[s].token
    BY <1>4, <2>1, RowParts DEF CommitFinish, RowsHold, RowHolds
  <2>3. CASE req[c].task = steps[s].task /\ ~Remaining(steps', steps[s].task)
    <3>1. steps[s].task \in Task /\ ~tasks[steps[s].task].terminal
      BY <1>4, <2>1, FinishRows
    <3>2. tasks[steps[s].task].status # "absent"
      BY <2>1, <3>1, <1>4, FinishRows DEF StepsHoused
    <3>3. tasks' = [tasks EXCEPT ![steps[s].task] =
                      Closed(@, Verdict(steps', steps[s].task))]
      BY <1>4, <2>3, <3>1, <3>2, FinishRows DEF IsOpen
    <3> QED BY <1>0, <3>1, <3>3 DEF Closed
  <2> QED BY <2>1, <2>2, <2>3
<1> QED BY <1>0, <1>1, <1>2, <1>3, <1>4, RowsChange

\* On SQLite the finish that ends a task's last open step closes the task, however
\* many finishes run at once, unless its lease names another task
\* (TaskManager.finish, complete_step).
THEOREM LastFinishClosesTask ==
  ASSUME Engine = "sqlite"
  PROVE  Spec => LastFinishCloses
<1>1. Init => Inv /\ TasksKnown /\ StepsHoused
  BY InitInv, NoRequestType DEF Init, TasksKnown, Known, StepsHoused, NoStep
<1>2. Inv /\ TasksKnown /\ StepsHoused /\ RowInvariant /\ [Next]_vars =>
        (Inv /\ TasksKnown /\ StepsHoused)'
  BY NextInv, KnownKept, HousedKept
<1>3. Inv /\ StepsHoused /\ RowInvariant /\ [Next]_vars =>
        [\A s \in Step :
           ~Settled(steps[s]) /\ Settled(steps'[s]) =>
             LET t == steps[s].task IN
             \/ Remaining(steps', t) \/ tasks'[t].terminal
             \/ \E c \in Client : /\ req[c].op = "finish" /\ req[c].step = s
                                  /\ req[c].token = steps[s].token
                                  /\ req[c].task # t]_vars
  BY FinishStep
<1> QED BY <1>1, <1>2, <1>3, RowInvariantHolds, PTL DEF Spec, LastFinishCloses

\* The ledger's words for rows are the store's.
LEMMA SameWords ==
  /\ Ledger!NoTask = NoTask /\ Ledger!NoStep = NoStep /\ Ledger!NewTask = NewTask
  /\ Ledger!Ttl = Ttl /\ Ledger!Aged(steps) = Aged(steps)
  /\ \A t : Ledger!Pending(t) = Pending(t)
  /\ \A row, tok, left : Ledger!Claimed(row, tok, left) = Claimed(row, tok, left)
  /\ \A row, outcome : Ledger!Finished(row, outcome) = Finished(row, outcome)
  /\ \A row, verdict : Ledger!Closed(row, verdict) = Closed(row, verdict)
  /\ \A row, lag : Ledger!Claimable(row, lag) <=> Claimable(row, lag)
  /\ \A rows, t : /\ Ledger!Remaining(rows, t) <=> Remaining(rows, t)
                  /\ Ledger!Verdict(rows, t) = Verdict(rows, t)
                  /\ Ledger!IsOpen(rows, t) <=> IsOpen(rows, t)
BY DEF Ledger!NoTask, NoTask, Ledger!NoStep, NoStep, Ledger!NewTask, NewTask,
       Ledger!Ttl, Ttl, Ledger!LongExpired, LongExpired, Ledger!Aged, Aged,
       Ledger!Pending, Pending, Ledger!Claimed, Claimed, Ledger!Finished, Finished,
       Ledger!Closed, Closed, Ledger!Claimable, Claimable, Ledger!Remaining, Remaining,
       Ledger!StepsOf, StepsOf, Ledger!Settled, Settled, Ledger!Verdict, Verdict,
       Ledger!IsOpen, IsOpen

LEMMA AddIsLedger ==
  ASSUME Inv, TasksKnown, NEW c \in Client, CommitAdd(c)
  PROVE  Ledger!Next
<1>1. /\ req[c].op = "add_step" /\ req[c].task \in Task /\ req[c].step \in Step
      /\ steps[req[c].step].status = "absent"
  BY InvParts DEF CommitAdd, RequestsWellFormed, WellFormedRequest
<1>2. tasks[req[c].task].status # "absent" /\ ~tasks[req[c].task].terminal
  BY <1>1, InvParts DEF CommitAdd, ReadsStillTrue, ReadsTrue, TasksKnown, Known
<1>3. Ledger!AddStep(req[c].task, req[c].step)
  BY <1>1, <1>2, SameWords DEF CommitAdd, Ledger!AddStep
<1> QED BY <1>1, <1>3 DEF Ledger!Next

LEMMA ClaimIsLedger ==
  ASSUME Inv, NEW c \in Client, CommitClaim(c)
  PROVE  Ledger!Next
<1>1. /\ req[c].op = "claim" /\ req[c].step \in Step /\ req[c].token \in Token
      /\ req[c].lag \in 0 .. MaxLag /\ steps[req[c].step].ttl \in Ttl
  BY InvParts DEF CommitClaim, RequestsWellFormed, WellFormedRequest, TypeOK, Request, StepRow
<1>2. /\ Claimable(steps[req[c].step], req[c].lag)
      /\ ~tasks[steps[req[c].step].task].terminal
  BY <1>1, InvParts DEF CommitClaim, ReadsStillTrue, ReadsTrue
<1>3. Claimable(steps[req[c].step], 0) /\ MaxLease - req[c].lag \in Ttl
  BY <1>1, <1>2, TaskRowsAssumption DEF Claimable, Ttl, LongExpired
<1>4. Ledger!Claim(req[c].step, req[c].token, MaxLease - req[c].lag)
  BY <1>2, <1>3, SameWords DEF CommitClaim, Ledger!Claim
<1> QED BY <1>1, <1>3, <1>4, SameWords DEF Ledger!Next

LEMMA FinishIsLedger ==
  ASSUME Inv, NEW c \in Client, CommitFinish(c)
  PROVE  Ledger!Next
<1>1. /\ req[c].outcome \in {"done", "failed"} /\ req[c].step \in Step
      /\ steps[req[c].step].status = "claimed"
      /\ tasks' = IF IsOpen(tasks, req[c].task) /\ ~Remaining(steps', req[c].task)
                  THEN [tasks EXCEPT ![req[c].task] =
                          Closed(@, Verdict(steps', req[c].task))]
                  ELSE tasks
  BY FinishRows
<1>2. req[c].task \in Task \cup {None}
  BY InvParts DEF TypeOK, Request
<1>3. steps' = [steps EXCEPT ![req[c].step] = Finished(@, req[c].outcome)]
  BY DEF CommitFinish, OwnView
<1>4. Ledger!Finish(req[c].step, req[c].task, req[c].outcome)
  BY <1>1, <1>3, SameWords DEF Ledger!Finish
<1> QED BY <1>1, <1>2, <1>4 DEF Ledger!Next

LEMMA StepIsLedgers ==
  ASSUME Inv, TasksKnown, [Next]_vars
  PROVE  [Ledger!Next]_<<tasks, steps>>
<1>0. TypeOK /\ Tables
  BY InvParts
<1>1. ASSUME NEW c \in Client, Call(c) \/ Statement(c) \/ Crash(c)
      PROVE  [Ledger!Next]_<<tasks, steps>>
  <2>1. \/ UNCHANGED <<tasks, steps>>
        \/ CommitAdd(c) \/ CommitClaim(c) \/ CommitFinish(c)
    BY <1>0, <1>1, StepOfOne
  <2> QED BY <2>1, AddIsLedger, ClaimIsLedger, FinishIsLedger
<1>2. ASSUME NEW t \in Task, CreateTask(t)
      PROVE  Ledger!Next
  BY <1>2, SameWords DEF CreateTask, Ledger!CreateTask, Ledger!Next
<1>3. ASSUME NEW t \in Task, RouteDenied(t) \/ RouteResolved(t)
      PROVE  Ledger!Next
  <2>1. tasks[t].terminal => tasks[t].status \in {"completed", "failed"}
    BY <1>0, VerdictValue DEF Tables, VerdictIsTruthful, Truthful
  <2>2. Ledger!Route(t)
    BY <1>3, <2>1 DEF RouteDenied, RouteResolved, Ledger!Route
  <2> QED BY <2>2 DEF Ledger!Next
<1>4. CASE Tick
  BY <1>4, SameWords DEF Tick, Ledger!Tick, Ledger!Next
<1>5. CASE UNCHANGED vars
  BY <1>5 DEF vars
<1> QED BY <1>1, <1>2, <1>3, <1>4, <1>5 DEF Next

\* On SQLite every commit of add_step, claim and finish is one atomic step of the
\* ledger that TaskManager promises, for any number of clients and crashes.
THEOREM StoreImplementsLedger ==
  ASSUME Engine = "sqlite"
  PROVE  Spec => ImplementsLedger
<1>1. Init => Ledger!Init /\ TasksKnown
  BY NoRequestType, SameWords DEF Init, Ledger!Init, TasksKnown, Known
<1>2. Inv /\ TasksKnown /\ [Next]_vars => (Inv /\ TasksKnown)'
  BY NextInv, KnownKept
<1>3. Inv /\ TasksKnown /\ [Next]_vars => [Ledger!Next]_(Ledger!vars)
  BY StepIsLedgers DEF Ledger!vars
<1> QED BY InitInv, <1>1, <1>2, <1>3, PTL DEF Spec, ImplementsLedger, Ledger!Spec
=============================================================================
