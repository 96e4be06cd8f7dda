--------------------------- MODULE ToolGatewayProofs ---------------------------
(***************************************************************************)
(* Theorems about ToolGateway, for every set of actions, tools, grants and *)
(* callers, on either engine.                                              *)
(***************************************************************************)
EXTENDS ToolGateway, TLAPS

-----------------------------------------------------------------------------
(* Types.                                                                  *)

LEMMA ResultType ==
  ASSUME NEW tool \in Tool
  PROVE  Result(tool) \subseteq AnyResult
BY GrantRowsAssumption DEF Result, Outcome, AnyResult

LEMMA NoResultType == NoResult \in AnyResult
BY DEF NoResult, Outcome, AnyResult

LEMMA ReservedType ==
  ASSUME NEW a \in Action
  PROVE  Reserved(a.task, ToolInfo[a.tool].cost, 0) \in QuotaRow
<1>1. a.task \in Task /\ ToolInfo[a.tool].cost \in Nat
  BY GrantRowsAssumption
<1>2. 0 \in 0 .. MaxDay
  BY GrantRowsAssumption
<1> QED BY <1>1, <1>2 DEF QuotaRow, Reserved

LEMMA SettledType ==
  ASSUME NEW row \in QuotaRow, NEW cents \in Nat
  PROVE  Settled(row, cents) \in QuotaRow
BY DEF QuotaRow, Settled

LEMMA ChargeType ==
  ASSUME NEW tool \in Tool, NEW result \in AnyResult
  PROVE  Charge(tool, result) \in Nat
BY GrantRowsAssumption DEF Charge, AnyResult

LEMMA ActedType ==
  ASSUME NEW h \in History, NEW a \in Action, NEW result \in AnyResult
  PROVE  Acted(h, a, result) \in History
BY DEF Acted, History

LEMMA AnsweredType ==
  ASSUME TypeOK, NEW g \in Id
  PROVE  Answered(g) \in [Id -> History]
BY DEF TypeOK, Answered, History

LEMMA IssuedType ==
  ASSUME NEW a \in Action
  PROVE  Issued(a) \in GrantRow
BY ToolGatewayAssumption DEF Issued, GrantRow

LEMMA InitType == Init => TypeOK
BY NoResultType, GrantRowsAssumption, ToolGatewayAssumption
   DEF Init, TypeOK, NoGrant, GrantRow, NoQuota, QuotaRow, NoHistory, History,
       NoRequest, Request

LEMMA LeaveType ==
  ASSUME TypeOK, NEW c \in Client, Leave(c)
  PROVE  /\ pc' \in [Client -> {"idle", "issue", "check", "share", "update", "run", "record"}]
         /\ req' \in [Client -> Request]
         /\ writer' \in Client \cup {None}
BY NoResultType DEF TypeOK, Leave, Goto, NoRequest, Request

LEMMA FailType ==
  ASSUME TypeOK, NEW c \in Client, Fail(c)
  PROVE  TypeOK'
BY LeaveType DEF TypeOK, Fail

LEMMA WriteGrantType ==
  ASSUME TypeOK, NEW g \in Id, NEW a \in Action, WriteGrant(g, a)
  PROVE  /\ engine' \in Engines /\ shared' \subseteq Task \X Tool /\ active' \subseteq Tool
         /\ grants' \in [Id -> GrantRow] /\ quota' \in [Id -> QuotaRow]
         /\ log' = log /\ ran' = ran
BY IssuedType, ReservedType DEF TypeOK, WriteGrant

-----------------------------------------------------------------------------
(* What a step that leaves a call or a grant alone preserves.              *)

LEMMA GrantKept ==
  ASSUME NEW g \in Id, GrantAgrees(g),
         grants'[g].status = grants[g].status, grants'[g].action = grants[g].action,
         quota'[g] = quota[g], log'[g] = log[g], ran'[g].times = ran[g].times,
         ran'[g].acted = ran[g].acted, ran'[g].result = ran[g].result
  PROVE  GrantAgrees(g)'
BY DEF GrantAgrees, Charge

LEMMA CallKept ==
  ASSUME NEW d \in Client, CallKnows(d), pc'[d] = pc[d], req'[d] = req[d],
         pc[d] \notin {"idle", "issue"} =>
           /\ grants'[req[d].grant].status # "absent"
           /\ grants'[req[d].grant].action = grants[req[d].grant].action,
         Acting(d) =>
           /\ log'[req[d].grant] = log[req[d].grant]
           /\ ran'[req[d].grant].times = ran[req[d].grant].times
           /\ ran'[req[d].grant].result = ran[req[d].grant].result
  PROVE  CallKnows(d)'
BY DEF CallKnows, Acting

\* A call that leaves, or waits, acts no more; the others act as before.
LEMMA OneActsKept ==
  ASSUME OneActs,
         \A d \in Client : Acting(d)' => Acting(d) /\ req'[d].grant = req[d].grant
  PROVE  OneActs'
BY DEF OneActs

LEMMA LeaveCall ==
  ASSUME TypeOK, NEW c \in Client, Leave(c)
  PROVE  /\ pc'[c] = "idle" /\ CallKnows(c)'
         /\ \A d \in Client \ {c} : pc'[d] = pc[d] /\ req'[d] = req[d]
BY DEF TypeOK, Leave, Goto, CallKnows, Acting

\* A step that changes no row and lets one call go on, or leave.
LEMMA RowsKept ==
  ASSUME TypeOK, GatewayInvariant, NEW c \in Client, CallKnows(c)', ~Acting(c)',
         \A d \in Client \ {c} : pc'[d] = pc[d] /\ req'[d] = req[d],
         UNCHANGED <<grants, quota, log, ran>>
  PROVE  GatewayInvariant'
<1>1. ASSUME NEW d \in Client PROVE CallKnows(d)'
  <2>1. CASE d = c
    BY <2>1
  <2>2. CASE d # c
    <3>1. pc'[d] = pc[d] /\ req'[d] = req[d] /\ CallKnows(d)
      BY <2>2 DEF GatewayInvariant
    <3>2. pc[d] \notin {"idle", "issue"} => grants[req[d].grant].status # "absent"
      BY <3>1 DEF CallKnows
    <3> QED BY <3>1, <3>2, CallKept
  <2> QED BY <2>1, <2>2
<1>2. ASSUME NEW g \in Id PROVE GrantAgrees(g)'
  BY GrantKept DEF GatewayInvariant
<1>3. OneActs'
  BY OneActsKept DEF GatewayInvariant, Acting
<1> QED BY <1>1, <1>2, <1>3 DEF GatewayInvariant

LEMMA FailKeeps ==
  ASSUME TypeOK, GatewayInvariant, NEW c \in Client, Fail(c)
  PROVE  TypeOK' /\ GatewayInvariant'
<1>1. ~Acting(c)'
  BY LeaveCall DEF Fail, Acting
<1> QED BY <1>1, FailType, LeaveCall, RowsKept DEF Fail

-----------------------------------------------------------------------------
(* Each step preserves the types and the invariant.                        *)

\* A new grant's id was absent, so no call holds it.
LEMMA WriteGrantKeeps ==
  ASSUME TypeOK, GatewayInvariant, NEW g \in Id, NEW a \in Action, WriteGrant(g, a)
  PROVE  /\ \A h \in Id : GrantAgrees(h)'
         /\ grants'[g].status # "absent"
         /\ \A h \in Id \ {g} : grants'[h] = grants[h]
         /\ log' = log /\ ran' = ran
<1>1. /\ grants'[g] = Issued(a) /\ grants[g].status = "absent"
      /\ \A h \in Id \ {g} : grants'[h] = grants[h] /\ quota'[h] = quota[h]
      /\ log' = log /\ ran' = ran
  BY DEF WriteGrant, TypeOK
<1>2. ASSUME NEW h \in Id, h # g PROVE GrantAgrees(h)'
  BY <1>1, <1>2, GrantKept DEF GatewayInvariant
<1>3. GrantAgrees(g)'
  <2>1. log[g] = "none" /\ ran[g].times = 0 /\ ran[g].acted = {} /\ quota[g].status = "absent"
    BY <1>1 DEF GatewayInvariant, GrantAgrees
  <2>2. \/ quota'[g].status = "absent"
        \/ quota'[g] = Reserved(a.task, ToolInfo[a.tool].cost, 0)
    BY <2>1 DEF WriteGrant, TypeOK
  <2>3. grants'[g].status = "issued" /\ grants'[g].action = a
    BY <1>1 DEF Issued
  <2> QED BY <1>1, <2>1, <2>2, <2>3 DEF GrantAgrees, Reserved
<1> QED BY <1>1, <1>2, <1>3 DEF Issued

LEMMA AuthorizeKeeps ==
  ASSUME TypeOK, GatewayInvariant, NEW g \in Id, NEW a \in Action, Authorize(g, a)
  PROVE  TypeOK' /\ GatewayInvariant'
<1>1. TypeOK'
  BY WriteGrantType DEF Authorize, TypeOK
<1>2. ASSUME NEW d \in Client PROVE CallKnows(d)'
  <2>1. CallKnows(d) /\ pc' = pc /\ req' = req
    BY DEF GatewayInvariant, Authorize
  <2>2. pc[d] \notin {"idle", "issue"} =>
          grants[req[d].grant].status # "absent" /\ req[d].grant \in Id \ {g}
    BY <2>1 DEF CallKnows, Authorize, WriteGrant
  <2>3. /\ \A h \in Id \ {g} : grants'[h] = grants[h]
        /\ log' = log /\ ran' = ran
    BY WriteGrantKeeps DEF Authorize
  <2> QED BY <2>1, <2>2, <2>3, CallKept
<1>3. OneActs'
  BY OneActsKept DEF GatewayInvariant, Authorize, Acting
<1> QED BY <1>1, <1>2, <1>3, WriteGrantKeeps DEF GatewayInvariant, Authorize

LEMMA CallInvokeKeeps ==
  ASSUME TypeOK, GatewayInvariant, NEW c \in Client, NEW a \in Action,
         NEW g \in Id \cup {None}, CallInvoke(c, a, g)
  PROVE  TypeOK' /\ GatewayInvariant'
<1>1. TypeOK'
  BY NoResultType DEF CallInvoke, TypeOK, Goto, Request
<1>2. /\ pc'[c] = (IF g = None THEN "issue" ELSE "check")
      /\ req'[c] = [action |-> a, grant |-> g, result |-> NoResult]
      /\ \A d \in Client \ {c} : pc'[d] = pc[d] /\ req'[d] = req[d]
  BY DEF CallInvoke, Goto, TypeOK
<1>3. UNCHANGED <<grants, quota, log, ran>>
  BY DEF CallInvoke
<1>4. CallKnows(c)' /\ ~Acting(c)'
  BY <1>2, <1>3 DEF CallKnows, Acting, CallInvoke
<1> QED BY <1>1, <1>2, <1>3, <1>4, RowsKept

LEMMA IssueOwnKeeps ==
  ASSUME TypeOK, GatewayInvariant, NEW c \in Client, NEW g \in Id, IssueOwn(c, g)
  PROVE  TypeOK' /\ GatewayInvariant'
<1>1. req[c].action \in Action
  BY DEF IssueOwn, GatewayInvariant, CallKnows
<1>2. /\ pc'[c] = "check" /\ req'[c].action = req[c].action /\ req'[c].grant = g
      /\ \A d \in Client \ {c} : pc'[d] = pc[d] /\ req'[d] = req[d]
      /\ pc' \in [Client -> {"idle", "issue", "check", "share", "update", "run", "record"}]
      /\ req' \in [Client -> Request]
  BY DEF IssueOwn, Goto, TypeOK, Request
<1>3. TypeOK'
  BY <1>1, <1>2, WriteGrantType DEF IssueOwn, TypeOK
<1>4. /\ \A h \in Id : GrantAgrees(h)'
      /\ grants'[g].status # "absent"
      /\ \A h \in Id \ {g} : grants'[h] = grants[h]
      /\ log' = log /\ ran' = ran
  BY <1>1, WriteGrantKeeps DEF IssueOwn
<1>5. CallKnows(c)'
  BY <1>1, <1>2, <1>4 DEF CallKnows, Acting
<1>6. ASSUME NEW d \in Client, d # c PROVE CallKnows(d)'
  <2>1. CallKnows(d) /\ pc'[d] = pc[d] /\ req'[d] = req[d]
    BY <1>2, <1>6 DEF GatewayInvariant
  <2>2. pc[d] \notin {"idle", "issue"} =>
          grants[req[d].grant].status # "absent" /\ req[d].grant \in Id \ {g}
    BY <2>1 DEF CallKnows, IssueOwn, WriteGrant
  <2> QED BY <1>4, <2>1, <2>2, CallKept
<1>7. OneActs'
  BY <1>2, OneActsKept DEF GatewayInvariant, Acting
<1> QED BY <1>3, <1>4, <1>5, <1>6, <1>7 DEF GatewayInvariant

LEMMA CheckKeeps ==
  ASSUME TypeOK, GatewayInvariant, NEW c \in Client, Check(c)
  PROVE  TypeOK' /\ GatewayInvariant'
<1>1. CASE Fail(c)
  BY <1>1, FailKeeps
<1>2. CASE ~Fail(c)
  <2>1. /\ Goto(c, "share") /\ grants[req[c].grant].action = req[c].action
        /\ UNCHANGED <<engine, shared, active, grants, quota, log, ran, writer, req>>
    BY <1>2 DEF Check
  <2>2. /\ pc' \in [Client -> {"idle", "issue", "check", "share", "update", "run", "record"}]
        /\ pc'[c] = "share" /\ \A d \in Client \ {c} : pc'[d] = pc[d]
    BY <2>1 DEF Goto, TypeOK
  <2>3. TypeOK'
    BY <2>1, <2>2 DEF TypeOK
  <2>4. CallKnows(c)' /\ ~Acting(c)'
    BY <2>1, <2>2 DEF Check, CallKnows, Acting, GatewayInvariant
  <2> QED BY <2>1, <2>2, <2>3, <2>4, RowsKept
<1> QED BY <1>1, <1>2

LEMMA ReadShareKeeps ==
  ASSUME TypeOK, GatewayInvariant, NEW c \in Client, ReadShare(c)
  PROVE  TypeOK' /\ GatewayInvariant'
<1>1. CASE Fail(c)
  BY <1>1, FailKeeps
<1>2. CASE ~Fail(c)
  <2>1. /\ Goto(c, "update")
        /\ writer' = IF engine = "sqlite" THEN c ELSE None
        /\ UNCHANGED <<engine, shared, active, grants, quota, log, ran, req>>
    BY <1>2 DEF ReadShare
  <2>2. /\ pc' \in [Client -> {"idle", "issue", "check", "share", "update", "run", "record"}]
        /\ pc'[c] = "update" /\ \A d \in Client \ {c} : pc'[d] = pc[d]
    BY <2>1 DEF Goto, TypeOK
  <2>3. TypeOK'
    BY <2>1, <2>2 DEF TypeOK
  <2>4. CallKnows(c)' /\ ~Acting(c)'
    BY <2>1, <2>2 DEF ReadShare, CallKnows, Acting, GatewayInvariant
  <2> QED BY <2>1, <2>2, <2>3, <2>4, RowsKept
<1> QED BY <1>1, <1>2

\* The update finds the grant issued, so no call acts under it yet.
LEMMA RedeemKeeps ==
  ASSUME TypeOK, GatewayInvariant, NEW c \in Client, Redeem(c)
  PROVE  TypeOK' /\ GatewayInvariant'
<1>1. CASE Fail(c)
  BY <1>1, FailKeeps
<1>2. CASE ~Fail(c)
  <2> DEFINE g == req[c].grant
  <2>1. /\ grants[g].status = "issued"
        /\ grants' = [grants EXCEPT ![g].status = "redeemed"]
        /\ log' = [log EXCEPT ![g] = "authorized"]
        /\ Goto(c, "run")
        /\ writer' = IF writer = c THEN None ELSE writer
        /\ UNCHANGED <<engine, shared, active, quota, ran, req>>
    BY <1>2 DEF Redeem
  <2>2. g \in Id /\ grants[g].action = req[c].action /\ req[c].action \in Action
    BY DEF Redeem, GatewayInvariant, CallKnows
  <2>3. /\ pc' \in [Client -> {"idle", "issue", "check", "share", "update", "run", "record"}]
        /\ pc'[c] = "run" /\ \A d \in Client \ {c} : pc'[d] = pc[d]
    BY <2>1 DEF Goto, TypeOK
  <2>4. /\ grants' \in [Id -> GrantRow]
        /\ grants'[g].status = "redeemed" /\ grants'[g].action = grants[g].action
        /\ \A h \in Id \ {g} : grants'[h] = grants[h]
    BY <2>1, <2>2 DEF TypeOK, GrantRow
  <2>5. /\ log'[g] = "authorized" /\ \A h \in Id \ {g} : log'[h] = log[h]
        /\ log' \in [Id -> {"none", "authorized", "success", "error"}]
    BY <2>1, <2>2 DEF TypeOK
  <2>6. TypeOK'
    BY <2>1, <2>3, <2>4, <2>5 DEF TypeOK
  <2>7. log[g] = "none" /\ ran[g].times = 0 /\ ran[g].acted = {}
    BY <2>1, <2>2 DEF GatewayInvariant, GrantAgrees
  <2>8. ASSUME NEW d \in Client, d # c
        PROVE  CallKnows(d)' /\ (Acting(d) => req[d].grant # g)
    <3>1. CallKnows(d) /\ pc'[d] = pc[d] /\ req'[d] = req[d]
      BY <2>1, <2>3, <2>8 DEF GatewayInvariant
    <3>2. Acting(d) => req[d].grant # g
      BY <2>7, <3>1 DEF CallKnows
    <3>3. pc[d] \notin {"idle", "issue"} =>
            /\ req[d].grant \in Id
            /\ grants'[req[d].grant].status # "absent"
            /\ grants'[req[d].grant].action = grants[req[d].grant].action
      BY <2>4, <3>1 DEF CallKnows
    <3>4. Acting(d) => /\ log'[req[d].grant] = log[req[d].grant]
                       /\ ran'[req[d].grant] = ran[req[d].grant]
      BY <2>1, <2>5, <3>2, <3>3 DEF Acting
    <3> QED BY <3>1, <3>2, <3>3, <3>4, CallKept
  <2>9. CallKnows(c)'
    BY <2>1, <2>2, <2>3, <2>4, <2>5, <2>7 DEF CallKnows, Acting
  <2>10. ASSUME NEW h \in Id PROVE GrantAgrees(h)'
    <3>1. CASE h # g
      BY <2>1, <2>4, <2>5, <3>1, GrantKept DEF GatewayInvariant
    <3>2. CASE h = g
      <4>1. GrantAgrees(g)
        BY <2>2 DEF GatewayInvariant
      <4> QED BY <2>1, <2>2, <2>4, <2>5, <2>7, <3>2, <4>1 DEF GrantAgrees, Charge
    <3> QED BY <3>1, <3>2
  <2>11. OneActs'
    BY <2>1, <2>3, <2>8 DEF OneActs, Acting, GatewayInvariant
  <2> QED BY <2>6, <2>8, <2>9, <2>10, <2>11 DEF GatewayInvariant
<1> QED BY <1>1, <1>2

LEMMA RunHandlerKeeps ==
  ASSUME TypeOK, GatewayInvariant, NEW c \in Client, pc[c] = "run",
         NEW result \in Result(req[c].action.tool), RunHandler(c, result)
  PROVE  TypeOK' /\ GatewayInvariant'
<1> DEFINE g == req[c].grant
<1>1. /\ g \in Id /\ req[c].action \in Action
      /\ grants[g].action = req[c].action /\ log[g] = "authorized" /\ ran[g].times = 0
  BY DEF GatewayInvariant, CallKnows, Acting
<1>2. result \in AnyResult
  BY <1>1, ResultType, GrantRowsAssumption
<1>3. /\ pc' \in [Client -> {"idle", "issue", "check", "share", "update", "run", "record"}]
      /\ req' \in [Client -> Request]
      /\ pc'[c] = "record" /\ req'[c].action = req[c].action /\ req'[c].grant = g
      /\ req'[c].result = result
      /\ \A d \in Client \ {c} : pc'[d] = pc[d] /\ req'[d] = req[d]
  BY <1>2 DEF RunHandler, Goto, TypeOK, Request
<1>4. /\ ran' \in [Id -> History]
      /\ ran'[g] = Acted(ran[g], req[c].action, result)
      /\ \A h \in Id \ {g} : ran'[h] = ran[h]
  BY <1>1, <1>2, ActedType DEF RunHandler, TypeOK
<1>5. TypeOK'
  BY <1>3, <1>4 DEF RunHandler, TypeOK
<1>6. CallKnows(c)'
  <2>1. ran'[g].times = 1 /\ ran'[g].result = result
    BY <1>1, <1>4 DEF Acted
  <2>2. grants[g].status # "absent"
    BY DEF GatewayInvariant, CallKnows
  <2> QED BY <1>1, <1>3, <2>1, <2>2 DEF RunHandler, CallKnows, Acting
<1>7. ASSUME NEW d \in Client, d # c PROVE CallKnows(d)'
  <2>1. CallKnows(d) /\ pc'[d] = pc[d] /\ req'[d] = req[d]
    BY <1>3, <1>7 DEF GatewayInvariant
  <2>2. Acting(d) => req[d].grant \in Id \ {g}
    BY <1>7, <2>1 DEF CallKnows, Acting, GatewayInvariant, OneActs
  <2>3. pc[d] \notin {"idle", "issue"} => grants[req[d].grant].status # "absent"
    BY <2>1 DEF CallKnows
  <2> QED BY <1>4, <2>1, <2>2, <2>3, CallKept DEF RunHandler
<1>8. ASSUME NEW h \in Id PROVE GrantAgrees(h)'
  <2>1. CASE h # g
    BY <1>4, <2>1, GrantKept DEF RunHandler, GatewayInvariant
  <2>2. CASE h = g
    <3>1. ran'[g].times = 1 /\ ran'[g].acted = ran[g].acted \cup {grants[g].action}
      BY <1>1, <1>4 DEF Acted
    <3>2. GrantAgrees(g)
      BY <1>1 DEF GatewayInvariant
    <3> QED BY <1>1, <2>2, <3>1, <3>2 DEF RunHandler, GrantAgrees
  <2> QED BY <2>1, <2>2
<1>9. OneActs'
  BY <1>3, OneActsKept DEF Acting, GatewayInvariant
<1> QED BY <1>5, <1>6, <1>7, <1>8, <1>9 DEF GatewayInvariant

\* The three ways a call records its outcome change the rows of its grant only,
\* and the call leaves.
LEMMA RecordKeeps ==
  ASSUME TypeOK, GatewayInvariant, NEW c \in Client, pc[c] = "record",
         NEW g \in Id, g = req[c].grant,
         Leave(c), UNCHANGED <<engine, shared, active, grants>>,
         ran' = Answered(g),
         log' \in [Id -> {"none", "authorized", "success", "error"}],
         quota' \in [Id -> QuotaRow],
         \A h \in Id \ {g} : log'[h] = log[h] /\ quota'[h] = quota[h],
         GrantAgrees(g)'
  PROVE  TypeOK' /\ GatewayInvariant'
<1>2. TypeOK'
  BY LeaveType, AnsweredType DEF TypeOK
<1>3. /\ ran'[g].times = ran[g].times /\ ran'[g].acted = ran[g].acted
      /\ ran'[g].result = ran[g].result
      /\ \A h \in Id \ {g} : ran'[h] = ran[h]
  BY DEF Answered, TypeOK, History
<1>4. /\ pc'[c] = "idle" /\ CallKnows(c)'
      /\ \A d \in Client \ {c} : pc'[d] = pc[d] /\ req'[d] = req[d]
  BY LeaveCall
<1>5. ASSUME NEW d \in Client, d # c PROVE CallKnows(d)'
  <2>1. CallKnows(d) /\ pc'[d] = pc[d] /\ req'[d] = req[d]
    BY <1>4, <1>5 DEF GatewayInvariant
  <2>2. Acting(d) => req[d].grant \in Id \ {g}
    BY <1>5, <2>1 DEF CallKnows, Acting, GatewayInvariant, OneActs
  <2>3. pc[d] \notin {"idle", "issue"} => grants[req[d].grant].status # "absent"
    BY <2>1 DEF CallKnows
  <2> QED BY <1>3, <2>1, <2>2, <2>3, CallKept
<1>6. ASSUME NEW h \in Id PROVE GrantAgrees(h)'
  <2>1. CASE h # g
    BY <1>3, <2>1, GrantKept DEF GatewayInvariant
  <2>2. CASE h = g
    BY <2>2
  <2> QED BY <2>1, <2>2
<1>7. OneActs'
  BY <1>4, OneActsKept DEF Acting, GatewayInvariant
<1> QED BY <1>2, <1>4, <1>5, <1>6, <1>7 DEF GatewayInvariant

\* what a call about to record its outcome knows
LEMMA RecordKnows ==
  ASSUME TypeOK, GatewayInvariant, NEW c \in Client, pc[c] = "record",
         ran' = Answered(req[c].grant)
  PROVE  \E g \in Id :
             /\ g = req[c].grant /\ GrantAgrees(g) /\ log[g] = "authorized"
             /\ grants[g].action = req[c].action /\ req[c].action \in Action
             /\ ran[g].times = 1 /\ ran[g].result = req[c].result
             /\ req[c].result \in Result(req[c].action.tool)
             /\ ran'[g].times = 1 /\ ran'[g].acted = ran[g].acted
             /\ ran'[g].result = req[c].result
<1> DEFINE g == req[c].grant
<1>1. /\ g \in Id /\ log[g] = "authorized"
      /\ grants[g].action = req[c].action /\ req[c].action \in Action
      /\ ran[g].times = 1 /\ ran[g].result = req[c].result
      /\ req[c].result \in Result(req[c].action.tool)
  BY DEF GatewayInvariant, CallKnows, Acting
<1>2. GrantAgrees(g)
  BY <1>1 DEF GatewayInvariant
<1>3. /\ ran'[g].times = ran[g].times /\ ran'[g].acted = ran[g].acted
      /\ ran'[g].result = ran[g].result
  BY <1>1 DEF Answered, TypeOK, History
<1> QED BY <1>1, <1>2, <1>3

LEMMA RecordErrorKeeps ==
  ASSUME TypeOK, GatewayInvariant, NEW c \in Client, RecordError(c)
  PROVE  TypeOK' /\ GatewayInvariant'
<1> USE DEF RecordError
<1>1. PICK g \in Id :
      /\ g = req[c].grant /\ GrantAgrees(g) /\ log[g] = "authorized"
      /\ ran'[g].times = 1 /\ ran'[g].acted = ran[g].acted
      /\ ran'[g].result.kind = "raises"
  BY RecordKnows
<1>2. /\ log'[g] = "error" /\ \A h \in Id \ {g} : log'[h] = log[h]
      /\ log' \in [Id -> {"none", "authorized", "success", "error"}]
  BY <1>1 DEF TypeOK
<1>3. GrantAgrees(g)'
  BY <1>1, <1>2 DEF GrantAgrees
<1>4. quota' \in [Id -> QuotaRow]
  BY DEF TypeOK
<1> QED BY <1>1, <1>2, <1>3, <1>4, RecordKeeps

LEMMA RecordUsageErrorKeeps ==
  ASSUME TypeOK, GatewayInvariant, NEW c \in Client, RecordUsageError(c)
  PROVE  TypeOK' /\ GatewayInvariant'
<1> USE DEF RecordUsageError
<1>1. PICK g \in Id :
      /\ g = req[c].grant /\ GrantAgrees(g) /\ log[g] = "authorized"
      /\ ran'[g].times = 1 /\ ran[g].times = 1 /\ ran'[g].acted = ran[g].acted
      /\ ran'[g].result = ran[g].result
  BY RecordKnows
<1>2. GrantAgrees(g)'
  BY <1>1, GrantKept
<1>3. log' \in [Id -> {"none", "authorized", "success", "error"}] /\ quota' \in [Id -> QuotaRow]
  BY DEF TypeOK
<1> QED BY <1>1, <1>2, <1>3, RecordKeeps

\* What is charged is at most what was reserved: the tool's price, or usage that
\* costs no more.
LEMMA ChargeBounded ==
  ASSUME NEW tool \in Tool, NEW result \in Result(tool), Settles(tool, result)
  PROVE  Charge(tool, result) \in Nat /\ Charge(tool, result) <= ToolInfo[tool].cost
BY GrantRowsAssumption DEF Result, Outcome, Charge, Settles

LEMMA RecordSuccessKeeps ==
  ASSUME TypeOK, GatewayInvariant, NEW c \in Client, RecordSuccess(c)
  PROVE  TypeOK' /\ GatewayInvariant'
<1>1. PICK tool : tool = req[c].action.tool
  OBVIOUS
<1>2. /\ pc[c] = "record" /\ req[c].result.kind # "raises"
      /\ ran' = Answered(req[c].grant) /\ Leave(c)
      /\ UNCHANGED <<engine, shared, active, grants>>
  BY DEF RecordSuccess
<1>3. PICK g \in Id :
      /\ g = req[c].grant /\ GrantAgrees(g) /\ log[g] = "authorized"
      /\ grants[g].action = req[c].action /\ req[c].action \in Action
      /\ ran[g].times = 1 /\ ran[g].result = req[c].result
      /\ req[c].result \in Result(tool)
      /\ ran'[g].times = 1 /\ ran'[g].acted = ran[g].acted
      /\ ran'[g].result = req[c].result
  BY <1>1, <1>2, RecordKnows
<1>4. tool \in Tool
  BY <1>1, <1>3, GrantRowsAssumption
<1>5. /\ log' = [log EXCEPT ![g] = "success"]
      /\ quota' = IF quota[g].status = "reserved" /\ Settles(tool, req[c].result)
                  THEN [quota EXCEPT ![g] = Settled(@, Charge(tool, req[c].result))]
                  ELSE quota
  BY <1>1, <1>3 DEF RecordSuccess
<1>6. /\ log'[g] = "success" /\ \A h \in Id \ {g} : log'[h] = log[h]
      /\ log' \in [Id -> {"none", "authorized", "success", "error"}]
  BY <1>3, <1>5 DEF TypeOK
<1>7. CASE quota[g].status = "reserved" /\ Settles(tool, req[c].result)
  <2>1. /\ Charge(tool, req[c].result) \in Nat
        /\ Charge(tool, req[c].result) <= ToolInfo[tool].cost
    BY <1>3, <1>4, <1>7, ChargeBounded
  <2>2. quota[g] \in QuotaRow
    BY <1>3 DEF TypeOK
  <2>3. Settled(quota[g], Charge(tool, req[c].result)) \in QuotaRow
    BY <2>1, <2>2, SettledType
  <2>4. /\ quota' \in [Id -> QuotaRow]
        /\ quota'[g] = Settled(quota[g], Charge(tool, req[c].result))
        /\ \A h \in Id \ {g} : quota'[h] = quota[h]
    BY <1>3, <1>7, <1>5, <2>3 DEF TypeOK
  <2>5. quota[g].reserved = ToolInfo[tool].cost
    BY <1>1, <1>3, <1>7 DEF GrantAgrees
  <2>6. GrantAgrees(g)'
    <3>1. /\ quota'[g].status = "settled" /\ quota'[g].reserved = ToolInfo[tool].cost
          /\ quota'[g].amount = Charge(tool, req[c].result)
      BY <2>4, <2>5 DEF Settled
    <3>2. quota'[g].amount = Charge(grants'[g].action.tool, ran'[g].result)
      BY <1>1, <1>2, <1>3, <3>1
    <3> QED BY <1>2, <1>3, <1>6, <2>1, <3>1, <3>2 DEF GrantAgrees
  <2> QED BY <1>2, <1>3, <1>6, <2>4, <2>6, RecordKeeps
<1>8. CASE ~(quota[g].status = "reserved" /\ Settles(tool, req[c].result))
  <2>1. quota' = quota
    BY <1>8, <1>5
  <2>2. GrantAgrees(g)'
    BY <1>2, <1>3, <1>6, <2>1 DEF GrantAgrees
  <2>3. quota' \in [Id -> QuotaRow]
    BY <2>1 DEF TypeOK
  <2> QED BY <1>2, <1>3, <1>6, <2>1, <2>2, <2>3, RecordKeeps
<1> QED BY <1>7, <1>8

LEMMA TickKeeps ==
  ASSUME TypeOK, GatewayInvariant, Tick
  PROVE  TypeOK' /\ GatewayInvariant'
<1>1. ASSUME NEW g \in Id
      PROVE  /\ grants'[g] \in GrantRow
             /\ grants'[g].status = grants[g].status /\ grants'[g].action = grants[g].action
  BY ToolGatewayAssumption DEF Tick, TypeOK, GrantRow
<1>2. TypeOK'
  BY <1>1 DEF Tick, TypeOK
<1>3. ASSUME NEW d \in Client PROVE CallKnows(d)'
  <2>1. CallKnows(d)
    BY DEF GatewayInvariant
  <2>2. pc[d] \notin {"idle", "issue"} =>
          req[d].grant \in Id /\ grants[req[d].grant].status # "absent"
    BY <2>1 DEF CallKnows
  <2> QED BY <1>1, <2>1, <2>2, CallKept DEF Tick
<1>4. ASSUME NEW g \in Id PROVE GrantAgrees(g)'
  BY <1>1, GrantKept DEF Tick, GatewayInvariant
<1>5. OneActs'
  BY OneActsKept DEF Tick, GatewayInvariant, Acting
<1> QED BY <1>2, <1>3, <1>4, <1>5 DEF GatewayInvariant

\* Steps that touch no grant and no call.
LEMMA StutterKeeps ==
  ASSUME TypeOK, GatewayInvariant, UNCHANGED <<grants, quota, log, ran, pc, req>>
  PROVE  GatewayInvariant'
BY DEF GatewayInvariant, CallKnows, GrantAgrees, OneActs, Acting, Charge

LEMMA SettingsKeep ==
  ASSUME TypeOK, GatewayInvariant,
         \/ \E tool \in Tool : ActivateTool(tool)
         \/ \E t \in Task, tool \in Tool : ChangeShare(t, tool)
  PROVE  TypeOK' /\ GatewayInvariant'
<1>1. TypeOK'
  <2>1. ASSUME NEW tool \in Tool, ActivateTool(tool) PROVE TypeOK'
    BY <2>1 DEF ActivateTool, TypeOK
  <2>2. ASSUME NEW t \in Task, NEW tool \in Tool, ChangeShare(t, tool) PROVE TypeOK'
    <3>1. shared' \subseteq Task \X Tool
      BY <2>2 DEF ChangeShare, TypeOK
    <3> QED BY <2>2, <3>1 DEF ChangeShare, TypeOK
  <2> QED BY <2>1, <2>2
<1>2. UNCHANGED <<grants, quota, log, ran, pc, req>>
  BY DEF ActivateTool, ChangeShare
<1> QED BY <1>1, <1>2, StutterKeeps

-----------------------------------------------------------------------------
(* The theorems.                                                           *)

LEMMA InitEstablishes == Init => TypeOK /\ GatewayInvariant
<1> SUFFICES ASSUME Init PROVE TypeOK /\ GatewayInvariant
  OBVIOUS
<1>1. TypeOK
  BY InitType
<1>2. ASSUME NEW c \in Client PROVE CallKnows(c) /\ ~Acting(c)
  BY DEF Init, CallKnows, Acting
<1>3. ASSUME NEW g \in Id PROVE GrantAgrees(g)
  BY DEF Init, GrantAgrees, NoGrant, NoQuota, NoHistory
<1>4. OneActs
  BY <1>2 DEF OneActs
<1> QED BY <1>1, <1>2, <1>3, <1>4 DEF GatewayInvariant

LEMMA StepKeeps ==
  ASSUME TypeOK, GatewayInvariant, [Next]_vars
  PROVE  TypeOK' /\ GatewayInvariant'
<1>1. ASSUME NEW a \in Action, NEW g \in Id, Authorize(g, a)
      PROVE  TypeOK' /\ GatewayInvariant'
  BY <1>1, AuthorizeKeeps
<1>2. ASSUME NEW c \in Client, NEW a \in Action, NEW g \in Id \cup {None}, CallInvoke(c, a, g)
      PROVE  TypeOK' /\ GatewayInvariant'
  BY <1>2, CallInvokeKeeps
<1>3. ASSUME NEW c \in Client, Step(c)
      PROVE  TypeOK' /\ GatewayInvariant'
  <2>1. CASE \E g \in Id : IssueOwn(c, g)
    BY <2>1, IssueOwnKeeps
  <2>2. CASE Denied(c) \/ LockTimeout(c)
    BY <2>2, FailKeeps DEF Denied, LockTimeout
  <2>3. CASE Check(c)
    BY <2>3, CheckKeeps
  <2>4. CASE ReadShare(c)
    BY <2>4, ReadShareKeeps
  <2>5. CASE Redeem(c)
    BY <2>5, RedeemKeeps
  <2>6. CASE pc[c] = "run" /\ \E result \in Result(req[c].action.tool) : RunHandler(c, result)
    BY <2>6, RunHandlerKeeps
  <2>7. CASE RecordError(c)
    BY <2>7, RecordErrorKeeps
  <2>8. CASE RecordSuccess(c)
    BY <2>8, RecordSuccessKeeps
  <2>9. CASE RecordUsageError(c)
    BY <2>9, RecordUsageErrorKeeps
  <2> QED BY <1>3, <2>1, <2>2, <2>3, <2>4, <2>5, <2>6, <2>7, <2>8, <2>9 DEF Step
<1>4. ASSUME NEW c \in Client, Crash(c)
      PROVE  TypeOK' /\ GatewayInvariant'
  BY <1>4, FailKeeps DEF Crash
<1>5. CASE Tick
  BY <1>5, TickKeeps
<1>6. CASE UNCHANGED vars
  <2>1. TypeOK'
    BY <1>6 DEF vars, TypeOK
  <2> QED BY <1>6, <2>1, StutterKeeps DEF vars
<1> QED BY <1>1, <1>2, <1>3, <1>4, <1>5, <1>6, SettingsKeep DEF Next

\* Every step keeps the inductive invariant: what a call remembers of its grant
\* agrees with the tables until it leaves, although it reads them in separate
\* transactions and other calls, crashes and the clock come between.
THEOREM InvariantHolds == Spec => [](TypeOK /\ GatewayInvariant)
<1>1. Init => TypeOK /\ GatewayInvariant
  BY InitEstablishes
<1>2. TypeOK /\ GatewayInvariant /\ [Next]_vars => TypeOK' /\ GatewayInvariant'
  BY StepKeeps
<1> QED BY <1>1, <1>2, PTL DEF Spec

\* Every row, request and history keeps its type, whatever calls run.
THEOREM TypeCorrect == Spec => []TypeOK
BY InvariantHolds, PTL

\* However many callers present a grant and retry, whoever dies and whatever
\* expires, its tool acts at most once, with exactly the arguments it names, and
\* after it was redeemed (redeem, governance.py).
THEOREM GrantsActOnce == Spec => []EffectsAreGranted
<1>1. TypeOK /\ GatewayInvariant => EffectsAreGranted
  <2> SUFFICES ASSUME TypeOK, GatewayInvariant, NEW g \in Id
               PROVE  /\ ran[g].times <= 1 /\ ran[g].acted \subseteq {grants[g].action}
                      /\ ran[g].times > 0 => grants[g].status = "redeemed"
    BY DEF EffectsAreGranted
  <2> QED BY DEF GatewayInvariant, GrantAgrees
<1> QED BY <1>1, InvariantHolds, PTL

\* Nothing acts without an audit row, and an outcome that is recorded is what
\* happened (invoke, tools.py).
THEOREM OutcomesAreTrue == Spec => []LogIsTruthful
<1>1. TypeOK /\ GatewayInvariant => LogIsTruthful
  <2> SUFFICES ASSUME TypeOK, GatewayInvariant, NEW g \in Id
               PROVE  /\ ran[g].times > 0 => log[g] # "none"
                      /\ log[g] = "success" => ran[g].times = 1 /\ ran[g].result.kind # "raises"
                      /\ log[g] = "error" => ran[g].times = 1 /\ ran[g].result.kind = "raises"
    BY DEF LogIsTruthful
  <2> QED BY DEF GatewayInvariant, GrantAgrees
<1> QED BY <1>1, InvariantHolds, PTL

\* A reservation is settled only for a call that ran, at what its trusted usage
\* costs and never above what was reserved (settle_record, spend.py).
THEOREM SettlementIsExact == Spec => []SettledIsActual
<1>1. TypeOK /\ GatewayInvariant => SettledIsActual
  <2> SUFFICES ASSUME TypeOK, GatewayInvariant, NEW g \in Id
               PROVE  /\ quota[g].status = "settled" =>
                           /\ ran[g].times = 1 /\ quota[g].amount <= quota[g].reserved
                           /\ quota[g].amount = Charge(grants[g].action.tool, ran[g].result)
                      /\ quota[g].status = "reserved" => quota[g].amount = quota[g].reserved
    BY DEF SettledIsActual
  <2> QED BY DEF GatewayInvariant, GrantAgrees
<1> QED BY <1>1, InvariantHolds, PTL

-----------------------------------------------------------------------------
(* On SQLite a share that redeem has read cannot be withdrawn before it    *)
(* redeems: it reads and writes under the write lock.                      *)

ShareHolds(c) ==
  engine = "sqlite" /\ pc[c] = "update" =>
    /\ writer = c
    /\ <<req[c].action.task, req[c].action.tool>> \in shared

SharesHold == \A c \in Client : ShareHolds(c)

LEMMA ShareStays ==
  ASSUME NEW d \in Client, ShareHolds(d), UNCHANGED <<engine, shared>>,
         pc'[d] = pc[d], req'[d] = req[d], writer = d => writer' = d
  PROVE  ShareHolds(d)'
BY DEF ShareHolds

\* A call's own step: it reads the share, or is not about to redeem.
LEMMA OwnShareHolds ==
  ASSUME TypeOK, SharesHold, NEW c \in Client, Step(c)
  PROVE  SharesHold'
<1>1. ASSUME Leave(c), UNCHANGED <<engine, shared>>
      PROVE  SharesHold'
  <2>1. pc'[c] # "update"
    BY <1>1 DEF Leave, Goto, TypeOK
  <2>2. ASSUME NEW d \in Client \ {c}
        PROVE  /\ pc'[d] = pc[d] /\ req'[d] = req[d]
               /\ writer = d => writer' = d
    BY <1>1, <2>2 DEF Leave, Goto, TypeOK
  <2> QED BY <1>1, <2>1, <2>2, ShareStays DEF SharesHold, ShareHolds
<1>2. ASSUME UNCHANGED <<engine, shared>>, \A d \in Client \ {c} : pc'[d] = pc[d] /\ req'[d] = req[d],
             pc'[c] # "update", pc[c] # "update", UNCHANGED writer
      PROVE  SharesHold'
  BY <1>2, ShareStays DEF SharesHold, ShareHolds
<1>3. ASSUME NEW g \in Id, IssueOwn(c, g)
      PROVE  SharesHold'
  BY <1>2, <1>3 DEF IssueOwn, WriteGrant, Goto, TypeOK
<1>4. CASE Denied(c) \/ LockTimeout(c) \/ RecordError(c) \/ RecordSuccess(c) \/ RecordUsageError(c)
  BY <1>1, <1>4 DEF Denied, LockTimeout, RecordError, RecordSuccess, RecordUsageError, Fail
<1>5. CASE Check(c)
  <2>1. CASE Fail(c)
    BY <1>1, <2>1 DEF Fail
  <2>2. CASE ~Fail(c)
    BY <1>2, <1>5, <2>2 DEF Check, Goto, TypeOK
  <2> QED BY <2>1, <2>2
<1>6. CASE ReadShare(c)
  <2>1. CASE Fail(c)
    BY <1>1, <2>1 DEF Fail
  <2>2. CASE ~Fail(c)
    <3>1. /\ WriteFree /\ pc' = [pc EXCEPT ![c] = "update"]
          /\ UNCHANGED <<engine, shared, req>>
          /\ <<req[c].action.task, req[c].action.tool>> \in shared
          /\ writer' = IF engine = "sqlite" THEN c ELSE None
      BY <1>6, <2>2 DEF ReadShare, Goto
    <3>2. ShareHolds(c)'
      BY <3>1 DEF ShareHolds
    <3>3. ASSUME NEW d \in Client \ {c}
          PROVE  ShareHolds(d)'
      <4>1. engine = "sqlite" => writer # d
        BY <3>1, <3>3, ToolGatewayAssumption DEF WriteFree
      <4>2. pc'[d] = pc[d]
        BY <3>1, <3>3 DEF TypeOK
      <4> QED BY <3>1, <3>3, <4>1, <4>2 DEF SharesHold, ShareHolds
    <3> QED BY <3>2, <3>3 DEF SharesHold
  <2> QED BY <2>1, <2>2
<1>7. CASE Redeem(c)
  <2>1. CASE Fail(c)
    BY <1>1, <2>1 DEF Fail
  <2>2. CASE ~Fail(c)
    <3>1. /\ UNCHANGED <<engine, shared, req>> /\ pc' = [pc EXCEPT ![c] = "run"]
          /\ \A d \in Client \ {c} : writer = d => writer' = d
      BY <1>7, <2>2 DEF Redeem, Goto
    <3>2. pc'[c] # "update" /\ \A d \in Client \ {c} : pc'[d] = pc[d]
      BY <3>1 DEF TypeOK
    <3> QED BY <3>1, <3>2, ShareStays DEF SharesHold, ShareHolds
  <2> QED BY <2>1, <2>2
<1>8. ASSUME pc[c] = "run", NEW result \in Result(req[c].action.tool), RunHandler(c, result)
      PROVE  SharesHold'
  BY <1>2, <1>8 DEF RunHandler, Goto, TypeOK
<1> QED BY <1>3, <1>4, <1>5, <1>6, <1>7, <1>8 DEF Step

LEMMA SharesKept ==
  ASSUME TypeOK, SharesHold, [Next]_vars
  PROVE  SharesHold'
<1>1. ASSUME UNCHANGED <<engine, shared, pc, req, writer>>
      PROVE  SharesHold'
  BY <1>1, ShareStays DEF SharesHold
<1>2. ASSUME NEW c \in Client, Crash(c)
      PROVE  SharesHold'
  <2>1. pc'[c] # "update"
    BY <1>2 DEF Crash, Fail, Leave, Goto, TypeOK
  <2>2. ASSUME NEW d \in Client \ {c}
        PROVE  /\ pc'[d] = pc[d] /\ req'[d] = req[d]
               /\ writer = d => writer' = d
    BY <1>2, <2>2 DEF Crash, Fail, Leave, Goto, TypeOK
  <2> QED BY <1>2, <2>1, <2>2, ShareStays DEF Crash, Fail, SharesHold, ShareHolds
<1>3. ASSUME NEW a \in Action, NEW g \in Id, Authorize(g, a)
      PROVE  SharesHold'
  BY <1>1, <1>3 DEF Authorize, WriteGrant
<1>4. ASSUME NEW c \in Client, NEW a \in Action, NEW g \in Id \cup {None}, CallInvoke(c, a, g)
      PROVE  SharesHold'
  <2>1. /\ UNCHANGED <<engine, shared, writer>> /\ pc'[c] # "update"
        /\ \A d \in Client \ {c} : pc'[d] = pc[d] /\ req'[d] = req[d]
    BY <1>4 DEF CallInvoke, Goto, TypeOK
  <2> QED BY <2>1, ShareStays DEF SharesHold, ShareHolds
<1>5. ASSUME NEW t \in Task, NEW tool \in Tool, ChangeShare(t, tool)
      PROVE  SharesHold'
  BY <1>5, ToolGatewayAssumption DEF ChangeShare, WriteFree, SharesHold, ShareHolds
<1>6. ASSUME NEW tool \in Tool, ActivateTool(tool)
      PROVE  SharesHold'
  BY <1>1, <1>6 DEF ActivateTool
<1>7. CASE Tick \/ UNCHANGED vars
  BY <1>1, <1>7 DEF Tick, vars
<1> QED BY <1>2, <1>3, <1>4, <1>5, <1>6, <1>7, OwnShareHolds DEF Next

\* Only redeem redeems, and it redeems its own grant.
LEMMA RedeemedByRedeem ==
  ASSUME TypeOK, GatewayInvariant, [Next]_vars, NEW g \in Id,
         grants[g].status = "issued", grants'[g].status = "redeemed"
  PROVE  \E c \in Client : /\ pc[c] = "update" /\ req[c].grant = g
                           /\ grants[g].action = req[c].action
<1>1. ASSUME NEW c \in Client, Step(c)
      PROVE  /\ pc[c] = "update" /\ req[c].grant = g
             /\ grants[g].action = req[c].action
  <2>1. ASSUME NEW h \in Id, IssueOwn(c, h)
        PROVE  FALSE
    BY <2>1 DEF IssueOwn, WriteGrant, Issued, TypeOK
  <2>2. ASSUME NEW result, RunHandler(c, result)
        PROVE  FALSE
    BY <2>2 DEF RunHandler
  <2>3. Redeem(c) /\ grants' # grants
    BY <1>1, <2>1, <2>2
       DEF Step, Denied, Check, ReadShare, LockTimeout, RecordError, RecordSuccess,
           RecordUsageError, Fail
  <2>4. pc[c] = "update" /\ grants' = [grants EXCEPT ![req[c].grant].status = "redeemed"]
    BY <2>3 DEF Redeem, Fail
  <2>5. req[c].grant = g
    BY <2>4 DEF TypeOK
  <2> QED BY <2>4, <2>5 DEF GatewayInvariant, CallKnows
<1>2. ASSUME NEW h \in Id, NEW a \in Action, Authorize(h, a)
      PROVE  FALSE
  BY <1>2 DEF Authorize, WriteGrant, Issued, TypeOK
<1>3. Tick => FALSE
  BY DEF Tick, TypeOK, GrantRow
<1> QED BY <1>1, <1>2, <1>3
        DEF Next, CallInvoke, Crash, Fail, ActivateTool, ChangeShare, vars

\* On SQLite a grant is redeemed only while its tool is shared with the task's
\* organization, however shares change while the call is on its way (redeem).
THEOREM RedeemedWhenShared == Spec => RedeemedWhileShared
<1>1. Init => SharesHold
  BY DEF Init, SharesHold, ShareHolds
<1>2. TypeOK /\ GatewayInvariant /\ SharesHold /\ [Next]_vars =>
        [engine = "sqlite" => \A g \in Id :
           grants[g].status = "issued" /\ grants'[g].status = "redeemed" =>
             <<grants[g].action.task, grants[g].action.tool>> \in shared]_vars
  BY RedeemedByRedeem DEF SharesHold, ShareHolds
<1>3. TypeOK /\ SharesHold /\ [Next]_vars => SharesHold'
  BY SharesKept
<1> QED BY <1>1, <1>2, <1>3, InvariantHolds, PTL DEF Spec, RedeemedWhileShared
=============================================================================
